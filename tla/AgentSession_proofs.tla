------------------------ MODULE AgentSession_proofs ------------------------
(***************************************************************************)
(* The session around an agent, for any number of prompts, answers,        *)
(* retries, aborts and overlapping compactions by hand.                    *)
(***************************************************************************)
EXTENDS AgentSession, TLAPS, SequenceTheorems, WellFoundedInduction

-----------------------------------------------------------------------------
(* Sifting.  Sift is defined by recursion over the length of what is       *)
(* sifted; that there is such a function is shown for every length.        *)

Passes(m, kinds, ids) == m.kind \in kinds /\ m.id \notin ids

Next1(f, n, m, kinds, ids) == IF Passes(m, kinds, ids) THEN Append(f[n - 1], m) ELSE f[n - 1]

(* f[k] is what is left of the first k messages, for k up to n.            *)
Sifts(f, n, ms, kinds, ids) ==
    /\ f \in [0 .. n -> Seq(Message)] /\ f[0] = <<>>
    /\ \A k \in 1 .. n : f[k] = Next1(f, k, ms[k], kinds, ids)

(* A set of numbers with a member has a least one. *)
LEMMA LeastOf ==
    ASSUME NEW T \in SUBSET Nat, T # {}
    PROVE  \E m \in T : \A n \in T : m <= n
<1>1. PICK m \in T : \A n \in T : ~(<<n, m>> \in OpToRel(<, Nat))
  BY NatLessThanWellFounded, WFMin
<1>2. \A n \in T : ~(n < m)
  BY <1>1 DEF OpToRel
<1> QED
  BY <1>2

LEMMA SiftsExist ==
    ASSUME NEW ms \in Seq(Message), NEW kinds, NEW ids
    PROVE  \A n \in 0 .. Len(ms) : \E f : Sifts(f, n, ms, kinds, ids)
<1> DEFINE T == {n \in 0 .. Len(ms) : ~\E f : Sifts(f, n, ms, kinds, ids)}
<1>1. SUFFICES ASSUME T # {} PROVE FALSE
  OBVIOUS
<1>2. Len(ms) \in Nat /\ T \in SUBSET Nat
  BY LenProperties
<1>3. PICK n \in T : \A k \in T : n <= k
  BY <1>1, <1>2, LeastOf
<1>4. n \in 0 .. Len(ms) /\ n \in Nat /\ ~\E f : Sifts(f, n, ms, kinds, ids)
  BY <1>2, <1>3
<1>5. CASE n = 0
  <2> DEFINE f == [k \in 0 .. 0 |-> <<>>]
  <2>1. f \in [0 .. 0 -> Seq(Message)] /\ f[0] = <<>>
    BY EmptySeq
  <2>2. Sifts(f, 0, ms, kinds, ids)
    BY <2>1 DEF Sifts
  <2> QED
    BY <1>4, <1>5, <2>2
<1>6. CASE n # 0
  <2>1. n - 1 \in 0 .. Len(ms) /\ ~(n <= n - 1) /\ n \in 1 .. Len(ms)
    BY <1>2, <1>4, <1>6
  <2>2. PICK g : Sifts(g, n - 1, ms, kinds, ids)
    BY <1>3, <2>1
  <2> DEFINE f == [k \in 0 .. n |-> IF k = n THEN Next1(g, n, ms[n], kinds, ids) ELSE g[k]]
  <2>3. ms[n] \in Message /\ g[n - 1] \in Seq(Message)
    BY <1>4, <2>1, <2>2, ElementOfSeq DEF Sifts
  <2>4. Next1(g, n, ms[n], kinds, ids) \in Seq(Message)
    BY <2>3, AppendProperties DEF Next1
  <2>5. \A k \in 0 .. n : k = n \/ (k \in 0 .. n - 1 /\ k # n)
    BY <1>4
  <2>6. f \in [0 .. n -> Seq(Message)]
    BY <2>2, <2>4, <2>5 DEF Sifts
  <2>7. f[0] = <<>>
    BY <1>4, <1>6, <2>2 DEF Sifts
  <2>8. ASSUME NEW k \in 1 .. n
        PROVE  f[k] = Next1(f, k, ms[k], kinds, ids)
    <3>1. k - 1 \in 0 .. n /\ k - 1 # n /\ k \in 0 .. n
      BY <1>4
    <3>2. f[k - 1] = g[k - 1]
      BY <3>1
    <3>3. CASE k = n
      BY <3>1, <3>2, <3>3 DEF Next1
    <3>4. CASE k # n
      <4>1. k \in 1 .. n - 1
        BY <1>4, <3>4
      <4>2. f[k] = g[k] /\ g[k] = Next1(g, k, ms[k], kinds, ids)
        BY <2>2, <3>1, <3>4, <4>1 DEF Sifts
      <4> QED
        BY <3>2, <4>2 DEF Next1
    <3> QED
      BY <3>3, <3>4
  <2> HIDE DEF f
  <2>9. Sifts(f, n, ms, kinds, ids)
    BY <2>6, <2>7, <2>8 DEF Sifts
  <2> QED
    BY <1>4, <2>9
<1> QED
  BY <1>5, <1>6

(* So Sift is what its definition says. *)
LEMMA SiftUpTo ==
    ASSUME NEW ms \in Seq(Message), NEW kinds, NEW ids
    PROVE  \E f : Sifts(f, Len(ms), ms, kinds, ids) /\ Sift(ms, kinds, ids) = f[Len(ms)]
<1> DEFINE N == Len(ms)
           Step(g) == [n \in 0 .. N |->
                         IF n = 0 THEN <<>>
                         ELSE IF ms[n].kind \in kinds /\ ms[n].id \notin ids
                                THEN Append(g[n - 1], ms[n]) ELSE g[n - 1]]
           f == CHOOSE g : g = Step(g)
<1>1. N \in Nat
  BY LenProperties
<1>2. ASSUME NEW g, Sifts(g, N, ms, kinds, ids)
      PROVE  g = Step(g)
  <2>1. g = [n \in 0 .. N |-> g[n]]
    BY <1>2 DEF Sifts
  <2>2. \A n \in 0 .. N : n = 0 \/ n \in 1 .. N
    BY <1>1
  <2>3. \A n \in 0 .. N : g[n] = IF n = 0 THEN <<>>
                                 ELSE IF ms[n].kind \in kinds /\ ms[n].id \notin ids
                                        THEN Append(g[n - 1], ms[n]) ELSE g[n - 1]
    BY <1>2, <2>2 DEF Sifts, Next1, Passes
  <2> HIDE DEF N
  <2> QED
    BY <2>1, <2>3
<1>3. \E g : g = Step(g)
  <2>1. N \in 0 .. N
    BY <1>1
  <2>2. PICK g : Sifts(g, N, ms, kinds, ids)
    BY <2>1, SiftsExist
  <2>3. g = Step(g)
    BY <1>2, <2>2
  <2> QED
    BY <2>3
<1>4. f = Step(f)
  BY <1>3
<1>5. Sift(ms, kinds, ids) = f[N]
  BY DEF Sift
<1> HIDE DEF f
<1>6. PICK g : Sifts(g, N, ms, kinds, ids)
  <2>1. N \in 0 .. N
    BY <1>1
  <2> QED
    BY <2>1, SiftsExist
<1>7. /\ f[0] = <<>>
      /\ \A n \in 1 .. N : f[n] = Next1(f, n, ms[n], kinds, ids)
  <2>1. 0 \in 0 .. N /\ \A n \in 1 .. N : n \in 0 .. N /\ n # 0
    BY <1>1
  <2>2. \A n \in 0 .. N : f[n] = IF n = 0 THEN <<>>
                                 ELSE IF ms[n].kind \in kinds /\ ms[n].id \notin ids
                                        THEN Append(f[n - 1], ms[n]) ELSE f[n - 1]
    BY <1>4
  <2> HIDE DEF N
  <2> QED
    BY <2>1, <2>2 DEF Next1, Passes
<1>8. \A n \in 0 .. N : f[n] = g[n]
  <2> DEFINE T == {n \in 0 .. N : f[n] # g[n]}
  <2>1. SUFFICES ASSUME T # {} PROVE FALSE
    OBVIOUS
  <2>2. PICK n \in T : \A k \in T : n <= k
    <3>1. T \in SUBSET Nat
      BY <1>1
    <3> QED
      BY <2>1, <3>1, LeastOf
  <2>3. n # 0
    <3>1. f[0] = g[0] /\ f[n] # g[n]
      BY <1>6, <1>7, <2>2 DEF Sifts
    <3> QED
      BY <3>1
  <2>4. n \in 1 .. N /\ n - 1 \in 0 .. N /\ ~(n <= n - 1)
    BY <1>1, <2>2, <2>3
  <2>5. f[n - 1] = g[n - 1]
    BY <2>2, <2>4
  <2>6. f[n] = g[n]
    BY <1>6, <1>7, <2>4, <2>5 DEF Sifts, Next1
  <2> QED
    BY <2>2, <2>6
<1>9. f[N] = g[N]
  BY <1>1, <1>8
<1> QED
  BY <1>5, <1>6, <1>9

(* Sifting gives messages. *)
LEMMA SiftType ==
    ASSUME NEW ms \in Seq(Message), NEW kinds, NEW ids
    PROVE  Sift(ms, kinds, ids) \in Seq(Message)
<1>1. PICK f : Sifts(f, Len(ms), ms, kinds, ids) /\ Sift(ms, kinds, ids) = f[Len(ms)]
  BY SiftUpTo
<1>2. Len(ms) \in 0 .. Len(ms)
  BY LenProperties
<1> QED
  BY <1>1, <1>2 DEF Sifts

(* A message more is sifted last. *)
LEMMA SiftAppend ==
    ASSUME NEW ms \in Seq(Message), NEW m \in Message, NEW kinds, NEW ids
    PROVE  Sift(Append(ms, m), kinds, ids) =
             IF Passes(m, kinds, ids) THEN Append(Sift(ms, kinds, ids), m) ELSE Sift(ms, kinds, ids)
<1> DEFINE N == Len(ms)
           more == Append(ms, m)
<1>1. /\ N \in Nat /\ more \in Seq(Message) /\ Len(more) = N + 1 /\ more[N + 1] = m
      /\ \A k \in 1 .. N : more[k] = ms[k]
  BY LenProperties, AppendProperties
<1>2. PICK f : Sifts(f, N, ms, kinds, ids) /\ Sift(ms, kinds, ids) = f[N]
  BY SiftUpTo
<1> HIDE DEF more
<1>3. PICK g : Sifts(g, N + 1, more, kinds, ids) /\ Sift(more, kinds, ids) = g[N + 1]
  BY <1>1, SiftUpTo
<1>4. \A n \in 0 .. N : f[n] = g[n]
  <2> DEFINE T == {n \in 0 .. N : f[n] # g[n]}
  <2>1. SUFFICES ASSUME T # {} PROVE FALSE
    OBVIOUS
  <2>2. PICK n \in T : \A k \in T : n <= k
    <3>1. T \in SUBSET Nat
      BY <1>1
    <3> QED
      BY <2>1, <3>1, LeastOf
  <2>3. n # 0
    <3>1. f[0] = g[0] /\ f[n] # g[n]
      BY <1>2, <1>3, <2>2 DEF Sifts
    <3> QED
      BY <3>1
  <2>4. n \in 1 .. N /\ n \in 1 .. N + 1 /\ n - 1 \in 0 .. N /\ ~(n <= n - 1)
    BY <1>1, <2>2, <2>3
  <2>5. f[n - 1] = g[n - 1]
    BY <2>2, <2>4
  <2>6. f[n] = g[n]
    BY <1>1, <1>2, <1>3, <2>4, <2>5 DEF Sifts, Next1
  <2> QED
    BY <2>2, <2>6
<1>5. f[N] = g[N] /\ N + 1 \in 1 .. N + 1 /\ N + 1 - 1 = N
  BY <1>1, <1>4
<1>6. g[N + 1] = Next1(g, N + 1, m, kinds, ids)
  BY <1>1, <1>3, <1>5 DEF Sifts
<1> QED
  BY <1>2, <1>3, <1>5, <1>6 DEF Next1, more

(* Nothing is left of nothing. *)
LEMMA SiftEmpty ==
    ASSUME NEW kinds, NEW ids
    PROVE  Sift(<<>>, kinds, ids) = <<>>
<1>1. <<>> \in Seq(Message) /\ Len(<<>>) = 0
  BY EmptySeq
<1>2. PICK f : Sifts(f, Len(<<>>), <<>>, kinds, ids) /\ Sift(<<>>, kinds, ids) = f[Len(<<>>)]
  BY <1>1, SiftUpTo
<1> QED
  BY <1>1, <1>2 DEF Sifts

-----------------------------------------------------------------------------
(* Listening.                                                              *)

(* What is needed of the types: there is a job for whatever compacts. *)
JobsTotal == jobs = [c \in Compactors |-> jobs[c]]

Listens == JobsTotal /\ Connected

(* Only compact() stops listening, and only with a job of its own. *)
LEMMA ListensUnchanged ==
    ASSUME Listens, UNCHANGED <<jobs, connected>>
    PROVE  Listens'
BY DEF Listens, JobsTotal, Connected

(* "queue" and prompts are no compactions by hand. *)
LEMMA AutomaticCompactors ==
    /\ "queue" \in Compactors \ Manual
    /\ \A p \in Prompts : p \in Compactors \ Manual
BY AgentSessionBounds DEF Compactors

(* An automatic compaction begins, or none does. *)
LEMMA ListensCheckCompaction ==
    ASSUME Listens, NEW c \in Compactors \ Manual, NEW m, NEW skip, NEW ms,
           CheckCompaction(c, m, skip, ms), UNCHANGED connected
    PROVE  Listens'
<1>1. \/ jobs' = jobs
      \/ \E job : jobs' = [jobs EXCEPT ![c] = job]
  BY DEF CheckCompaction, RunAutoCompaction, compacting
<1>2. CASE jobs' = jobs
  BY <1>2, ListensUnchanged
<1>3. CASE \E job : jobs' = [jobs EXCEPT ![c] = job]
  BY <1>3 DEF Listens, JobsTotal, Connected, Compactors
<1>. QED BY <1>1, <1>2, <1>3

(* A job ends: by hand, the session listens again. *)
LEMMA ListensEndJob ==
    ASSUME Listens, NEW c \in Compactors, EndJob(c)
    PROVE  Listens'
<1>1. jobs' = [jobs EXCEPT ![c] = NoJob]
  BY DEF EndJob
<1>2. CASE c \in Manual
  <2>1. connected' = TRUE
    BY <1>2 DEF EndJob
  <2>. QED BY <1>1, <2>1 DEF Listens, JobsTotal, Connected
<1>3. CASE c \notin Manual
  <2>1. connected' = connected
    BY <1>3 DEF EndJob
  <2>. QED BY <1>1, <1>3, <2>1 DEF Listens, JobsTotal, Connected, Compactors
<1>. QED BY <1>2, <1>3

(* compact() gets a job when it stops listening, and keeps it while it     *)
(* waits for the summary.                                                  *)
LEMMA ListensManual ==
    ASSUME Listens, NEW c \in Manual, NEW job, job # NoJob,
           jobs' = [jobs EXCEPT ![c] = job]
    PROVE  Listens'
<1>1. c \in Compactors /\ jobs'[c] # NoJob
  BY DEF Listens, JobsTotal, Compactors
<1>. QED BY <1>1 DEF Listens, JobsTotal, Connected

(* The steps of Next. *)
LEMMA ListensNext == Listens /\ [Next]_vars => Listens'
<1>. SUFFICES ASSUME Listens, [Next]_vars PROVE Listens'
  OBVIOUS
<1>1. ASSUME NEW kind, Answer(kind) \/ Break(kind) PROVE Listens'
  BY <1>1, ListensUnchanged DEF Answer, Break, compacting
<1>2. CASE TimerFires \/ ProcessMessage \/ IgnoreEnd \/ Backoff \/ BackoffEnds
  BY <1>2, ListensUnchanged DEF TimerFires, ProcessMessage, IgnoreEnd, Backoff, BackoffEnds,
     ProcessingEnd, compacting
<1>3. CASE Exhausted \/ EndWithoutRetry \/ BackoffCancelled
  <2>1. UNCHANGED connected
    BY <1>3 DEF Exhausted, EndWithoutRetry, BackoffCancelled, ProcessingEnd
  <2>2. CheckCompaction("queue", lastAssistant, TRUE, messages)
          \/ CheckCompaction("queue", failed, TRUE, messages)
    BY <1>3 DEF Exhausted, EndWithoutRetry, BackoffCancelled
  <2>. QED BY <2>1, <2>2, AutomaticCompactors, ListensCheckCompaction
<1>4. ASSUME NEW p \in Prompts, Prompt(p) PROVE Listens'
  <2>1. UNCHANGED connected
    BY <1>4 DEF Prompt
  <2>2. UNCHANGED jobs \/ \E k : CheckCompaction(p, messages[k], FALSE, messages)
    BY <1>4 DEF Prompt, compacting
  <2>. QED BY <2>1, <2>2, AutomaticCompactors, ListensUnchanged, ListensCheckCompaction
<1>5. ASSUME NEW p \in Prompts, Submit(p) \/ WaitForRetry(p) PROVE Listens'
  BY <1>5, ListensUnchanged DEF Submit, WaitForRetry, compacting
<1>6. ASSUME NEW c \in Compactors, Compacted(c) \/ CompactionFails(c) PROVE Listens'
  BY <1>6, ListensEndJob DEF Compacted, CompactionFails
<1>7. ASSUME NEW c \in Manual, Compact(c) PROVE Listens'
  <2>1. jobs' = [jobs EXCEPT ![c] = Aborting]
    BY <1>7 DEF Compact
  <2>2. Aborting # NoJob
    BY DEF Aborting, NoJob
  <2>. QED BY <2>1, <2>2, ListensManual
<1>8. ASSUME NEW c \in Manual, CompactWhenIdle(c) PROVE Listens'
  <2>1. CASE MayPrepare
    <3>1. PICK k : jobs' = [jobs EXCEPT ![c] = Summarizing(k, FALSE)]
      BY <1>8, <2>1 DEF CompactWhenIdle
    <3>2. Summarizing(k, FALSE) # NoJob
      BY DEF Summarizing, NoJob
    <3>. QED BY <3>1, <3>2, ListensManual
  <2>2. CASE ~MayPrepare
    <3>1. EndJob(c) /\ c \in Compactors
      BY <1>8, <2>2 DEF CompactWhenIdle, Compactors
    <3>. QED BY <3>1, ListensEndJob
  <2>. QED BY <2>1, <2>2
<1>9. CASE Abort \/ AbortRetry \/ AbortCompaction
  BY <1>9, ListensUnchanged DEF Abort, AbortRetry, AbortCompaction, compacting
<1>10. CASE UNCHANGED vars
  BY <1>10, ListensUnchanged DEF vars, compacting
<1>. QED
  BY <1>1, <1>2, <1>3, <1>4, <1>5, <1>6, <1>7, <1>8, <1>9, <1>10 DEF Next

(* However a compaction by hand ends - done, failed, cancelled, nothing to *)
(* compact, or overtaken by another one - the session hears its agent when *)
(* none is under way (_disconnectFromAgent, _reconnectToAgent).            *)
LEMMA ListensInit == Init => Listens
BY DEF Init, Listens, JobsTotal, Connected

THEOREM SessionListens == Spec => []Connected
<1>1. Listens => Connected
  BY DEF Listens
<1>. QED BY <1>1, ListensInit, ListensNext, PTL DEF Spec

-----------------------------------------------------------------------------
(* The pieces of the steps.                                                *)

EventType == [type: {"message", "end"}, message: Message]
Events    == Seq(EventType)

LEMMA SaidType ==
    ASSUME NEW i \in Nat, NEW kind \in AnswerKinds \cup {"user", "compaction"}
    PROVE  Said(i, kind) \in Message /\ Said(i, kind).id = i /\ Said(i, kind).kind = kind
BY DEF Said, Message, Entry

LEMMA EventTyped ==
    ASSUME NEW type \in {"message", "end"}, NEW m \in Message
    PROVE  /\ Event(type, m) \in EventType
           /\ Event(type, m).type = type /\ Event(type, m).message = m
BY DEF Event, EventType

(* What is heard of one event, of two, and of none. *)
LEMMA HearOne ==
    ASSUME events \in Events, NEW e \in EventType, connected, Hear(<<e>>)
    PROVE  events' = Append(events, e)
BY AppendIsConcat DEF Hear, Events

LEMMA HearTwo ==
    ASSUME events \in Events, NEW e \in EventType, NEW f \in EventType, connected, Hear(<<e, f>>)
    PROVE  events' = Append(Append(events, e), f)
<1>1. Append(events, e) \in Events
  BY AppendProperties DEF Events
<1>2. Append(Append(events, e), f) = (events \o <<e>>) \o <<f>>
  BY <1>1, AppendIsConcat DEF Events
<1>3. <<e>> \in Seq(EventType) /\ <<f>> \in Seq(EventType)
  OBVIOUS
<1>4. <<e>> \o <<f>> = <<e, f>>
  <2> DEFINE ef == <<e>> \o <<f>>
  <2>1. Len(<<e>>) = 1 /\ Len(<<f>>) = 1 /\ <<e>>[1] = e /\ <<f>>[1] = f
    OBVIOUS
  <2>2. /\ ef \in Seq(EventType) /\ Len(ef) = Len(<<e>>) + Len(<<f>>)
        /\ \A i \in 1 .. Len(<<e>>) + Len(<<f>>) :
              ef[i] = IF i <= Len(<<e>>) THEN <<e>>[i] ELSE <<f>>[i - Len(<<e>>)]
    BY <1>3, ConcatProperties
  <2> HIDE DEF ef
  <2>3. Len(ef) = 2 /\ ef[1] = e /\ ef[2] = f
    BY <2>1, <2>2
  <2>4. ef = <<e, f>>
    BY <2>2, <2>3, SeqEqual
  <2> QED
    BY <2>4 DEF ef
<1>5. (events \o <<e>>) \o <<f>> = events \o (<<e>> \o <<f>>)
  BY <1>3, ConcatAssociative DEF Events
<1> QED
  BY <1>2, <1>4, <1>5 DEF Hear

LEMMA HearNothing ==
    ASSUME NEW es, ~connected, Hear(es)
    PROVE  events' = events
BY DEF Hear

(* A run starts with what the agent has, or with a message more. *)
LEMMA StartsAsItIs ==
    ASSUME messages \in Seq(Message), events \in Events, NEW p, StartRun(p, <<>>)
    PROVE  run' = "live" /\ owner' = p /\ messages' = messages /\ events' = events
<1>1. <<>> = [k \in 1 .. Len(<<>>) |-> Event("message", <<>>[k])]
  <2>1. 1 .. Len(<<>>) = {}
    BY EmptySeq
  <2>2. DOMAIN <<>> = {} /\ <<>> = [k \in {} |-> <<>>[k]]
    OBVIOUS
  <2> QED
    BY <2>1, <2>2
<1>2. messages \o <<>> = messages /\ events \o <<>> = events
  BY ConcatEmptySeq DEF Events
<1> QED
  BY <1>1, <1>2 DEF StartRun, Hear

LEMMA StartsWith ==
    ASSUME messages \in Seq(Message), events \in Events, NEW p, NEW m \in Message,
           StartRun(p, <<m>>)
    PROVE  /\ run' = "live" /\ owner' = p /\ messages' = Append(messages, m)
           /\ events' = IF connected THEN Append(events, Event("message", m)) ELSE events
<1>1. Len(<<m>>) = 1 /\ <<m>>[1] = m
  OBVIOUS
<1>2. [k \in 1 .. Len(<<m>>) |-> Event("message", <<m>>[k])] = <<Event("message", m)>>
  BY <1>1
<1>3. messages' = Append(messages, m)
  BY AppendIsConcat DEF StartRun
<1>4. Hear(<<Event("message", m)>>)
  BY <1>2 DEF StartRun
<1>5. Event("message", m) \in EventType
  BY EventTyped
<1> QED
  BY <1>3, <1>4, <1>5, HearOne, HearNothing DEF StartRun

(* The answer that fails is dropped, or nothing is. *)
LEMMA DropAnswerType ==
    ASSUME NEW ms \in Seq(Message)
    PROVE  DropAnswer(ms) \in Seq(Message)
<1>1. CASE EndsInAnswer(ms)
  <2>1. Len(ms) \in Nat /\ \A i \in 1 .. Len(ms) - 1 : ms[i] \in Message
    BY LenProperties, ElementOfSeq
  <2>2. SubSeq(ms, 1, Len(ms) - 1) \in Seq(Message)
    BY <2>1, SubSeqProperties
  <2> QED
    BY <1>1, <2>2 DEF DropAnswer
<1> QED
  BY <1>1 DEF DropAnswer

(* The newest compaction is one. *)
LEMMA LatestCompaction ==
    ASSUME NEW es \in Seq(Entry)
    PROVE  /\ Latest(es) \in 0 .. Len(es)
           /\ Latest(es) # 0 => Latest(es) \in Compactions(es)
           /\ \A k \in Compactions(es) : k <= Latest(es)
<1>1. Len(es) \in Nat
  BY LenProperties
<1>2. CASE Compactions(es) = {}
  BY <1>1, <1>2 DEF Latest
<1>3. CASE Compactions(es) # {}
  <2> DEFINE Distances == {Len(es) - k : k \in Compactions(es)}
  <2>1. Distances \in SUBSET Nat /\ Distances # {}
    BY <1>1, <1>3 DEF Compactions
  <2>2. PICK d \in Distances : \A e \in Distances : d <= e
    BY <2>1, LeastOf
  <2>3. PICK k \in Compactions(es) : d = Len(es) - k
    BY <2>2
  <2>4. \A j \in Compactions(es) : Len(es) - k <= Len(es) - j
    BY <2>2, <2>3
  <2>5. \A j \in Compactions(es) : j <= k
    BY <1>1, <2>4 DEF Compactions
  <2>6. Latest(es) \in Compactions(es) /\ \A j \in Compactions(es) : j <= Latest(es)
    BY <1>3, <2>5 DEF Latest
  <2> QED
    BY <1>1, <2>6 DEF Compactions
<1> QED
  BY <1>2, <1>3

(* A compaction keeps entries there are: then the context is one of messages. *)
KeepsWhatThereIs(es) ==
    \A k \in 1 .. Len(es) : es[k].kind = "compaction" => es[k].from \in 1 .. k

LEMMA ContextType ==
    ASSUME NEW es \in Seq(Entry), KeepsWhatThereIs(es)
    PROVE  Context(es) \in Seq(Message)
<1> DEFINE latest == Latest(es)
           kept == SubSeq(es, es[latest].from, Len(es))
<1>1. CASE latest = 0
  BY <1>1 DEF Context, Message
<1>2. CASE latest # 0
  <2>1. Len(es) \in Nat /\ latest \in 1 .. Len(es) /\ es[latest].from \in 1 .. latest
    BY <1>2, LenProperties, LatestCompaction DEF Compactions, KeepsWhatThereIs
  <2>2. es[latest] \in Message /\ es[latest].from \in Int
    BY <2>1, ElementOfSeq DEF Message
  <2>3. \A i \in es[latest].from .. Len(es) : es[i] \in Message
    BY <2>1, ElementOfSeq DEF Message
  <2>4. kept \in Seq(Message)
    BY <2>1, <2>2, <2>3, SubSeqProperties
  <2>5. Sift(kept, AnswerKinds \cup {"user"}, {}) \in Seq(Message)
    BY <2>4, SiftType
  <2>6. <<es[latest]>> \in Seq(Message)
    BY <2>2
  <2>7. Context(es) = <<es[latest]>> \o Sift(kept, AnswerKinds \cup {"user"}, {})
    BY <1>2 DEF Context
  <2> QED
    BY <2>5, <2>6, <2>7, ConcatProperties
<1> QED
  BY <1>1, <1>2

-----------------------------------------------------------------------------
(* Types, and what is sound about the data: a compaction keeps entries     *)
(* there are, what the session hears of are messages with an identity, and *)
(* what is tried again had failed.                                         *)

Proper(m) == m.kind # "compaction" /\ m.id > 0
Phases    == {"unused", "checking", "running", "ended", "waiting", "returned"}

Heard(es) == \A k \in 1 .. Len(es) : Proper(es[k].message)

JobsHaveEntries ==
    \A c \in Compactors : jobs[c].stage = "summarizing" => jobs[c].from \in 1 .. Len(entries)

Counters ==
    /\ clock \in Nat \ {0} /\ answers \in Nat /\ aborts \in Nat /\ automatic \in Nat
    /\ missed \in BOOLEAN /\ overlapped \in BOOLEAN

Sound ==
    /\ TypeOK /\ Counters
    /\ KeepsWhatThereIs(entries) /\ Heard(events) /\ JobsHaveEntries
    /\ IsAnswer(lastAssistant)
    /\ handler # "ready" => failed.kind = "error"

LEMMA CompactorsAre ==
    /\ "queue" \in Compactors /\ Prompts \subseteq Compactors /\ Manual \subseteq Compactors
BY DEF Compactors

LEMMA HeardMore ==
    ASSUME NEW es \in Events, NEW e \in EventType, Heard(es), Proper(e.message)
    PROVE  Heard(Append(es, e))
<1>1. Len(es) \in Nat
  BY LenProperties DEF Events
<1>2. /\ Len(Append(es, e)) = Len(es) + 1 /\ Append(es, e)[Len(es) + 1] = e
      /\ \A k \in 1 .. Len(es) : Append(es, e)[k] = es[k]
  BY AppendProperties DEF Events
<1>3. \A k \in 1 .. Len(es) + 1 : k \in 1 .. Len(es) \/ k = Len(es) + 1
  BY <1>1
<1> QED
  BY <1>2, <1>3 DEF Heard

LEMMA HeardLess ==
    ASSUME NEW es \in Events, es # <<>>, Heard(es)
    PROVE  /\ Tail(es) \in Events /\ Heard(Tail(es))
           /\ Head(es) = es[1] /\ Head(es) \in EventType /\ Head(es).message \in Message
           /\ Proper(Head(es).message) /\ Len(es) > 0
<1>1. Len(es) \in Nat /\ Len(es) > 0
  BY EmptySeq, LenProperties DEF Events
<1>2. /\ Tail(es) \in Events /\ Head(es) \in EventType /\ Len(Tail(es)) = Len(es) - 1
      /\ \A k \in 1 .. Len(Tail(es)) : Tail(es)[k] = es[k + 1]
  BY HeadTailProperties DEF Events
<1>3. \A k \in 1 .. Len(Tail(es)) : k + 1 \in 1 .. Len(es)
  BY <1>1, <1>2
<1>4. Head(es) = es[1]
  BY DEF Events
<1>5. Heard(Tail(es))
  BY <1>2, <1>3 DEF Heard
<1>6. Proper(Head(es).message)
  BY <1>1, <1>4 DEF Heard
<1> QED
  BY <1>1, <1>2, <1>4, <1>5, <1>6 DEF EventType

LEMMA EndRunType ==
    ASSUME TypeOK, EndRun
    PROVE  run' = "none" /\ owner' = "none" /\ phase' \in [Prompts -> Phases]
BY DEF TypeOK, EndRun, Phases

LEMMA ResolveType ==
    ASSUME TypeOK, Resolve
    PROVE  retryPromise' = FALSE /\ phase' \in [Prompts -> Phases]
BY DEF TypeOK, Resolve, Phases

(* Where a summary may be asked for there are entries to keep. *)
LEMMA CutsAreEntries ==
    ASSUME NEW k \in Cuts
    PROVE  k \in 1 .. Len(entries)
BY DEF Cuts

LEMMA JobStarts ==
    ASSUME TypeOK, JobsHaveEntries, UNCHANGED entries, NEW c \in Compactors, NEW k \in Cuts,
           NEW retry \in BOOLEAN, jobs' = [jobs EXCEPT ![c] = Summarizing(k, retry)]
    PROVE  jobs' \in [Compactors -> Job \cup {NoJob}] /\ JobsHaveEntries'
<1>1. k \in 1 .. Len(entries) /\ k \in Nat
  BY CutsAreEntries, LenProperties DEF TypeOK
<1>2. Summarizing(k, retry) \in Job /\ Summarizing(k, retry).from = k
  BY <1>1 DEF Summarizing, Job
<1> QED
  BY <1>1, <1>2 DEF TypeOK, JobsHaveEntries

LEMMA JobEnds ==
    ASSUME TypeOK, JobsHaveEntries, NEW c \in Compactors, jobs' = [jobs EXCEPT ![c] = NoJob],
           entries' \in Seq(Entry), Len(entries') >= Len(entries)
    PROVE  jobs' \in [Compactors -> Job \cup {NoJob}] /\ JobsHaveEntries'
<1>1. jobs' \in [Compactors -> Job \cup {NoJob}]
  BY DEF TypeOK
<1>2. Len(entries) \in Nat /\ Len(entries') \in Nat
  BY LenProperties DEF TypeOK
<1>3. ASSUME NEW d \in Compactors, jobs'[d].stage = "summarizing"
      PROVE  jobs'[d].from \in 1 .. Len(entries')
  <2>1. d # c /\ jobs'[d] = jobs[d]
    BY <1>3 DEF TypeOK, NoJob
  <2>2. jobs[d].from \in 1 .. Len(entries)
    BY <1>3, <2>1 DEF JobsHaveEntries
  <2> QED
    BY <1>2, <2>1, <2>2
<1> QED
  BY <1>1, <1>3 DEF JobsHaveEntries

(* What a check of the context may do. *)
LEMMA CheckCompactionDoes ==
    ASSUME NEW c \in Compactors, NEW m, NEW skip, NEW ms, CheckCompaction(c, m, skip, ms)
    PROVE  /\ manualSignal' = manualSignal
           /\ messages' = ms \/ messages' = DropAnswer(ms)
           /\ overflowAttempted' = overflowAttempted \/ overflowAttempted' = TRUE
           /\ \/ jobs' = jobs /\ (autoSignal' = autoSignal \/ autoSignal' = "none")
              \/ /\ autoSignal' = "on"
                 /\ \E k \in Cuts, retry \in BOOLEAN :
                       /\ jobs' = [jobs EXCEPT ![c] = Summarizing(k, retry)]
                       /\ retry => /\ Overflowed(m) /\ ~overflowAttempted
                                   /\ overflowAttempted' = TRUE
BY DEF CheckCompaction, RunAutoCompaction, CutOff, compacting

LEMMA CheckCompactionType ==
    ASSUME TypeOK, JobsHaveEntries, UNCHANGED entries, NEW c \in Compactors, NEW m, NEW skip,
           CheckCompaction(c, m, skip, messages)
    PROVE  /\ messages' \in Seq(Message) /\ overflowAttempted' \in BOOLEAN
           /\ jobs' \in [Compactors -> Job \cup {NoJob}] /\ JobsHaveEntries'
           /\ autoSignal' \in {"none", "on", "aborted"} /\ manualSignal' \in {"none", "on", "aborted"}
<1>1. messages' \in Seq(Message)
  <2>1. messages \in Seq(Message)
    BY DEF TypeOK
  <2>2. DropAnswer(messages) \in Seq(Message)
    BY <2>1, DropAnswerType
  <2>3. messages' = messages \/ messages' = DropAnswer(messages)
    BY CheckCompactionDoes
  <2> QED
    BY <2>1, <2>2, <2>3
<1>2. overflowAttempted' \in BOOLEAN
  BY CheckCompactionDoes DEF TypeOK
<1>3. /\ autoSignal' \in {"none", "on", "aborted"} /\ manualSignal' \in {"none", "on", "aborted"}
  BY CheckCompactionDoes DEF TypeOK
<1>4. CASE jobs' = jobs
  BY <1>1, <1>2, <1>3, <1>4 DEF TypeOK, JobsHaveEntries
<1>5. CASE \E k \in Cuts, retry \in BOOLEAN : jobs' = [jobs EXCEPT ![c] = Summarizing(k, retry)]
  BY <1>1, <1>2, <1>3, <1>5, JobStarts
<1> QED
  BY <1>4, <1>5, CheckCompactionDoes

(* The agent's steps. *)
LEMMA SoundAnswer ==
    ASSUME Sound, NEW kind \in Answers, Answer(kind) \/ Break(kind)
    PROVE  Sound'
<1> DEFINE m == Said(clock, kind)
<1>1. /\ messages \in Seq(Message) /\ events \in Events /\ Heard(events) /\ clock \in Nat \ {0}
      /\ answers \in Nat /\ connected \in BOOLEAN
  BY DEF Sound, TypeOK, Counters, Events, EventType
<1>2. kind \in AnswerKinds
  BY AgentSessionBounds
<1>3. m \in Message /\ m.id = clock /\ m.kind = kind /\ Proper(m)
  BY <1>1, <1>2, SaidType DEF Proper, AnswerKinds, Errors
<1> DEFINE message == Event("message", m)
           end == Event("end", m)
<1>4. /\ message \in EventType /\ message.message = m
      /\ end \in EventType /\ end.message = m
  BY <1>3, EventTyped
<1> HIDE DEF message, end
<1>5. /\ Append(events, message) \in Events /\ Heard(Append(events, message))
      /\ Append(events, end) \in Events /\ Heard(Append(events, end))
  BY <1>1, <1>3, <1>4, HeardMore, AppendProperties DEF Events
<1>6. /\ Append(Append(events, message), end) \in Events
      /\ Heard(Append(Append(events, message), end))
  BY <1>3, <1>4, <1>5, HeardMore, AppendProperties DEF Events
<1>7. events' \in Events /\ Heard(events)'
  <2>1. CASE ~connected
    <3>1. events' = events
      BY <2>1 DEF Answer, Break, Hear
    <3> QED
      BY <1>1, <3>1
  <2>2. CASE connected
    <3>1. Hear(<<message>>) \/ Hear(<<message, end>>) \/ Hear(<<end>>)
      BY DEF Answer, Break, message, end
    <3>2. Hear(<<message>>) => events' = Append(events, message)
      BY <1>1, <1>4, <2>2, HearOne
    <3>3. Hear(<<end>>) => events' = Append(events, end)
      BY <1>1, <1>4, <2>2, HearOne
    <3>4. Hear(<<message, end>>) => events' = Append(Append(events, message), end)
      BY <1>1, <1>4, <2>2, HearTwo
    <3> QED
      BY <1>5, <1>6, <3>1, <3>2, <3>3, <3>4
  <2> QED
    BY <2>1, <2>2
<1>8. messages' \in Seq(Message)
  <2>1. messages' = Append(messages, m)
    BY DEF Answer, Break
  <2> QED
    BY <1>1, <1>3, <2>1, AppendProperties
<1>9. /\ run' \in {"none", "live", "aborted"} /\ (run' = "none" => owner' = "none")
      /\ owner' \in {"none"} \cup Prompts /\ phase' \in [Prompts -> Phases]
  <2>1. UNCHANGED <<run, owner, phase>> \/ EndRun
    BY DEF Answer, Break
  <2>2. TypeOK
    BY DEF Sound
  <2>3. EndRun => run' = "none" /\ owner' = "none" /\ phase' \in [Prompts -> Phases]
    BY <2>2, EndRunType
  <2>4. CASE UNCHANGED <<run, owner, phase>>
    BY <2>2, <2>4 DEF TypeOK, Phases
  <2> QED
    BY <2>1, <2>3, <2>4
<1>10. retryPromise' \in BOOLEAN
  BY DEF Answer, Break, Sound, TypeOK
<1>11. Counters'
  <2>1. clock' \in Nat \ {0} /\ answers' \in Nat /\ aborts' = aborts
    BY <1>1 DEF Answer, Break
  <2>2. automatic' \in {automatic, 0} /\ missed' \in BOOLEAN /\ overlapped' = overlapped
    BY <1>1 DEF Answer, Break, EndRun, Sound, Counters
  <2> QED
    BY <2>1, <2>2 DEF Sound, Counters
<1>12. UNCHANGED <<entries, connected, lastAssistant, handler, failed, retryAttempt, timers,
                   overflowAttempted, compacting>>
  BY DEF Answer, Break
<1> HIDE DEF m
<1>13. TypeOK'
  BY <1>7, <1>8, <1>9, <1>10, <1>12 DEF Sound, TypeOK, Events, EventType, Phases, compacting
<1> QED
  BY <1>7, <1>11, <1>12, <1>13 DEF Sound, JobsHaveEntries, compacting

LEMMA SoundTimerFires ==
    ASSUME Sound, TimerFires
    PROVE  Sound'
<1>1. /\ messages \in Seq(Message) /\ events \in Events /\ timers \in Nat /\ automatic \in Nat
  BY DEF Sound, TypeOK, Counters, Events, EventType
<1>2. /\ run' \in {run, "live"} /\ owner' \in {owner, "none"} /\ (run' = "none" => owner' = "none")
      /\ messages' = messages /\ events' = events
  <2>1. CASE StartRun("none", <<>>)
    BY <1>1, <2>1, StartsAsItIs
  <2>2. CASE UNCHANGED <<run, owner, messages, events>>
    BY <2>2 DEF Sound, TypeOK
  <2> QED
    BY <2>1, <2>2 DEF TimerFires
<1>3. timers' \in Nat /\ automatic' \in Nat
  BY <1>1 DEF TimerFires
<1>4. UNCHANGED <<entries, connected, lastAssistant, retrying, overflowAttempted, compacting,
                  phase, bounds, missed, overlapped>>
  BY DEF TimerFires
<1>5. TypeOK'
  <2>1. run' \in {"none", "live", "aborted"} /\ owner' \in {"none"} \cup Prompts
    BY <1>2 DEF Sound, TypeOK
  <2> QED
    BY <1>2, <1>3, <1>4, <2>1 DEF Sound, TypeOK, retrying, compacting
<1> QED
  BY <1>2, <1>3, <1>4, <1>5 DEF Sound, Counters, JobsHaveEntries, retrying, compacting, bounds

(* The queue's. *)
LEMMA SoundProcessMessage ==
    ASSUME Sound, ProcessMessage
    PROVE  Sound'
<1> DEFINE m == Head(events).message
<1>1. /\ events \in Events /\ Heard(events) /\ events # <<>> /\ entries \in Seq(Entry)
      /\ Len(entries) \in Nat
  BY LenProperties DEF ProcessMessage, Sound, TypeOK, Events, EventType
<1>2. /\ events' \in Events /\ Heard(events)' /\ m \in Message /\ Proper(m)
  BY <1>1, HeardLess DEF ProcessMessage
<1>3. /\ m \in Entry /\ m.kind # "compaction"
      /\ entries' = Append(entries, m)
      /\ lastAssistant' = IF IsAnswer(m) THEN m ELSE lastAssistant
      /\ overflowAttempted' = (overflowAttempted /\ IsError(m))
      /\ retryAttempt' \in {retryAttempt, 0}
  BY <1>2 DEF ProcessMessage, Message, Proper
<1> HIDE DEF m
<1>4. /\ entries' \in Seq(Entry) /\ Len(entries') = Len(entries) + 1
      /\ entries'[Len(entries) + 1] = m
      /\ \A k \in 1 .. Len(entries) : entries'[k] = entries[k]
  BY <1>1, <1>3, AppendProperties
<1>5. KeepsWhatThereIs(entries)'
  <2>1. \A k \in 1 .. Len(entries') : k \in 1 .. Len(entries) \/ k = Len(entries) + 1
    BY <1>1, <1>4
  <2> QED
    BY <1>3, <1>4, <2>1 DEF Sound, KeepsWhatThereIs
<1>6. UNCHANGED <<run, messages, connected, handler, failed, retryPromise, timers, compacting,
                  phase, owner, bounds, history>>
  BY DEF ProcessMessage
<1>7. JobsHaveEntries'
  BY <1>1, <1>4, <1>6 DEF Sound, JobsHaveEntries, compacting
<1>8. lastAssistant' \in Message /\ IsAnswer(lastAssistant')
  BY <1>2, <1>3 DEF Sound, TypeOK
<1>9. retryAttempt' \in 0 .. MaxRetries /\ overflowAttempted' \in BOOLEAN
  BY <1>3, AgentSessionBounds DEF Sound, TypeOK
<1>10. TypeOK'
  BY <1>2, <1>4, <1>6, <1>8, <1>9 DEF Sound, TypeOK, Events, EventType, compacting
<1> QED
  BY <1>2, <1>5, <1>6, <1>7, <1>8, <1>10 DEF Sound, Counters, bounds, history, IsAnswer

LEMMA NoMessageType == NoMessage \in Message /\ IsAnswer(NoMessage) /\ NoMessage.kind = "stop" /\ NoMessage.id = 0
BY DEF NoMessage, Said, Message, Entry, IsAnswer, AnswerKinds

LEMMA ProcessingEndType ==
    ASSUME Sound, ProcessingEnd
    PROVE  /\ events' \in Events /\ Heard(events)' /\ lastAssistant' = NoMessage
           /\ UNCHANGED <<run, entries, connected, timers, owner, bounds, history>>
<1>1. events \in Events /\ Heard(events) /\ events # <<>>
  BY DEF ProcessingEnd, Sound, TypeOK, Events, EventType
<1> QED
  BY <1>1, HeardLess DEF ProcessingEnd

LEMMA SoundIgnoreEnd ==
    ASSUME Sound, IgnoreEnd
    PROVE  Sound'
<1>1. /\ events' \in Events /\ Heard(events)' /\ lastAssistant' = NoMessage
      /\ UNCHANGED <<run, entries, connected, timers, owner, bounds, history>>
  BY ProcessingEndType DEF IgnoreEnd
<1>2. UNCHANGED <<messages, retrying, overflowAttempted, compacting, phase>>
  BY DEF IgnoreEnd
<1>3. TypeOK'
  BY <1>1, <1>2, NoMessageType DEF Sound, TypeOK, Events, EventType, retrying, compacting
<1> QED
  BY <1>1, <1>2, <1>3, NoMessageType DEF Sound, Counters, JobsHaveEntries, retrying, compacting,
     bounds, history, IsAnswer

LEMMA SoundBackoff ==
    ASSUME Sound, Backoff
    PROVE  Sound'
<1>1. /\ events' \in Events /\ Heard(events)' /\ lastAssistant' = NoMessage
      /\ UNCHANGED <<run, entries, connected, timers, owner, bounds, history>>
  BY ProcessingEndType DEF Backoff
<1>2. /\ handler' = "backoff" /\ failed' = lastAssistant /\ lastAssistant.kind = "error"
      /\ retryPromise' = TRUE /\ retryAttempt' = retryAttempt + 1 /\ retryAttempt < MaxRetries
      /\ messages' = DropAnswer(messages)
      /\ UNCHANGED <<overflowAttempted, compacting, phase>>
  BY DEF Backoff
<1>3. failed' \in Message /\ failed' # NoMessage /\ retryAttempt' \in 0 .. MaxRetries
  BY <1>2, NoMessageType, AgentSessionBounds DEF Sound, TypeOK
<1>4. messages' \in Seq(Message)
  BY <1>2, DropAnswerType DEF Sound, TypeOK
<1>5. TypeOK'
  BY <1>1, <1>2, <1>3, <1>4, NoMessageType DEF Sound, TypeOK, Events, EventType, compacting
<1> QED
  BY <1>1, <1>2, <1>5, NoMessageType DEF Sound, Counters, JobsHaveEntries, compacting,
     bounds, history, IsAnswer

(* A run that is not tried again: then the context is checked. *)
LEMMA SoundChecked ==
    ASSUME Sound, NEW m, CheckCompaction("queue", m, TRUE, messages), Resolve,
           \/ ProcessingEnd /\ UNCHANGED <<handler, failed>>
           \/ /\ handler' = "ready" /\ failed' = NoMessage
              /\ UNCHANGED <<run, entries, connected, events, lastAssistant, timers, owner,
                             bounds, history>>,
           retryAttempt' \in {retryAttempt, 0}
    PROVE  Sound'
<1>1. /\ events' \in Events /\ Heard(events)' /\ lastAssistant' \in {lastAssistant, NoMessage}
      /\ UNCHANGED <<run, entries, connected, timers, owner, bounds, history>>
      /\ (handler' = handler /\ failed' = failed) \/ (handler' = "ready" /\ failed' = NoMessage)
  <2>1. CASE ProcessingEnd /\ UNCHANGED <<handler, failed>>
    BY <2>1, ProcessingEndType
  <2>2. CASE /\ handler' = "ready" /\ failed' = NoMessage
             /\ UNCHANGED <<run, entries, connected, events, lastAssistant, timers, owner,
                            bounds, history>>
    BY <2>2 DEF Sound, TypeOK, Events, EventType
  <2> QED
    BY <2>1, <2>2
<1>2. retryPromise' = FALSE /\ phase' \in [Prompts -> Phases]
  BY ResolveType DEF Sound
<1>3. /\ messages' \in Seq(Message) /\ overflowAttempted' \in BOOLEAN
      /\ jobs' \in [Compactors -> Job \cup {NoJob}] /\ JobsHaveEntries'
      /\ autoSignal' \in {"none", "on", "aborted"} /\ manualSignal' \in {"none", "on", "aborted"}
  BY <1>1, CompactorsAre, CheckCompactionType DEF Sound
<1>4. retryAttempt' \in 0 .. MaxRetries
  BY AgentSessionBounds DEF Sound, TypeOK
<1>5. lastAssistant' \in Message /\ IsAnswer(lastAssistant')
  BY <1>1, NoMessageType DEF Sound, TypeOK
<1>6. handler' \in {"ready", "backoff", "cancelled"} /\ (handler' = "ready" <=> failed' = NoMessage)
      /\ failed' \in Message /\ (handler' # "ready" => failed'.kind = "error")
  BY <1>1, NoMessageType DEF Sound, TypeOK
<1>7. TypeOK'
  BY <1>1, <1>2, <1>3, <1>4, <1>5, <1>6 DEF Sound, TypeOK, Events, EventType, Phases
<1> QED
  BY <1>1, <1>3, <1>5, <1>6, <1>7 DEF Sound, Counters, bounds, history, IsAnswer

LEMMA SoundEnds ==
    ASSUME Sound, Exhausted \/ EndWithoutRetry \/ BackoffCancelled
    PROVE  Sound'
<1>1. retryAttempt' \in {retryAttempt, 0} /\ Resolve
  BY DEF Exhausted, EndWithoutRetry, BackoffCancelled
<1>2. \/ /\ ProcessingEnd /\ UNCHANGED <<handler, failed>>
         /\ CheckCompaction("queue", lastAssistant, TRUE, messages)
      \/ /\ handler' = "ready" /\ failed' = NoMessage
         /\ CheckCompaction("queue", failed, TRUE, messages)
         /\ UNCHANGED <<run, entries, connected, events, lastAssistant, timers, owner,
                        bounds, history>>
  BY DEF Exhausted, EndWithoutRetry, BackoffCancelled
<1> QED
  BY <1>1, <1>2, SoundChecked

LEMMA SoundBackoffEnds ==
    ASSUME Sound, BackoffEnds
    PROVE  Sound'
<1>1. handler' = "ready" /\ failed' = NoMessage /\ timers' = timers + 1
  BY DEF BackoffEnds
<1>2. UNCHANGED <<run, messages, entries, connected, events, lastAssistant, retryPromise,
                  retryAttempt, overflowAttempted, compacting, phase, owner, bounds, history>>
  BY DEF BackoffEnds
<1>3. TypeOK'
  BY <1>1, <1>2, NoMessageType DEF Sound, TypeOK, compacting
<1> QED
  BY <1>1, <1>2, <1>3 DEF Sound, Counters, JobsHaveEntries, compacting, bounds, history

(* The users'. *)
LEMMA SoundPrompt ==
    ASSUME Sound, NEW p \in Prompts, Prompt(p)
    PROVE  Sound'
<1>1. /\ phase' = [phase EXCEPT ![p] = "checking"]
      /\ overlapped' = (overlapped \/ AtWork \/ Checking # {}) /\ automatic' = 0
      /\ UNCHANGED <<run, entries, connected, events, lastAssistant, retrying, timers, owner,
                     bounds, unheard, missed>>
  BY DEF Prompt
<1>2. /\ messages' \in Seq(Message) /\ overflowAttempted' \in BOOLEAN
      /\ jobs' \in [Compactors -> Job \cup {NoJob}] /\ JobsHaveEntries'
      /\ autoSignal' \in {"none", "on", "aborted"} /\ manualSignal' \in {"none", "on", "aborted"}
  <2>1. CASE UNCHANGED <<messages, overflowAttempted, compacting>>
    BY <1>1, <2>1 DEF Sound, TypeOK, JobsHaveEntries, compacting
  <2>2. CASE \E k : CheckCompaction(p, messages[k], FALSE, messages)
    BY <1>1, <2>2, CompactorsAre, CheckCompactionType DEF Sound
  <2> QED
    BY <2>1, <2>2 DEF Prompt
<1>3. phase' \in [Prompts -> Phases]
  BY <1>1 DEF Sound, TypeOK, Phases
<1>4. TypeOK'
  BY <1>1, <1>2, <1>3 DEF Sound, TypeOK, Phases, retrying
<1>5. Counters'
  BY <1>1 DEF Sound, Counters, bounds
<1> QED
  BY <1>1, <1>2, <1>4, <1>5 DEF Sound, retrying

LEMMA SoundSubmit ==
    ASSUME Sound, NEW p \in Prompts, Submit(p)
    PROVE  Sound'
<1> DEFINE m == Said(clock, "user")
           e == Event("message", m)
<1>1. /\ messages \in Seq(Message) /\ events \in Events /\ Heard(events) /\ clock \in Nat \ {0}
  BY DEF Sound, TypeOK, Counters, Events, EventType
<1>2. m \in Message /\ Proper(m) /\ e \in EventType /\ Proper(e.message)
  BY <1>1, SaidType, EventTyped DEF Proper
<1> HIDE DEF m, e
<1>3. Append(events, e) \in Events /\ Heard(Append(events, e))
  BY <1>1, <1>2, HeardMore, AppendProperties DEF Events
<1>4. /\ UNCHANGED <<entries, connected, lastAssistant, retrying, timers, overflowAttempted,
                     compacting, answers, aborts, missed>>
      /\ phase' \in [Prompts -> Phases]
  BY DEF Submit, Sound, TypeOK, Phases
<1>5. /\ run' \in {"none", "live", "aborted"} /\ (run' = "none" => owner' = "none")
      /\ owner' \in {"none"} \cup Prompts
      /\ messages' \in Seq(Message) /\ events' \in Events /\ Heard(events)'
  <2>1. CASE run = "none"
    <3>1. StartRun(p, <<m>>)
      BY <2>1 DEF Submit, m
    <3>2. /\ run' = "live" /\ owner' = p /\ messages' = Append(messages, m)
          /\ events' = IF connected THEN Append(events, e) ELSE events
      BY <1>1, <1>2, <3>1, StartsWith DEF e
    <3> QED
      BY <1>1, <1>2, <1>3, <3>2, AppendProperties
  <2>2. CASE run # "none"
    BY <1>1, <2>2 DEF Submit, Sound, TypeOK
  <2> QED
    BY <2>1, <2>2
<1>6. clock' \in Nat \ {0} /\ automatic' \in Nat /\ overlapped' \in BOOLEAN
  <2>1. \/ clock' = clock + 1 /\ automatic' = 0 /\ overlapped' = (overlapped \/ AtWork)
        \/ UNCHANGED <<clock, automatic, overlapped>>
    BY DEF Submit
  <2>2. overlapped' \in BOOLEAN
    BY <2>1 DEF Sound, Counters, AtWork
  <2> QED
    BY <2>1, <2>2 DEF Sound, Counters
<1>7. TypeOK'
  BY <1>4, <1>5 DEF Sound, TypeOK, Events, EventType, Phases, retrying, compacting
<1> QED
  BY <1>4, <1>5, <1>6, <1>7 DEF Sound, Counters, JobsHaveEntries, retrying, compacting

LEMMA SoundWaitForRetry ==
    ASSUME Sound, NEW p \in Prompts, WaitForRetry(p)
    PROVE  Sound'
<1>1. /\ UNCHANGED <<run, messages, entries, connected, events, lastAssistant, retrying, timers,
                     overflowAttempted, compacting, owner, bounds, history>>
      /\ phase' \in [Prompts -> Phases]
  BY DEF WaitForRetry, Sound, TypeOK, Phases
<1>2. TypeOK'
  BY <1>1 DEF Sound, TypeOK, Phases, retrying, compacting
<1> QED
  BY <1>1, <1>2 DEF Sound, Counters, JobsHaveEntries, retrying, compacting, bounds, history

(* The compactions'. *)
LEMMA EndJobType ==
    ASSUME TypeOK, NEW c \in Compactors, EndJob(c)
    PROVE  /\ jobs' = [jobs EXCEPT ![c] = NoJob] /\ connected' \in {connected, TRUE}
           /\ autoSignal' \in {"none", "on", "aborted"} /\ manualSignal' \in {"none", "on", "aborted"}
BY DEF EndJob, TypeOK

LEMMA SoundCompacted ==
    ASSUME Sound, NEW c \in Compactors, Compacted(c)
    PROVE  Sound'
<1> DEFINE entry == [id |-> clock, kind |-> "compaction", from |-> jobs[c].from]
           ms == Context(entries')
<1>1. /\ entries \in Seq(Entry) /\ Len(entries) \in Nat /\ clock \in Nat \ {0} /\ timers \in Nat
      /\ TypeOK /\ JobsHaveEntries
  BY LenProperties DEF Sound, TypeOK, Counters
<1>2. jobs[c].from \in 1 .. Len(entries) /\ jobs[c].from \in Nat
  BY <1>1 DEF Compacted, JobsHaveEntries
<1>3. entry \in Entry /\ entry.kind = "compaction" /\ entry.from = jobs[c].from
  BY <1>1, <1>2 DEF Entry
<1> HIDE DEF entry
<1>4. /\ entries' \in Seq(Entry) /\ Len(entries') = Len(entries) + 1
      /\ entries'[Len(entries) + 1] = entry
      /\ \A k \in 1 .. Len(entries) : entries'[k] = entries[k]
  BY <1>1, <1>3, AppendProperties DEF Compacted, entry
<1>5. KeepsWhatThereIs(entries)'
  <2>1. \A k \in 1 .. Len(entries') : k \in 1 .. Len(entries) \/ k = Len(entries) + 1
    BY <1>1, <1>4
  <2> QED
    BY <1>1, <1>2, <1>3, <1>4, <2>1 DEF Sound, KeepsWhatThereIs
<1>6. messages' \in Seq(Message)
  <2>1. ms \in Seq(Message)
    BY <1>4, <1>5, ContextType DEF KeepsWhatThereIs
  <2>2. messages' = ms \/ messages' = DropAnswer(ms)
    BY DEF Compacted
  <2> HIDE DEF ms
  <2> QED
    BY <2>1, <2>2, DropAnswerType
<1>7. jobs' \in [Compactors -> Job \cup {NoJob}] /\ JobsHaveEntries'
  <2>1. jobs' = [jobs EXCEPT ![c] = NoJob] /\ Len(entries') >= Len(entries)
    BY <1>1, <1>4 DEF Compacted, EndJob
  <2> QED
    BY <1>1, <1>4, <2>1, JobEnds
<1>8. connected' \in BOOLEAN /\ autoSignal' \in {"none", "on", "aborted"}
      /\ manualSignal' \in {"none", "on", "aborted"}
  <2>1. EndJob(c) /\ connected \in BOOLEAN
    BY DEF Compacted, Sound, TypeOK
  <2> QED
    BY <1>1, <2>1, EndJobType
<1>9. /\ timers' \in Nat /\ clock' \in Nat \ {0}
      /\ UNCHANGED <<run, events, lastAssistant, retrying, overflowAttempted, phase, owner,
                     answers, aborts, history>>
  BY <1>1 DEF Compacted
<1>10. TypeOK'
  BY <1>4, <1>6, <1>7, <1>8, <1>9 DEF Sound, TypeOK, retrying
<1> QED
  BY <1>5, <1>7, <1>9, <1>10 DEF Sound, Counters, retrying, history

LEMMA SoundCompactionFails ==
    ASSUME Sound, NEW c \in Compactors, EndJob(c),
           UNCHANGED <<run, messages, entries, events, lastAssistant, retrying, timers,
                       overflowAttempted, phase, owner, bounds, history>>
    PROVE  Sound'
<1>1. /\ TypeOK /\ JobsHaveEntries /\ entries' \in Seq(Entry) /\ Len(entries') \in Nat
      /\ connected \in BOOLEAN
  BY LenProperties DEF Sound, TypeOK
<1>2. /\ jobs' = [jobs EXCEPT ![c] = NoJob] /\ connected' \in BOOLEAN
      /\ autoSignal' \in {"none", "on", "aborted"} /\ manualSignal' \in {"none", "on", "aborted"}
  BY <1>1, EndJobType
<1>3. jobs' \in [Compactors -> Job \cup {NoJob}] /\ JobsHaveEntries'
  <2>1. Len(entries') >= Len(entries)
    BY <1>1
  <2> QED
    BY <1>1, <1>2, <2>1, JobEnds
<1>4. TypeOK'
  BY <1>2, <1>3 DEF Sound, TypeOK, retrying
<1> QED
  BY <1>3, <1>4 DEF Sound, Counters, retrying, bounds, history

LEMMA CancelRetryType ==
    ASSUME Sound, CancelRetry
    PROVE  /\ handler' \in {"ready", "backoff", "cancelled"} /\ (handler' = "ready" <=> handler = "ready")
           /\ retryPromise' = FALSE /\ phase' \in [Prompts -> Phases]
           /\ UNCHANGED <<failed, retryAttempt>>
BY ResolveType DEF CancelRetry, Sound, TypeOK

LEMMA SoundCompact ==
    ASSUME Sound, NEW c \in Manual, Compact(c)
    PROVE  Sound'
<1>1. /\ jobs' = [jobs EXCEPT ![c] = Aborting] /\ connected' = FALSE /\ aborts' = aborts + 1
      /\ overlapped' = (overlapped \/ AtWork \/ Checking # {})
      /\ UNCHANGED <<messages, entries, events, lastAssistant, timers, overflowAttempted,
                     autoSignal, manualSignal, owner, clock, answers, unheard, missed, automatic>>
  BY DEF Compact
<1>2. /\ handler' \in {"ready", "backoff", "cancelled"} /\ (handler' = "ready" <=> handler = "ready")
      /\ retryPromise' = FALSE /\ phase' \in [Prompts -> Phases]
      /\ UNCHANGED <<failed, retryAttempt>>
  BY CancelRetryType DEF Compact
<1>3. run' \in {"none", "live", "aborted"} /\ (run' = "none" <=> run = "none")
  BY DEF Compact, AbortRun, Sound, TypeOK
<1>4. Aborting \in Job /\ Aborting.stage = "aborting"
  BY DEF Aborting, Job
<1>5. jobs' \in [Compactors -> Job \cup {NoJob}]
  BY <1>1, <1>4 DEF Sound, TypeOK
<1>6. JobsHaveEntries'
  BY <1>1, <1>4 DEF Sound, TypeOK, JobsHaveEntries
<1>7. TypeOK'
  BY <1>1, <1>2, <1>3, <1>5 DEF Sound, TypeOK, Phases
<1>8. Counters'
  BY <1>1 DEF Sound, Counters
<1> QED
  BY <1>1, <1>2, <1>6, <1>7, <1>8 DEF Sound

LEMMA SoundCompactWhenIdle ==
    ASSUME Sound, NEW c \in Manual, CompactWhenIdle(c)
    PROVE  Sound'
<1>1. UNCHANGED <<run, messages, entries, events, lastAssistant, retrying, timers,
                  overflowAttempted, phase, owner, bounds, history>>
  BY DEF CompactWhenIdle
<1>2. CASE ~MayPrepare
  <2>1. EndJob(c)
    BY <1>2 DEF CompactWhenIdle
  <2> QED
    BY <1>1, <2>1, CompactorsAre, SoundCompactionFails
<1>3. CASE MayPrepare
  <2>1. PICK k \in Cuts : jobs' = [jobs EXCEPT ![c] = Summarizing(k, FALSE)]
    BY <1>3 DEF CompactWhenIdle
  <2>2. manualSignal' = "on" /\ UNCHANGED <<connected, autoSignal>>
    BY <1>3 DEF CompactWhenIdle
  <2>3. jobs' \in [Compactors -> Job \cup {NoJob}] /\ JobsHaveEntries'
    BY <1>1, <2>1, CompactorsAre, JobStarts DEF Sound
  <2>4. TypeOK'
    BY <1>1, <2>2, <2>3 DEF Sound, TypeOK, retrying
  <2> QED
    BY <1>1, <2>3, <2>4 DEF Sound, Counters, retrying, bounds, history
<1> QED
  BY <1>2, <1>3

LEMMA SoundAborts ==
    ASSUME Sound, Abort \/ AbortRetry \/ AbortCompaction
    PROVE  Sound'
<1>1. /\ UNCHANGED <<messages, entries, connected, events, lastAssistant, timers,
                     overflowAttempted, jobs, owner, clock, answers, history>>
      /\ aborts' = aborts + 1
  BY DEF Abort, AbortRetry, AbortCompaction, compacting
<1>2. /\ handler' \in {"ready", "backoff", "cancelled"} /\ (handler' = "ready" <=> handler = "ready")
      /\ retryPromise' \in BOOLEAN /\ phase' \in [Prompts -> Phases]
      /\ UNCHANGED <<failed, retryAttempt>>
  <2>1. CASE CancelRetry
    BY <2>1, CancelRetryType
  <2>2. CASE UNCHANGED <<retrying, phase>>
    BY <2>2 DEF Sound, TypeOK, Phases, retrying
  <2> QED
    BY <2>1, <2>2 DEF Abort, AbortRetry, AbortCompaction
<1>3. /\ run' \in {"none", "live", "aborted"} /\ (run' = "none" <=> run = "none")
      /\ autoSignal' \in {"none", "on", "aborted"} /\ manualSignal' \in {"none", "on", "aborted"}
  BY DEF Abort, AbortRetry, AbortCompaction, AbortRun, compacting, Sound, TypeOK
<1>4. TypeOK'
  BY <1>1, <1>2, <1>3 DEF Sound, TypeOK, Phases
<1>5. Counters'
  BY <1>1 DEF Sound, Counters, history
<1> QED
  BY <1>1, <1>2, <1>4, <1>5 DEF Sound, JobsHaveEntries

LEMMA SoundNext == Sound /\ [Next]_vars => Sound'
<1> SUFFICES ASSUME Sound, [Next]_vars PROVE Sound'
  OBVIOUS
<1>1. ASSUME NEW kind \in Answers, Answer(kind) \/ Break(kind) PROVE Sound'
  BY <1>1, SoundAnswer
<1>2. CASE TimerFires
  BY <1>2, SoundTimerFires
<1>3. CASE ProcessMessage
  BY <1>3, SoundProcessMessage
<1>4. CASE IgnoreEnd
  BY <1>4, SoundIgnoreEnd
<1>5. CASE Backoff
  BY <1>5, SoundBackoff
<1>6. CASE Exhausted \/ EndWithoutRetry \/ BackoffCancelled
  BY <1>6, SoundEnds
<1>7. CASE BackoffEnds
  BY <1>7, SoundBackoffEnds
<1>8. ASSUME NEW p \in Prompts, Prompt(p) \/ Submit(p) \/ WaitForRetry(p) PROVE Sound'
  BY <1>8, SoundPrompt, SoundSubmit, SoundWaitForRetry
<1>9. ASSUME NEW c \in Compactors, Compacted(c) \/ CompactionFails(c) PROVE Sound'
  BY <1>9, SoundCompacted, SoundCompactionFails DEF CompactionFails
<1>10. ASSUME NEW c \in Manual, Compact(c) \/ CompactWhenIdle(c) PROVE Sound'
  BY <1>10, SoundCompact, SoundCompactWhenIdle
<1>11. CASE Abort \/ AbortRetry \/ AbortCompaction
  BY <1>11, SoundAborts
<1>12. CASE UNCHANGED vars
  <2>1. TypeOK'
    BY <1>12 DEF vars, retrying, compacting, Sound, TypeOK
  <2> QED
    BY <1>12, <2>1 DEF vars, retrying, compacting, bounds, history, Sound, Counters, JobsHaveEntries
<1> QED
  BY <1>1, <1>2, <1>3, <1>4, <1>5, <1>6, <1>7, <1>8, <1>9, <1>10, <1>11, <1>12 DEF Next

LEMMA SoundInit == Init => Sound
<1> SUFFICES ASSUME Init PROVE Sound
  OBVIOUS
<1>1. messages = <<>> /\ entries = <<>> /\ events = <<>> /\ Len(entries) = 0 /\ Len(events) = 0
  BY DEF Init
<1>2. /\ messages \in Seq(Message) /\ entries \in Seq(Entry) /\ events \in Events
  BY <1>1, EmptySeq DEF Events
<1>3. jobs \in [Compactors -> Job \cup {NoJob}] /\ JobsHaveEntries
  BY DEF Init, JobsHaveEntries, NoJob
<1>4. TypeOK
  <2>1. 0 \in 0 .. MaxRetries
    BY AgentSessionBounds
  <2>2. phase \in [Prompts -> Phases]
    BY DEF Init, Phases
  <2> QED
    BY <1>2, <1>3, <2>1, <2>2, NoMessageType DEF Init, TypeOK, Events, EventType, Phases
<1>5. Counters
  <2>1. clock = 1 /\ answers = 0 /\ aborts = 0 /\ automatic = 0
    BY DEF Init
  <2>2. missed \in BOOLEAN /\ overlapped \in BOOLEAN
    BY Zenon DEF Init
  <2> QED
    BY <2>1, <2>2 DEF Counters
<1> QED
  BY <1>1, <1>3, <1>4, <1>5, NoMessageType DEF Init, Sound, KeepsWhatThereIs, Heard

(* What the session keeps is what its fields are declared to be, and       *)
(* there are never more than settings.retry.maxRetries attempts.           *)
THEOREM SessionTypes == Spec => []TypeOK
<1>1. Sound => TypeOK
  BY DEF Sound
<1> QED
  BY <1>1, SoundInit, SoundNext, PTL DEF Spec

-----------------------------------------------------------------------------
(* One thing at a time, as long as nobody prompts or compacts while the    *)
(* session is at work: a run, the events of a run, a sleep, a timeout or a *)
(* compaction.  Only compact() may wait for a run, and does not hear it.   *)

Idle == events = <<>> /\ run = "none" /\ \A c \in Compactors : jobs[c] = NoJob

JobIsAlone(c) ==
    /\ timers = 0 /\ handler = "ready" /\ events = <<>>
    /\ \A d \in Compactors : jobs[d] # NoJob => d = c
    /\ run = "none" \/ jobs[c].stage = "aborting"
    /\ jobs[c].stage = "aborting" => c \in Manual
    /\ c \in Manual => ~connected /\ ~jobs[c].retry

OneAtATime ==
    /\ timers > 0 => timers = 1 /\ handler = "ready" /\ Idle
    /\ handler # "ready" => Idle
    /\ \A c \in Compactors : jobs[c] # NoJob => JobIsAlone(c)

(* The answer that ends a run is followed by the end, and that by nothing. *)
Terminal(m)    == IsAnswer(m) /\ m.kind # "more"
EndAt(k)       == events[k].type = "end"
AnsweredAt(k)  == events[k].type = "message" /\ Terminal(events[k].message)

EventsInOrder ==
    /\ \A k \in 1 .. Len(events) : EndAt(k) => k = Len(events) /\ run = "none"
    /\ \A k \in 1 .. Len(events) : AnsweredAt(k) => k < Len(events) /\ EndAt(k + 1)
    /\ lastAssistant # NoMessage /\ Terminal(lastAssistant) => events # <<>> /\ EndAt(1)

Orderly == ~overlapped => OneAtATime /\ EventsInOrder

LEMMA EventsType == Sound => events \in Events /\ Len(events) \in Nat
BY LenProperties DEF Sound, TypeOK, Events, EventType

LEMMA NoneLeft ==
    ASSUME NEW es \in Events
    PROVE  es = <<>> <=> Len(es) = 0
BY EmptySeq DEF Events

LEMMA More ==
    ASSUME NEW es \in Events, NEW e \in EventType
    PROVE  /\ Append(es, e) \in Events /\ Append(es, e) # <<>>
           /\ Len(Append(es, e)) = Len(es) + 1 /\ Append(es, e)[Len(es) + 1] = e
           /\ \A k \in 1 .. Len(es) : Append(es, e)[k] = es[k]
BY AppendProperties DEF Events

LEMMA Less ==
    ASSUME NEW es \in Events, es # <<>>
    PROVE  /\ Tail(es) \in Events /\ Head(es) = es[1] /\ Len(es) \in Nat \ {0}
           /\ Len(Tail(es)) = Len(es) - 1
           /\ \A k \in 1 .. Len(es) - 1 : Tail(es)[k] = es[k + 1]
BY HeadTailProperties, EmptySeq DEF Events

(* While the events are those of a run, or there are any, nothing else is  *)
(* under way.                                                              *)
LEMMA EventsAlone ==
    ASSUME Sound, OneAtATime, events # <<>>
    PROVE  timers = 0 /\ handler = "ready" /\ \A c \in Compactors : jobs[c] = NoJob
BY DEF Sound, TypeOK, OneAtATime, Idle, JobIsAlone

LEMMA RunAlone ==
    ASSUME Sound, OneAtATime, run # "none"
    PROVE  /\ timers = 0 /\ handler = "ready"
           /\ \A c \in Compactors : jobs[c] # NoJob => c \in Manual /\ events = <<>> /\ ~connected
BY DEF Sound, TypeOK, OneAtATime, Idle, JobIsAlone

(* Steps that are not about any of this. *)
LEMMA OrderlyUnchanged ==
    ASSUME Sound, Orderly, ~overlapped,
           UNCHANGED <<timers, events, jobs, connected, lastAssistant>>,
           run' = "none" <=> run = "none", handler' = "ready" <=> handler = "ready"
    PROVE  OneAtATime' /\ EventsInOrder'
<1>1. OneAtATime'
  BY DEF Orderly, OneAtATime, Idle, JobIsAlone
<1>2. EventsInOrder'
  BY DEF Orderly, EventsInOrder, EndAt, AnsweredAt, Terminal
<1> QED
  BY <1>1, <1>2

(* Nothing was under way, and now there may be a compaction. *)
LEMMA OrderlyOneJob ==
    ASSUME TypeOK, NEW c \in Compactors \ Manual, \A d \in Compactors : jobs[d] = NoJob,
           jobs' = jobs \/ \E k \in Cuts, retry \in BOOLEAN :
                              jobs' = [jobs EXCEPT ![c] = Summarizing(k, retry)],
           run' = "none", events' = <<>>, timers' = 0, handler' = "ready"
    PROVE  OneAtATime'
<1>1. CASE jobs' = jobs
  BY <1>1 DEF OneAtATime
<1>2. ASSUME NEW k, NEW retry, jobs' = [jobs EXCEPT ![c] = Summarizing(k, retry)]
      PROVE  OneAtATime'
  <2>1. jobs'[c] = Summarizing(k, retry) /\ \A d \in Compactors : d # c => jobs'[d] = NoJob
    BY <1>2 DEF TypeOK
  <2>2. jobs'[c].stage = "summarizing"
    BY <2>1 DEF Summarizing
  <2>3. JobIsAlone(c)'
    BY <2>1, <2>2 DEF JobIsAlone
  <2> QED
    BY <2>1, <2>3 DEF OneAtATime
<1> QED
  BY <1>1, <1>2

LEMMA NothingInOrder ==
    ASSUME events' = <<>>, lastAssistant' = NoMessage \/ ~Terminal(lastAssistant')
    PROVE  EventsInOrder'
BY DEF EventsInOrder

(* The end of a run is processed. *)
LEMMA AtTheEnd ==
    ASSUME Sound, OneAtATime, EventsInOrder, ProcessingEnd
    PROVE  /\ events' = <<>> /\ run = "none" /\ timers = 0 /\ handler = "ready" /\ Len(events) = 1
           /\ \A c \in Compactors : jobs[c] = NoJob
           /\ lastAssistant' = NoMessage
<1>1. events \in Events /\ events # <<>> /\ Head(events).type = "end"
  BY EventsType DEF ProcessingEnd
<1>2. /\ Tail(events) \in Events /\ Head(events) = events[1] /\ Len(events) \in Nat \ {0}
      /\ Len(Tail(events)) = Len(events) - 1
  BY <1>1, Less
<1>3. Len(events) = 1 /\ run = "none"
  <2>1. EndAt(1) /\ 1 \in 1 .. Len(events)
    BY <1>1, <1>2 DEF EndAt
  <2> QED
    BY <2>1 DEF EventsInOrder
<1>4. events' = <<>>
  BY <1>2, <1>3, NoneLeft DEF ProcessingEnd
<1> QED
  BY <1>1, <1>3, <1>4, EventsAlone DEF ProcessingEnd

LEMMA OrderlyAnswer ==
    ASSUME Sound, OneAtATime, EventsInOrder, NEW kind \in Answers, Answer(kind) \/ Break(kind)
    PROVE  OneAtATime' /\ EventsInOrder'
<1> DEFINE m == Said(clock, kind)
           message == Event("message", m)
           end == Event("end", m)
<1>0. PICK n : n = Len(events)
  OBVIOUS
<1>1. events \in Events /\ n \in Nat /\ run # "none"
  BY <1>0, EventsType DEF Answer, Break
<1>2. m \in Message /\ m.kind = kind
  BY AgentSessionBounds, SaidType DEF Sound, Counters
<1>3. /\ message \in EventType /\ message.type = "message" /\ message.message = m
      /\ end \in EventType /\ end.type = "end"
  BY <1>2, EventTyped
<1> HIDE DEF message, end, m
<1>4. UNCHANGED <<lastAssistant, handler, timers, jobs, connected>>
  BY DEF Answer, Break, compacting
<1>5. \A k \in 1 .. n : ~EndAt(k) /\ ~AnsweredAt(k)
  BY <1>0, <1>1 DEF EventsInOrder
<1>6. ~connected => events' = events
  BY HearNothing DEF Answer, Break
<1>7. timers = 0 /\ handler = "ready"
      /\ \A c \in Compactors : jobs[c] # NoJob => c \in Manual /\ events = <<>> /\ ~connected
  BY <1>1, RunAlone
<1>8. OneAtATime'
  BY <1>1, <1>4, <1>6, <1>7 DEF OneAtATime, JobIsAlone
<1>9. lastAssistant = NoMessage \/ ~Terminal(lastAssistant)
  BY <1>0, <1>1, <1>5, NoneLeft DEF EventsInOrder
<1>10. CASE ~connected
  <2>1. events' = events
    BY <1>6, <1>10
  <2>2. \A k \in 1 .. Len(events') : ~EndAt(k)' /\ ~AnsweredAt(k)'
    BY <1>0, <1>5, <2>1 DEF EndAt, AnsweredAt
  <2>3. EventsInOrder'
    BY <1>4, <1>9, <2>2 DEF EventsInOrder
  <2> QED
    BY <1>8, <2>3
<1>11. CASE connected /\ Answer(kind) /\ kind = "more"
  <2>1. Hear(<<message>>)
    BY <1>11 DEF Answer, message, m
  <2>2. events' = Append(events, message)
    BY <1>1, <1>3, <1>11, <2>1, HearOne
  <2>3. /\ Len(events') = n + 1 /\ events'[n + 1] = message
        /\ \A k \in 1 .. n : events'[k] = events[k]
    BY <1>1, <1>3, <2>2, <1>0, More
  <2>4. ~Terminal(m)
    BY <1>2, <1>11 DEF Terminal
  <2>5. \A k \in 1 .. n + 1 : k \in 1 .. n \/ k = n + 1
    BY <1>1
  <2>6. \A k \in 1 .. n + 1 : ~EndAt(k)' /\ ~AnsweredAt(k)'
    BY <1>3, <1>5, <2>3, <2>4, <2>5 DEF EndAt, AnsweredAt
  <2>7. EventsInOrder'
    BY <1>4, <1>9, <2>3, <2>6 DEF EventsInOrder
  <2> QED
    BY <1>8, <2>7
<1>12. CASE connected /\ Answer(kind) /\ kind # "more"
  <2>1. Hear(<<message, end>>) /\ run' = "none"
    BY <1>12 DEF Answer, EndRun, message, end, m
  <2>2. events' = Append(Append(events, message), end)
    BY <1>1, <1>3, <1>12, <2>1, HearTwo
  <2> DEFINE es == Append(events, message)
  <2>3. /\ es \in Events /\ Len(es) = n + 1 /\ es[n + 1] = message
        /\ \A k \in 1 .. n : es[k] = events[k]
    BY <1>1, <1>3, <1>0, More
  <2> HIDE DEF es
  <2>4. /\ Len(events') = Len(es) + 1 /\ events'[Len(es) + 1] = end
        /\ \A k \in 1 .. Len(es) : events'[k] = es[k]
    BY <1>3, <2>2, <2>3, <1>0, More DEF es
  <2>5. /\ Len(events') = n + 2 /\ events'[n + 2] = end /\ events'[n + 1] = message
        /\ \A k \in 1 .. n : events'[k] = events[k]
    BY <1>1, <2>3, <2>4
  <2>6. \A k \in 1 .. n + 2 : k \in 1 .. n \/ k = n + 1 \/ k = n + 2
    BY <1>1
  <2>7. /\ \A k \in 1 .. n : ~EndAt(k)' /\ ~AnsweredAt(k)'
        /\ ~EndAt(n + 1)' /\ EndAt(n + 2)' /\ ~AnsweredAt(n + 2)'
    BY <1>3, <1>5, <2>5 DEF EndAt, AnsweredAt
  <2>8. \A k \in 1 .. n + 2 : EndAt(k)' => k = n + 2
    BY <2>6, <2>7
  <2>9. \A k \in 1 .. n + 2 : AnsweredAt(k)' => k < n + 2 /\ EndAt(k + 1)'
    <3>1. \A k \in 1 .. n + 2 : AnsweredAt(k)' => k = n + 1
      BY <2>6, <2>7
    <3>2. n + 1 < n + 2 /\ n + 1 + 1 = n + 2
      BY <1>1
    <3> QED
      BY <2>7, <3>1, <3>2
  <2>10. EventsInOrder'
    BY <1>4, <1>9, <2>1, <2>5, <2>8, <2>9 DEF EventsInOrder
  <2> QED
    BY <1>8, <2>10
<1>13. CASE connected /\ Break(kind)
  <2>1. Hear(<<end>>) /\ run' = "none"
    BY <1>13 DEF Break, EndRun, end, m
  <2>2. events' = Append(events, end)
    BY <1>1, <1>3, <1>13, <2>1, HearOne
  <2>3. /\ Len(events') = n + 1 /\ events'[n + 1] = end
        /\ \A k \in 1 .. n : events'[k] = events[k]
    BY <1>1, <1>3, <2>2, <1>0, More
  <2>4. \A k \in 1 .. n + 1 : k \in 1 .. n \/ k = n + 1
    BY <1>1
  <2>5. \A k \in 1 .. n + 1 : (EndAt(k)' => k = n + 1) /\ ~AnsweredAt(k)'
    BY <1>3, <1>5, <2>3, <2>4 DEF EndAt, AnsweredAt
  <2>6. EventsInOrder'
    BY <1>4, <1>9, <2>1, <2>3, <2>5 DEF EventsInOrder
  <2> QED
    BY <1>8, <2>6
<1> QED
  BY <1>8, <1>10, <1>11, <1>12, <1>13

LEMMA OrderlyProcessMessage ==
    ASSUME Sound, OneAtATime, EventsInOrder, ProcessMessage
    PROVE  OneAtATime' /\ EventsInOrder'
<1> DEFINE m == Head(events).message
<1>0. PICK n : n = Len(events)
  OBVIOUS
<1>1. events \in Events /\ events # <<>> /\ Head(events).type = "message" /\ events' = Tail(events)
  BY EventsType DEF ProcessMessage
<1>2. /\ Head(events) = events[1] /\ n \in Nat \ {0} /\ Len(events') = n - 1 /\ events' \in Events
      /\ \A k \in 1 .. n - 1 : events'[k] = events[k + 1]
  BY <1>0, <1>1, Less
<1>3. /\ UNCHANGED <<run, handler, timers, jobs, connected>>
      /\ lastAssistant' = IF IsAnswer(m) THEN m ELSE lastAssistant
  BY DEF ProcessMessage, compacting
<1>4. OneAtATime'
  BY <1>1, <1>3, EventsAlone DEF OneAtATime
<1>5. \A k \in 1 .. n - 1 : EndAt(k)' = EndAt(k + 1) /\ AnsweredAt(k)' = AnsweredAt(k + 1)
  BY <1>2 DEF EndAt, AnsweredAt
<1>6. \A k \in 1 .. n - 1 : k + 1 \in 1 .. n
  BY <1>2
<1>7. \A k \in 1 .. n - 1 : EndAt(k)' => k = n - 1 /\ run = "none"
  BY <1>0, <1>2, <1>5, <1>6 DEF EventsInOrder
<1>8. \A k \in 1 .. n - 1 : AnsweredAt(k)' => k < n - 1 /\ EndAt(k + 1)'
  <2>1. ASSUME NEW k \in 1 .. n - 1, AnsweredAt(k)'
        PROVE  k < n - 1 /\ EndAt(k + 1)'
    <3>1. k + 1 < n /\ EndAt(k + 1 + 1)
      BY <1>0, <1>5, <1>6, <2>1 DEF EventsInOrder
    <3>2. k + 1 \in 1 .. n - 1
      BY <1>2, <3>1
    <3> QED
      BY <1>2, <1>5, <3>1, <3>2
  <2> QED
    BY <2>1
<1>9. lastAssistant' # NoMessage /\ Terminal(lastAssistant') => events' # <<>> /\ EndAt(1)'
  <2>1. CASE IsAnswer(m) /\ Terminal(m)
    <3>1. AnsweredAt(1) /\ 1 \in 1 .. n
      BY <1>1, <1>2, <2>1 DEF AnsweredAt
    <3>2. 1 < n /\ EndAt(1 + 1)
      BY <1>0, <3>1 DEF EventsInOrder
    <3>3. EndAt(1)' /\ Len(events') # 0
      BY <1>2, <1>5, <3>2
    <3> QED
      BY <1>2, <3>3, NoneLeft
  <2>2. CASE IsAnswer(m) /\ ~Terminal(m)
    BY <1>3, <2>2
  <2>3. CASE ~IsAnswer(m)
    BY <1>1, <1>2, <1>3, <2>3 DEF EventsInOrder, EndAt
  <2> QED
    BY <2>1, <2>2, <2>3
<1>10. EventsInOrder'
  BY <1>2, <1>3, <1>7, <1>8, <1>9 DEF EventsInOrder
<1> QED
  BY <1>4, <1>10

LEMMA OrderlyTimerFires ==
    ASSUME Sound, OneAtATime, EventsInOrder, TimerFires
    PROVE  OneAtATime' /\ EventsInOrder' /\ events = <<>> /\ events' = <<>>
<1>1. timers \in Nat /\ messages \in Seq(Message) /\ events \in Events
  BY EventsType DEF Sound, TypeOK
<1>2. timers' = 0 /\ handler = "ready" /\ events = <<>> /\ \A c \in Compactors : jobs[c] = NoJob
  BY <1>1 DEF TimerFires, OneAtATime, Idle
<1>3. events' = events
  BY <1>1, StartsAsItIs DEF TimerFires
<1>4. UNCHANGED <<handler, jobs, lastAssistant>>
  BY DEF TimerFires, retrying, compacting
<1>5. OneAtATime'
  BY <1>2, <1>4 DEF OneAtATime
<1>6. EventsInOrder'
  BY <1>2, <1>3, <1>4, NothingInOrder DEF EventsInOrder
<1> QED
  BY <1>2, <1>3, <1>5, <1>6

LEMMA OrderlyEndings ==
    ASSUME Sound, OneAtATime, EventsInOrder,
           IgnoreEnd \/ Backoff \/ Exhausted \/ EndWithoutRetry \/ BackoffCancelled
    PROVE  /\ OneAtATime' /\ EventsInOrder'
           /\ events' = <<>> /\ run' = "none" /\ timers' = 0 /\ run = "none" /\ timers = 0
           /\ \A c \in Compactors : jobs[c] = NoJob
<1>1. /\ events' = <<>> /\ run = "none" /\ timers = 0
      /\ \A c \in Compactors : jobs[c] = NoJob
      /\ lastAssistant' = NoMessage \/ ~Terminal(lastAssistant')
  <2>1. CASE ProcessingEnd
    BY <2>1, AtTheEnd
  <2>2. CASE BackoffCancelled
    <3>1. events = <<>> /\ run = "none" /\ \A c \in Compactors : jobs[c] = NoJob
      BY <2>2 DEF BackoffCancelled, OneAtATime, Idle
    <3>2. timers = 0
      BY <2>2 DEF BackoffCancelled, OneAtATime, Sound, TypeOK
    <3>3. UNCHANGED <<events, lastAssistant>>
      BY <2>2 DEF BackoffCancelled
    <3> QED
      BY <3>1, <3>2, <3>3 DEF EventsInOrder
  <2> QED
    BY <2>1, <2>2 DEF IgnoreEnd, Backoff, Exhausted, EndWithoutRetry
<1>2. UNCHANGED <<run, timers>>
  BY DEF IgnoreEnd, Backoff, Exhausted, EndWithoutRetry, BackoffCancelled, ProcessingEnd
<1>3. EventsInOrder'
  BY <1>1, NothingInOrder
<1>4. CASE IgnoreEnd
  <2>1. handler' = "ready" /\ jobs' = jobs
    BY <1>4 DEF IgnoreEnd, ProcessingEnd, Free, retrying, compacting
  <2>2. OneAtATime'
    BY <1>1, <1>2, <2>1 DEF OneAtATime
  <2> QED
    BY <1>1, <1>2, <1>3, <2>2
<1>5. CASE Backoff
  <2>1. jobs' = jobs
    BY <1>5 DEF Backoff, compacting
  <2>2. OneAtATime'
    BY <1>1, <1>2, <2>1 DEF OneAtATime, Idle
  <2> QED
    BY <1>1, <1>2, <1>3, <2>2
<1>6. CASE Exhausted \/ EndWithoutRetry \/ BackoffCancelled
  <2>1. handler' = "ready"
    BY <1>6 DEF Exhausted, EndWithoutRetry, BackoffCancelled, ProcessingEnd, Free
  <2>2. CheckCompaction("queue", lastAssistant, TRUE, messages)
          \/ CheckCompaction("queue", failed, TRUE, messages)
    BY <1>6 DEF Exhausted, EndWithoutRetry, BackoffCancelled
  <2>3. jobs' = jobs \/ \E k \in Cuts, retry \in BOOLEAN :
                           jobs' = [jobs EXCEPT !["queue"] = Summarizing(k, retry)]
    BY <2>2, CompactorsAre, CheckCompactionDoes
  <2>4. OneAtATime'
    <3>1. TypeOK /\ "queue" \in Compactors \ Manual /\ run' = "none" /\ timers' = 0
      BY <1>1, <1>2, AutomaticCompactors DEF Sound
    <3> QED
      BY <1>1, <2>1, <2>3, <3>1, OrderlyOneJob
  <2> QED
    BY <1>1, <1>2, <1>3, <2>4
<1> QED
  BY <1>4, <1>5, <1>6

LEMMA OrderlyBackoffEnds ==
    ASSUME Sound, OneAtATime, EventsInOrder, BackoffEnds
    PROVE  OneAtATime' /\ EventsInOrder' /\ Idle /\ timers = 0
<1>1. Idle /\ timers = 0
  BY DEF BackoffEnds, OneAtATime, Sound, TypeOK
<1>2. /\ handler' = "ready" /\ timers' = timers + 1
      /\ UNCHANGED <<events, run, jobs, lastAssistant>>
  BY DEF BackoffEnds, compacting
<1>3. OneAtATime'
  BY <1>1, <1>2 DEF OneAtATime, Idle
<1>4. EventsInOrder'
  BY <1>1, <1>2, NothingInOrder DEF EventsInOrder, Idle
<1> QED
  BY <1>1, <1>3, <1>4

(* When a prompt or a compaction by hand begins, nothing is under way, and *)
(* the agent is listened to.                                               *)
LEMMA NotAtWork ==
    ASSUME Sound, Connected, ~AtWork
    PROVE  /\ events = <<>> /\ handler = "ready" /\ timers = 0 /\ connected
           /\ \A c \in Compactors : jobs[c] = NoJob
BY CompactorsAre DEF AtWork, Sound, TypeOK, Connected

LEMMA OrderlyPrompt ==
    ASSUME Sound, Connected, Orderly, NEW p \in Prompts, Prompt(p), ~overlapped'
    PROVE  OneAtATime' /\ EventsInOrder' /\ ~overlapped /\ ~AtWork /\ Checking = {}
<1>1. ~overlapped /\ ~AtWork /\ Checking = {}
  BY DEF Prompt
<1>2. OneAtATime /\ EventsInOrder
  BY <1>1 DEF Orderly
<1>3. /\ events = <<>> /\ handler = "ready" /\ timers = 0
      /\ \A c \in Compactors : jobs[c] = NoJob
  BY <1>1, NotAtWork
<1>4. run' = "none" /\ UNCHANGED <<events, handler, timers, lastAssistant>>
  BY DEF Prompt, retrying
<1>5. jobs' = jobs \/ \E k \in Cuts, retry \in BOOLEAN :
                         jobs' = [jobs EXCEPT ![p] = Summarizing(k, retry)]
  <2>1. UNCHANGED jobs \/ \E k : CheckCompaction(p, messages[k], FALSE, messages)
    BY DEF Prompt, compacting
  <2> QED
    BY <2>1, CompactorsAre, CheckCompactionDoes
<1>6. OneAtATime'
  <2>1. TypeOK /\ p \in Compactors \ Manual /\ events' = <<>> /\ timers' = 0 /\ handler' = "ready"
    BY <1>3, <1>4, AutomaticCompactors DEF Sound
  <2> QED
    BY <1>3, <1>4, <1>5, <2>1, OrderlyOneJob
<1>7. EventsInOrder'
  BY <1>2, <1>3, <1>4, NothingInOrder DEF EventsInOrder
<1> QED
  BY <1>1, <1>6, <1>7

(* A prompt that is submitted to an idle agent. *)
LEMMA SubmitStarts ==
    ASSUME Sound, Connected, NEW p \in Prompts, Submit(p), run = "none", ~overlapped'
    PROVE  LET m == Said(clock, "user")
               e == Event("message", m)
           IN  /\ ~overlapped /\ ~AtWork /\ automatic' = 0
               /\ m \in Message /\ m.id = clock /\ m.kind = "user" /\ ~IsAnswer(m)
               /\ e \in EventType /\ e.type = "message" /\ e.message = m
               /\ run' = "live" /\ owner' = p /\ messages' = Append(messages, m)
               /\ events = <<>> /\ events' = Append(events, e)
               /\ phase' = [phase EXCEPT ![p] = "running"]
<1> DEFINE m == Said(clock, "user")
           e == Event("message", m)
<1>1. /\ StartRun(p, <<m>>) /\ phase' = [phase EXCEPT ![p] = "running"] /\ automatic' = 0
      /\ ~overlapped /\ ~AtWork
  BY DEF Submit
<1>2. messages \in Seq(Message) /\ events \in Events /\ clock \in Nat
  BY EventsType DEF Sound, TypeOK, Counters
<1>3. m \in Message /\ m.id = clock /\ m.kind = "user"
  BY <1>2, SaidType
<1>4. e \in EventType /\ e.type = "message" /\ e.message = m
  BY <1>3, EventTyped
<1>5. events = <<>> /\ connected
  BY <1>1, NotAtWork
<1>6. ~IsAnswer(m)
  BY <1>3 DEF IsAnswer, AnswerKinds, Errors
<1> HIDE DEF m
<1>7. /\ run' = "live" /\ owner' = p /\ messages' = Append(messages, m)
      /\ events' = Append(events, e)
  BY <1>1, <1>2, <1>3, <1>5, StartsWith
<1> HIDE DEF e
<1>8. /\ ~overlapped /\ ~AtWork /\ automatic' = 0
      /\ m \in Message /\ m.id = clock /\ m.kind = "user" /\ ~IsAnswer(m)
      /\ e \in EventType /\ e.type = "message" /\ e.message = m
      /\ run' = "live" /\ owner' = p /\ messages' = Append(messages, m)
      /\ events = <<>> /\ events' = Append(events, e)
      /\ phase' = [phase EXCEPT ![p] = "running"]
  BY <1>1, <1>3, <1>4, <1>5, <1>6, <1>7
<1> QED
  BY <1>8 DEF e, m

LEMMA OrderlySubmit ==
    ASSUME Sound, Connected, Orderly, NEW p \in Prompts, Submit(p), ~overlapped'
    PROVE  OneAtATime' /\ EventsInOrder' /\ ~overlapped
<1>1. UNCHANGED <<lastAssistant, handler, timers, jobs, connected>>
  BY DEF Submit, retrying, compacting
<1>2. CASE run = "none"
  <2> DEFINE m == Said(clock, "user")
             e == Event("message", m)
  <2>1. /\ ~overlapped /\ ~AtWork
        /\ ~IsAnswer(m) /\ e \in EventType /\ e.type = "message" /\ e.message = m
        /\ events = <<>> /\ events' = Append(events, e)
    BY <1>2, SubmitStarts
  <2> HIDE DEF e, m
  <2>2. Len(events) = 0 /\ events \in Events
    BY <2>1, EventsType, NoneLeft
  <2>3. Len(events') = 1 /\ events'[1] = e
    BY <2>1, <2>2, More
  <2>4. \A k \in 1 .. 1 : ~EndAt(k)' /\ ~AnsweredAt(k)'
    BY <2>1, <2>3 DEF EndAt, AnsweredAt, Terminal
  <2>5. lastAssistant = NoMessage \/ ~Terminal(lastAssistant)
    BY <2>1 DEF Orderly, EventsInOrder
  <2>6. EventsInOrder'
    BY <1>1, <2>3, <2>4, <2>5 DEF EventsInOrder
  <2>7. /\ handler = "ready" /\ timers = 0 /\ \A c \in Compactors : jobs[c] = NoJob
    BY <2>1, NotAtWork
  <2>8. OneAtATime'
    BY <1>1, <2>7 DEF OneAtATime
  <2> QED
    BY <2>1, <2>6, <2>8
<1>3. CASE run # "none"
  <2>1. UNCHANGED <<run, events, overlapped>>
    BY <1>3 DEF Submit
  <2> QED
    BY <1>1, <2>1, OrderlyUnchanged
<1> QED
  BY <1>2, <1>3

(* The job of c ends while it is alone: nothing is under way any more but, *)
(* perhaps, a timeout.                                                     *)
LEMMA OrderlyJobEnds ==
    ASSUME Sound, OneAtATime, EventsInOrder, NEW c \in Compactors,
           jobs[c].stage = "summarizing" \/ run = "none", jobs[c] # NoJob,
           jobs' = [jobs EXCEPT ![c] = NoJob],
           timers' \in {timers, timers + 1},
           UNCHANGED <<run, events, handler, lastAssistant>>
    PROVE  /\ OneAtATime' /\ EventsInOrder' /\ JobIsAlone(c) /\ run = "none"
           /\ \A d \in Compactors : jobs'[d] = NoJob
<1>1. JobIsAlone(c)
  BY DEF OneAtATime
<1>2. run = "none"
  BY <1>1 DEF JobIsAlone
<1>3. \A d \in Compactors : jobs'[d] = NoJob
  BY <1>1 DEF JobIsAlone, Sound, TypeOK
<1>4. OneAtATime'
  BY <1>1, <1>2, <1>3 DEF OneAtATime, JobIsAlone, Idle
<1>5. EventsInOrder'
  BY <1>1, NothingInOrder DEF EventsInOrder, JobIsAlone
<1> QED
  BY <1>1, <1>2, <1>3, <1>4, <1>5

LEMMA OrderlyCompact ==
    ASSUME Sound, Connected, Orderly, NEW c \in Manual, Compact(c), ~overlapped'
    PROVE  OneAtATime' /\ EventsInOrder' /\ ~overlapped /\ ~AtWork
<1>1. ~overlapped /\ ~AtWork
  BY DEF Compact
<1>2. /\ events = <<>> /\ handler = "ready" /\ timers = 0
      /\ \A d \in Compactors : jobs[d] = NoJob
  BY <1>1, NotAtWork
<1>3. /\ jobs' = [jobs EXCEPT ![c] = Aborting] /\ connected' = FALSE
      /\ handler' = "ready" /\ UNCHANGED <<events, timers, lastAssistant>>
  BY <1>2 DEF Compact, CancelRetry
<1>4. /\ jobs'[c] = Aborting /\ \A d \in Compactors : d # c => jobs'[d] = NoJob
      /\ Aborting.stage = "aborting" /\ Aborting.retry = FALSE
  BY <1>2, <1>3, CompactorsAre DEF Sound, TypeOK, Aborting
<1>5. JobIsAlone(c)'
  BY <1>2, <1>3, <1>4 DEF JobIsAlone
<1>6. OneAtATime'
  BY <1>2, <1>3, <1>4, <1>5 DEF OneAtATime
<1>7. EventsInOrder'
  BY <1>1, <1>2, <1>3, NothingInOrder DEF Orderly, EventsInOrder
<1> QED
  BY <1>1, <1>6, <1>7

LEMMA OrderlyCompactWhenIdle ==
    ASSUME Sound, OneAtATime, EventsInOrder, NEW c \in Manual, CompactWhenIdle(c)
    PROVE  OneAtATime' /\ EventsInOrder'
<1>1. /\ jobs[c].stage = "aborting" /\ run = "none" /\ jobs[c] # NoJob /\ c \in Compactors
      /\ UNCHANGED <<run, timers, events, handler, lastAssistant>>
  BY CompactorsAre DEF CompactWhenIdle, retrying, NoJob
<1>2. CASE ~MayPrepare
  <2>1. jobs' = [jobs EXCEPT ![c] = NoJob]
    BY <1>2 DEF CompactWhenIdle, EndJob
  <2> QED
    BY <1>1, <2>1, OrderlyJobEnds
<1>3. CASE MayPrepare
  <2>1. PICK k \in Cuts : jobs' = [jobs EXCEPT ![c] = Summarizing(k, FALSE)]
    BY <1>3 DEF CompactWhenIdle
  <2>2. connected' = connected
    BY <1>3 DEF CompactWhenIdle
  <2>3. JobIsAlone(c)
    BY <1>1 DEF OneAtATime
  <2>4. /\ jobs'[c] = Summarizing(k, FALSE) /\ \A d \in Compactors : d # c => jobs'[d] = jobs[d]
        /\ Summarizing(k, FALSE).stage = "summarizing" /\ Summarizing(k, FALSE).retry = FALSE
    BY <1>1, <2>1 DEF Sound, TypeOK, Summarizing
  <2>5. JobIsAlone(c)' /\ \A d \in Compactors : jobs'[d] # NoJob => d = c
    BY <1>1, <2>2, <2>3, <2>4 DEF JobIsAlone
  <2>6. OneAtATime'
    BY <1>1, <2>3, <2>5 DEF OneAtATime, JobIsAlone
  <2>7. EventsInOrder'
    BY <1>1, <2>3, NothingInOrder DEF EventsInOrder, JobIsAlone
  <2> QED
    BY <2>6, <2>7
<1> QED
  BY <1>2, <1>3

(* Steps that change none of it: who waits, and who aborts. *)
LEMMA OrderlyAborts ==
    ASSUME Sound, Orderly, ~overlapped', Abort \/ AbortRetry \/ AbortCompaction
    PROVE  OneAtATime' /\ EventsInOrder'
<1>1. UNCHANGED <<timers, events, jobs, connected, lastAssistant, overlapped>>
  BY DEF Abort, AbortRetry, AbortCompaction, compacting, history
<1>2. (run' = "none" <=> run = "none") /\ (handler' = "ready" <=> handler = "ready")
  BY DEF Abort, AbortRetry, AbortCompaction, AbortRun, CancelRetry, retrying
<1> QED
  BY <1>1, <1>2, OrderlyUnchanged

(* Who prompts or compacts at work has done so for good. *)
LEMMA OverlapsOnce ==
    ASSUME [Next]_vars, ~overlapped'
    PROVE  ~overlapped
BY DEF Next, vars, history, Answer, Break, TimerFires, ProcessMessage, IgnoreEnd, Backoff, Exhausted,
   EndWithoutRetry, ProcessingEnd, BackoffEnds, BackoffCancelled, Prompt, Submit, WaitForRetry,
   Compacted, CompactionFails, Compact, CompactWhenIdle, Abort, AbortRetry, AbortCompaction

LEMMA OrderlyNext == Sound /\ Connected /\ Orderly /\ [Next]_vars => Orderly'
<1> SUFFICES ASSUME Sound, Connected, Orderly, [Next]_vars, ~overlapped'
             PROVE  OneAtATime' /\ EventsInOrder'
  BY DEF Orderly
<1> DEFINE Goal == OneAtATime' /\ EventsInOrder'
<1>1. ~overlapped /\ OneAtATime /\ EventsInOrder
  BY OverlapsOnce DEF Orderly
<1>2. ASSUME NEW kind \in Answers, Answer(kind) \/ Break(kind) PROVE Goal
  BY <1>1, <1>2, OrderlyAnswer
<1>3. CASE TimerFires
  BY <1>1, <1>3, OrderlyTimerFires
<1>4. CASE ProcessMessage
  BY <1>1, <1>4, OrderlyProcessMessage
<1>5. CASE IgnoreEnd \/ Backoff \/ Exhausted \/ EndWithoutRetry \/ BackoffCancelled
  BY <1>1, <1>5, OrderlyEndings
<1>6. CASE BackoffEnds
  BY <1>1, <1>6, OrderlyBackoffEnds
<1>7. ASSUME NEW p \in Prompts, WaitForRetry(p) PROVE Goal
  BY <1>1, <1>7, OrderlyUnchanged DEF WaitForRetry, retrying, compacting
<1>8. ASSUME NEW c \in Compactors, Compacted(c) \/ CompactionFails(c) PROVE Goal
  <2>1. /\ jobs[c].stage = "summarizing" /\ jobs[c] # NoJob
        /\ jobs' = [jobs EXCEPT ![c] = NoJob]
        /\ timers' \in {timers, timers + 1}
        /\ UNCHANGED <<run, events, handler, lastAssistant>>
    BY <1>8 DEF Compacted, CompactionFails, EndJob, NoJob, retrying
  <2> QED
    BY <1>1, <2>1, OrderlyJobEnds
<1>9. ASSUME NEW c \in Manual, Compact(c) \/ CompactWhenIdle(c) PROVE Goal
  BY <1>1, <1>9, OrderlyCompact, OrderlyCompactWhenIdle
<1>10. ASSUME NEW p \in Prompts, Prompt(p) \/ Submit(p) PROVE Goal
  BY <1>10, OrderlyPrompt, OrderlySubmit
<1>11. CASE Abort \/ AbortRetry \/ AbortCompaction
  BY <1>11, OrderlyAborts
<1>12. CASE UNCHANGED vars
  BY <1>1, <1>12, OrderlyUnchanged DEF vars, retrying, compacting
<1> QED
  BY <1>2, <1>3, <1>4, <1>5, <1>6, <1>7, <1>8, <1>9, <1>10, <1>11, <1>12 DEF Next

LEMMA OrderlyInit == Init => Orderly
BY DEF Init, Orderly, OneAtATime, EventsInOrder

-----------------------------------------------------------------------------
(* Recovery ends.  What runs again by itself has been counted: in the      *)
(* attempts when it is a retry, and by the mark of the recovery when it    *)
(* follows an overflow - until the attempts are forgotten, when nothing is *)
(* left that would run again.                                              *)

Count(b) == IF b THEN 1 ELSE 0

Recovering == \E c \in Compactors : jobs[c].retry

Spending ==
    automatic + timers + Count(handler = "backoff") + Count(Recovering)
        <= retryAttempt + Count(overflowAttempted)

Spent ==
    /\ run = "none" /\ timers = 0 /\ handler # "backoff" /\ events = <<>> /\ ~Recovering
    /\ automatic <= MaxRetries + 1

(* An answer that is still to be processed, no error, was not failed for. *)
Relieved ==
    \A k \in 1 .. Len(events) :
        events[k].type = "message" /\ ~IsError(events[k].message) => automatic = 0

Counted == ~overlapped => (Spending \/ Spent) /\ Relieved

LEMMA CountType ==
    /\ \A b \in BOOLEAN : Count(b) \in Nat /\ Count(b) <= 1
    /\ Count(TRUE) = 1 /\ Count(FALSE) = 0
BY DEF Count

LEMMA SpendingType ==
    ASSUME Sound
    PROVE  /\ automatic \in Nat /\ timers \in Nat /\ retryAttempt \in Nat
           /\ retryAttempt <= MaxRetries /\ MaxRetries \in Nat
           /\ Count(handler = "backoff") \in Nat /\ Count(Recovering) \in Nat
           /\ Count(overflowAttempted) \in Nat /\ Count(overflowAttempted) <= 1
BY AgentSessionBounds DEF Sound, TypeOK, Counters, Count

(* In either case the runs nobody prompted are few. *)
LEMMA CountedIsEnough ==
    ASSUME Sound, Spending \/ Spent
    PROVE  automatic <= MaxRetries + 1
BY SpendingType DEF Spending, Spent

(* No job of no kind retries. *)
LEMMA NoJobNoRetry ==
    ASSUME \A c \in Compactors : jobs[c] = NoJob
    PROVE  ~Recovering
BY DEF Recovering, NoJob

(* Steps that try nothing more. *)
LEMMA CountedLess ==
    ASSUME Sound, Spending \/ Spent, Recovering' => Recovering,
           handler' = "backoff" => handler = "backoff",
           run = "none" => run' = "none", events = <<>> => events' = <<>>,
           automatic' \in {automatic, 0}, UNCHANGED <<timers, retryAttempt, overflowAttempted>>
    PROVE  Spending' \/ Spent'
<1>2. /\ Count(handler' = "backoff") <= Count(handler = "backoff")
      /\ Count(Recovering') <= Count(Recovering)
      /\ Count(handler' = "backoff") \in Nat /\ Count(Recovering') \in Nat
  BY DEF Count
<1>3. automatic' <= automatic /\ automatic' \in Nat
  BY SpendingType
<1>4. CASE Spending
  <2>1. Spending'
    BY <1>2, <1>3, <1>4, SpendingType, SMTT(30) DEF Spending
  <2> QED
    BY <2>1
<1>5. CASE Spent
  <2>1. Spent'
    BY <1>3, <1>5, SpendingType DEF Spent
  <2> QED
    BY <2>1
<1> QED
  BY <1>4, <1>5

LEMMA RelievedUnchanged ==
    ASSUME Relieved, UNCHANGED <<events, automatic>> \/ events' = <<>> \/ automatic' = 0
    PROVE  Relieved'
BY DEF Relieved

LEMMA CountedAnswer ==
    ASSUME Sound, OneAtATime, Spending \/ Spent, Relieved,
           NEW kind \in Answers, Answer(kind) \/ Break(kind)
    PROVE  (Spending' \/ Spent') /\ Relieved'
<1> DEFINE m == Said(clock, kind)
           message == Event("message", m)
           end == Event("end", m)
<1>0. PICK n : n = Len(events)
  OBVIOUS
<1>1. events \in Events /\ n \in Nat /\ run # "none"
  BY <1>0, EventsType DEF Answer, Break
<1>2. m \in Message /\ m.kind = kind
  BY AgentSessionBounds, SaidType DEF Sound, Counters
<1>3. /\ message \in EventType /\ message.type = "message" /\ message.message = m
      /\ end \in EventType /\ end.type = "end"
  BY <1>2, EventTyped
<1> HIDE DEF message, end, m
<1>4. /\ UNCHANGED <<handler, timers, jobs, retryAttempt, overflowAttempted>>
      /\ automatic' \in {automatic, 0}
  BY DEF Answer, Break, compacting
<1>5. Spending
  BY <1>1 DEF Spent
<1>6. Spending'
  <2>1. Recovering' <=> Recovering
    BY <1>4 DEF Recovering
  <2>2. /\ Count(handler' = "backoff") = Count(handler = "backoff")
        /\ Count(Recovering') = Count(Recovering)
        /\ Count(overflowAttempted') = Count(overflowAttempted)
    BY <1>4, <2>1 DEF Count
  <2> QED
    BY <1>4, <1>5, <2>2, SpendingType DEF Spending
<1>7. Relieved'
  <2>1. CASE ~connected \/ automatic' = 0
    <3>1. ~connected => events' = events
      BY HearNothing DEF Answer, Break
    <3> QED
      BY <1>4, <2>1, <3>1, RelievedUnchanged
  <2>2. CASE connected /\ automatic' = automatic /\ Answer(kind) /\ kind \in Errors
    <3>1. Hear(<<message>>) \/ Hear(<<message, end>>)
      BY <2>2 DEF Answer, message, end, m
    <3>2. events' = Append(events, message) \/ events' = Append(Append(events, message), end)
      BY <1>1, <1>3, <2>2, <3>1, HearOne, HearTwo
    <3> DEFINE es == Append(events, message)
    <3>3. /\ es \in Events /\ Len(es) = n + 1 /\ es[n + 1] = message
          /\ \A k \in 1 .. n : es[k] = events[k]
      BY <1>0, <1>1, <1>3, More
    <3>4. /\ Len(Append(es, end)) = Len(es) + 1 /\ Append(es, end)[Len(es) + 1] = end
          /\ \A k \in 1 .. Len(es) : Append(es, end)[k] = es[k]
      BY <1>3, <3>3, More
    <3> HIDE DEF es
    <3>a. events' = es \/ events' = Append(es, end)
      BY <3>2 DEF es
    <3>5. /\ Len(events') \in {n + 1, n + 2} /\ events'[n + 1] = message
          /\ Len(events') = n + 2 => events'[n + 2] = end
          /\ \A k \in 1 .. n : events'[k] = events[k]
      <4>1. CASE events' = es
        BY <1>1, <3>3, <4>1
      <4>2. CASE events' = Append(es, end)
        <5>1. Len(events') = n + 2 /\ events'[n + 2] = end
          BY <1>1, <3>3, <3>4, <4>2
        <5>2. \A k \in 1 .. n + 1 : events'[k] = es[k]
          BY <1>1, <3>3, <3>4, <4>2
        <5> QED
          BY <1>1, <3>3, <5>1, <5>2
      <4> QED
        BY <3>a, <4>1, <4>2
    <3>6. \A k \in 1 .. Len(events') : k \in 1 .. n \/ k = n + 1 \/ (k = n + 2 /\ Len(events') = n + 2)
      BY <1>1, <3>5
    <3>7. IsError(m)
      BY <1>2, <2>2 DEF IsError
    <3> QED
      BY <1>0, <1>3, <2>2, <3>5, <3>6, <3>7 DEF Relieved
  <2>3. CASE connected /\ Break(kind)
    <3>1. Hear(<<end>>) /\ automatic' = automatic
      BY <2>3 DEF Break, end, m
    <3>2. events' = Append(events, end)
      BY <1>1, <1>3, <2>3, <3>1, HearOne
    <3>3. /\ Len(events') = n + 1 /\ events'[n + 1] = end
          /\ \A k \in 1 .. n : events'[k] = events[k]
      BY <1>0, <1>1, <1>3, <3>2, More
    <3>4. \A k \in 1 .. n + 1 : k \in 1 .. n \/ k = n + 1
      BY <1>1
    <3> QED
      BY <1>0, <1>3, <3>1, <3>3, <3>4 DEF Relieved
  <2> QED
    BY <1>4, <2>1, <2>2, <2>3 DEF Answer
<1> QED
  BY <1>6, <1>7

LEMMA CountedTimerFires ==
    ASSUME Sound, OneAtATime, EventsInOrder, Spending \/ Spent, Relieved, TimerFires
    PROVE  (Spending' \/ Spent') /\ Relieved'
<1>1. events' = <<>>
  BY OrderlyTimerFires
<1>2. timers' = timers - 1 /\ timers > 0 /\ automatic' \in {automatic, automatic + 1}
      /\ UNCHANGED <<handler, jobs, retryAttempt, overflowAttempted>>
  BY DEF TimerFires, retrying, compacting
<1>3. Spending
  BY <1>2, SpendingType DEF Spent
<1>4. Spending'
  <2>1. Recovering' <=> Recovering
    BY <1>2 DEF Recovering
  <2>2. /\ Count(handler' = "backoff") = Count(handler = "backoff")
        /\ Count(Recovering') = Count(Recovering)
        /\ Count(overflowAttempted') = Count(overflowAttempted)
    BY <1>2, <2>1 DEF Count
  <2> QED
    BY <1>2, <1>3, <2>2, SpendingType DEF Spending
<1> QED
  BY <1>1, <1>4, RelievedUnchanged

LEMMA CountedProcessMessage ==
    ASSUME Sound, OneAtATime, Spending \/ Spent, Relieved, ProcessMessage
    PROVE  (Spending' \/ Spent') /\ Relieved'
<1> DEFINE m == Head(events).message
<1>0. PICK n : n = Len(events)
  OBVIOUS
<1>1. events \in Events /\ events # <<>> /\ Head(events).type = "message" /\ events' = Tail(events)
  BY EventsType DEF ProcessMessage
<1>2. /\ Head(events) = events[1] /\ n \in Nat \ {0} /\ Len(events') = n - 1
      /\ \A k \in 1 .. n - 1 : events'[k] = events[k + 1]
  BY <1>0, <1>1, Less
<1>3. /\ UNCHANGED <<run, handler, timers, jobs, automatic>>
      /\ overflowAttempted' = (overflowAttempted /\ IsError(m))
      /\ retryAttempt' = IF IsAnswer(m) /\ ~IsError(m) THEN 0 ELSE retryAttempt
  BY DEF ProcessMessage, compacting, history
<1>4. /\ timers = 0 /\ handler = "ready" /\ ~Recovering
  BY <1>1, EventsAlone, NoJobNoRetry
<1>5. Spending
  BY <1>1 DEF Spent
<1>6. Spending'
  <2>1. CASE IsError(m)
    <3>1. retryAttempt' = retryAttempt /\ (overflowAttempted' <=> overflowAttempted)
      BY <1>3, <2>1
    <3> QED
      BY <1>3, <1>5, <3>1 DEF Spending, Recovering, Count
  <2>2. CASE ~IsError(m)
    <3>1. 1 \in 1 .. n /\ events[1].type = "message" /\ events[1].message = m
      BY <1>1, <1>2
    <3>2. automatic = 0
      BY <1>0, <2>2, <3>1 DEF Relieved
    <3>3. automatic' = 0 /\ timers' = 0 /\ handler' # "backoff" /\ ~Recovering'
      BY <1>3, <1>4, <3>2 DEF Recovering
    <3>4. retryAttempt' \in Nat /\ Count(overflowAttempted)' \in Nat
      BY <1>3, SpendingType DEF Count
    <3>5. Count(handler' = "backoff") = 0 /\ Count(Recovering') = 0
      BY <3>3 DEF Count
    <3> QED
      BY <3>3, <3>4, <3>5 DEF Spending
  <2> QED
    BY <2>1, <2>2
<1>7. Relieved'
  <2>1. \A k \in 1 .. n - 1 : k + 1 \in 1 .. n
    BY <1>2
  <2> QED
    BY <1>0, <1>2, <1>3, <2>1 DEF Relieved
<1> QED
  BY <1>6, <1>7

(* What the check of the context starts again, it marks. *)
LEMMA CountedEndings ==
    ASSUME Sound, OneAtATime, EventsInOrder, Spending \/ Spent, Relieved,
           IgnoreEnd \/ Backoff \/ Exhausted \/ EndWithoutRetry \/ BackoffCancelled
    PROVE  (Spending' \/ Spent') /\ Relieved'
<1>1. /\ events' = <<>> /\ run' = "none" /\ timers' = 0 /\ run = "none" /\ timers = 0
      /\ \A c \in Compactors : jobs[c] = NoJob
  BY OrderlyEndings
<1>2. Relieved' /\ ~Recovering
  BY <1>1, RelievedUnchanged, NoJobNoRetry
<1>3. UNCHANGED automatic
  BY DEF IgnoreEnd, Backoff, Exhausted, EndWithoutRetry, BackoffCancelled, ProcessingEnd, history
<1>4. CASE IgnoreEnd
  <2>1. UNCHANGED <<handler, jobs, retryAttempt, overflowAttempted>>
    BY <1>4 DEF IgnoreEnd, retrying, compacting
  <2>2. Recovering' => Recovering
    BY <2>1 DEF Recovering
  <2> QED
    BY <1>1, <1>2, <1>3, <2>1, <2>2, CountedLess
<1>5. CASE Backoff
  <2>1. /\ events # <<>> /\ handler = "ready" /\ handler' = "backoff"
        /\ retryAttempt' = retryAttempt + 1 /\ UNCHANGED <<jobs, overflowAttempted>>
    BY <1>5 DEF Backoff, ProcessingEnd, Free, compacting
  <2>2. Spending
    BY <2>1 DEF Spent
  <2>3. Spending'
    BY <1>1, <1>3, <2>1, <2>2, SpendingType DEF Spending, Recovering, Count
  <2> QED
    BY <1>2, <2>3
<1>6. automatic <= MaxRetries + 1
  BY CountedIsEnough
<1>7. CASE Exhausted \/ BackoffCancelled
  <2>1. handler' = "ready"
    BY <1>7 DEF Exhausted, BackoffCancelled, ProcessingEnd, Free
  <2>2. \E m : CheckCompaction("queue", m, TRUE, messages) /\ ~Overflowed(m)
    BY <1>7 DEF Exhausted, BackoffCancelled, Sound, Overflowed
  <2>3. jobs' = jobs \/ \E k \in Cuts : jobs' = [jobs EXCEPT !["queue"] = Summarizing(k, FALSE)]
    BY <2>2, CompactorsAre, CheckCompactionDoes
  <2>4. ~Recovering'
    BY <1>1, <1>2, <2>3, CompactorsAre DEF Recovering, Summarizing, NoJob, Sound, TypeOK
  <2>5. Spent'
    BY <1>1, <1>3, <1>6, <2>1, <2>4 DEF Spent
  <2> QED
    BY <1>2, <2>5
<1>8. CASE EndWithoutRetry
  <2>1. /\ events # <<>> /\ handler = "ready" /\ handler' = "ready"
        /\ retryAttempt' = retryAttempt
        /\ CheckCompaction("queue", lastAssistant, TRUE, messages)
    BY <1>8 DEF EndWithoutRetry, ProcessingEnd, Free
  <2>2. Spending
    BY <2>1 DEF Spent
  <2>3. \/ overflowAttempted' = overflowAttempted \/ overflowAttempted' = TRUE
    BY <2>1, CompactorsAre, CheckCompactionDoes
  <2>4. Recovering' => ~overflowAttempted /\ overflowAttempted' = TRUE
    <3>1. CASE jobs' = jobs
      BY <1>2, <3>1 DEF Recovering
    <3>2. ASSUME NEW k \in Cuts, NEW retry \in BOOLEAN,
                 jobs' = [jobs EXCEPT !["queue"] = Summarizing(k, retry)],
                 retry => ~overflowAttempted /\ overflowAttempted' = TRUE
          PROVE  Recovering' => ~overflowAttempted /\ overflowAttempted' = TRUE
      BY <1>1, <3>2, CompactorsAre DEF Recovering, Summarizing, NoJob, Sound, TypeOK
    <3> QED
      BY <2>1, <3>1, <3>2, CompactorsAre, CheckCompactionDoes
  <2>5. /\ Count(Recovering') <= Count(overflowAttempted') - Count(overflowAttempted)
        /\ Count(Recovering') \in Nat /\ Count(overflowAttempted') \in Nat
    BY <2>3, <2>4 DEF Count, Sound, TypeOK
  <2>6. Spending'
    BY <1>1, <1>2, <1>3, <2>1, <2>2, <2>5, SpendingType DEF Spending, Count
  <2> QED
    BY <1>2, <2>6
<1> QED
  BY <1>4, <1>5, <1>7, <1>8

(* A prompt begins anew: nothing that nobody prompted is left. *)
LEMMA CountedPrompt ==
    ASSUME Sound, Connected, NEW p \in Prompts, Prompt(p), ~overlapped'
    PROVE  (Spending' \/ Spent') /\ Relieved'
<1>1. /\ handler = "ready" /\ timers = 0 /\ \A c \in Compactors : jobs[c] = NoJob
  BY NotAtWork DEF Prompt
<1>2. automatic' = 0 /\ UNCHANGED <<handler, timers, retryAttempt>>
  BY DEF Prompt, retrying
<1>3. \/ UNCHANGED <<jobs, overflowAttempted>>
      \/ \E k : CheckCompaction(p, messages[k], FALSE, messages)
  BY DEF Prompt, compacting
<1>4. Recovering' => overflowAttempted' = TRUE
  <2>1. CASE UNCHANGED jobs
    BY <1>1, <2>1 DEF Recovering, NoJob
  <2>2. CASE \E k : CheckCompaction(p, messages[k], FALSE, messages)
    <3>1. jobs' = jobs \/ \E k \in Cuts, retry \in BOOLEAN :
              /\ jobs' = [jobs EXCEPT ![p] = Summarizing(k, retry)]
              /\ retry => overflowAttempted' = TRUE
      BY <2>2, CompactorsAre, CheckCompactionDoes
    <3> QED
      BY <1>1, <2>1, <3>1, CompactorsAre, SMTT(30) DEF Recovering, Summarizing, NoJob, Sound, TypeOK
  <2> QED
    BY <1>3, <2>1, <2>2
<1>5. Count(Recovering') <= Count(overflowAttempted') /\ Count(Recovering') \in Nat
      /\ Count(overflowAttempted') \in Nat
  BY <1>4 DEF Count
<1>6. Count(handler' = "backoff") = 0
  BY <1>1, <1>2 DEF Count
<1>7. Spending'
  <2>1. timers' = 0 /\ retryAttempt' \in Nat
    BY <1>1, <1>2, SpendingType
  <2> QED
    BY <1>2, <1>5, <1>6, <2>1 DEF Spending
<1> QED
  BY <1>2, <1>7 DEF Relieved

LEMMA CountedSubmit ==
    ASSUME Sound, Connected, Counted, NEW p \in Prompts, Submit(p), ~overlapped'
    PROVE  (Spending' \/ Spent') /\ Relieved'
<1>1. UNCHANGED <<handler, timers, jobs, retryAttempt, overflowAttempted>>
  BY DEF Submit, retrying, compacting
<1>2. CASE run = "none"
  <2>1. automatic' = 0 /\ ~AtWork
    BY <1>2 DEF Submit
  <2>2. /\ handler = "ready" /\ timers = 0 /\ \A c \in Compactors : jobs[c] = NoJob
    BY <2>1, NotAtWork
  <2>3. ~Recovering'
    BY <1>1, <2>2 DEF Recovering, NoJob
  <2>4. Count(handler' = "backoff") = 0 /\ Count(Recovering') = 0 /\ Count(overflowAttempted') \in Nat
    BY <1>1, <2>2, <2>3 DEF Count
  <2>5. Spending'
    <3>1. timers' = 0 /\ retryAttempt' \in Nat
      BY <1>1, <2>2, SpendingType
    <3> QED
      BY <2>1, <2>4, <3>1 DEF Spending
  <2> QED
    BY <2>1, <2>5 DEF Relieved
<1>3. CASE run # "none"
  <2>1. UNCHANGED <<run, events, automatic, overlapped>>
    BY <1>3 DEF Submit
  <2>2. (Spending \/ Spent) /\ Relieved
    BY <2>1 DEF Counted
  <2>3. Recovering' => Recovering
    BY <1>1 DEF Recovering
  <2>4. Spending' \/ Spent'
    BY <1>1, <2>1, <2>2, <2>3, CountedLess
  <2> QED
    BY <2>1, <2>2, <2>4, RelievedUnchanged
<1> QED
  BY <1>2, <1>3

LEMMA CountedBackoffEnds ==
    ASSUME Sound, OneAtATime, Spending \/ Spent, Relieved, BackoffEnds
    PROVE  (Spending' \/ Spent') /\ Relieved'
<1>1. /\ handler = "backoff" /\ handler' = "ready" /\ timers' = timers + 1
      /\ UNCHANGED <<events, jobs, automatic, retryAttempt, overflowAttempted>>
  BY DEF BackoffEnds, compacting, history
<1>2. Spending
  BY <1>1 DEF Spent
<1>3. Recovering' <=> Recovering
  BY <1>1 DEF Recovering
<1>4. /\ Count(handler = "backoff") = 1 /\ Count(handler' = "backoff") = 0
      /\ Count(Recovering') = Count(Recovering)
      /\ Count(overflowAttempted') = Count(overflowAttempted)
  BY <1>1, <1>3 DEF Count
<1>5. Spending'
  BY <1>1, <1>2, <1>4, SpendingType DEF Spending
<1> QED
  BY <1>1, <1>5, RelievedUnchanged

(* A recovery is spent when its summary is there or does not come. *)
LEMMA CountedJobEnds ==
    ASSUME Sound, OneAtATime, EventsInOrder, Spending \/ Spent, Relieved, NEW c \in Compactors,
           jobs[c].stage = "summarizing", jobs[c] # NoJob,
           jobs' = [jobs EXCEPT ![c] = NoJob],
           timers' = timers \/ (timers' = timers + 1 /\ jobs[c].retry),
           UNCHANGED <<run, events, handler, lastAssistant, automatic, retryAttempt,
                       overflowAttempted>>
    PROVE  (Spending' \/ Spent') /\ Relieved'
<1>1. \A d \in Compactors : jobs'[d] = NoJob
  BY OrderlyJobEnds
<1>2. ~Recovering'
  BY <1>1 DEF Recovering, NoJob
<1>3. CASE timers' = timers
  <2>1. Spending' \/ Spent'
    BY <1>2, <1>3, CountedLess
  <2> QED
    BY <2>1, RelievedUnchanged
<1>4. CASE timers' = timers + 1 /\ jobs[c].retry
  <2>1. Recovering
    BY <1>4 DEF Recovering
  <2>2. Spending
    BY <2>1 DEF Spent
  <2>3. /\ Count(handler' = "backoff") = Count(handler = "backoff")
        /\ Count(Recovering) = 1 /\ Count(Recovering') = 0
        /\ Count(overflowAttempted') = Count(overflowAttempted)
    BY <1>2, <2>1 DEF Count
  <2>4. Spending'
    BY <1>4, <2>2, <2>3, SpendingType DEF Spending
  <2> QED
    BY <2>4, RelievedUnchanged
<1> QED
  BY <1>3, <1>4

LEMMA CountedByHand ==
    ASSUME Sound, Counted, ~overlapped', NEW c \in Manual, Compact(c) \/ CompactWhenIdle(c),
           OneAtATime, EventsInOrder
    PROVE  (Spending' \/ Spent') /\ Relieved'
<1>1. (Spending \/ Spent) /\ Relieved
  BY DEF Counted, Compact, CompactWhenIdle, history
<1>2. UNCHANGED <<events, timers, automatic, retryAttempt, overflowAttempted>>
  BY DEF Compact, CompactWhenIdle, CancelRetry, retrying, history
<1>3. (handler' = "backoff" => handler = "backoff") /\ (run = "none" => run' = "none")
  BY DEF Compact, CompactWhenIdle, CancelRetry, AbortRun, retrying
<1>4. Recovering' => Recovering
  <2>1. \/ jobs' = [jobs EXCEPT ![c] = NoJob] \/ jobs' = [jobs EXCEPT ![c] = Aborting]
        \/ \E k \in Cuts : jobs' = [jobs EXCEPT ![c] = Summarizing(k, FALSE)]
    BY DEF Compact, CompactWhenIdle, EndJob
  <2>2. /\ NoJob.retry = FALSE /\ Aborting.retry = FALSE
        /\ \A k : Summarizing(k, FALSE).retry = FALSE
    BY DEF NoJob, Aborting, Summarizing
  <2>3. \E job : jobs' = [jobs EXCEPT ![c] = job] /\ job.retry = FALSE
    BY <2>1, <2>2
  <2> QED
    BY <2>3, CompactorsAre DEF Recovering, Sound, TypeOK
<1>5. Spending' \/ Spent'
  BY <1>1, <1>2, <1>3, <1>4, CountedLess
<1> QED
  BY <1>1, <1>2, <1>5, RelievedUnchanged

LEMMA CountedInit == Init => Counted
BY AgentSessionBounds DEF Init, Counted, Spending, Spent, Relieved, Recovering, Count, NoJob

LEMMA CountedNext == Sound /\ Connected /\ Orderly /\ Counted /\ [Next]_vars => Counted'
<1> SUFFICES ASSUME Sound, Connected, Orderly, Counted, [Next]_vars, ~overlapped'
             PROVE  (Spending' \/ Spent') /\ Relieved'
  BY DEF Counted
<1> DEFINE Goal == (Spending' \/ Spent') /\ Relieved'
<1>1. ~overlapped
  BY OverlapsOnce
<1>2. OneAtATime /\ EventsInOrder /\ (Spending \/ Spent) /\ Relieved
  BY <1>1 DEF Orderly, Counted
<1>3. ASSUME NEW kind \in Answers, Answer(kind) \/ Break(kind) PROVE Goal
  BY <1>2, <1>3, CountedAnswer
<1>4. CASE TimerFires
  BY <1>2, <1>4, CountedTimerFires
<1>5. CASE ProcessMessage
  BY <1>2, <1>5, CountedProcessMessage
<1>6. CASE IgnoreEnd \/ Backoff \/ Exhausted \/ EndWithoutRetry \/ BackoffCancelled
  BY <1>2, <1>6, CountedEndings
<1>7. CASE BackoffEnds
  BY <1>2, <1>7, CountedBackoffEnds
<1>8. ASSUME NEW p \in Prompts, Prompt(p) \/ Submit(p) PROVE Goal
  BY <1>8, CountedPrompt, CountedSubmit
<1>9. ASSUME NEW c \in Compactors, Compacted(c) \/ CompactionFails(c) PROVE Goal
  <2>1. /\ jobs[c].stage = "summarizing" /\ jobs[c] # NoJob
        /\ jobs' = [jobs EXCEPT ![c] = NoJob]
        /\ timers' = timers \/ (timers' = timers + 1 /\ jobs[c].retry)
        /\ UNCHANGED <<run, events, handler, lastAssistant, automatic, retryAttempt,
                       overflowAttempted>>
    BY <1>9 DEF Compacted, CompactionFails, EndJob, NoJob, retrying, history
  <2> QED
    BY <1>2, <2>1, CountedJobEnds
<1>10. ASSUME NEW c \in Manual, Compact(c) \/ CompactWhenIdle(c) PROVE Goal
  BY <1>2, <1>10, CountedByHand
<1>11. CASE Abort \/ AbortRetry \/ AbortCompaction \/ UNCHANGED vars
            \/ \E p \in Prompts : WaitForRetry(p)
  <2>1. UNCHANGED <<events, timers, jobs, automatic, retryAttempt, overflowAttempted>>
    BY <1>11 DEF Abort, AbortRetry, AbortCompaction, WaitForRetry, CancelRetry, vars, retrying,
       compacting, history
  <2>2. (handler' = "backoff" => handler = "backoff") /\ (run = "none" => run' = "none")
    BY <1>11 DEF Abort, AbortRetry, AbortCompaction, WaitForRetry, CancelRetry, AbortRun, vars,
       retrying
  <2>3. Recovering' => Recovering
    BY <2>1 DEF Recovering
  <2>4. Spending' \/ Spent'
    BY <1>2, <2>1, <2>2, <2>3, CountedLess
  <2> QED
    BY <1>2, <2>1, <2>4, RelievedUnchanged
<1> QED
  BY <1>3, <1>4, <1>5, <1>6, <1>7, <1>8, <1>9, <1>10, <1>11 DEF Next

(* A model that does nothing but fail is not asked forever: however        *)
(* retries, recoveries from overflows, compactions and aborts follow each  *)
(* other, they do not restart each other's count (_retryAttempt,           *)
(* _overflowRecoveryAttempted).                                            *)
THEOREM SessionRecoveryEnds == Spec => []RecoveryEnds
<1>1. Init => Sound /\ Listens /\ Orderly /\ Counted
  BY SoundInit, ListensInit, OrderlyInit, CountedInit
<1>2. Sound /\ Connected /\ Orderly /\ Counted => RecoveryEnds
  BY CountedIsEnough DEF Counted, RecoveryEnds
<1>3. Listens => Connected
  BY DEF Listens
<1> QED
  BY <1>1, <1>2, <1>3, SoundNext, ListensNext, OrderlyNext, CountedNext, PTL DEF Spec

-----------------------------------------------------------------------------
(* prompt() returns.  The promise it waits for is kept alive by something  *)
(* that is going to resolve it: a run, a sleep, a timeout that will find   *)
(* messages to continue from, or an end of a run that is still to be       *)
(* processed and follows the answer the session needs for that.            *)

Continuable(ms) == ms # <<>> /\ ~EndsInAnswer(ms)

EndPending == events # <<>> /\ EndAt(Len(events))

Answered ==
    IF Len(events) = 1 THEN lastAssistant # NoMessage ELSE AnsweredAt(Len(events) - 1)

Goes == run # "none" \/ handler # "ready" \/ timers > 0 \/ EndPending

Known ==
    /\ retryPromise => Goes
    /\ EndPending => Answered /\ Continuable(DropAnswer(messages))
    /\ handler = "backoff" \/ (timers > 0 /\ retryPromise) => Continuable(messages)
    /\ retryPromise => \A c \in Compactors : jobs[c] = NoJob

Going ==
    /\ run # "none" => Continuable(messages)
    /\ ~missed => Known

Waiters == (\E p \in Prompts : phase[p] = "waiting") => retryPromise

Promised == Waiters /\ (~overlapped => Going)

LEMMA PromisedIsEnough ==
    ASSUME Promised
    PROVE  PromptsReturn
BY DEF Promised, Waiters, Going, Known, Goes, EndPending, PromptsReturn, WaitsForRetryOnly, Quiet, AtWork

(* An answer that ends a run can be dropped again; behind others the run   *)
(* goes on.                                                                *)
LEMMA DropLast ==
    ASSUME NEW ms \in Seq(Message), NEW m \in Message, Terminal(m)
    PROVE  DropAnswer(Append(ms, m)) = ms
<1> DEFINE more == Append(ms, m)
<1>1. /\ Len(ms) \in Nat /\ more \in Seq(Message) /\ more # <<>> /\ Len(more) = Len(ms) + 1
      /\ more[Len(ms) + 1] = m /\ \A k \in 1 .. Len(ms) : more[k] = ms[k]
  BY LenProperties, AppendProperties
<1> HIDE DEF more
<1>2. EndsInAnswer(more)
  BY <1>1 DEF EndsInAnswer, LastOf, Terminal
<1>3. Len(more) - 1 = Len(ms)
  BY <1>1
<1>4. \A k \in 1 .. Len(ms) : more[k] \in Message
  BY <1>1, ElementOfSeq
<1> DEFINE front == SubSeq(more, 1, Len(ms))
<1>5. /\ front \in Seq(Message)
      /\ Len(front) = IF 1 <= Len(ms) THEN Len(ms) - 1 + 1 ELSE 0
      /\ \A k \in 1 .. Len(ms) - 1 + 1 : front[k] = more[1 + k - 1]
  BY <1>1, <1>4, SubSeqProperties
<1> HIDE DEF front
<1>6. Len(front) = Len(ms) /\ \A k \in 1 .. Len(ms) : front[k] = ms[k]
  <2>1. Len(ms) - 1 + 1 = Len(ms) /\ \A k \in 1 .. Len(ms) : 1 + k - 1 = k
    BY <1>1
  <2> QED
    BY <1>1, <1>5, <2>1
<1>7. front = ms
  BY <1>5, <1>6, SeqEqual
<1>8. DropAnswer(more) = SubSeq(more, 1, Len(more) - 1)
  BY <1>2 DEF DropAnswer
<1> QED
  BY <1>3, <1>7, <1>8 DEF front, more

LEMMA OthersContinue ==
    ASSUME NEW ms \in Seq(Message), NEW m \in Message, ~Terminal(m)
    PROVE  Continuable(Append(ms, m))
<1>1. /\ Append(ms, m) # <<>> /\ Len(Append(ms, m)) = Len(ms) + 1
      /\ Append(ms, m)[Len(ms) + 1] = m
  BY AppendProperties
<1> QED
  BY <1>1 DEF Continuable, EndsInAnswer, LastOf, Terminal

(* Where nothing runs, sleeps or is left to process, there is no promise,  *)
(* or the end of the run was missed.                                       *)
LEMMA GoingStill ==
    ASSUME events' = <<>>, run' = "none", handler' # "backoff", ~retryPromise' \/ missed',
           missed' \in BOOLEAN
    PROVE  Going'
BY DEF Going, Known, Goes, EndPending

LEMMA GoingUnchanged ==
    ASSUME Going, UNCHANGED <<messages, events, lastAssistant, timers, jobs, missed>>,
           run' = "none" <=> run = "none", handler' = "ready" <=> handler = "ready",
           handler' = "backoff" => handler = "backoff", retryPromise' => retryPromise
    PROVE  Going'
BY DEF Going, Known, Goes, EndPending, Answered, EndAt, AnsweredAt, Terminal

(* The promise is not made while something is going to compact. *)
LEMMA NothingPromised ==
    ASSUME Going, run = "none", handler = "ready", timers = 0, events = <<>>
    PROVE  ~retryPromise \/ missed
BY DEF Going, Known, Goes, EndPending

LEMMA GoingAnswer ==
    ASSUME Sound, OneAtATime, EventsInOrder, Going, NEW kind \in Answers, Answer(kind)
    PROVE  Going'
<1> DEFINE m == Said(clock, kind)
           message == Event("message", m)
           end == Event("end", m)
<1>0. PICK n : n = Len(events)
  OBVIOUS
<1>1. events \in Events /\ n \in Nat /\ run # "none" /\ messages \in Seq(Message)
  BY <1>0, EventsType DEF Answer, Sound, TypeOK
<1>2. m \in Message /\ m.kind = kind /\ IsAnswer(m)
  BY AgentSessionBounds, SaidType DEF Sound, Counters, IsAnswer
<1>3. /\ message \in EventType /\ message.type = "message" /\ message.message = m
      /\ end \in EventType /\ end.type = "end"
  BY <1>2, EventTyped
<1>4. /\ messages' = Append(messages, m) /\ retryPromise' = (retryPromise \/ (connected /\ kind = "error"))
      /\ UNCHANGED <<handler, timers, jobs, lastAssistant>>
  BY DEF Answer, compacting
<1>5. timers = 0 /\ handler = "ready"
      /\ \A c \in Compactors : jobs[c] # NoJob => c \in Manual /\ events = <<>> /\ ~connected
  BY <1>1, RunAlone
<1>6. ~EndPending
  BY <1>0, <1>1, NoneLeft DEF EndPending, EventsInOrder
<1>7. CASE kind = "more"
  <2>1. UNCHANGED <<run, missed, retryPromise>>
    BY <1>4, <1>7 DEF Answer, Sound, TypeOK
  <2>2. Continuable(messages')
    BY <1>1, <1>2, <1>4, <1>7, OthersContinue DEF Terminal
  <2>3. ~EndPending'
    <3>1. Hear(<<message>>)
      BY <1>7 DEF Answer
    <3> HIDE DEF message, m
    <3>2. CASE connected
      <4>1. events' = Append(events, message)
        BY <1>1, <1>3, <3>1, <3>2, HearOne
      <4>2. Len(events') = n + 1 /\ events'[n + 1] = message
        BY <1>0, <1>1, <1>3, <4>1, More
      <4> QED
        BY <1>3, <4>2 DEF EndPending, EndAt
    <3>3. CASE ~connected
      <4>1. events' = events
        BY <3>1, <3>3, HearNothing
      <4> QED
        BY <1>6, <4>1 DEF EndPending, EndAt
    <3> QED
      BY <3>2, <3>3
  <2> QED
    BY <1>1, <1>4, <1>5, <2>1, <2>2, <2>3 DEF Going, Known, Goes
<1>8. CASE kind # "more" /\ ~connected
  <2>1. run' = "none" /\ missed' = TRUE
    BY <1>8 DEF Answer, EndRun, Sound, TypeOK
  <2> QED
    BY <2>1 DEF Going
<1>9. CASE kind # "more" /\ connected
  <2>1. Hear(<<message, end>>) /\ run' = "none"
    BY <1>9 DEF Answer, EndRun
  <2>2. Terminal(m) /\ Continuable(messages)
    BY <1>1, <1>2, <1>9 DEF Terminal, Going
  <2>3. Continuable(DropAnswer(messages'))
    BY <1>1, <1>2, <1>4, <2>2, DropLast
  <2> HIDE DEF message, end, m
  <2>4. events' = Append(Append(events, message), end)
    BY <1>1, <1>3, <1>9, <2>1, HearTwo
  <2> DEFINE es == Append(events, message)
  <2>5. /\ es \in Events /\ Len(es) = n + 1 /\ es[n + 1] = message
    BY <1>0, <1>1, <1>3, More
  <2> HIDE DEF es
  <2>6. /\ Len(events') = Len(es) + 1 /\ events'[Len(es) + 1] = end /\ events' # <<>>
        /\ \A k \in 1 .. Len(es) : events'[k] = es[k]
    BY <1>3, <2>4, <2>5, More DEF es
  <2>7. /\ Len(events') = n + 2 /\ events'[n + 2] = end /\ events'[n + 1] = message
        /\ Len(events') # 1 /\ Len(events') - 1 = n + 1
    BY <1>1, <2>5, <2>6
  <2>8. EndPending' /\ Answered'
    BY <1>3, <2>2, <2>6, <2>7 DEF EndPending, Answered, EndAt, AnsweredAt
  <2>9. \A c \in Compactors : jobs'[c] = NoJob
    BY <1>4, <1>5, <1>9
  <2> QED
    BY <1>4, <1>5, <2>1, <2>3, <2>8, <2>9 DEF Going, Known, Goes
<1> QED
  BY <1>7, <1>8, <1>9

LEMMA GoingTimerFires ==
    ASSUME Sound, OneAtATime, EventsInOrder, Going, TimerFires
    PROVE  Going'
<1>1. events = <<>> /\ events' = <<>>
  BY OrderlyTimerFires
<1>2. timers' = 0 /\ timers > 0 /\ handler = "ready" /\ run = "none"
      /\ \A c \in Compactors : jobs[c] = NoJob
  BY DEF TimerFires, OneAtATime, Idle
<1>3. UNCHANGED <<handler, retryPromise, jobs, missed>>
  BY DEF TimerFires, retrying, compacting
<1>4. CASE Continuable(messages)
  <2>1. StartRun("none", <<>>)
    BY <1>2, <1>4 DEF TimerFires, Continuable
  <2>2. run' = "live" /\ messages' = messages
    BY <2>1, StartsAsItIs, EventsType DEF Sound, TypeOK
  <2> QED
    BY <1>1, <1>2, <1>3, <1>4, <2>2 DEF Going, Known, Goes, EndPending
<1>5. CASE ~Continuable(messages)
  <2>1. run' = "none"
    BY <1>2, <1>5 DEF TimerFires, Continuable
  <2>2. ~retryPromise \/ missed
    BY <1>2, <1>5 DEF Going, Known
  <2> QED
    BY <1>1, <1>2, <1>3, <2>1, <2>2, GoingStill DEF Sound, Counters
<1> QED
  BY <1>4, <1>5

LEMMA GoingProcessMessage ==
    ASSUME Sound, OneAtATime, EventsInOrder, Going, ProcessMessage
    PROVE  Going'
<1> DEFINE m == Head(events).message
<1>0. PICK n : n = Len(events)
  OBVIOUS
<1>1. events \in Events /\ events # <<>> /\ Head(events).type = "message" /\ events' = Tail(events)
  BY EventsType DEF ProcessMessage
<1>2. /\ Head(events) = events[1] /\ n \in Nat \ {0} /\ Len(events') = n - 1 /\ events' \in Events
      /\ \A k \in 1 .. n - 1 : events'[k] = events[k + 1]
  BY <1>0, <1>1, Less
<1>3. /\ UNCHANGED <<run, handler, timers, jobs, messages, retryPromise, missed>>
      /\ lastAssistant' = IF IsAnswer(m) THEN m ELSE lastAssistant
  BY DEF ProcessMessage, compacting, history
<1>4. timers = 0 /\ handler = "ready" /\ \A c \in Compactors : jobs[c] = NoJob
  BY <1>1, EventsAlone
<1>5. n # 1 => (EndPending' <=> EndPending)
  <2>1. SUFFICES ASSUME n # 1 PROVE EndPending' <=> EndPending
    OBVIOUS
  <2>2. n - 1 \in 1 .. n - 1 /\ n - 1 + 1 = n /\ n - 1 # 0
    BY <1>2, <2>1
  <2>3. events'[n - 1] = events[n]
    BY <1>2, <2>2
  <2>4. events' # <<>>
    BY <1>2, <2>2, NoneLeft
  <2> QED
    BY <1>0, <1>1, <1>2, <2>3, <2>4 DEF EndPending, EndAt
<1>6. n = 1 => ~EndPending /\ ~EndPending'
  <2>1. SUFFICES ASSUME n = 1 PROVE ~EndPending /\ ~EndPending'
    OBVIOUS
  <2>2. events' = <<>>
    BY <1>2, <2>1, NoneLeft
  <2> QED
    BY <1>0, <1>1, <1>2, <2>1, <2>2 DEF EndPending, EndAt
<1>7. ASSUME EndPending', Answered PROVE Answered'
  <2>1. n # 1 /\ AnsweredAt(n - 1)
    BY <1>0, <1>6, <1>7 DEF Answered
  <2>2. CASE n = 2
    <3>1. Terminal(m) /\ m.id > 0
      <4>1. n - 1 = 1
        BY <2>2
      <4> QED
        BY <1>1, <1>2, <2>1, <4>1, HeardLess DEF AnsweredAt, Sound, Proper
    <3>2. lastAssistant' # NoMessage
      BY <1>3, <3>1, NoMessageType DEF Terminal
    <3>3. Len(events') = 1
      BY <1>2, <2>2
    <3> QED
      BY <3>2, <3>3 DEF Answered
  <2>3. CASE n # 2
    <3>1. n - 2 \in 1 .. n - 1 /\ n - 2 + 1 = n - 1 /\ n - 1 # 1 /\ n - 1 - 1 = n - 2
      BY <1>2, <2>1, <2>3
    <3>2. events'[n - 2] = events[n - 1]
      BY <1>2, <3>1
    <3> QED
      BY <1>2, <2>1, <3>1, <3>2 DEF Answered, AnsweredAt
  <2> QED
    BY <2>2, <2>3
<1> QED
  BY <1>3, <1>4, <1>5, <1>6, <1>7 DEF Going, Known, Goes

LEMMA EndIsPending ==
    ASSUME Sound, OneAtATime, EventsInOrder, ProcessingEnd
    PROVE  Len(events) = 1 /\ EndPending
<1>1. events # <<>> /\ Head(events).type = "end" /\ events \in Events
  BY EventsType DEF ProcessingEnd
<1>2. Head(events) = events[1]
  BY <1>1, Less
<1>3. Len(events) = 1
  BY AtTheEnd
<1> QED
  BY <1>1, <1>2, <1>3 DEF EndPending, EndAt

LEMMA GoingEndings ==
    ASSUME Sound, OneAtATime, EventsInOrder, Going,
           IgnoreEnd \/ Backoff \/ Exhausted \/ EndWithoutRetry \/ BackoffCancelled
    PROVE  Going'
<1>1. /\ events' = <<>> /\ run' = "none" /\ timers' = 0
      /\ \A c \in Compactors : jobs[c] = NoJob
  BY OrderlyEndings
<1>2. missed' = missed /\ missed \in BOOLEAN
  BY DEF IgnoreEnd, Backoff, Exhausted, EndWithoutRetry, BackoffCancelled, ProcessingEnd, history,
     Sound, Counters
<1>3. CASE Exhausted \/ EndWithoutRetry \/ BackoffCancelled
  <2>1. handler' = "ready" /\ retryPromise' = FALSE
    BY <1>3 DEF Exhausted, EndWithoutRetry, BackoffCancelled, ProcessingEnd, Free, Resolve
  <2> QED
    BY <1>1, <1>2, <2>1, GoingStill
<1>4. ProcessingEnd => Len(events) = 1 /\ EndPending
  BY EndIsPending
<1>5. CASE IgnoreEnd
  <2>1. lastAssistant = NoMessage /\ handler' = "ready"
    BY <1>5 DEF IgnoreEnd, ProcessingEnd, Free, retrying
  <2>2. missed
    BY <1>4, <1>5, <2>1 DEF IgnoreEnd, Going, Known, Answered
  <2> QED
    BY <1>1, <1>2, <2>1, <2>2, GoingStill
<1>6. CASE Backoff
  <2>1. handler' = "backoff" /\ messages' = DropAnswer(messages) /\ jobs' = jobs
    BY <1>6 DEF Backoff, compacting
  <2>2. ~missed => Continuable(messages')
    BY <1>4, <1>6, <2>1 DEF Backoff, Going, Known
  <2> QED
    BY <1>1, <1>2, <2>1, <2>2 DEF Going, Known, Goes, EndPending
<1> QED
  BY <1>3, <1>5, <1>6

LEMMA GoingBackoffEnds ==
    ASSUME Sound, OneAtATime, EventsInOrder, Going, BackoffEnds
    PROVE  Going'
<1>1. Idle /\ timers = 0
  BY OrderlyBackoffEnds
<1>2. /\ handler = "backoff" /\ handler' = "ready" /\ timers' = 1
      /\ UNCHANGED <<events, run, jobs, lastAssistant, messages, retryPromise, missed>>
  BY <1>1 DEF BackoffEnds, compacting, history
<1> QED
  BY <1>1, <1>2 DEF Going, Known, Goes, EndPending, Idle

LEMMA GoingPrompt ==
    ASSUME Sound, Connected, Going, NEW p \in Prompts, Prompt(p), ~overlapped'
    PROVE  Going'
<1>1. events = <<>> /\ handler = "ready" /\ timers = 0 /\ run = "none"
  BY NotAtWork DEF Prompt
<1>2. UNCHANGED <<run, events, handler, retryPromise, missed>>
  BY DEF Prompt, retrying
<1>3. ~retryPromise \/ missed
  BY <1>1, NothingPromised
<1> QED
  BY <1>1, <1>2, <1>3, GoingStill DEF Sound, Counters

LEMMA GoingSubmit ==
    ASSUME Sound, Connected, Going, NEW p \in Prompts, Submit(p), ~overlapped'
    PROVE  Going'
<1>1. UNCHANGED <<lastAssistant, handler, timers, jobs, retryPromise, missed>>
  BY DEF Submit, retrying, compacting
<1>2. CASE run = "none"
  <2> DEFINE m == Said(clock, "user")
             e == Event("message", m)
  <2>1. /\ ~AtWork /\ m \in Message /\ ~IsAnswer(m)
        /\ e \in EventType /\ e.type = "message"
        /\ run' = "live" /\ messages' = Append(messages, m)
        /\ events = <<>> /\ events' = Append(events, e)
    BY <1>2, SubmitStarts
  <2> HIDE DEF e, m
  <2>2. Len(events) = 0 /\ events \in Events /\ messages \in Seq(Message)
    BY <2>1, EventsType, NoneLeft DEF Sound, TypeOK
  <2>3. Len(events') = 1 /\ events'[1] = e
    BY <2>1, <2>2, More
  <2>4. ~EndPending'
    BY <2>1, <2>3 DEF EndPending, EndAt
  <2>5. Continuable(messages')
    BY <2>1, <2>2, OthersContinue DEF Terminal
  <2>6. /\ handler = "ready" /\ timers = 0 /\ \A c \in Compactors : jobs[c] = NoJob
    BY <2>1, NotAtWork
  <2> QED
    BY <1>1, <2>1, <2>4, <2>5, <2>6 DEF Going, Known, Goes
<1>3. CASE run # "none"
  <2>1. UNCHANGED <<run, messages, events>>
    BY <1>3 DEF Submit
  <2> QED
    BY <1>1, <2>1, GoingUnchanged
<1> QED
  BY <1>2, <1>3

LEMMA GoingCompactions ==
    ASSUME Sound, OneAtATime, EventsInOrder, Going, NEW c \in Compactors, jobs[c] # NoJob,
           jobs[c].stage = "summarizing" \/ run = "none",
           UNCHANGED <<run, events, handler, retryPromise, missed>>
    PROVE  Going'
<1>1. JobIsAlone(c)
  BY DEF OneAtATime
<1>2. events = <<>> /\ run = "none" /\ handler = "ready"
  BY <1>1 DEF JobIsAlone
<1>3. ~retryPromise \/ missed
  BY DEF Going, Known
<1> QED
  BY <1>2, <1>3, GoingStill DEF Sound, Counters

LEMMA GoingCompact ==
    ASSUME Sound, Connected, Going, NEW c \in Manual, Compact(c), ~overlapped'
    PROVE  Going'
<1>1. events = <<>> /\ handler = "ready" /\ timers = 0
  BY NotAtWork DEF Compact
<1>2. /\ UNCHANGED <<messages, events, timers, missed>> /\ retryPromise' = FALSE
      /\ handler' = "ready" /\ (run' = "none" <=> run = "none")
  BY <1>1 DEF Compact, CancelRetry, Resolve, AbortRun
<1> QED
  BY <1>1, <1>2 DEF Going, Known, EndPending

LEMMA GoingAborts ==
    ASSUME Sound, Going, Abort \/ AbortRetry \/ AbortCompaction
    PROVE  Going'
<1>1. UNCHANGED <<messages, events, lastAssistant, timers, jobs, missed>>
  BY DEF Abort, AbortRetry, AbortCompaction, compacting, history
<1>2. /\ (run' = "none" <=> run = "none") /\ (handler' = "ready" <=> handler = "ready")
      /\ (handler' = "backoff" => handler = "backoff") /\ (retryPromise' => retryPromise)
  BY DEF Abort, AbortRetry, AbortCompaction, AbortRun, CancelRetry, Resolve, retrying
<1> QED
  BY <1>1, <1>2, GoingUnchanged

LEMMA GoingNext ==
    ASSUME Sound, Connected, Orderly, ~overlapped => Going, [Next]_vars, ~overlapped'
    PROVE  Going'
<1>1. ~overlapped /\ OneAtATime /\ EventsInOrder /\ Going
  BY OverlapsOnce DEF Orderly
<1>2. ASSUME NEW kind \in Answers, Answer(kind) PROVE Going'
  BY <1>1, <1>2, GoingAnswer
<1>3. ASSUME NEW kind, Break(kind) PROVE Going'
  BY <1>3 DEF Break, EndRun, Going
<1>4. CASE TimerFires
  BY <1>1, <1>4, GoingTimerFires
<1>5. CASE ProcessMessage
  BY <1>1, <1>5, GoingProcessMessage
<1>6. CASE IgnoreEnd \/ Backoff \/ Exhausted \/ EndWithoutRetry \/ BackoffCancelled
  BY <1>1, <1>6, GoingEndings
<1>7. CASE BackoffEnds
  BY <1>1, <1>7, GoingBackoffEnds
<1>8. ASSUME NEW p \in Prompts, Prompt(p) \/ Submit(p) PROVE Going'
  BY <1>1, <1>8, GoingPrompt, GoingSubmit
<1>9. ASSUME NEW c \in Compactors, Compacted(c) \/ CompactionFails(c) PROVE Going'
  <2>1. /\ jobs[c].stage = "summarizing" /\ jobs[c] # NoJob
        /\ UNCHANGED <<run, events, handler, retryPromise, missed>>
    BY <1>9 DEF Compacted, CompactionFails, NoJob, retrying, history
  <2> QED
    BY <1>1, <2>1, GoingCompactions
<1>10. ASSUME NEW c \in Manual, CompactWhenIdle(c) PROVE Going'
  <2>1. /\ run = "none" /\ jobs[c] # NoJob /\ c \in Compactors
        /\ UNCHANGED <<run, events, handler, retryPromise, missed>>
    BY <1>10, CompactorsAre DEF CompactWhenIdle, NoJob, retrying, history
  <2> QED
    BY <1>1, <2>1, GoingCompactions
<1>11. ASSUME NEW c \in Manual, Compact(c) PROVE Going'
  BY <1>1, <1>11, GoingCompact
<1>12. CASE Abort \/ AbortRetry \/ AbortCompaction
  BY <1>1, <1>12, GoingAborts
<1>13. ASSUME NEW p \in Prompts, WaitForRetry(p) PROVE Going'
  BY <1>1, <1>13, GoingUnchanged DEF WaitForRetry, retrying, compacting, history
<1>14. CASE UNCHANGED vars
  BY <1>1, <1>14, GoingUnchanged DEF vars, retrying, compacting, history
<1> QED
  BY <1>2, <1>3, <1>4, <1>5, <1>6, <1>7, <1>8, <1>9, <1>10, <1>11, <1>12, <1>13, <1>14 DEF Next

(* Who waits, waits for the promise: nobody is told otherwise than all. *)
LEMMA WaitersUnchanged ==
    ASSUME Waiters, retryPromise => retryPromise',
           \A p \in Prompts : phase'[p] = "waiting" => phase[p] = "waiting"
    PROVE  Waiters'
BY DEF Waiters

LEMMA WaitersResolved ==
    ASSUME Sound, Resolve
    PROVE  Waiters'
BY DEF Resolve, Waiters

LEMMA WaitersNext ==
    ASSUME Sound, Waiters, [Next]_vars
    PROVE  Waiters'
<1>1. phase \in [Prompts -> Phases]
  BY DEF Sound, TypeOK, Phases
<1>2. ASSUME NEW kind, Answer(kind) \/ Break(kind) PROVE Waiters'
  <2>1. \A p \in Prompts : phase'[p] = "waiting" => phase[p] = "waiting"
    BY <1>1, <1>2 DEF Answer, Break, EndRun
  <2>2. retryPromise => retryPromise'
    BY <1>2 DEF Answer, Break
  <2> QED
    BY <2>1, <2>2, WaitersUnchanged
<1>3. CASE TimerFires \/ ProcessMessage \/ IgnoreEnd \/ Backoff \/ BackoffEnds \/ AbortCompaction
  BY <1>3, WaitersUnchanged DEF TimerFires, ProcessMessage, IgnoreEnd, Backoff, BackoffEnds,
     AbortCompaction, retrying
<1>4. CASE Exhausted \/ EndWithoutRetry \/ BackoffCancelled \/ Abort \/ AbortRetry
  BY <1>4, WaitersResolved DEF Exhausted, EndWithoutRetry, BackoffCancelled, Abort, AbortRetry,
     CancelRetry
<1>5. ASSUME NEW p \in Prompts, Prompt(p) \/ Submit(p) PROVE Waiters'
  <2>1. \A q \in Prompts : phase'[q] = "waiting" => phase[q] = "waiting"
    BY <1>1, <1>5 DEF Prompt, Submit
  <2>2. retryPromise' = retryPromise
    BY <1>5 DEF Prompt, Submit, retrying
  <2> QED
    BY <2>1, <2>2, WaitersUnchanged
<1>6. ASSUME NEW p \in Prompts, WaitForRetry(p) PROVE Waiters'
  <2>1. CASE retryPromise
    BY <1>6, <2>1 DEF WaitForRetry, retrying, Waiters
  <2>2. CASE ~retryPromise
    <3>1. phase' = [phase EXCEPT ![p] = "returned"] /\ retryPromise' = retryPromise
      BY <1>6, <2>2 DEF WaitForRetry, retrying
    <3>2. \A q \in Prompts : phase'[q] = "waiting" => phase[q] = "waiting"
      BY <1>1, <3>1
    <3> QED
      BY <3>1, <3>2, WaitersUnchanged
  <2> QED
    BY <2>1, <2>2
<1>7. ASSUME NEW c, Compacted(c) \/ CompactionFails(c) \/ CompactWhenIdle(c) PROVE Waiters'
  <2>1. UNCHANGED <<retryPromise, phase>>
    BY <1>7 DEF Compacted, CompactionFails, CompactWhenIdle, retrying
  <2> QED
    BY <2>1, WaitersUnchanged
<1>8. ASSUME NEW c, Compact(c) PROVE Waiters'
  BY <1>8, WaitersResolved DEF Compact, CancelRetry
<1>9. CASE UNCHANGED vars
  BY <1>9, WaitersUnchanged DEF vars, retrying
<1> QED
  BY <1>2, <1>3, <1>4, <1>5, <1>6, <1>7, <1>8, <1>9 DEF Next

LEMMA PromisedNext == Sound /\ Connected /\ Orderly /\ Promised /\ [Next]_vars => Promised'
BY GoingNext, WaitersNext DEF Promised

LEMMA PromisedInit == Init => Promised
BY DEF Init, Promised, Waiters, Going, Known, Goes, EndPending

(* prompt() returns, if the session heard how the newest run ended and     *)
(* nobody prompted it at work: whatever sequence of failures, retries,     *)
(* recoveries, compactions and aborts a run leads to, no prompt() waits in *)
(* vain (waitForRetry, _resolveRetry).                                     *)
THEOREM SessionPromptsReturn == Spec => []PromptsReturn
<1>1. Init => Sound /\ Listens /\ Orderly /\ Promised
  BY SoundInit, ListensInit, OrderlyInit, PromisedInit
<1>2. Listens => Connected
  BY DEF Listens
<1> QED
  BY <1>1, <1>2, PromisedIsEnough, SoundNext, ListensNext, OrderlyNext, PromisedNext, PTL DEF Spec

-----------------------------------------------------------------------------
(* The attempts are forgotten.  While they are remembered, a retry is      *)
(* under way or an end is left to process - or the last answer there was   *)
(* was an error of another kind.                                           *)

LastAnswerAt(k) == \A j \in k + 1 .. Len(entries) : ~IsAnswer(entries[j])

LastAnswerIs(m) == \E k \in 1 .. Len(entries) : entries[k] = m /\ LastAnswerAt(k)

LastIsFatal ==
    \E k \in 1 .. Len(entries) : entries[k].kind \in {"fatal", "overflow"} /\ LastAnswerAt(k)

(* The message the session goes by is the last answer it has persisted. *)
Matched ==
    lastAssistant # NoMessage =>
        LastAnswerIs(lastAssistant) /\ (~IsError(lastAssistant) => retryAttempt = 0)

Retries == run # "none" \/ handler # "ready" \/ (timers > 0 /\ Continuable(messages)) \/ EndPending

Remembers == ~missed /\ retryAttempt > 0 => Retries \/ LastIsFatal

Remembered == Matched /\ (~overlapped => Remembers)

LEMMA RememberedIsEnough ==
    ASSUME Remembered
    PROVE  AttemptsForgotten
<1> SUFFICES ASSUME Quiet, ~overlapped, ~missed, retryAttempt > 0
             PROVE  LastIsFatal
  BY DEF AttemptsForgotten, LastIsFatal, LastAnswerAt
<1> QED
  BY DEF Remembered, Remembers, Retries, EndPending, Quiet, AtWork

(* One entry more. *)
LEMMA EntryMore ==
    ASSUME entries \in Seq(Entry), NEW e \in Entry, entries' = Append(entries, e)
    PROVE  /\ Len(entries) \in Nat /\ Len(entries') = Len(entries) + 1
           /\ entries'[Len(entries) + 1] = e
           /\ \A k \in 1 .. Len(entries) : entries'[k] = entries[k]
BY LenProperties, AppendProperties

(* What is no answer leaves the last one where it was. *)
LEMMA LastStays ==
    ASSUME entries \in Seq(Entry),
           \/ entries' = entries
           \/ \E e \in Entry : entries' = Append(entries, e) /\ ~IsAnswer(e)
    PROVE  /\ \A m : LastAnswerIs(m) => LastAnswerIs(m)'
           /\ LastIsFatal => LastIsFatal'
<1>1. CASE entries' = entries
  BY <1>1 DEF LastAnswerIs, LastIsFatal, LastAnswerAt
<1>2. ASSUME NEW e \in Entry, entries' = Append(entries, e), ~IsAnswer(e)
      PROVE  /\ \A m : LastAnswerIs(m) => LastAnswerIs(m)'
             /\ LastIsFatal => LastIsFatal'
  <2>1. /\ Len(entries) \in Nat /\ Len(entries') = Len(entries) + 1
        /\ entries'[Len(entries) + 1] = e
        /\ \A k \in 1 .. Len(entries) : entries'[k] = entries[k]
    BY <1>2, EntryMore
  <2>2. ASSUME NEW k \in 1 .. Len(entries), LastAnswerAt(k)
        PROVE  LastAnswerAt(k)' /\ k \in 1 .. Len(entries') /\ entries'[k] = entries[k]
    <3>1. \A j \in k + 1 .. Len(entries') : j \in k + 1 .. Len(entries) \/ j = Len(entries) + 1
      BY <2>1
    <3>2. \A j \in k + 1 .. Len(entries) : j \in 1 .. Len(entries)
      BY <2>1
    <3> QED
      BY <1>2, <2>1, <2>2, <3>1, <3>2 DEF LastAnswerAt
  <2>3. ASSUME NEW m, LastAnswerIs(m) PROVE LastAnswerIs(m)'
    <3>1. PICK k \in 1 .. Len(entries) : entries[k] = m /\ LastAnswerAt(k)
      BY <2>3 DEF LastAnswerIs
    <3>2. LastAnswerAt(k)' /\ k \in 1 .. Len(entries') /\ entries'[k] = m
      BY <2>2, <3>1
    <3> QED
      BY <3>2 DEF LastAnswerIs
  <2>4. ASSUME LastIsFatal PROVE LastIsFatal'
    <3>1. PICK k \in 1 .. Len(entries) : entries[k].kind \in {"fatal", "overflow"} /\ LastAnswerAt(k)
      BY <2>4 DEF LastIsFatal
    <3>2. LastAnswerAt(k)' /\ k \in 1 .. Len(entries') /\ entries'[k] = entries[k]
      BY <2>2, <3>1
    <3> QED
      BY <3>1, <3>2 DEF LastIsFatal
  <2> QED
    BY <2>3, <2>4
<1> QED
  BY <1>1, <1>2

LEMMA LastIsNew ==
    ASSUME entries \in Seq(Entry), NEW m \in Entry, entries' = Append(entries, m)
    PROVE  LastAnswerIs(m)'
<1>1. /\ Len(entries) \in Nat /\ Len(entries') = Len(entries) + 1
      /\ entries'[Len(entries) + 1] = m
  BY EntryMore
<1>2. Len(entries) + 1 \in 1 .. Len(entries') /\ Len(entries) + 1 + 1 .. Len(entries') = {}
  BY <1>1
<1> QED
  BY <1>1, <1>2 DEF LastAnswerIs, LastAnswerAt

LEMMA MatchedUnchanged ==
    ASSUME Sound, Matched, UNCHANGED <<entries, lastAssistant>>, retryAttempt' \in {retryAttempt, 0}
    PROVE  Matched'
BY DEF Matched, LastAnswerIs, LastAnswerAt

LEMMA MatchedProcessMessage ==
    ASSUME Sound, Matched, ProcessMessage
    PROVE  Matched'
<1>0. PICK m : m = Head(events).message
  OBVIOUS
<1>1. entries \in Seq(Entry) /\ m \in Entry
  BY <1>0, EventsType, HeardLess DEF ProcessMessage, Sound, TypeOK, Message
<1>2. /\ entries' = Append(entries, m)
      /\ lastAssistant' = IF IsAnswer(m) THEN m ELSE lastAssistant
      /\ retryAttempt' = IF IsAnswer(m) /\ ~IsError(m) THEN 0 ELSE retryAttempt
  BY <1>0 DEF ProcessMessage
<1>3. CASE IsAnswer(m)
  <2>1. LastAnswerIs(m)'
    BY <1>1, <1>2, LastIsNew
  <2>2. lastAssistant' = m /\ (~IsError(m) => retryAttempt' = 0)
    BY <1>2, <1>3
  <2>3. LastAnswerIs(lastAssistant)'
    BY <2>1, <2>2 DEF LastAnswerIs
  <2>4. ~IsError(lastAssistant)' => retryAttempt' = 0
    BY <2>2 DEF IsError
  <2> QED
    BY <2>3, <2>4 DEF Matched
<1>4. CASE ~IsAnswer(m)
  <2>1. \A x : LastAnswerIs(x) => LastAnswerIs(x)'
    BY <1>1, <1>2, <1>4, LastStays
  <2>2. lastAssistant' = lastAssistant /\ retryAttempt' = retryAttempt
    BY <1>2, <1>4
  <2>3. LastAnswerIs(lastAssistant) => LastAnswerIs(lastAssistant)'
    BY <2>1, <2>2 DEF LastAnswerIs
  <2> QED
    BY <2>2, <2>3 DEF Matched
<1> QED
  BY <1>3, <1>4

LEMMA MatchedNext ==
    ASSUME Sound, Matched, [Next]_vars
    PROVE  Matched'
<1>1. CASE ProcessMessage
  BY <1>1, MatchedProcessMessage
<1>2. CASE IgnoreEnd \/ Backoff \/ Exhausted \/ EndWithoutRetry
  BY <1>2 DEF IgnoreEnd, Backoff, Exhausted, EndWithoutRetry, ProcessingEnd, Matched
<1>3. ASSUME NEW c \in Compactors, Compacted(c) PROVE Matched'
  <2> DEFINE e == [id |-> clock, kind |-> "compaction", from |-> jobs[c].from]
  <2>1. entries \in Seq(Entry) /\ jobs[c].from \in Nat /\ clock \in Nat
    BY <1>3, LenProperties DEF Compacted, Sound, TypeOK, Counters, JobsHaveEntries
  <2>2. e \in Entry /\ e.kind = "compaction"
    BY <2>1 DEF Entry
  <2>3. entries' = Append(entries, e) /\ UNCHANGED <<lastAssistant, retryAttempt>>
    BY <1>3 DEF Compacted, retrying
  <2> HIDE DEF e
  <2>4. ~IsAnswer(e)
    BY <2>2 DEF IsAnswer, AnswerKinds, Errors
  <2>5. \A x : LastAnswerIs(x) => LastAnswerIs(x)'
    BY <2>1, <2>2, <2>3, <2>4, LastStays
  <2> QED
    BY <2>3, <2>5 DEF Matched, LastAnswerIs, LastAnswerAt
<1> DEFINE Kept == UNCHANGED <<entries, lastAssistant>> /\ retryAttempt' \in {retryAttempt, 0}
<1>4. Kept => Matched'
  BY MatchedUnchanged
<1>5. ASSUME NEW kind, Answer(kind) \/ Break(kind) PROVE Kept
  BY <1>5 DEF Answer, Break, retrying
<1>6. TimerFires \/ BackoffEnds \/ BackoffCancelled => Kept
  BY DEF TimerFires, BackoffEnds, BackoffCancelled, retrying
<1>7. ASSUME NEW p \in Prompts, Prompt(p) \/ Submit(p) \/ WaitForRetry(p) PROVE Kept
  BY <1>7 DEF Prompt, Submit, WaitForRetry, retrying
<1>8. ASSUME NEW c, CompactionFails(c) \/ Compact(c) \/ CompactWhenIdle(c) PROVE Kept
  BY <1>8 DEF CompactionFails, Compact, CompactWhenIdle, CancelRetry, retrying
<1>9. Abort \/ AbortRetry \/ AbortCompaction \/ UNCHANGED vars => Kept
  BY DEF Abort, AbortRetry, AbortCompaction, CancelRetry, retrying, vars
<1> HIDE DEF Kept
<1> QED
  BY <1>1, <1>2, <1>3, <1>4, <1>5, <1>6, <1>7, <1>8, <1>9 DEF Next

LEMMA RemembersUnchanged ==
    ASSUME Sound, Remembers, UNCHANGED <<timers, messages, events, entries, missed>>,
           run' = "none" <=> run = "none", handler' = "ready" <=> handler = "ready",
           retryAttempt' \in {retryAttempt, 0}
    PROVE  Remembers'
BY DEF Remembers, Retries, EndPending, EndAt, LastIsFatal, LastAnswerAt

(* When no retry is under way, the last answer was no failure that is      *)
(* retried, and stays it.                                                  *)
LEMMA RemembersTheLast ==
    ASSUME Sound, Remembers, ~Retries, missed' = missed, retryAttempt' \in {retryAttempt, 0},
           \/ entries' = entries
           \/ \E e \in Entry : entries' = Append(entries, e) /\ ~IsAnswer(e)
    PROVE  Remembers'
<1>1. LastIsFatal => LastIsFatal'
  BY LastStays DEF Sound, TypeOK
<1> QED
  BY <1>1 DEF Remembers

LEMMA RemembersAnswer ==
    ASSUME Sound, Remembers, NEW kind \in Answers, Answer(kind)
    PROVE  Remembers'
<1> DEFINE m == Said(clock, kind)
           message == Event("message", m)
           end == Event("end", m)
<1>1. CASE kind = "more"
  BY <1>1 DEF Answer, Remembers, Retries
<1>2. CASE kind # "more" /\ ~connected
  <2>1. missed' = TRUE
    BY <1>2 DEF Answer, Sound, TypeOK
  <2> QED
    BY <2>1 DEF Remembers
<1>3. CASE kind # "more" /\ connected
  <2>1. events \in Events /\ Len(events) \in Nat
    BY EventsType
  <2>2. m \in Message
    BY AgentSessionBounds, SaidType DEF Sound, Counters
  <2>3. message \in EventType /\ end \in EventType /\ end.type = "end"
    BY <2>2, EventTyped
  <2>4. Hear(<<message, end>>)
    BY <1>3 DEF Answer
  <2> HIDE DEF message, end, m
  <2>5. events' = Append(Append(events, message), end)
    BY <1>3, <2>1, <2>3, <2>4, HearTwo
  <2> DEFINE es == Append(events, message)
  <2>6. es \in Events /\ Len(es) \in Nat
    BY <2>1, <2>3, More
  <2> HIDE DEF es
  <2>7. Len(events') = Len(es) + 1 /\ events'[Len(es) + 1] = end /\ events' # <<>>
    BY <2>3, <2>5, <2>6, More DEF es
  <2>8. EndPending'
    BY <2>3, <2>7 DEF EndPending, EndAt
  <2> QED
    BY <2>8 DEF Remembers, Retries
<1> QED
  BY <1>1, <1>2, <1>3

LEMMA RemembersTimerFires ==
    ASSUME Sound, OneAtATime, EventsInOrder, Remembers, TimerFires
    PROVE  Remembers'
<1>1. events = <<>> /\ handler = "ready" /\ run = "none" /\ messages \in Seq(Message)
  BY OrderlyTimerFires DEF TimerFires, OneAtATime, Idle, Sound, TypeOK
<1>2. UNCHANGED <<entries, missed, retryAttempt>>
  BY DEF TimerFires, retrying
<1>3. CASE Continuable(messages)
  <2>1. run' = "live"
    BY <1>1, <1>3 DEF TimerFires, StartRun, Continuable
  <2> QED
    BY <2>1 DEF Remembers, Retries
<1>4. CASE ~Continuable(messages)
  <2>1. ~Retries
    BY <1>1, <1>4 DEF Retries, EndPending
  <2> QED
    BY <1>2, <2>1, RemembersTheLast
<1> QED
  BY <1>3, <1>4

LEMMA RemembersProcessMessage ==
    ASSUME Sound, OneAtATime, EventsInOrder, Remembers, ProcessMessage
    PROVE  Remembers'
<1> DEFINE m == Head(events).message
<1>0. PICK n : n = Len(events)
  OBVIOUS
<1>1. events \in Events /\ events # <<>> /\ Head(events).type = "message" /\ events' = Tail(events)
  BY EventsType DEF ProcessMessage
<1>2. /\ Head(events) = events[1] /\ n \in Nat \ {0} /\ Len(events') = n - 1 /\ events' \in Events
      /\ \A k \in 1 .. n - 1 : events'[k] = events[k + 1]
  BY <1>0, <1>1, Less
<1>3. /\ UNCHANGED <<run, handler, timers, messages, missed>>
      /\ entries' = Append(entries, m)
      /\ retryAttempt' = IF IsAnswer(m) /\ ~IsError(m) THEN 0 ELSE retryAttempt
  BY DEF ProcessMessage, history
<1>4. m \in Entry /\ entries \in Seq(Entry)
  BY <1>1, HeardLess DEF Sound, TypeOK, Message
<1>5. CASE IsAnswer(m) /\ ~IsError(m)
  BY <1>3, <1>5 DEF Remembers
<1>6. CASE IsError(m)
  <2>1. AnsweredAt(1) /\ 1 \in 1 .. n
    BY <1>1, <1>2, <1>6 DEF AnsweredAt, Terminal, IsAnswer, IsError, AnswerKinds, Errors
  <2>2. 1 < n /\ EndAt(2) /\ 2 \in 1 .. n
    <3>1. 1 < n /\ EndAt(1 + 1)
      BY <1>0, <2>1 DEF EventsInOrder
    <3> QED
      BY <1>2, <3>1
  <2>3. n = 2
    BY <1>0, <2>2 DEF EventsInOrder
  <2>4. Len(events') = 1 /\ events'[1] = events[2] /\ events' # <<>>
    <3>1. 1 \in 1 .. n - 1 /\ n - 1 = 1
      BY <2>3
    <3>2. events'[1] = events[1 + 1]
      BY <1>2, <3>1
    <3> QED
      BY <1>2, <3>1, <3>2, NoneLeft
  <2>5. EndPending'
    BY <2>2, <2>4 DEF EndPending, EndAt
  <2> QED
    BY <2>5 DEF Remembers, Retries
<1>7. CASE ~IsAnswer(m)
  <2>1. LastIsFatal => LastIsFatal'
    BY <1>3, <1>4, <1>7, LastStays
  <2>2. EndPending => EndPending'
    <3>1. SUFFICES ASSUME EndPending PROVE EndPending'
      OBVIOUS
    <3>2. n # 1
      BY <1>0, <1>1, <1>2, <3>1 DEF EndPending, EndAt
    <3>3. n - 1 \in 1 .. n - 1 /\ n - 1 + 1 = n /\ n - 1 # 0
      BY <1>2, <3>2
    <3>4. events'[n - 1] = events[n] /\ events' # <<>>
      BY <1>2, <3>3, NoneLeft
    <3> QED
      BY <1>0, <1>2, <3>1, <3>4 DEF EndPending, EndAt
  <2>3. retryAttempt' = retryAttempt
    BY <1>3, <1>7
  <2> QED
    BY <1>3, <2>1, <2>2, <2>3 DEF Remembers, Retries
<1> QED
  BY <1>5, <1>6, <1>7

LEMMA RemembersEndings ==
    ASSUME Sound, OneAtATime, EventsInOrder, Going, Matched, Remembers,
           IgnoreEnd \/ Backoff \/ Exhausted \/ EndWithoutRetry \/ BackoffCancelled
    PROVE  Remembers'
<1>1. CASE Exhausted \/ BackoffCancelled
  <2>1. retryAttempt' = 0
    BY <1>1 DEF Exhausted, BackoffCancelled
  <2> QED
    BY <2>1 DEF Remembers
<1>2. CASE Backoff
  BY <1>2 DEF Backoff, Remembers, Retries
<1>3. CASE IgnoreEnd
  <2>1. lastAssistant = NoMessage /\ missed' = missed /\ ProcessingEnd
    BY <1>3 DEF IgnoreEnd, ProcessingEnd, history
  <2>2. missed
    BY <2>1, EndIsPending DEF Going, Known, Answered
  <2> QED
    BY <2>1, <2>2 DEF Remembers
<1>4. CASE EndWithoutRetry
  <2>1. /\ lastAssistant # NoMessage /\ lastAssistant.kind # "error"
        /\ retryAttempt' = retryAttempt /\ entries' = entries
    BY <1>4 DEF EndWithoutRetry, ProcessingEnd
  <2>2. CASE IsError(lastAssistant)
    <3>1. lastAssistant.kind \in {"fatal", "overflow"}
      BY <2>1, <2>2 DEF IsError, Errors
    <3>2. LastIsFatal
      BY <2>1, <3>1 DEF Matched, LastAnswerIs, LastIsFatal
    <3> QED
      BY <2>1, <3>2 DEF Remembers, LastIsFatal, LastAnswerAt
  <2>3. CASE ~IsError(lastAssistant)
    BY <2>1, <2>3 DEF Matched, Remembers
  <2> QED
    BY <2>2, <2>3
<1> QED
  BY <1>1, <1>2, <1>3, <1>4

LEMMA RemembersNext ==
    ASSUME Sound, Connected, Orderly, ~overlapped => Going, Matched, ~overlapped => Remembers,
           [Next]_vars, ~overlapped'
    PROVE  Remembers'
<1>1. ~overlapped /\ OneAtATime /\ EventsInOrder /\ Going /\ Remembers
  BY OverlapsOnce DEF Orderly
<1>2. ASSUME NEW kind \in Answers, Answer(kind) PROVE Remembers'
  BY <1>1, <1>2, RemembersAnswer
<1>3. ASSUME NEW kind, Break(kind) PROVE Remembers'
  BY <1>3 DEF Break, Remembers
<1>4. CASE TimerFires
  BY <1>1, <1>4, RemembersTimerFires
<1>5. CASE ProcessMessage
  BY <1>1, <1>5, RemembersProcessMessage
<1>6. CASE IgnoreEnd \/ Backoff \/ Exhausted \/ EndWithoutRetry \/ BackoffCancelled
  BY <1>1, <1>6, RemembersEndings
<1>7. CASE BackoffEnds
  <2>1. /\ Idle /\ timers = 0 /\ handler = "backoff" /\ timers' = timers + 1
        /\ messages' = messages /\ missed' = missed
    BY <1>1, <1>7, OrderlyBackoffEnds DEF BackoffEnds, history
  <2>2. ~missed => Continuable(messages) /\ timers' > 0
    BY <1>1, <2>1 DEF Going, Known, Sound, TypeOK
  <2>3. ~missed' => timers' > 0 /\ Continuable(messages)'
    BY <2>1, <2>2 DEF Continuable
  <2> QED
    BY <2>3 DEF Remembers, Retries
<1>8. ASSUME NEW p \in Prompts, Prompt(p) PROVE Remembers'
  <2>1. ~Retries
    <3>1. ~AtWork /\ run = "none"
      BY <1>8 DEF Prompt
    <3>2. events = <<>> /\ handler = "ready" /\ timers = 0
      BY <3>1, NotAtWork
    <3> QED
      BY <3>1, <3>2 DEF Retries, EndPending
  <2>2. UNCHANGED <<entries, missed, retryAttempt>>
    BY <1>8 DEF Prompt, retrying
  <2> QED
    BY <1>1, <2>1, <2>2, RemembersTheLast
<1>9. ASSUME NEW p \in Prompts, Submit(p) PROVE Remembers'
  <2>1. CASE run = "none"
    BY <1>9, <2>1 DEF Submit, StartRun, Remembers, Retries
  <2>2. CASE run # "none"
    BY <1>1, <1>9, <2>2, RemembersUnchanged DEF Submit, retrying
  <2> QED
    BY <2>1, <2>2
<1>10. ASSUME NEW c \in Compactors, Compacted(c) \/ CompactionFails(c) PROVE Remembers'
  <2>1. ~Retries
    BY <1>1, <1>10 DEF Compacted, CompactionFails, OneAtATime, JobIsAlone, NoJob, Retries, EndPending
  <2>2. UNCHANGED <<missed, retryAttempt>>
    BY <1>10 DEF Compacted, CompactionFails, retrying, history
  <2>3. CASE CompactionFails(c)
    BY <1>1, <2>1, <2>2, <2>3, RemembersTheLast DEF CompactionFails
  <2>4. CASE Compacted(c)
    <3> DEFINE e == [id |-> clock, kind |-> "compaction", from |-> jobs[c].from]
    <3>1. jobs[c].from \in Nat /\ clock \in Nat
      BY <2>4, LenProperties DEF Compacted, Sound, TypeOK, Counters, JobsHaveEntries
    <3>2. e \in Entry /\ e.kind = "compaction" /\ entries' = Append(entries, e)
      BY <2>4, <3>1 DEF Compacted, Entry
    <3> HIDE DEF e
    <3>3. ~IsAnswer(e)
      BY <3>2 DEF IsAnswer, AnswerKinds, Errors
    <3> QED
      BY <1>1, <2>1, <2>2, <3>2, <3>3, RemembersTheLast
  <2> QED
    BY <1>10, <2>3, <2>4
<1>11. ASSUME NEW c \in Manual, CompactWhenIdle(c) PROVE Remembers'
  BY <1>1, <1>11, RemembersUnchanged DEF CompactWhenIdle, retrying, history
<1>12. CASE \/ Abort \/ AbortRetry \/ AbortCompaction \/ UNCHANGED vars
            \/ \E c \in Manual : Compact(c)
            \/ \E p \in Prompts : WaitForRetry(p)
  <2>1. UNCHANGED <<timers, messages, events, entries, missed, retryAttempt>>
    BY <1>12 DEF Abort, AbortRetry, AbortCompaction, Compact, WaitForRetry, CancelRetry, vars,
       retrying, history
  <2>2. (run' = "none" <=> run = "none") /\ (handler' = "ready" <=> handler = "ready")
    BY <1>12 DEF Abort, AbortRetry, AbortCompaction, Compact, WaitForRetry, CancelRetry, AbortRun,
       vars, retrying
  <2> QED
    BY <1>1, <2>1, <2>2, RemembersUnchanged
<1> QED
  BY <1>2, <1>3, <1>4, <1>5, <1>6, <1>7, <1>8, <1>9, <1>10, <1>11, <1>12 DEF Next

LEMMA RememberedNext ==
    Sound /\ Connected /\ Orderly /\ Promised /\ Remembered /\ [Next]_vars => Remembered'
BY MatchedNext, RemembersNext DEF Promised, Remembered

LEMMA RememberedInit == Init => Remembered
BY DEF Init, Remembered, Matched, Remembers

(* The next failure is tried as often as the first: when all is quiet the  *)
(* attempts are forgotten, unless the last answer was an error that is not *)
(* retried (_retryAttempt, reset when an answer arrives, when the retries  *)
(* are exhausted and when they are cancelled).                             *)
THEOREM SessionAttemptsForgotten == Spec => []AttemptsForgotten
<1>1. Init => Sound /\ Listens /\ Orderly /\ Promised /\ Remembered
  BY SoundInit, ListensInit, OrderlyInit, PromisedInit, RememberedInit
<1>2. Listens => Connected
  BY DEF Listens
<1> QED
  BY <1>1, <1>2, RememberedIsEnough, SoundNext, ListensNext, OrderlyNext, PromisedNext,
     RememberedNext, PTL DEF Spec

-----------------------------------------------------------------------------
(* The retries are awaited.  From the user's message to the next           *)
(* compaction, the run that is under way is a prompt's own, or a prompt is *)
(* behind it and there is a promise to wait for - and while a failure is   *)
(* known anywhere, to the agent, in the queue or in the handler, the       *)
(* latter.  Without aborts the session always listens and no sleep is      *)
(* cancelled.                                                              *)

CompactedSince ==
    \E k \in Compactions(entries) : \A j \in k + 1 .. Len(entries) : entries[j].kind # "user"

UserAt(k)    == events[k].type = "message" /\ events[k].message.kind = "user"
FailureAt(k) == events[k].type = "message" /\ events[k].message.kind = "error"

Prompted == ~CompactedSince \/ \E k \in 1 .. Len(events) : UserAt(k)
Served   == owner # "none" /\ phase[owner] = "running"
Awaits   == retryPromise /\ \E p \in Prompts : phase[p] \in {"ended", "waiting"}

Failed ==
    \/ handler = "backoff" \/ timers > 0 \/ lastAssistant.kind = "error"
    \/ \E k \in 1 .. Len(events) : FailureAt(k)

Attentive == aborts = 0 => connected /\ handler # "cancelled"

Awaiting == Prompted => (run # "none" => Served \/ Awaits) /\ (Failed => Awaits)

Awaited == Attentive /\ (~overlapped /\ aborts = 0 => Awaiting)

LEMMA AwaitedIsEnough ==
    ASSUME Awaited
    PROVE  RetryAwaited
<1> SUFFICES ASSUME handler = "backoff", ~overlapped, aborts = 0, ~CompactedSince
             PROVE  \E p \in Prompts : phase[p] \in {"ended", "waiting"}
  BY DEF RetryAwaited, CompactedSince
<1>1. Prompted /\ Failed
  BY DEF Prompted, Failed
<1> QED
  BY <1>1 DEF Awaited, Awaiting, Awaits

(* Where nothing is left to process, no failure is known. *)
LEMMA NotFailing ==
    ASSUME Sound, EventsInOrder, events = <<>>
    PROVE  lastAssistant.kind # "error" /\ Len(events) = 0
<1>1. Len(events) = 0
  BY EventsType, NoneLeft
<1>2. lastAssistant.kind = "error" => lastAssistant # NoMessage /\ Terminal(lastAssistant)
  BY NoMessageType DEF Terminal, IsAnswer, AnswerKinds, Errors
<1> QED
  BY <1>1, <1>2 DEF EventsInOrder

LEMMA AwaitingInPeace ==
    ASSUME run' = "none", handler' # "backoff", timers' = 0, lastAssistant'.kind # "error",
           Len(events') = 0
    PROVE  Awaiting'
<1>1. 1 .. Len(events') = {}
  OBVIOUS
<1>2. ~Failed'
  BY <1>1 DEF Failed
<1> QED
  BY <1>2 DEF Awaiting

LEMMA AwaitingStays ==
    ASSUME Awaiting, Prompted' => Prompted, run' # "none" => run # "none", Failed' => Failed,
           Served => Served', Awaits => Awaits'
    PROVE  Awaiting'
BY DEF Awaiting

(* What the session hears of an answer. *)
LEMMA HeardOfAnswer ==
    ASSUME Sound, connected, NEW kind \in Answers, Answer(kind) \/ Break(kind)
    PROVE  \A k \in 1 .. Len(events') :
              \/ k \in 1 .. Len(events) /\ events'[k] = events[k]
              \/ events'[k].type = "end"
              \/ Answer(kind) /\ events'[k].message = Said(clock, kind)
<1> DEFINE m == Said(clock, kind)
           message == Event("message", m)
           end == Event("end", m)
<1>0. PICK n : n = Len(events)
  OBVIOUS
<1>1. events \in Events /\ n \in Nat
  BY <1>0, EventsType
<1>2. m \in Message /\ m.kind = kind
  BY AgentSessionBounds, SaidType DEF Sound, Counters
<1>3. /\ message \in EventType /\ message.message = m
      /\ end \in EventType /\ end.type = "end"
  BY <1>2, EventTyped
<1>4. CASE Answer(kind) /\ kind = "more"
  <2>1. Hear(<<message>>)
    BY <1>4 DEF Answer
  <2> HIDE DEF message, end, m
  <2>2. events' = Append(events, message)
    BY <1>1, <1>3, <2>1, HearOne
  <2>3. /\ Len(events') = n + 1 /\ events'[n + 1] = message
        /\ \A k \in 1 .. n : events'[k] = events[k]
    BY <1>0, <1>1, <1>3, <2>2, More
  <2>4. \A k \in 1 .. n + 1 : k \in 1 .. n \/ k = n + 1
    BY <1>1
  <2> QED
    BY <1>0, <1>3, <1>4, <2>3, <2>4 DEF m
<1>5. CASE Answer(kind) /\ kind # "more"
  <2>1. Hear(<<message, end>>)
    BY <1>5 DEF Answer
  <2> HIDE DEF message, end, m
  <2>2. events' = Append(Append(events, message), end)
    BY <1>1, <1>3, <2>1, HearTwo
  <2> DEFINE es == Append(events, message)
  <2>3. /\ es \in Events /\ Len(es) = n + 1 /\ es[n + 1] = message
        /\ \A k \in 1 .. n : es[k] = events[k]
    BY <1>0, <1>1, <1>3, More
  <2> HIDE DEF es
  <2>4. /\ Len(events') = Len(es) + 1 /\ events'[Len(es) + 1] = end
        /\ \A k \in 1 .. Len(es) : events'[k] = es[k]
    BY <1>3, <2>2, <2>3, More DEF es
  <2>5. /\ Len(events') = n + 2 /\ events'[n + 2] = end /\ events'[n + 1] = message
        /\ \A k \in 1 .. n : events'[k] = events[k]
    BY <1>1, <2>3, <2>4
  <2>6. \A k \in 1 .. n + 2 : k \in 1 .. n \/ k = n + 1 \/ k = n + 2
    BY <1>1
  <2> QED
    BY <1>0, <1>3, <1>5, <2>5, <2>6 DEF m
<1>6. CASE Break(kind)
  <2>1. Hear(<<end>>)
    BY <1>6 DEF Break
  <2> HIDE DEF message, end, m
  <2>2. events' = Append(events, end)
    BY <1>1, <1>3, <2>1, HearOne
  <2>3. /\ Len(events') = n + 1 /\ events'[n + 1] = end
        /\ \A k \in 1 .. n : events'[k] = events[k]
    BY <1>0, <1>1, <1>3, <2>2, More
  <2>4. \A k \in 1 .. n + 1 : k \in 1 .. n \/ k = n + 1
    BY <1>1
  <2> QED
    BY <1>0, <1>3, <2>3, <2>4
<1> QED
  BY <1>4, <1>5, <1>6

LEMMA AwaitingAnswer ==
    ASSUME Sound, connected, Awaiting, NEW kind \in Answers, Answer(kind) \/ Break(kind)
    PROVE  Awaiting'
<1>1. /\ run # "none" /\ UNCHANGED <<handler, timers, lastAssistant, entries>>
      /\ phase \in [Prompts -> Phases] /\ owner \in {"none"} \cup Prompts
  BY DEF Answer, Break, Sound, TypeOK, Phases
<1>2. kind # "user"
  BY AgentSessionBounds DEF AnswerKinds, Errors
<1>0. \A k \in 1 .. Len(events') :
         \/ k \in 1 .. Len(events) /\ events'[k] = events[k]
         \/ events'[k].type = "end"
         \/ Answer(kind) /\ events'[k].message.kind = kind
  <2>1. Said(clock, kind).kind = kind
    BY DEF Said
  <2> QED
    BY <2>1, HeardOfAnswer
<1>3. Prompted' => Prompted
  <2>1. CompactedSince' = CompactedSince
    BY <1>1 DEF CompactedSince, Compactions
  <2>2. ASSUME NEW k \in 1 .. Len(events'), UserAt(k)'
        PROVE  k \in 1 .. Len(events) /\ UserAt(k)
    BY <1>0, <1>2, <2>2 DEF UserAt
  <2> QED
    BY <2>1, <2>2 DEF Prompted
<1>4. Failed' => Failed \/ (Answer(kind) /\ kind = "error")
  <2>1. ASSUME NEW k \in 1 .. Len(events'), FailureAt(k)'
        PROVE  (k \in 1 .. Len(events) /\ FailureAt(k)) \/ (Answer(kind) /\ kind = "error")
    BY <1>0, <2>1 DEF FailureAt
  <2> QED
    BY <1>1, <2>1 DEF Failed
<1>5. retryPromise => retryPromise'
  BY DEF Answer, Break
<1>6. CASE Answer(kind) /\ kind = "more"
  <2>1. UNCHANGED <<owner, phase, run>>
    BY <1>6 DEF Answer
  <2>2. (Served => Served') /\ (Awaits => Awaits')
    BY <1>5, <2>1 DEF Served, Awaits
  <2> QED
    BY <1>1, <1>3, <1>4, <1>6, <2>2, AwaitingStays
<1>7. CASE ~(Answer(kind) /\ kind = "more")
  <2>1. EndRun
    BY <1>7 DEF Answer, Break
  <2>2. /\ run' = "none"
        /\ \A p \in Prompts : phase[p] \in {"ended", "waiting"} => phase'[p] \in {"ended", "waiting"}
        /\ owner # "none" => owner \in Prompts /\ phase'[owner] = "ended"
    BY <1>1, <2>1 DEF EndRun
  <2>3. Awaits => Awaits'
    BY <1>5, <2>2 DEF Awaits
  <2>4. Answer(kind) /\ kind = "error" /\ Served => Awaits'
    BY <2>2 DEF Answer, Served, Awaits
  <2>5. Prompted => Served \/ Awaits
    BY <1>1 DEF Awaiting
  <2>6. Prompted /\ Failed => Awaits
    BY DEF Awaiting
  <2> QED
    BY <1>3, <1>4, <2>2, <2>3, <2>4, <2>5, <2>6 DEF Awaiting
<1> QED
  BY <1>6, <1>7

LEMMA AwaitingTimerFires ==
    ASSUME Sound, OneAtATime, EventsInOrder, Awaiting, TimerFires
    PROVE  Awaiting'
<1>1. events = <<>> /\ events' = <<>>
  BY OrderlyTimerFires
<1>2. UNCHANGED <<entries, retryPromise, phase, events>>
  BY <1>1 DEF TimerFires, retrying
<1>3. Prompted' => Prompted
  BY <1>2 DEF Prompted, CompactedSince, Compactions, UserAt
<1>4. Failed
  BY DEF TimerFires, Failed
<1>5. Awaits => Awaits'
  BY <1>2 DEF Awaits
<1> QED
  BY <1>3, <1>4, <1>5 DEF Awaiting

LEMMA AwaitingProcessMessage ==
    ASSUME Sound, Awaiting, ProcessMessage
    PROVE  Awaiting'
<1>0. PICK m, n : m = Head(events).message /\ n = Len(events)
  OBVIOUS
<1>1. events \in Events /\ events # <<>> /\ Head(events).type = "message" /\ events' = Tail(events)
  BY EventsType DEF ProcessMessage
<1>2. /\ Head(events) = events[1] /\ n \in Nat \ {0} /\ Len(events') = n - 1
      /\ \A k \in 1 .. n - 1 : events'[k] = events[k + 1]
  BY <1>0, <1>1, Less
<1>3. /\ UNCHANGED <<run, owner, phase, handler, timers, retryPromise>>
      /\ lastAssistant' = IF IsAnswer(m) THEN m ELSE lastAssistant
      /\ entries' = Append(entries, m)
  BY <1>0 DEF ProcessMessage
<1>4. m \in Entry /\ entries \in Seq(Entry)
  BY <1>0, <1>1, HeardLess DEF Sound, TypeOK, Message
<1>5. \A k \in 1 .. n - 1 : k + 1 \in 1 .. n /\ events'[k] = events[k + 1]
  BY <1>2
<1>6. Prompted' => Prompted
  <2>1. SUFFICES ASSUME ~Prompted PROVE ~Prompted'
    OBVIOUS
  <2>2. CompactedSince /\ \A k \in 1 .. n : ~UserAt(k)
    BY <1>0, <2>1 DEF Prompted
  <2>3. m.kind # "user"
    <3>1. 1 \in 1 .. n
      BY <1>2
    <3> QED
      BY <1>0, <1>1, <1>2, <2>2, <3>1 DEF UserAt
  <2>4. \A k \in 1 .. n - 1 : ~UserAt(k)'
    BY <1>5, <2>2 DEF UserAt
  <2>5. CompactedSince'
    <3>1. PICK k \in Compactions(entries) : \A j \in k + 1 .. Len(entries) : entries[j].kind # "user"
      BY <2>2 DEF CompactedSince
    <3>2. /\ Len(entries) \in Nat /\ Len(entries') = Len(entries) + 1
          /\ entries'[Len(entries) + 1] = m
          /\ \A j \in 1 .. Len(entries) : entries'[j] = entries[j]
      BY <1>3, <1>4, EntryMore
    <3>3. k \in 1 .. Len(entries) /\ entries[k].kind = "compaction"
      BY <3>1 DEF Compactions
    <3>4. k \in Compactions(entries')
      BY <3>2, <3>3 DEF Compactions
    <3>5. \A j \in k + 1 .. Len(entries') :
             j = Len(entries) + 1 \/ (j \in k + 1 .. Len(entries) /\ j \in 1 .. Len(entries))
      BY <3>2, <3>3
    <3>6. \A j \in k + 1 .. Len(entries') : entries'[j].kind # "user"
      BY <2>3, <3>1, <3>2, <3>5
    <3> QED
      BY <3>4, <3>6 DEF CompactedSince
  <2> QED
    BY <1>2, <2>4, <2>5 DEF Prompted
<1>7. Failed' => Failed
  <2>1. ASSUME NEW k \in 1 .. Len(events'), FailureAt(k)' PROVE Failed
    <3>1. k + 1 \in 1 .. n /\ FailureAt(k + 1)
      BY <1>2, <1>5, <2>1 DEF FailureAt
    <3> QED
      BY <1>0, <3>1 DEF Failed
  <2>2. m.kind = "error" => Failed
    <3>1. 1 \in 1 .. n
      BY <1>2
    <3> QED
      BY <1>0, <1>1, <1>2, <3>1 DEF Failed, FailureAt
  <2>3. lastAssistant'.kind = "error" => Failed
    BY <1>3, <2>2 DEF Failed
  <2> QED
    BY <1>3, <2>1, <2>3 DEF Failed
<1>8. (Served => Served') /\ (Awaits => Awaits')
  BY <1>3 DEF Served, Awaits
<1> QED
  BY <1>3, <1>6, <1>7, <1>8, AwaitingStays

LEMMA AwaitingEndings ==
    ASSUME Sound, OneAtATime, EventsInOrder, Awaiting,
           IgnoreEnd \/ Backoff \/ Exhausted \/ EndWithoutRetry
    PROVE  Awaiting'
<1>1. /\ events' = <<>> /\ run' = "none" /\ timers' = 0 /\ Len(events') = 0
  BY OrderlyEndings, EmptySeq
<1>2. lastAssistant' = NoMessage /\ handler = "ready" /\ entries' = entries
  BY DEF IgnoreEnd, Backoff, Exhausted, EndWithoutRetry, ProcessingEnd, Free
<1>3. CASE IgnoreEnd \/ Exhausted \/ EndWithoutRetry
  <2>1. handler' = "ready"
    BY <1>2, <1>3 DEF IgnoreEnd, Exhausted, EndWithoutRetry, retrying
  <2>2. lastAssistant'.kind # "error"
    BY <1>2, NoMessageType
  <2> QED
    BY <1>1, <2>1, <2>2, AwaitingInPeace
<1>4. CASE Backoff
  <2>1. Prompted' => Prompted
    <3>1. CompactedSince' = CompactedSince
      BY <1>2 DEF CompactedSince, Compactions
    <3>2. 1 .. Len(events') = {}
      BY <1>1
    <3> QED
      BY <3>1, <3>2 DEF Prompted
  <2>2. Failed
    BY <1>4 DEF Backoff, Failed
  <2>3. Awaits => Awaits'
    BY <1>4 DEF Backoff, Awaits
  <2> QED
    BY <2>1, <2>2, <2>3 DEF Awaiting
<1> QED
  BY <1>3, <1>4

LEMMA AwaitingBackoffEnds ==
    ASSUME Awaiting, BackoffEnds
    PROVE  Awaiting'
<1>1. UNCHANGED <<entries, events, retryPromise, phase>>
  BY DEF BackoffEnds
<1>2. Prompted' => Prompted
  BY <1>1 DEF Prompted, CompactedSince, Compactions, UserAt
<1>3. Failed /\ (Awaits => Awaits')
  BY <1>1 DEF BackoffEnds, Failed, Awaits
<1> QED
  BY <1>2, <1>3 DEF Awaiting

LEMMA AwaitingPrompt ==
    ASSUME Sound, Connected, EventsInOrder, NEW p \in Prompts, Prompt(p), ~overlapped'
    PROVE  Awaiting'
<1>1. ~AtWork
  BY DEF Prompt
<1>2. events = <<>> /\ handler = "ready" /\ timers = 0
  BY <1>1, NotAtWork
<1>3. lastAssistant.kind # "error" /\ Len(events) = 0
  BY <1>2, NotFailing
<1>4. run' = "none" /\ UNCHANGED <<events, handler, timers, lastAssistant>>
  BY DEF Prompt, retrying
<1> QED
  BY <1>2, <1>3, <1>4, AwaitingInPeace

LEMMA AwaitingSubmit ==
    ASSUME Sound, Connected, EventsInOrder, Awaiting, NEW p \in Prompts, Submit(p), ~overlapped'
    PROVE  Awaiting'
<1>1. /\ UNCHANGED <<lastAssistant, handler, timers, entries, retryPromise>>
      /\ phase \in [Prompts -> Phases] /\ phase[p] = "checking"
      /\ owner \in {"none"} \cup Prompts
  BY DEF Submit, retrying, Sound, TypeOK, Phases
<1>2. CASE run = "none"
  <2> DEFINE m == Said(clock, "user")
             e == Event("message", m)
  <2>1. /\ ~AtWork /\ m.kind = "user"
        /\ e \in EventType /\ e.message = m
        /\ events = <<>> /\ events' = Append(events, e) /\ owner' = p
        /\ phase' = [phase EXCEPT ![p] = "running"]
    BY <1>2, SubmitStarts
  <2> HIDE DEF e, m
  <2>2. Len(events) = 0 /\ events \in Events /\ lastAssistant.kind # "error"
    BY <2>1, EventsType, NotFailing
  <2>3. Len(events') = 1 /\ events'[1] = e
    BY <2>1, <2>2, More
  <2>4. handler = "ready" /\ timers = 0
    BY <2>1, NotAtWork
  <2>5. \A k \in 1 .. Len(events') : ~FailureAt(k)'
    <3>1. \A k \in 1 .. Len(events') : k = 1
      BY <2>3
    <3> QED
      BY <2>1, <2>3, <3>1 DEF FailureAt
  <2>6. ~Failed'
    BY <1>1, <2>2, <2>4, <2>5 DEF Failed
  <2>7. Served'
    <3>1. p # "none"
      BY AgentSessionBounds
    <3> QED
      BY <1>1, <2>1, <3>1 DEF Served
  <2> QED
    BY <2>6, <2>7 DEF Awaiting
<1>3. CASE run # "none"
  <2>1. UNCHANGED <<run, events, owner>> /\ phase' = [phase EXCEPT ![p] = "returned"]
    BY <1>3 DEF Submit
  <2>2. Prompted' => Prompted
    BY <1>1, <2>1 DEF Prompted, CompactedSince, Compactions, UserAt
  <2>3. Failed' => Failed
    BY <1>1, <2>1 DEF Failed, FailureAt
  <2>4. (Served => Served') /\ (Awaits => Awaits')
    BY <1>1, <2>1 DEF Served, Awaits
  <2> QED
    BY <2>1, <2>2, <2>3, <2>4, AwaitingStays
<1> QED
  BY <1>2, <1>3

LEMMA AwaitingWaitForRetry ==
    ASSUME Sound, Awaiting, NEW p \in Prompts, WaitForRetry(p)
    PROVE  Awaiting'
<1>1. /\ UNCHANGED <<run, events, owner, lastAssistant, handler, timers, entries, retryPromise>>
      /\ phase \in [Prompts -> Phases] /\ phase[p] = "ended"
      /\ phase' = [phase EXCEPT ![p] = IF retryPromise THEN "waiting" ELSE "returned"]
      /\ owner \in {"none"} \cup Prompts
  BY DEF WaitForRetry, retrying, Sound, TypeOK, Phases
<1>2. Prompted' => Prompted
  BY <1>1 DEF Prompted, CompactedSince, Compactions, UserAt
<1>3. Failed' => Failed
  BY <1>1 DEF Failed, FailureAt
<1>4. Served => Served'
  BY <1>1 DEF Served
<1>5. Awaits => Awaits'
  BY <1>1 DEF Awaits
<1> QED
  BY <1>1, <1>2, <1>3, <1>4, <1>5, AwaitingStays

LEMMA AwaitingCompactions ==
    ASSUME Sound, connected, OneAtATime, EventsInOrder, NEW c \in Compactors,
           Compacted(c) \/ CompactionFails(c)
    PROVE  Awaiting'
<1>1. jobs[c].stage = "summarizing" /\ jobs[c] # NoJob
  BY DEF Compacted, CompactionFails, NoJob
<1>2. JobIsAlone(c)
  BY <1>1 DEF OneAtATime
<1>3. events = <<>> /\ run = "none" /\ handler = "ready" /\ timers = 0
  BY <1>1, <1>2 DEF JobIsAlone
<1>4. Len(events) = 0 /\ lastAssistant.kind # "error"
  BY <1>3, NotFailing
<1>5. CASE CompactionFails(c)
  <2>1. UNCHANGED <<run, events, lastAssistant, handler, timers>>
    BY <1>5 DEF CompactionFails, retrying
  <2> QED
    BY <1>3, <1>4, <2>1, AwaitingInPeace
<1>6. CASE Compacted(c)
  <2> DEFINE e == [id |-> clock, kind |-> "compaction", from |-> jobs[c].from]
  <2>1. entries \in Seq(Entry) /\ jobs[c].from \in Nat /\ clock \in Nat
    BY <1>6, LenProperties DEF Compacted, Sound, TypeOK, Counters, JobsHaveEntries
  <2>2. e \in Entry /\ e.kind = "compaction" /\ entries' = Append(entries, e)
    BY <1>6, <2>1 DEF Compacted, Entry
  <2> HIDE DEF e
  <2>3. /\ Len(entries) \in Nat /\ Len(entries') = Len(entries) + 1
        /\ entries'[Len(entries) + 1] = e
    BY <2>1, <2>2, EntryMore
  <2>4. /\ Len(entries) + 1 \in 1 .. Len(entries')
        /\ Len(entries) + 1 + 1 .. Len(entries') = {}
    BY <2>3
  <2>5. CompactedSince'
    BY <2>2, <2>3, <2>4 DEF CompactedSince, Compactions
  <2>6. 1 .. Len(events') = {}
    BY <1>4, <1>6 DEF Compacted
  <2>7. ~Prompted'
    BY <2>5, <2>6 DEF Prompted
  <2> QED
    BY <2>7 DEF Awaiting
<1> QED
  BY <1>5, <1>6

LEMMA AttentiveNext ==
    ASSUME Sound, Attentive, [Next]_vars
    PROVE  Attentive' /\ (aborts' = 0 => aborts = 0)
<1>1. aborts \in Nat
  BY DEF Sound, Counters
<1>2. CASE Abort \/ AbortRetry \/ AbortCompaction \/ \E c \in Manual : Compact(c)
  <2>1. aborts' = aborts + 1
    BY <1>2 DEF Abort, AbortRetry, AbortCompaction, Compact
  <2> QED
    BY <1>1, <2>1 DEF Attentive
<1> DEFINE Still == /\ aborts' = aborts /\ connected' \in {connected, TRUE}
                    /\ handler' \in {handler, "ready", "backoff"}
<1>3. ASSUME NEW kind, Answer(kind) \/ Break(kind) PROVE Still
  BY <1>3 DEF Answer, Break
<1>4. TimerFires \/ ProcessMessage \/ UNCHANGED vars => Still
  BY DEF TimerFires, ProcessMessage, vars, retrying, bounds
<1>5. IgnoreEnd \/ Backoff \/ Exhausted \/ EndWithoutRetry => Still
  BY DEF IgnoreEnd, Backoff, Exhausted, EndWithoutRetry, ProcessingEnd, retrying, bounds
<1>6. BackoffEnds \/ BackoffCancelled => Still
  BY DEF BackoffEnds, BackoffCancelled, bounds
<1>7. ASSUME NEW p \in Prompts, Prompt(p) \/ Submit(p) \/ WaitForRetry(p) PROVE Still
  BY <1>7 DEF Prompt, Submit, WaitForRetry, retrying, bounds
<1>8. ASSUME NEW c, Compacted(c) \/ CompactionFails(c) \/ CompactWhenIdle(c) PROVE Still
  BY <1>8 DEF Compacted, CompactionFails, CompactWhenIdle, EndJob, retrying, bounds
<1>9. Still => Attentive' /\ aborts' = aborts
  <2>1. SUFFICES ASSUME Still, aborts = 0 PROVE connected' /\ handler' # "cancelled"
    BY DEF Attentive
  <2>2. connected = TRUE /\ handler # "cancelled"
    BY <2>1 DEF Attentive, Sound, TypeOK
  <2>3. connected' = TRUE /\ handler' # "cancelled"
    BY <2>1, <2>2
  <2> QED
    BY <2>3
<1> HIDE DEF Still
<1> QED
  BY <1>2, <1>3, <1>4, <1>5, <1>6, <1>7, <1>8, <1>9 DEF Next

LEMMA AwaitedNext ==
    ASSUME Sound, Connected, Orderly, Awaited, [Next]_vars
    PROVE  Awaited'
<1>1. Attentive'
  BY AttentiveNext DEF Awaited
<1> SUFFICES ASSUME ~overlapped', aborts' = 0 PROVE Awaiting'
  BY <1>1 DEF Awaited
<1>2. CASE Abort \/ AbortRetry \/ AbortCompaction \/ \E c \in Manual : Compact(c)
  <2>1. aborts' = aborts + 1 /\ aborts \in Nat
    BY <1>2 DEF Abort, AbortRetry, AbortCompaction, Compact, Sound, Counters
  <2> QED
    BY <2>1
<1>3. CASE UNCHANGED vars
  <2>1. /\ ~overlapped /\ aborts = 0
        /\ UNCHANGED <<run, events, owner, lastAssistant, handler, timers, entries, retryPromise,
                       phase>>
    BY <1>3 DEF vars, retrying, bounds, history
  <2>2. Awaiting
    BY <2>1 DEF Awaited
  <2> QED
    BY <2>1, <2>2 DEF Awaiting, Prompted, CompactedSince, Compactions, UserAt, Served, Awaits,
       Failed, FailureAt
<1>4. CASE Next /\ ~(Abort \/ AbortRetry \/ AbortCompaction \/ \E c \in Manual : Compact(c))
  <2>1. ~overlapped /\ OneAtATime /\ EventsInOrder
    BY OverlapsOnce DEF Orderly
  <2>2. aborts = 0
    BY AttentiveNext DEF Awaited
  <2>3. Awaiting /\ connected /\ handler # "cancelled"
    BY <2>1, <2>2 DEF Awaited, Attentive
  <2>4. ASSUME NEW c \in Manual, CompactWhenIdle(c) PROVE FALSE
    BY <2>1, <2>3, <2>4, CompactorsAre DEF CompactWhenIdle, OneAtATime, JobIsAlone, NoJob
  <2>5. ~BackoffCancelled
    BY <2>3 DEF BackoffCancelled
  <2>6. ASSUME NEW kind \in Answers, Answer(kind) \/ Break(kind) PROVE Awaiting'
    BY <2>3, <2>6, AwaitingAnswer
  <2>7. CASE TimerFires
    BY <2>1, <2>3, <2>7, AwaitingTimerFires
  <2>8. CASE ProcessMessage
    BY <2>3, <2>8, AwaitingProcessMessage
  <2>9. CASE IgnoreEnd \/ Backoff \/ Exhausted \/ EndWithoutRetry
    BY <2>1, <2>3, <2>9, AwaitingEndings
  <2>10. CASE BackoffEnds
    BY <2>3, <2>10, AwaitingBackoffEnds
  <2>11. ASSUME NEW p \in Prompts, Prompt(p) \/ Submit(p) \/ WaitForRetry(p) PROVE Awaiting'
    BY <2>1, <2>3, <2>11, AwaitingPrompt, AwaitingSubmit, AwaitingWaitForRetry
  <2>12. ASSUME NEW c \in Compactors, Compacted(c) \/ CompactionFails(c) PROVE Awaiting'
    BY <2>1, <2>3, <2>12, AwaitingCompactions
  <2> QED
    BY <1>4, <2>4, <2>5, <2>6, <2>7, <2>8, <2>9, <2>10, <2>11, <2>12 DEF Next
<1> QED
  BY <1>2, <1>3, <1>4

LEMMA AwaitedInit == Init => Awaited
BY EmptySeq, NoMessageType DEF Init, Awaited, Attentive, Awaiting, Failed

(* prompt() does not return before the retries of its run are over, unless *)
(* somebody aborts them: the promise that waitForRetry asks for is made    *)
(* when the agent's end is heard, not when it is processed                 *)
(* (_createRetryPromiseForAgentEnd).                                       *)
THEOREM SessionRetryAwaited == Spec => []RetryAwaited
<1>1. Init => Sound /\ Listens /\ Orderly /\ Awaited
  BY SoundInit, ListensInit, OrderlyInit, AwaitedInit
<1>2. Listens => Connected
  BY DEF Listens
<1> QED
  BY <1>1, <1>2, AwaitedIsEnough, SoundNext, ListensNext, OrderlyNext, AwaitedNext, PTL DEF Spec

-----------------------------------------------------------------------------
(* In sync.  What the agent has is what a restart would rebuild if all     *)
(* that is still to be processed had been: errors aside, and whatever else *)
(* is left out besides the messages of which the session did not hear and  *)
(* the answers that were cut off.                                          *)

Kinds == (AnswerKinds \ Errors) \cup {"user", "compaction"}

(* The messages to process: the end of a run is none. *)
Pending(es) == IF es # <<>> /\ es[Len(es)].type = "end" THEN Len(es) - 1 ELSE Len(es)

(* The entries en once es is processed. *)
Becomes(en, es) ==
    [k \in 1 .. Len(en) + Pending(es) |->
        IF k <= Len(en) THEN en[k] ELSE es[k - Len(en)].message]

ToCome == Becomes(entries, events)

(* An answer that may have to be removed is the last thing the agent has. *)
Removable(m) == IsError(m) \/ Overflowed(m)
FailsAt(k)   == AnsweredAt(k) /\ Removable(events[k].message)

FailureIsLast ==
    /\ Removable(lastAssistant) => LastOf(messages) = lastAssistant
    /\ \A k \in 1 .. Len(events) : FailsAt(k) => LastOf(messages) = events[k].message

Apart == unheard \cup cutOff

Rebuilt ==
    \A ids : Apart \subseteq ids =>
        Sift(messages, Kinds, ids) = Sift(Context(ToCome), Kinds, ids)

Synced == ~overlapped => FailureIsLast /\ Rebuilt

LEMMA BecomesType ==
    ASSUME NEW en \in Seq(Entry), KeepsWhatThereIs(en), NEW es \in Events, Heard(es)
    PROVE  /\ Becomes(en, es) \in Seq(Entry) /\ Len(Becomes(en, es)) = Len(en) + Pending(es)
           /\ Pending(es) \in 0 .. Len(es) /\ Len(en) \in Nat /\ Len(es) \in Nat
           /\ KeepsWhatThereIs(Becomes(en, es))
           /\ \A k \in 1 .. Len(en) : Becomes(en, es)[k] = en[k]
           /\ \A k \in 1 .. Pending(es) : Becomes(en, es)[Len(en) + k] = es[k].message
<1> DEFINE n == Pending(es)
           all == Becomes(en, es)
<1>1. Len(es) \in Nat /\ Len(en) \in Nat
  BY LenProperties DEF Events
<1>2. n \in 0 .. Len(es) /\ n \in Nat
  BY <1>1, NoneLeft DEF Pending
<1>3. \A k \in 1 .. Len(en) : en[k] \in Entry
  BY <1>1, ElementOfSeq
<1>4. \A k \in 1 .. Len(es) : es[k].message \in Entry /\ es[k].message.kind # "compaction"
  <2>1. \A k \in 1 .. Len(es) : es[k] \in EventType
    BY <1>1, ElementOfSeq DEF Events
  <2> QED
    BY <2>1 DEF EventType, Message, Heard, Proper
<1>5. \A k \in 1 .. Len(en) + n :
         k \in 1 .. Len(en) \/ (~(k <= Len(en)) /\ k - Len(en) \in 1 .. Len(es))
  BY <1>1, <1>2
<1>6. all \in [1 .. Len(en) + n -> Entry]
  BY <1>1, <1>3, <1>4, <1>5 DEF Becomes
<1>7. all \in Seq(Entry) /\ Len(all) = Len(en) + n
  <2>1. Len(en) + n \in Nat
    BY <1>1, <1>2
  <2> HIDE DEF all
  <2> QED
    BY <1>6, <2>1
<1>8. \A k \in 1 .. Len(en) : all[k] = en[k]
  <2>1. \A k \in 1 .. Len(en) : k \in 1 .. Len(en) + n /\ k <= Len(en)
    BY <1>1, <1>2
  <2> QED
    BY <2>1 DEF Becomes
<1>9. \A k \in 1 .. n : all[Len(en) + k] = es[k].message
  <2>1. \A k \in 1 .. n : /\ Len(en) + k \in 1 .. Len(en) + n /\ ~(Len(en) + k <= Len(en))
                           /\ Len(en) + k - Len(en) = k
    BY <1>1, <1>2
  <2> QED
    BY <2>1 DEF Becomes
<1>10. KeepsWhatThereIs(all)
  <2>1. ASSUME NEW k \in 1 .. Len(en) + n, all[k].kind = "compaction"
        PROVE  all[k].from \in 1 .. k
    <3>1. CASE k \in 1 .. Len(en)
      BY <1>8, <2>1, <3>1 DEF KeepsWhatThereIs
    <3>2. CASE k \notin 1 .. Len(en)
      <4>1. ~(k <= Len(en)) /\ k - Len(en) \in 1 .. Len(es)
        BY <1>5, <3>2
      <4>2. all[k] = es[k - Len(en)].message
        BY <2>1, <4>1 DEF Becomes
      <4> QED
        BY <1>4, <2>1, <4>1, <4>2
    <3> QED
      BY <3>1, <3>2
  <2> HIDE DEF all
  <2> QED
    BY <1>7, <2>1 DEF KeepsWhatThereIs
<1> QED
  BY <1>1, <1>2, <1>7, <1>8, <1>9, <1>10

LEMMA ToComeType ==
    ASSUME Sound
    PROVE  /\ ToCome \in Seq(Entry) /\ KeepsWhatThereIs(ToCome)
           /\ Pending(events) \in 0 .. Len(events) /\ Len(events) \in Nat
           /\ events \in Events /\ Heard(events)
           /\ entries \in Seq(Entry) /\ KeepsWhatThereIs(entries)
<1>1. /\ events \in Events /\ Heard(events) /\ entries \in Seq(Entry) /\ KeepsWhatThereIs(entries)
  BY EventsType DEF Sound, TypeOK
<1> QED
  BY <1>1, BecomesType DEF ToCome

(* What is heard without being a message changes nothing; a message is one *)
(* more to come; and the first one may be an entry as well.                *)
LEMMA BecomesTheSame ==
    ASSUME NEW en \in Seq(Entry), NEW es \in Events, NEW fs, Pending(fs) = Pending(es),
           Pending(es) \in Nat, \A k \in 1 .. Pending(es) : fs[k] = es[k]
    PROVE  Becomes(en, fs) = Becomes(en, es)
<1>1. Len(en) \in Nat
  BY LenProperties
<1>2. \A k \in 1 .. Len(en) + Pending(es) : k <= Len(en) \/ k - Len(en) \in 1 .. Pending(es)
  BY <1>1
<1> QED
  BY <1>1, <1>2 DEF Becomes

LEMMA BecomesMore ==
    ASSUME NEW en \in Seq(Entry), KeepsWhatThereIs(en), NEW es \in Events, Heard(es),
           NEW fs \in Events, Heard(fs), NEW m \in Entry, Pending(fs) = Pending(es) + 1,
           \A k \in 1 .. Pending(es) : fs[k] = es[k], fs[Pending(es) + 1].message = m
    PROVE  Becomes(en, fs) = Append(Becomes(en, es), m)
<1> DEFINE N == Len(en)
           n == Pending(es)
           old == Becomes(en, es)
           new == Becomes(en, fs)
<1>1. /\ N \in Nat /\ n \in Nat /\ old \in Seq(Entry) /\ Len(old) = N + n
      /\ \A k \in 1 .. N : old[k] = en[k]
      /\ \A k \in 1 .. n : old[N + k] = es[k].message
  <2>1. n \in 0 .. Len(es) /\ Len(es) \in Nat
    BY BecomesType
  <2>2. /\ old \in Seq(Entry) /\ Len(old) = N + n /\ N \in Nat
        /\ \A k \in 1 .. N : old[k] = en[k]
    BY BecomesType
  <2>3. \A k \in 1 .. n : old[N + k] = es[k].message
    BY BecomesType
  <2> HIDE DEF old, N, n
  <2> QED
    BY <2>1, <2>2, <2>3
<1>2. /\ new \in Seq(Entry) /\ Len(new) = N + (n + 1)
      /\ \A k \in 1 .. N : new[k] = en[k]
      /\ \A k \in 1 .. n + 1 : new[N + k] = fs[k].message
  <2>1. /\ new \in Seq(Entry) /\ Len(new) = N + Pending(fs)
        /\ \A k \in 1 .. N : new[k] = en[k]
    BY BecomesType
  <2>2. \A k \in 1 .. Pending(fs) : new[N + k] = fs[k].message
    BY BecomesType
  <2>3. Pending(fs) = n + 1
    OBVIOUS
  <2> HIDE DEF new, N, n
  <2> QED
    BY <2>1, <2>2, <2>3
<1> HIDE DEF old, new, N, n
<1>3. /\ Append(old, m) \in Seq(Entry) /\ Len(Append(old, m)) = N + n + 1
      /\ Append(old, m)[N + n + 1] = m
      /\ \A k \in 1 .. N + n : Append(old, m)[k] = old[k]
  BY <1>1, AppendProperties
<1>4. ASSUME NEW i \in 1 .. N + n + 1
      PROVE  new[i] = Append(old, m)[i]
  <2>1. CASE i \in 1 .. N
    <3>1. i \in 1 .. N + n
      BY <1>1, <2>1
    <3> QED
      BY <1>1, <1>2, <1>3, <2>1, <3>1
  <2>2. CASE i = N + n + 1
    <3>1. n + 1 \in 1 .. n + 1 /\ N + (n + 1) = i
      BY <1>1, <2>2
    <3>2. new[i] = fs[n + 1].message
      BY <1>2, <3>1
    <3> QED
      BY <1>3, <2>2, <3>2 DEF n
  <2>3. CASE i \notin 1 .. N /\ i # N + n + 1
    <3>1. i - N \in 1 .. n /\ i = N + (i - N)
      BY <1>1, <2>3
    <3>2. PICK k \in 1 .. n : i = N + k
      BY <3>1
    <3>3. k \in 1 .. n + 1 /\ i \in 1 .. N + n
      BY <1>1, <3>2
    <3>4. fs[k] = es[k]
      BY <3>2 DEF n
    <3>5. new[i] = fs[k].message /\ old[i] = es[k].message
      BY <1>1, <1>2, <3>2, <3>3
    <3> QED
      BY <1>3, <3>3, <3>4, <3>5
  <2> QED
    BY <2>1, <2>2, <2>3
<1>5. Len(new) = Len(Append(old, m)) /\ Len(new) = N + n + 1
  BY <1>1, <1>2, <1>3
<1>6. new = Append(old, m)
  BY <1>2, <1>3, <1>4, <1>5, SeqEqual
<1> QED
  BY <1>6 DEF old, new

(* A message more is a message more of the context. *)
LEMMA ContextAppend ==
    ASSUME NEW es \in Seq(Entry), KeepsWhatThereIs(es), NEW m \in Entry,
           m.kind \in AnswerKinds \cup {"user"}
    PROVE  Context(Append(es, m)) = Append(Context(es), m)
<1> DEFINE more == Append(es, m)
           N == Len(es)
           latest == Latest(es)
           from == es[latest].from
           kinds == AnswerKinds \cup {"user"}
<1>1. /\ N \in Nat /\ more \in Seq(Entry) /\ Len(more) = N + 1 /\ more[N + 1] = m
      /\ \A k \in 1 .. N : more[k] = es[k]
  BY LenProperties, AppendProperties
<1>2. m.kind # "compaction"
  BY DEF AnswerKinds, Errors
<1> HIDE DEF more
<1>3. Compactions(more) = Compactions(es)
  <2>1. \A k \in 1 .. N + 1 : k \in 1 .. N \/ k = N + 1
    BY <1>1
  <2>2. 1 .. N \subseteq 1 .. N + 1
    BY <1>1
  <2> QED
    BY <1>1, <1>2, <2>1, <2>2 DEF Compactions
<1>4. Latest(more) = latest
  BY <1>3 DEF Latest
<1>5. CASE latest = 0
  BY <1>4, <1>5 DEF Context, more
<1>6. CASE latest # 0
  <2>1. latest \in 1 .. N /\ from \in 1 .. latest
    BY <1>6, LatestCompaction DEF Compactions, KeepsWhatThereIs
  <2>2. es[latest] \in Message /\ from \in 1 .. N + 1 /\ more[latest] = es[latest]
    BY <1>1, <2>1, ElementOfSeq DEF Message
  <2> DEFINE kept == SubSeq(es, from, N)
  <2>3. kept \in Seq(Message) /\ m \in Message
    <3>1. \A i \in from .. N : es[i] \in Message
      BY <1>1, <2>1, ElementOfSeq DEF Message
    <3> QED
      BY <1>1, <2>1, <3>1, SubSeqProperties DEF Message
  <2>4. SubSeq(more, from, N + 1) = Append(kept, m)
    <3>1. SubSeq(more, from, N + 1) = SubSeq(more, from, N) \o <<m>>
      <4>1. from \in 1 .. Len(more) /\ N + 1 \in from .. Len(more) /\ N + 1 - 1 = N
        BY <1>1, <2>1
      <4> HIDE DEF from, N
      <4>2. SubSeq(more, from, N + 1) = SubSeq(more, from, N + 1 - 1) \o <<more[N + 1]>>
        BY <1>1, <4>1, SubSeqRecursiveSecond, SMTT(30)
      <4> QED
        BY <1>1, <4>1, <4>2
    <3>2. SubSeq(more, from, N) = kept
      <4>1. more = es \o <<m>> /\ <<m>> \in Seq(Entry)
        BY AppendIsConcat DEF more
      <4>2. from \in 1 .. Len(es) /\ N \in 1 .. Len(es)
        BY <1>1, <2>1
      <4> QED
        BY <4>1, <4>2, SubSeqOfConcat1
    <3> QED
      BY <2>3, <3>1, <3>2, AppendIsConcat
  <2> HIDE DEF kept
  <2>5. Sift(Append(kept, m), kinds, {}) = Append(Sift(kept, kinds, {}), m)
    BY <2>3, SiftAppend DEF Passes
  <2>6. Sift(kept, kinds, {}) \in Seq(Message)
    BY <2>3, SiftType
  <2>7. <<es[latest]>> \o Append(Sift(kept, kinds, {}), m)
          = Append(<<es[latest]>> \o Sift(kept, kinds, {}), m)
    <3> DEFINE s == Sift(kept, kinds, {})
               one == <<es[latest]>>
    <3>1. one \in Seq(Message) /\ <<m>> \in Seq(Message) /\ s \in Seq(Message)
      BY <2>2, <2>3, <2>6
    <3> HIDE DEF s, one
    <3>2. Append(s, m) = s \o <<m>>
      BY <2>3, <3>1, AppendIsConcat
    <3>3. one \o (s \o <<m>>) = (one \o s) \o <<m>>
      BY <3>1, ConcatAssociative
    <3>4. Append(one \o s, m) = (one \o s) \o <<m>>
      BY <2>3, <3>1, ConcatProperties, AppendIsConcat
    <3>5. one \o Append(s, m) = Append(one \o s, m)
      BY <3>2, <3>3, <3>4
    <3> QED
      BY <3>5 DEF s, one
  <2>8. Context(es) = <<es[latest]>> \o Sift(kept, kinds, {})
    BY <1>6 DEF Context, kept
  <2>9. Context(more) = <<es[latest]>> \o Sift(Append(kept, m), kinds, {})
    BY <1>1, <1>4, <1>6, <2>2, <2>4 DEF Context
  <2> QED
    BY <2>5, <2>7, <2>8, <2>9 DEF more
<1> QED
  BY <1>5, <1>6

(* An error that is removed was sifted out anyway. *)
LEMMA SiftDropped ==
    ASSUME NEW ms \in Seq(Message), NEW ids,
           EndsInAnswer(ms) => IsError(LastOf(ms)) \/ LastOf(ms).id \in ids
    PROVE  Sift(DropAnswer(ms), Kinds, ids) = Sift(ms, Kinds, ids)
<1>1. CASE EndsInAnswer(ms)
  <2> DEFINE front == SubSeq(ms, 1, Len(ms) - 1)
  <2>1. Len(ms) \in Nat \ {0}
    BY <1>1, EmptySeq DEF EndsInAnswer
  <2>2. ms[Len(ms)] \in Message /\ \A i \in 1 .. Len(ms) - 1 : ms[i] \in Message
    BY <2>1, ElementOfSeq
  <2>3. front \in Seq(Message)
    BY <2>1, <2>2, SubSeqProperties
  <2>4. ms = front \o <<ms[Len(ms)]>>
    <3>1. 1 \in 1 .. Len(ms) /\ Len(ms) \in 1 .. Len(ms)
      BY <2>1
    <3>2. SubSeq(ms, 1, Len(ms)) = front \o <<ms[Len(ms)]>>
      BY <3>1, SubSeqRecursiveSecond
    <3> QED
      BY <3>2, SubSeqFull
  <2>5. DropAnswer(ms) = front
    BY <1>1 DEF DropAnswer
  <2> HIDE DEF front
  <2>6. ms = Append(front, ms[Len(ms)])
    BY <2>2, <2>3, <2>4, AppendIsConcat
  <2>7. ~Passes(ms[Len(ms)], Kinds, ids)
    BY <1>1 DEF Passes, Kinds, IsError, LastOf, AnswerKinds, Errors
  <2>8. Sift(Append(front, ms[Len(ms)]), Kinds, ids) = Sift(front, Kinds, ids)
    BY <2>2, <2>3, <2>7, SiftAppend
  <2> QED
    BY <2>5, <2>6, <2>8
<1>2. CASE ~EndsInAnswer(ms)
  BY <1>2 DEF DropAnswer
<1> QED
  BY <1>1, <1>2

(* So the two change alike. *)
LEMMA RebuiltMore ==
    ASSUME Sound, Rebuilt, NEW m \in Message, m.kind \in AnswerKinds \cup {"user"},
           messages' = Append(messages, m), ToCome' = Append(ToCome, m), Apart \subseteq Apart'
    PROVE  Rebuilt'
<1> SUFFICES ASSUME NEW ids, Apart' \subseteq ids
             PROVE  Sift(messages', Kinds, ids) = Sift(Context(ToCome'), Kinds, ids)
  BY DEF Rebuilt
<1>1. /\ messages \in Seq(Message) /\ ToCome \in Seq(Entry) /\ KeepsWhatThereIs(ToCome)
      /\ Context(ToCome) \in Seq(Message)
  BY ToComeType, ContextType DEF Sound, TypeOK
<1>2. Sift(messages, Kinds, ids) = Sift(Context(ToCome), Kinds, ids)
  BY DEF Rebuilt
<1>3. Context(ToCome') = Append(Context(ToCome), m)
  BY <1>1, ContextAppend DEF Message
<1>4. Sift(messages', Kinds, ids) =
        IF Passes(m, Kinds, ids) THEN Append(Sift(messages, Kinds, ids), m)
        ELSE Sift(messages, Kinds, ids)
  BY <1>1, SiftAppend
<1>5. Sift(Context(ToCome'), Kinds, ids) =
        IF Passes(m, Kinds, ids) THEN Append(Sift(Context(ToCome), Kinds, ids), m)
        ELSE Sift(Context(ToCome), Kinds, ids)
  BY <1>1, <1>3, SiftAppend
<1> QED
  BY <1>2, <1>4, <1>5

LEMMA RebuiltUnheard ==
    ASSUME Sound, Rebuilt, NEW m \in Message, messages' = Append(messages, m), ToCome' = ToCome,
           Apart' = Apart \cup {m.id}
    PROVE  Rebuilt'
<1> SUFFICES ASSUME NEW ids, Apart' \subseteq ids
             PROVE  Sift(messages', Kinds, ids) = Sift(Context(ToCome'), Kinds, ids)
  BY DEF Rebuilt
<1>1. Sift(messages, Kinds, ids) = Sift(Context(ToCome), Kinds, ids)
  BY DEF Rebuilt
<1>2. ~Passes(m, Kinds, ids) /\ messages \in Seq(Message)
  BY DEF Passes, Sound, TypeOK
<1>3. Sift(messages', Kinds, ids) = Sift(messages, Kinds, ids)
  BY <1>2, SiftAppend
<1> QED
  BY <1>1, <1>3

LEMMA RebuiltDropped ==
    ASSUME Sound, Rebuilt, ToCome' = ToCome, Apart \subseteq Apart',
           \/ messages' = messages
           \/ /\ messages' = DropAnswer(messages)
              /\ EndsInAnswer(messages) =>
                    IsError(LastOf(messages)) \/ LastOf(messages).id \in Apart'
    PROVE  Rebuilt'
<1> SUFFICES ASSUME NEW ids, Apart' \subseteq ids
             PROVE  Sift(messages', Kinds, ids) = Sift(Context(ToCome'), Kinds, ids)
  BY DEF Rebuilt
<1>1. Sift(messages, Kinds, ids) = Sift(Context(ToCome), Kinds, ids)
  BY DEF Rebuilt
<1>2. Sift(messages', Kinds, ids) = Sift(messages, Kinds, ids)
  BY SiftDropped DEF Sound, TypeOK
<1> QED
  BY <1>1, <1>2

(* Nothing to come but what there is. *)
LEMMA BecomesAlone ==
    ASSUME NEW en \in Seq(Entry), KeepsWhatThereIs(en)
    PROVE  Becomes(en, <<>>) = en /\ Pending(<<>>) = 0
<1>1. <<>> \in Events /\ Len(<<>>) = 0
  BY EmptySeq DEF Events
<1>2. Heard(<<>>)
  BY <1>1 DEF Heard
<1>3. Pending(<<>>) = 0
  BY <1>1 DEF Pending
<1> DEFINE all == Becomes(en, <<>>)
<1>4. /\ all \in Seq(Entry) /\ Len(all) = Len(en) + 0 /\ Len(en) \in Nat
      /\ \A k \in 1 .. Len(en) : all[k] = en[k]
  BY <1>1, <1>2, <1>3, BecomesType
<1> HIDE DEF all
<1>5. Len(all) = Len(en)
  BY <1>4
<1>6. all = en
  BY <1>4, <1>5, SeqEqual
<1> QED
  BY <1>3, <1>6 DEF all

LEMMA PendingAppend ==
    ASSUME NEW es \in Events, NEW e \in EventType
    PROVE  Pending(Append(es, e)) = IF e.type = "end" THEN Len(es) ELSE Len(es) + 1
<1>1. Len(es) \in Nat
  BY LenProperties DEF Events
<1> QED
  BY <1>1, More DEF Pending

(* While a run is under way all that is to be processed are messages. *)
LEMMA NoEndInRun ==
    ASSUME Sound, EventsInOrder, run # "none"
    PROVE  Pending(events) = Len(events)
<1>1. events \in Events /\ Len(events) \in Nat
  BY EventsType
<1>2. events # <<>> => Len(events) \in 1 .. Len(events)
  BY <1>1, NoneLeft
<1> QED
  BY <1>1, <1>2 DEF Pending, EventsInOrder, EndAt

LEMMA RebuiltAnswer ==
    ASSUME Sound, Sound', EventsInOrder, Rebuilt, NEW kind \in Answers, Answer(kind) \/ Break(kind)
    PROVE  Rebuilt'
<1> DEFINE m == Said(clock, kind)
           message == Event("message", m)
           end == Event("end", m)
<1>0. PICK n : n = Len(events)
  OBVIOUS
<1>1. /\ events \in Events /\ Heard(events) /\ n \in Nat /\ entries \in Seq(Entry)
      /\ KeepsWhatThereIs(entries) /\ Pending(events) = n /\ entries' = entries
  BY <1>0, ToComeType, NoEndInRun DEF Answer, Break
<1>2. m \in Message /\ m.id = clock /\ m.kind = kind /\ kind \in AnswerKinds
  BY AgentSessionBounds, SaidType DEF Sound, Counters
<1>3. /\ message \in EventType /\ message.type = "message" /\ message.message = m
      /\ end \in EventType /\ end.type = "end"
  BY <1>2, EventTyped
<1>4. messages' = Append(messages, m)
  BY DEF Answer, Break
<1>5. events' \in Events /\ Heard(events')
  BY EventsType DEF Sound, TypeOK, Events, EventType, Heard
<1>6. CASE ~connected \/ Break(kind)
  <2>1. Apart' = Apart \cup {m.id}
    BY <1>2, <1>6 DEF Answer, Break, Apart, compacting
  <2>2. ToCome' = ToCome
    <3>1. CASE ~connected
      <4>1. events' = events
        BY <3>1, HearNothing DEF Answer, Break
      <4> QED
        BY <1>1, <4>1 DEF ToCome
    <3>2. CASE connected
      <4>1. Hear(<<end>>)
        BY <1>6, <3>2 DEF Break
      <4> HIDE DEF message, end, m
      <4>2. events' = Append(events, end)
        BY <1>1, <1>3, <3>2, <4>1, HearOne
      <4>3. Pending(events') = n
        BY <1>0, <1>1, <1>3, <4>2, PendingAppend
      <4>4. \A k \in 1 .. n : events'[k] = events[k]
        BY <1>0, <1>1, <1>3, <4>2, More
      <4>5. Becomes(entries, events') = Becomes(entries, events)
        BY <1>1, <4>3, <4>4, BecomesTheSame
      <4> QED
        BY <1>1, <4>5 DEF ToCome
    <3> QED
      BY <3>1, <3>2
  <2> HIDE DEF m
  <2> QED
    BY <1>2, <1>4, <2>1, <2>2, RebuiltUnheard
<1>7. CASE connected /\ Answer(kind)
  <2>1. Apart \subseteq Apart'
    BY <1>7 DEF Answer, Apart, compacting
  <2>2. /\ Pending(events') = n + 1 /\ events'[n + 1].message = m
        /\ \A k \in 1 .. n : events'[k] = events[k]
    <3>1. CASE kind = "more"
      <4>1. Hear(<<message>>)
        BY <1>7, <3>1 DEF Answer
      <4> HIDE DEF message, end, m
      <4>2. events' = Append(events, message)
        BY <1>1, <1>3, <1>7, <4>1, HearOne
      <4>3. Pending(events') = n + 1
        BY <1>0, <1>1, <1>3, <4>2, PendingAppend
      <4>4. events'[n + 1] = message /\ \A k \in 1 .. n : events'[k] = events[k]
        BY <1>0, <1>1, <1>3, <4>2, More
      <4> QED
        BY <1>3, <4>3, <4>4
    <3>2. CASE kind # "more"
      <4>1. Hear(<<message, end>>)
        BY <1>7, <3>2 DEF Answer
      <4> HIDE DEF message, end, m
      <4> DEFINE es == Append(events, message)
      <4>2. events' = Append(es, end)
        BY <1>1, <1>3, <1>7, <4>1, HearTwo
      <4>3. /\ es \in Events /\ Len(es) = n + 1 /\ es[n + 1] = message
            /\ \A k \in 1 .. n : es[k] = events[k]
        BY <1>0, <1>1, <1>3, More
      <4> HIDE DEF es
      <4>4. /\ Pending(events') = n + 1
            /\ \A k \in 1 .. n + 1 : events'[k] = es[k]
        BY <1>3, <4>2, <4>3, PendingAppend, More, SMTT(30)
      <4>5. n + 1 \in 1 .. n + 1 /\ \A k \in 1 .. n : k \in 1 .. n + 1
        BY <1>1
      <4> QED
        BY <1>3, <4>3, <4>4, <4>5
    <3> QED
      BY <3>1, <3>2
  <2> HIDE DEF message, end, m
  <2>3. Becomes(entries, events') = Append(Becomes(entries, events), m)
    BY <1>1, <1>2, <1>5, <2>2, BecomesMore DEF Message
  <2>4. ToCome' = Append(ToCome, m)
    BY <1>1, <2>3 DEF ToCome
  <2> QED
    BY <1>2, <1>4, <2>1, <2>4, RebuiltMore
<1> QED
  BY <1>6, <1>7

LEMMA RebuiltTimerFires ==
    ASSUME Sound, OneAtATime, EventsInOrder, Rebuilt, TimerFires
    PROVE  Rebuilt'
<1>1. messages \in Seq(Message) /\ events \in Events
  BY EventsType DEF Sound, TypeOK
<1>2. messages' = messages /\ events' = events /\ entries' = entries /\ Apart \subseteq Apart'
  BY <1>1, StartsAsItIs DEF TimerFires, StartRun, Apart, compacting
<1>3. ToCome' = ToCome
  BY <1>2 DEF ToCome
<1> QED
  BY <1>2, <1>3, RebuiltDropped

LEMMA RebuiltProcessMessage ==
    ASSUME Sound, Sound', Rebuilt, ProcessMessage
    PROVE  Rebuilt'
<1>0. PICK m, n, N : m = Head(events).message /\ n = Len(events) /\ N = Len(entries)
  OBVIOUS
<1>1. /\ events \in Events /\ events # <<>> /\ Head(events).type = "message" /\ events' = Tail(events)
      /\ Heard(events) /\ entries \in Seq(Entry) /\ KeepsWhatThereIs(entries)
  BY ToComeType DEF ProcessMessage
<1>2. /\ Head(events) = events[1] /\ n \in Nat \ {0} /\ Len(events') = n - 1 /\ events' \in Events
      /\ \A k \in 1 .. n - 1 : events'[k] = events[k + 1]
  BY <1>0, <1>1, Less
<1>3. /\ entries' = Append(entries, m) /\ messages' = messages /\ Apart' = Apart
  BY <1>0 DEF ProcessMessage, history, Apart, compacting
<1>4. m \in Entry
  BY <1>0, <1>1, HeardLess DEF Message
<1>5. /\ N \in Nat /\ Len(entries') = N + 1 /\ entries'[N + 1] = m
      /\ \A k \in 1 .. N : entries'[k] = entries[k]
  BY <1>0, <1>1, <1>3, <1>4, EntryMore
<1>6. /\ entries' \in Seq(Entry) /\ KeepsWhatThereIs(entries') /\ Heard(events')
  BY DEF Sound, TypeOK, KeepsWhatThereIs, Heard
<1>7. Pending(events') = Pending(events) - 1 /\ Pending(events) \in Nat \ {0}
  <2>1. CASE n = 1
    <3>1. events' = <<>>
      BY <1>2, <2>1, NoneLeft
    <3>2. Pending(events) = 1
      BY <1>0, <1>1, <1>2, <2>1 DEF Pending
    <3>3. Pending(events') = 0
      BY <3>1, <1>6, BecomesAlone
    <3> QED
      BY <3>2, <3>3
  <2>2. CASE n # 1
    <3>1. n - 1 \in 1 .. n - 1 /\ n - 1 + 1 = n /\ n - 1 # 0 /\ n - 1 \in Nat \ {0}
      BY <1>2, <2>2
    <3>2. events'[n - 1] = events[n] /\ events' # <<>>
      BY <1>2, <3>1, NoneLeft
    <3> QED
      BY <1>0, <1>1, <1>2, <3>1, <3>2 DEF Pending
  <2> QED
    BY <2>1, <2>2
<1> DEFINE P == Pending(events)
           old == Becomes(entries, events)
           new == Becomes(entries', events')
<1>8. /\ old \in Seq(Entry) /\ Len(old) = N + P /\ P \in 0 .. n
      /\ \A k \in 1 .. N : old[k] = entries[k]
      /\ \A k \in 1 .. P : old[N + k] = events[k].message
  <2>1. old \in Seq(Entry) /\ Len(old) = N + P /\ P \in 0 .. n
    BY <1>0, <1>1, BecomesType
  <2>2. \A k \in 1 .. N : old[k] = entries[k]
    BY <1>0, <1>1, BecomesType
  <2>3. \A k \in 1 .. P : old[N + k] = events[k].message
    BY <1>0, <1>1, BecomesType
  <2> QED
    BY <2>1, <2>2, <2>3
<1>9. /\ new \in Seq(Entry) /\ Len(new) = N + 1 + (P - 1)
      /\ \A k \in 1 .. N + 1 : new[k] = entries'[k]
      /\ \A k \in 1 .. P - 1 : new[N + 1 + k] = events'[k].message
  <2>1. new \in Seq(Entry) /\ Len(new) = N + 1 + (P - 1)
    BY <1>2, <1>5, <1>6, <1>7, BecomesType
  <2>2. \A k \in 1 .. N + 1 : new[k] = entries'[k]
    <3>1. \A k \in 1 .. Len(entries') : new[k] = entries'[k]
      BY <1>2, <1>6, BecomesType
    <3>2. Len(entries') = N + 1
      BY <1>5
    <3> QED
      BY ONLY <3>1, <3>2
  <2>3. \A k \in 1 .. P - 1 : new[N + 1 + k] = events'[k].message
    <3>1. \A k \in 1 .. Pending(events') : new[Len(entries') + k] = events'[k].message
      BY <1>2, <1>6, BecomesType
    <3> HIDE DEF new, P
    <3>2. Pending(events') = P - 1 /\ Len(entries') = N + 1
      BY <1>5, <1>7 DEF P
    <3> QED
      BY <3>1, <3>2
  <2> QED
    BY <2>1, <2>2, <2>3
<1>10. P \in Nat \ {0}
  BY <1>7
<1> HIDE DEF P, old, new
<1>11. ASSUME NEW i \in 1 .. N + P PROVE new[i] = old[i]
  <2>1. CASE i \in 1 .. N
    <3>1. i \in 1 .. N + 1
      BY <1>5, <2>1
    <3> QED
      BY <1>5, <1>8, <1>9, <2>1, <3>1
  <2>2. CASE i = N + 1
    <3>1. N + 1 \in 1 .. N + 1 /\ 1 \in 1 .. P
      BY <1>5, <1>10
    <3>2. new[i] = m
      BY <1>5, <1>9, <2>2, <3>1
    <3>3. old[i] = events[1].message
      BY <1>8, <2>2, <3>1
    <3> QED
      BY <1>0, <1>2, <3>2, <3>3
  <2>3. CASE i \notin 1 .. N + 1
    <3>1. i - N - 1 \in 1 .. P - 1 /\ i = N + 1 + (i - N - 1)
      BY <1>5, <1>10, <2>3
    <3>2. PICK k \in 1 .. P - 1 : i = N + 1 + k
      BY <3>1
    <3>3. k + 1 \in 1 .. P /\ N + (k + 1) = i /\ k \in 1 .. n - 1
      BY <1>2, <1>5, <1>8, <1>10, <3>2
    <3>4. new[i] = events'[k].message
      BY <1>9, <3>2
    <3>5. old[i] = events[k + 1].message
      BY <1>8, <3>3
    <3> QED
      BY <1>2, <3>3, <3>4, <3>5
  <2> QED
    BY <1>5, <2>1, <2>2, <2>3
<1>12. Len(new) = N + P
  BY <1>5, <1>9, <1>10
<1>13. new = old
  BY <1>8, <1>9, <1>11, <1>12, SeqEqual
<1>14. ToCome' = ToCome
  BY <1>13 DEF ToCome, new, old
<1> QED
  BY <1>3, <1>14, RebuiltDropped

LEMMA CheckDrops ==
    ASSUME NEW c, NEW m, NEW skip, NEW ms, CheckCompaction(c, m, skip, ms)
    PROVE  /\ cutOff \subseteq cutOff'
           /\ \/ messages' = ms
              \/ /\ messages' = DropAnswer(ms) /\ Overflowed(m)
                 /\ EndsInAnswer(ms) => IsError(m) \/ m.id \in cutOff'
BY DEF CheckCompaction, CutOff, compacting

LEMMA RebuiltEndings ==
    ASSUME Sound, OneAtATime, EventsInOrder, FailureIsLast, Rebuilt,
           IgnoreEnd \/ Backoff \/ Exhausted \/ EndWithoutRetry \/ BackoffCancelled
    PROVE  Rebuilt'
<1>1. /\ entries' = entries /\ unheard' = unheard /\ entries \in Seq(Entry)
      /\ KeepsWhatThereIs(entries) /\ events \in Events
  BY ToComeType DEF IgnoreEnd, Backoff, Exhausted, EndWithoutRetry, BackoffCancelled, ProcessingEnd,
     history
<1>2. ToCome' = ToCome
  <2>1. CASE ProcessingEnd
    <3>1. /\ events' = <<>> /\ Len(events) = 1
      BY <2>1, AtTheEnd
    <3>2. Pending(events) = 0
      <4>1. EndPending
        BY <2>1, EndIsPending
      <4> QED
        BY <3>1, <4>1 DEF Pending, EndPending, EndAt
    <3>3. Pending(events') = Pending(events)
      BY <1>1, <3>1, <3>2, BecomesAlone
    <3>4. Becomes(entries, events') = Becomes(entries, events)
      BY <1>1, <3>2, <3>3, BecomesTheSame
    <3> QED
      BY <1>1, <3>4 DEF ToCome
  <2>2. CASE BackoffCancelled
    BY <1>1, <2>2 DEF BackoffCancelled, ToCome
  <2> QED
    BY <2>1, <2>2 DEF IgnoreEnd, Backoff, Exhausted, EndWithoutRetry
<1>3. /\ cutOff \subseteq cutOff'
      /\ \/ messages' = messages
         \/ /\ messages' = DropAnswer(messages) /\ Removable(lastAssistant)
            /\ EndsInAnswer(messages) => IsError(lastAssistant) \/ lastAssistant.id \in cutOff'
  <2>1. CASE IgnoreEnd
    BY <2>1 DEF IgnoreEnd, compacting
  <2>2. CASE Backoff
    BY <2>2 DEF Backoff, Removable, IsError, Errors, compacting
  <2>3. CASE Exhausted \/ EndWithoutRetry
    BY <2>3, CheckDrops DEF Exhausted, EndWithoutRetry, Removable
  <2>4. CASE BackoffCancelled
    <3>1. ~Overflowed(failed)
      BY <2>4 DEF BackoffCancelled, Sound, Overflowed
    <3> QED
      BY <2>4, <3>1, CheckDrops DEF BackoffCancelled
  <2> QED
    BY <2>1, <2>2, <2>3, <2>4
<1>4. Removable(lastAssistant) => LastOf(messages) = lastAssistant
  BY DEF FailureIsLast
<1>5. Apart \subseteq Apart'
  BY <1>1, <1>3 DEF Apart
<1>6. \/ messages' = messages
      \/ /\ messages' = DropAnswer(messages)
         /\ EndsInAnswer(messages) =>
               IsError(LastOf(messages)) \/ LastOf(messages).id \in Apart'
  BY <1>3, <1>4 DEF Apart
<1> QED
  BY <1>2, <1>5, <1>6, RebuiltDropped

LEMMA RebuiltPrompt ==
    ASSUME Sound, Rebuilt, NEW p \in Prompts, Prompt(p)
    PROVE  Rebuilt'
<1>1. UNCHANGED <<entries, events, unheard>>
  BY DEF Prompt
<1>2. ToCome' = ToCome
  BY <1>1 DEF ToCome
<1> DEFINE said == {k \in 1 .. Len(messages) : IsAnswer(messages[k])}
<1>3. \/ messages' = messages /\ cutOff' = cutOff
      \/ \E k \in said : /\ \A j \in said : j <= k
                          /\ CheckCompaction(p, messages[k], FALSE, messages)
  BY DEF Prompt, compacting
<1>4. ASSUME NEW k \in said, \A j \in said : j <= k
      PROVE  EndsInAnswer(messages) => messages[k] = LastOf(messages)
  <2>1. Len(messages) \in Nat /\ (messages # <<>> => Len(messages) # 0)
    BY EmptySeq, LenProperties DEF Sound, TypeOK
  <2>2. EndsInAnswer(messages) => Len(messages) \in said
    BY <2>1 DEF EndsInAnswer, LastOf
  <2>3. EndsInAnswer(messages) => Len(messages) <= k
    BY <1>4, <2>2
  <2>4. EndsInAnswer(messages) => k = Len(messages)
    BY <2>1, <2>3
  <2> QED
    BY <2>4 DEF LastOf
<1> DEFINE CutOrKept ==
      /\ cutOff \subseteq cutOff'
      /\ \/ messages' = messages
         \/ /\ messages' = DropAnswer(messages)
            /\ EndsInAnswer(messages) =>
                  IsError(LastOf(messages)) \/ LastOf(messages).id \in cutOff'
<1>5. CutOrKept
  <2>1. ASSUME NEW k \in said, \A j \in said : j <= k,
               CheckCompaction(p, messages[k], FALSE, messages)
        PROVE  CutOrKept
    <3>1. EndsInAnswer(messages) => messages[k] = LastOf(messages)
      BY <1>4, <2>1
    <3>2. PICK m : m = messages[k]
      OBVIOUS
    <3> QED
      BY <2>1, <3>1, <3>2, CheckDrops
  <2> QED
    BY <1>3, <2>1
<1>6. /\ Apart \subseteq Apart'
      /\ \/ messages' = messages
         \/ /\ messages' = DropAnswer(messages)
            /\ EndsInAnswer(messages) =>
                  IsError(LastOf(messages)) \/ LastOf(messages).id \in Apart'
  BY <1>1, <1>5 DEF Apart
<1> QED
  BY <1>2, <1>6, RebuiltDropped

LEMMA RebuiltSubmit ==
    ASSUME Sound, Sound', Connected, Rebuilt, NEW p \in Prompts, Submit(p), ~overlapped'
    PROVE  Rebuilt'
<1>1. entries' = entries
  BY DEF Submit
<1>2. CASE run = "none"
  <2> DEFINE m == Said(clock, "user")
             e == Event("message", m)
  <2>1. /\ m \in Message /\ m.kind = "user"
        /\ e \in EventType /\ e.type = "message" /\ e.message = m
        /\ messages' = Append(messages, m)
        /\ events = <<>> /\ events' = Append(events, e)
    BY <1>2, SubmitStarts
  <2>2. Apart \subseteq Apart'
    BY <1>2 DEF Submit, StartRun, Apart, compacting
  <2> HIDE DEF e, m
  <2>3. /\ events \in Events /\ Len(events) = 0 /\ Heard(events) /\ entries \in Seq(Entry)
        /\ KeepsWhatThereIs(entries) /\ Pending(events) = 0
    BY <2>1, ToComeType, BecomesAlone, EmptySeq
  <2>4. events' \in Events /\ Heard(events')
    BY EventsType DEF Sound, TypeOK, Events, EventType, Heard
  <2>5. Pending(events') = 1 /\ events'[1] = e
    <3>1. Pending(events') = 0 + 1
      BY <2>1, <2>3, PendingAppend
    <3>2. events'[0 + 1] = e
      BY <2>1, <2>3, More
    <3> QED
      BY <3>1, <3>2
  <2>6. Becomes(entries, events') = Append(Becomes(entries, events), m)
    <3>1. 1 .. Pending(events) = {} /\ Pending(events') = Pending(events) + 1
          /\ events'[Pending(events) + 1].message = m
      BY <2>1, <2>3, <2>5
    <3> QED
      BY <2>1, <2>3, <2>4, <3>1, BecomesMore DEF Message
  <2>7. ToCome' = Append(ToCome, m)
    BY <1>1, <2>6 DEF ToCome
  <2> QED
    BY <2>1, <2>2, <2>7, RebuiltMore
<1>3. CASE run # "none"
  <2>1. UNCHANGED <<messages, events, Apart>>
    BY <1>3 DEF Submit, Apart, compacting
  <2>2. ToCome' = ToCome
    BY <1>1, <2>1 DEF ToCome
  <2> QED
    BY <2>1, <2>2, RebuiltDropped
<1> QED
  BY <1>2, <1>3

(* After a compaction the agent has what the session has. *)
LEMMA RebuiltCompacted ==
    ASSUME Sound, Sound', OneAtATime, NEW c \in Compactors, Compacted(c)
    PROVE  Rebuilt'
<1>1. events = <<>> /\ events' = events
  BY DEF Compacted, OneAtATime, JobIsAlone, NoJob
<1>2. entries' \in Seq(Entry) /\ KeepsWhatThereIs(entries')
  BY DEF Sound, TypeOK, KeepsWhatThereIs
<1>3. ToCome' = entries'
  BY <1>1, <1>2, BecomesAlone DEF ToCome
<1>4. PICK ms : ms = Context(entries')
  OBVIOUS
<1>5. ms \in Seq(Message)
  BY <1>2, <1>4, ContextType
<1>6. messages' = ms \/ (messages' = DropAnswer(ms) /\ IsError(LastOf(ms)))
  BY <1>4 DEF Compacted
<1>7. \A ids : Sift(messages', Kinds, ids) = Sift(ms, Kinds, ids)
  BY <1>5, <1>6, SiftDropped
<1> QED
  BY <1>3, <1>4, <1>7 DEF Rebuilt

(* What failed last. *)
LEMMA RemovableAnswers ==
    \A m : Removable(m) => m # NoMessage /\ Terminal(m)
BY NoMessageType DEF Removable, IsError, Overflowed, Terminal, IsAnswer, AnswerKinds, Errors

LEMMA NothingFails ==
    ASSUME EventsInOrder', events' = <<>>
    PROVE  FailureIsLast'
<1>1. 1 .. Len(events') = {}
  BY EmptySeq
<1>2. Removable(lastAssistant') => lastAssistant' # NoMessage /\ Terminal(lastAssistant')
  BY RemovableAnswers
<1>3. ~Removable(lastAssistant')
  BY <1>2 DEF EventsInOrder
<1> QED
  BY <1>1, <1>3 DEF FailureIsLast, Removable, IsError, Overflowed

LEMMA FailureUnchanged ==
    ASSUME FailureIsLast, UNCHANGED <<messages, events, lastAssistant>>
    PROVE  FailureIsLast'
BY DEF FailureIsLast, FailsAt, AnsweredAt, Removable, IsError, Overflowed, LastOf

LEMMA FailureAnswer ==
    ASSUME Sound, EventsInOrder, NEW kind \in Answers, Answer(kind) \/ Break(kind)
    PROVE  FailureIsLast'
<1> DEFINE m == Said(clock, kind)
<1>0. PICK n : n = Len(events)
  OBVIOUS
<1>1. /\ messages \in Seq(Message) /\ messages' = Append(messages, m) /\ m \in Message
      /\ lastAssistant' = lastAssistant /\ run # "none"
  BY AgentSessionBounds, SaidType DEF Answer, Break, Sound, TypeOK, Counters
<1> HIDE DEF m
<1>2. LastOf(messages') = m
  <2>1. Append(messages, m)[Len(Append(messages, m))] = m
    BY <1>1, AppendProperties
  <2> QED
    BY <1>1, <2>1 DEF LastOf
<1>3. \A k \in 1 .. n : ~AnsweredAt(k)
  BY <1>0, <1>1, EventsType DEF EventsInOrder
<1>4. ~Removable(lastAssistant)
  <2>1. Removable(lastAssistant) => lastAssistant # NoMessage /\ Terminal(lastAssistant)
    BY RemovableAnswers
  <2>2. events # <<>> => 1 \in 1 .. Len(events)
    BY EventsType, NoneLeft
  <2> QED
    BY <1>1, <2>1, <2>2 DEF EventsInOrder
<1>5. ASSUME NEW k \in 1 .. Len(events'), FailsAt(k)' PROVE events'[k].message = m
  <2>1. AnsweredAt(k)'
    BY <1>5 DEF FailsAt
  <2>2. CASE connected
    <3>1. \/ k \in 1 .. n /\ events'[k] = events[k]
          \/ events'[k].type = "end"
          \/ events'[k].message = m
      BY <1>0, <2>2, HeardOfAnswer DEF m
    <3> QED
      BY <1>3, <2>1, <3>1 DEF AnsweredAt
  <2>3. CASE ~connected
    <3>1. events' = events
      BY <2>3, HearNothing DEF Answer, Break
    <3> QED
      BY <1>0, <1>3, <2>1, <3>1 DEF AnsweredAt
  <2> QED
    BY <2>2, <2>3
<1>6. ~Removable(lastAssistant')
  BY <1>1, <1>4 DEF Removable, IsError, Overflowed
<1> QED
  BY <1>2, <1>5, <1>6 DEF FailureIsLast, Removable, IsError, Overflowed, LastOf

LEMMA FailureProcessMessage ==
    ASSUME Sound, FailureIsLast, ProcessMessage
    PROVE  FailureIsLast'
<1>0. PICK m, n : m = Head(events).message /\ n = Len(events)
  OBVIOUS
<1>1. events \in Events /\ events # <<>> /\ Head(events).type = "message" /\ events' = Tail(events)
  BY EventsType DEF ProcessMessage
<1>2. /\ Head(events) = events[1] /\ n \in Nat \ {0} /\ Len(events') = n - 1
      /\ \A k \in 1 .. n - 1 : events'[k] = events[k + 1]
  BY <1>0, <1>1, Less
<1>3. messages' = messages /\ lastAssistant' = IF IsAnswer(m) THEN m ELSE lastAssistant
  BY <1>0 DEF ProcessMessage
<1>4. 1 \in 1 .. Len(events)
  BY <1>0, <1>2
<1>5. Removable(lastAssistant') => LastOf(messages) = lastAssistant'
  <2>1. CASE IsAnswer(m)
    <3>1. lastAssistant' = m /\ m = events[1].message /\ events[1].type = "message"
      BY <1>0, <1>1, <1>2, <1>3, <2>1
    <3>2. Removable(m) => FailsAt(1)
      BY <3>1, RemovableAnswers DEF FailsAt, AnsweredAt
    <3> QED
      BY <1>4, <3>1, <3>2 DEF FailureIsLast
  <2>2. CASE ~IsAnswer(m)
    <3>1. lastAssistant' = lastAssistant
      BY <1>3, <2>2
    <3> QED
      BY <3>1 DEF FailureIsLast
  <2> QED
    BY <2>1, <2>2
<1>6. ASSUME NEW k \in 1 .. Len(events'), FailsAt(k)' PROVE LastOf(messages) = events'[k].message
  <2>1. k \in 1 .. n - 1 /\ k + 1 \in 1 .. Len(events)
    BY <1>0, <1>2
  <2>2. events'[k] = events[k + 1]
    BY <1>2, <2>1
  <2>3. FailsAt(k + 1)
    BY <1>6, <2>2 DEF FailsAt, AnsweredAt, Removable, IsError, Overflowed
  <2> QED
    BY <2>1, <2>2, <2>3 DEF FailureIsLast
<1> QED
  BY <1>3, <1>5, <1>6 DEF FailureIsLast, Removable, IsError, Overflowed, LastOf

LEMMA FailureSubmit ==
    ASSUME Sound, Connected, EventsInOrder, FailureIsLast, NEW p \in Prompts, Submit(p), ~overlapped'
    PROVE  FailureIsLast'
<1>1. lastAssistant' = lastAssistant
  BY DEF Submit
<1>2. CASE run = "none"
  <2> DEFINE m == Said(clock, "user")
             e == Event("message", m)
  <2>1. /\ ~IsAnswer(m) /\ e \in EventType /\ e.message = m
        /\ events = <<>> /\ events' = Append(events, e)
    BY <1>2, SubmitStarts
  <2> HIDE DEF e, m
  <2>2. events \in Events /\ Len(events) = 0
    BY <2>1, EventsType, EmptySeq
  <2>3. Len(events') = 1 /\ events'[1] = e
    BY <2>1, <2>2, More
  <2>4. \A k \in 1 .. Len(events') : k = 1
    BY <2>3
  <2>5. \A k \in 1 .. Len(events') : ~FailsAt(k)'
    BY <2>1, <2>3, <2>4 DEF FailsAt, AnsweredAt, Terminal
  <2>6. ~Removable(lastAssistant')
    <3>1. Removable(lastAssistant') => lastAssistant' # NoMessage /\ Terminal(lastAssistant')
      BY RemovableAnswers
    <3>2. ~(lastAssistant # NoMessage /\ Terminal(lastAssistant))
      BY <2>1 DEF EventsInOrder
    <3> QED
      BY <1>1, <3>1, <3>2 DEF Terminal, IsAnswer
  <2> QED
    BY <2>5, <2>6 DEF FailureIsLast, Removable, IsError, Overflowed
<1>3. CASE run # "none"
  <2>1. UNCHANGED <<messages, events>>
    BY <1>3 DEF Submit
  <2> QED
    BY <1>1, <2>1, FailureUnchanged
<1> QED
  BY <1>2, <1>3

LEMMA SyncedUnchanged ==
    ASSUME Sound, FailureIsLast, Rebuilt,
           UNCHANGED <<messages, events, entries, lastAssistant, Apart>>
    PROVE  FailureIsLast' /\ Rebuilt'
<1>1. FailureIsLast'
  BY FailureUnchanged
<1>2. ToCome' = ToCome
  BY DEF ToCome
<1> QED
  BY <1>1, <1>2, RebuiltDropped

LEMMA SyncedNext == Sound /\ Connected /\ Orderly /\ Synced /\ [Next]_vars => Synced'
<1> SUFFICES ASSUME Sound, Connected, Orderly, Synced, [Next]_vars, ~overlapped'
             PROVE  FailureIsLast' /\ Rebuilt'
  BY DEF Synced
<1>1. ~overlapped /\ OneAtATime /\ EventsInOrder /\ FailureIsLast /\ Rebuilt
  BY OverlapsOnce DEF Orderly, Synced
<1>2. Sound' /\ EventsInOrder'
  <2>1. Sound' /\ Orderly'
    BY SoundNext, OrderlyNext
  <2> QED
    BY <2>1 DEF Orderly
<1>3. ASSUME NEW kind \in Answers, Answer(kind) \/ Break(kind) PROVE FailureIsLast' /\ Rebuilt'
  BY <1>1, <1>2, <1>3, FailureAnswer, RebuiltAnswer
<1>4. CASE TimerFires
  <2>1. events' = <<>>
    BY <1>1, <1>4, OrderlyTimerFires
  <2> QED
    BY <1>1, <1>2, <1>4, <2>1, NothingFails, RebuiltTimerFires
<1>5. CASE ProcessMessage
  BY <1>1, <1>2, <1>5, FailureProcessMessage, RebuiltProcessMessage
<1>6. CASE IgnoreEnd \/ Backoff \/ Exhausted \/ EndWithoutRetry \/ BackoffCancelled
  <2>1. events' = <<>>
    BY <1>1, <1>6, OrderlyEndings
  <2> QED
    BY <1>1, <1>2, <1>6, <2>1, NothingFails, RebuiltEndings
<1>7. ASSUME NEW p \in Prompts, Prompt(p) PROVE FailureIsLast' /\ Rebuilt'
  <2>1. events' = <<>>
    BY <1>7, NotAtWork DEF Prompt
  <2> QED
    BY <1>1, <1>2, <1>7, <2>1, NothingFails, RebuiltPrompt
<1>8. ASSUME NEW p \in Prompts, Submit(p) PROVE FailureIsLast' /\ Rebuilt'
  BY <1>1, <1>2, <1>8, FailureSubmit, RebuiltSubmit
<1>9. ASSUME NEW c \in Compactors, Compacted(c) PROVE FailureIsLast' /\ Rebuilt'
  <2>1. events' = <<>>
    BY <1>1, <1>9 DEF Compacted, OneAtATime, JobIsAlone, NoJob
  <2> QED
    BY <1>1, <1>2, <1>9, <2>1, NothingFails, RebuiltCompacted
<1>10. ASSUME \/ BackoffEnds \/ Abort \/ AbortRetry \/ AbortCompaction \/ UNCHANGED vars
              \/ \E p \in Prompts : WaitForRetry(p)
              \/ \E c : CompactionFails(c) \/ Compact(c) \/ CompactWhenIdle(c)
       PROVE  FailureIsLast' /\ Rebuilt'
  <2>1. UNCHANGED <<messages, events, entries, lastAssistant, Apart>>
    BY <1>10 DEF BackoffEnds, Abort, AbortRetry, AbortCompaction, vars, WaitForRetry,
       CompactionFails, Compact, CompactWhenIdle, history, compacting, Apart
  <2> QED
    BY <1>1, <2>1, SyncedUnchanged
<1> QED
  BY <1>3, <1>4, <1>5, <1>6, <1>7, <1>8, <1>9, <1>10 DEF Next

LEMMA SyncedInit == Init => Synced
<1> SUFFICES ASSUME Init PROVE FailureIsLast /\ Rebuilt
  BY DEF Synced
<1>1. /\ messages = <<>> /\ entries = <<>> /\ events = <<>> /\ lastAssistant = NoMessage
      /\ Len(events) = 0 /\ Len(entries) = 0
  BY EmptySeq DEF Init
<1>2. FailureIsLast
  BY <1>1, NoMessageType DEF FailureIsLast, Removable, IsError, Overflowed, Errors
<1>3. ToCome = <<>>
  <2>1. entries \in Seq(Entry) /\ KeepsWhatThereIs(entries)
    BY <1>1, EmptySeq DEF KeepsWhatThereIs
  <2> QED
    BY <1>1, <2>1, BecomesAlone DEF ToCome
<1>4. Context(<<>>) = <<>>
  <2>1. Compactions(<<>>) = {}
    BY <1>1 DEF Compactions
  <2> QED
    BY <2>1 DEF Context, Latest
<1> QED
  BY <1>1, <1>2, <1>3, <1>4 DEF Rebuilt

LEMMA SyncedIsEnough ==
    ASSUME Sound, Synced
    PROVE  InSync
<1> SUFFICES ASSUME Quiet, ~overlapped
             PROVE  Sift(messages, Kinds, Apart) = Sift(Context(entries), Kinds, Apart)
  BY DEF InSync, Kinds, Apart
<1>1. events = <<>>
  BY DEF Quiet, AtWork
<1>2. ToCome = entries
  BY <1>1, ToComeType, BecomesAlone DEF ToCome
<1> QED
  BY <1>2 DEF Synced, Rebuilt

(* The agent and the session stay together: when all is quiet, what the    *)
(* model is going to see is what a restart rebuilds from the entries       *)
(* (buildSessionContext), errors aside, and answers cut off as overflows   *)
(* for which no compaction has completed yet - whatever was retried,       *)
(* recovered from an overflow, compacted by itself or by hand, aborted or  *)
(* broken off before.                                                      *)
THEOREM SessionInSync == Spec => []InSync
<1>1. Init => Sound /\ Listens /\ Orderly /\ Synced
  BY SoundInit, ListensInit, OrderlyInit, SyncedInit
<1>2. Listens => Connected
  BY DEF Listens
<1>3. Sound /\ Synced => InSync
  BY SyncedIsEnough
<1> QED
  BY <1>1, <1>2, <1>3, SoundNext, ListensNext, OrderlyNext, SyncedNext, PTL DEF Spec

=============================================================================
