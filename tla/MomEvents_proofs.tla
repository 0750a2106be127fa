--------------------------- MODULE MomEvents_proofs ---------------------------
(***************************************************************************)
(* What is scheduled matches the event files, and no event is executed     *)
(* twice, for any number of files, versions, readings, messages and        *)
(* restarts, wherever readings of one file did not overlap.                *)
(*                                                                         *)
(* The argument is that of a file at most one reading is under way or      *)
(* scheduled (OneAtATime): a change cancels what is scheduled before the   *)
(* file is read again.  Hence what was read is what is there, unless a     *)
(* change is still to be noticed (UpToDate), and what was executed is left *)
(* neither on the disk nor in a reading, but for the times that the file   *)
(* could not be deleted (Once).  For a file that an operation that failed  *)
(* has left alone nothing is under way (LeftAlone).                        *)
(***************************************************************************)
EXTENDS MomEvents, FiniteSetTheorems, FunctionTheorems, SequenceTheorems, TLAPS

(* A bot that does not run has nothing in memory. *)
Dormant == ~up => readings = <<>> /\ armed = {} /\ changed = {} /\ left = {}

(* No version is on the disk, was read or was executed before it was       *)
(* written.                                                                *)
Numbered ==
    /\ \A f \in EventFiles : content[f].version <= versions
    /\ \A n \in 1 .. Len(readings) : readings[n].got.version <= versions
    /\ \A f \in EventFiles, v \in 1 .. MaxVersions : ran[f][v] > 0 => v <= versions

(* An entry of the watcher's maps is of a reading of its file, and what is *)
(* armed is a reading that is over and has read an event to schedule.      *)
Entries ==
    /\ \A f \in EventFiles : timers[f] # 0 => readings[timers[f]].file = f
    /\ \A f \in EventFiles : crons[f] # 0 => readings[crons[f]].file = f
    /\ \A n \in armed : readings[n].at = "done" /\ readings[n].got.kind \in {"one-shot", "periodic"}

(* What may still lead to an execution of f's event. *)
Pending(f) == Active(f) \cup Scheduled(f)

(* One reading of f is under way or scheduled, and if it is scheduled, the *)
(* watcher knows the file and has the entry to cancel it by.               *)
OneAtATime(f) ==
    /\ \A n, k \in Pending(f) : n = k
    /\ \A n \in Scheduled(f) :
          /\ f \in known
          /\ IF readings[n].got.kind = "one-shot" THEN timers[f] = n ELSE crons[f] = n

(* A file that is there and whose changes have all been noticed is being   *)
(* read or scheduled, unless it was left alone, and what was read is what  *)
(* is there, unless reading it failed.                                     *)
UpToDate(f) ==
    up => /\ content[f] # Gone => f \in changed \/ f \in left \/ Pending(f) # {}
          /\ \A n \in Pending(f) :
                readings[n].at # "reading" =>
                   f \in changed \/ readings[n].got = content[f] \/ readings[n].got = Gone

LeftAlone(f) == f \in left => Pending(f) = {}

(* What was executed is gone from the disk and from everything that could  *)
(* execute it again, but for as many times as deleting it failed.          *)
Once(f) ==
    \A v \in 1 .. MaxVersions :
        \/ ran[f][v] <= undeleted[f][v]
        \/ /\ ran[f][v] = undeleted[f][v] + 1 /\ content[f].version # v
           /\ \A n \in Pending(f) : readings[n].got.version # v

FileInv(f) == OneAtATime(f) /\ UpToDate(f) /\ LeftAlone(f) /\ Once(f)

EventsInv ==
    /\ EventsTypeOK /\ Dormant /\ Numbered /\ Entries
    /\ \A f \in EventFiles \ raced : FileInv(f)

-----------------------------------------------------------------------------
(* Types. *)

LEMMA BoundsNat ==
    /\ MaxRetries \in Nat /\ QueueLimit \in Nat /\ MaxVersions \in Nat /\ MaxReadings \in Nat
    /\ MaxMessages \in Nat
BY EventsAssumption

LEMMA UseTypes ==
    ASSUME messages \in 0 .. MaxMessages, messages' = messages \/ Use
    PROVE  messages' \in 0 .. MaxMessages
BY BoundsNat DEF Use

Counts == [EventFiles -> [1 .. MaxVersions -> Nat]]

(* One more of version v of file f is counted. *)
OneMore(h, f, v) == [h EXCEPT ![f][v] = @ + 1]

LEMMA Counted ==
    ASSUME NEW h \in Counts, NEW f \in EventFiles, NEW v
    PROVE  LET more == OneMore(h, f, v) IN
           /\ more \in Counts
           /\ \A g \in EventFiles : g # f => more[g] = h[g]
           /\ \A w \in 1 .. MaxVersions : more[f][w] = IF w = v THEN h[f][w] + 1 ELSE h[f][w]
<1> DEFINE more == OneMore(h, f, v)
           row == [h[f] EXCEPT ![v] = @ + 1]
<1>1. h[f] \in [1 .. MaxVersions -> Nat]
  BY DEF Counts
<1>2. \A w \in 1 .. MaxVersions : row[w] = IF w = v THEN h[f][w] + 1 ELSE h[f][w]
  BY <1>1
<1>3. row \in [1 .. MaxVersions -> Nat]
  <2>1. \A w \in 1 .. MaxVersions : h[f][w] \in Nat
    BY <1>1
  <2>2. \A w \in 1 .. MaxVersions : row[w] \in Nat
    BY <1>2, <2>1
  <2>3. row = [w \in 1 .. MaxVersions |-> row[w]]
    BY <1>1
  <2> QED
    BY <2>2, <2>3
<1>4. more = [h EXCEPT ![f] = row]
  BY DEF OneMore
<1> HIDE DEF row, more
<1>5. more[f] = row /\ \A g \in EventFiles : g # f => more[g] = h[g]
  BY <1>4 DEF Counts
<1>6. more \in Counts
  BY <1>3, <1>4 DEF Counts
<1> QED
  BY <1>2, <1>5, <1>6 DEF more

LEMMA GoneType == Gone \in Files0 /\ Gone.version = 0 /\ Gone.kind = "none"
BY BoundsNat DEF Gone, Files0

LEMMA NewReadingType ==
    ASSUME NEW f \in EventFiles
    PROVE  NewReading(f) \in Reading
BY GoneType, BoundsNat DEF NewReading, Reading

LEMMA ReadingFields ==
    ASSUME EventsTypeOK, NEW n \in 1 .. Len(readings)
    PROVE  /\ readings[n] \in Reading /\ readings[n].file \in EventFiles
           /\ readings[n].tries \in 0 .. MaxRetries /\ readings[n].got \in Files0
           /\ readings[n].got.version \in 0 .. MaxVersions
           /\ readings[n].at \in {"reading", "read", "done"}
<1>1. readings[n] \in Reading
  BY DEF EventsTypeOK
<1> QED
  BY <1>1 DEF Reading, Files0

(* A reading is replaced, or one more begins. *)
LEMMA ReadingReplaced ==
    ASSUME EventsTypeOK, NEW n \in 1 .. Len(readings), NEW r \in Reading,
           readings' = [readings EXCEPT ![n] = r]
    PROVE  /\ readings' \in Seq(Reading) /\ Len(readings') = Len(readings)
           /\ readings'[n] = r /\ \A k \in 1 .. Len(readings) : k # n => readings'[k] = readings[k]
<1>1. readings \in Seq(Reading)
  BY DEF EventsTypeOK
<1> HIDE DEF Reading
<1> QED
  BY <1>1

LEMMA ReadingAdded ==
    ASSUME EventsTypeOK, NEW r \in Reading, readings' = Append(readings, r)
    PROVE  /\ readings' \in Seq(Reading) /\ Len(readings') = Len(readings) + 1
           /\ Len(readings) \in Nat
           /\ readings'[Len(readings) + 1] = r
           /\ \A k \in 1 .. Len(readings) : readings'[k] = readings[k]
<1>1. readings \in Seq(Reading)
  BY DEF EventsTypeOK
<1> HIDE DEF Reading
<1> QED
  BY <1>1

(* The channel's variables, which no other part looks at. *)
ChannelTypeOK ==
    /\ work \in Seq({Message, "event"})
    /\ current \in {NoWork, Message, "event"}
    /\ phase \in {"idle", "setup", "agent", "report"}
    /\ stopRequested \in BOOLEAN /\ interrupted \in BOOLEAN

LEMMA EnqueueTypes ==
    ASSUME ChannelTypeOK, NEW w \in {Message, "event"}, Enqueue(w)
    PROVE  ChannelTypeOK'
<1>1. CASE current = NoWork
  BY <1>1 DEF ChannelTypeOK, Enqueue, Begin
<1>2. CASE current # NoWork
  <2>1. Append(work, w) \in Seq({Message, "event"})
    BY DEF ChannelTypeOK
  <2> QED
    BY <1>2, <2>1 DEF ChannelTypeOK, Enqueue
<1> QED
  BY <1>1, <1>2

LEMMA EnqueueEventTypes == ChannelTypeOK /\ EnqueueEvent => ChannelTypeOK'
<1>1. ChannelTypeOK /\ UNCHANGED channelVars => ChannelTypeOK'
  BY DEF ChannelTypeOK, channelVars
<1> QED
  BY <1>1, EnqueueTypes DEF EnqueueEvent

LEMMA NextWorkTypes == ChannelTypeOK /\ NextWork => ChannelTypeOK'
<1> SUFFICES ASSUME ChannelTypeOK, NextWork PROVE ChannelTypeOK'
  OBVIOUS
<1>1. CASE work = <<>>
  BY <1>1 DEF ChannelTypeOK, NextWork, Begin
<1>2. CASE work # <<>>
  <2>1. Head(work) \in {Message, "event"} /\ Tail(work) \in Seq({Message, "event"})
    BY <1>2 DEF ChannelTypeOK
  <2> QED
    BY <1>2, <2>1 DEF ChannelTypeOK, NextWork, Begin, NoWork, Message
<1> QED
  BY <1>1, <1>2

(* The steps of the channel alone. *)
ChannelStep == UserMessage \/ StopCommand \/ RunStep \/ \E n \in 1 .. Len(readings) : CronFires(n)

LEMMA ChannelTypes ==
    ASSUME EventsTypeOK, ChannelStep
    PROVE  EventsTypeOK' /\ OthersRest
<1>1. ChannelTypeOK /\ messages \in 0 .. MaxMessages /\ MaxMessages \in Nat
  BY BoundsNat DEF EventsTypeOK, ChannelTypeOK
<1>2. OthersRest
  BY DEF ChannelStep, UserMessage, StopCommand, RunStep, RunGoesOn, RunFails, CronFires
<1>3. messages' \in 0 .. MaxMessages
  BY <1>1 DEF ChannelStep, UserMessage, StopCommand, RunStep, RunGoesOn, RunFails, CronFires, Use
<1>4. ASSUME UserMessage PROVE ChannelTypeOK'
  BY <1>1, <1>4, EnqueueTypes DEF UserMessage, ChannelTypeOK, channelVars
<1>5. ASSUME StopCommand PROVE ChannelTypeOK'
  BY <1>1, <1>5 DEF StopCommand, ChannelTypeOK
<1>6. ASSUME RunStep PROVE ChannelTypeOK'
  BY <1>1, <1>6, NextWorkTypes DEF RunStep, RunGoesOn, RunFails, ChannelTypeOK
<1>7. ASSUME \E n \in 1 .. Len(readings) : CronFires(n) PROVE ChannelTypeOK'
  BY <1>1, <1>7, EnqueueEventTypes DEF CronFires
<1>8. ChannelTypeOK'
  BY <1>4, <1>5, <1>6, <1>7 DEF ChannelStep
<1> QED
  BY <1>2, <1>3, <1>8 DEF EventsTypeOK, ChannelTypeOK, OthersRest, fileVars, schedule

(* What the types say of the files, the readings and the schedule. *)
FileTypeOK ==
    /\ content \in [EventFiles -> Files0] /\ versions \in 0 .. MaxVersions
    /\ changed \subseteq EventFiles /\ known \subseteq EventFiles
    /\ left \subseteq EventFiles /\ undeleted \in [EventFiles -> [1 .. MaxVersions -> Nat]]

ScheduleTypeOK ==
    /\ readings \in Seq(Reading)
    /\ timers \in [EventFiles -> 0 .. Len(readings)] /\ crons \in [EventFiles -> 0 .. Len(readings)]
    /\ armed \subseteq 1 .. Len(readings)

HistoryTypeOK ==
    /\ ran \in [EventFiles -> [1 .. MaxVersions -> Nat]] /\ raced \subseteq EventFiles

LEMMA TypeParts ==
    EventsTypeOK <=> /\ FileTypeOK /\ ScheduleTypeOK /\ ChannelTypeOK /\ HistoryTypeOK
                     /\ up \in BOOLEAN /\ messages \in 0 .. MaxMessages
BY DEF EventsTypeOK, FileTypeOK, ScheduleTypeOK, ChannelTypeOK, HistoryTypeOK

LEMMA RemoveTypes ==
    ASSUME FileTypeOK, NEW f \in EventFiles, RemoveFile(f)
    PROVE  FileTypeOK'
<1>1. undeleted' \in Counts
  <2>1. undeleted \in Counts
    BY DEF FileTypeOK, Counts
  <2>2. CASE undeleted' = undeleted
    BY <2>1, <2>2
  <2>3. CASE undeleted' = OneMore(undeleted, f, content[f].version)
    BY <2>1, <2>3, Counted
  <2> QED
    BY <2>2, <2>3 DEF RemoveFile, OneMore
<1> QED
  BY <1>1, GoneType DEF FileTypeOK, RemoveFile, Counts

LEMMA LearnTypes ==
    ASSUME FileTypeOK, NEW f \in EventFiles, Learn(f), left' = left \/ left' = left \cup {f}
    PROVE  FileTypeOK'
BY DEF FileTypeOK, Learn

LEMMA ExecuteTypes ==
    ASSUME ChannelTypeOK, HistoryTypeOK, NEW f \in EventFiles, NEW v, Execute(f, v),
           raced' = raced
    PROVE  ChannelTypeOK' /\ HistoryTypeOK'
<1>1. ran' \in Counts
  <2>1. ran \in Counts /\ ran' = OneMore(ran, f, v)
    BY DEF Execute, HistoryTypeOK, Counts, OneMore
  <2> QED
    BY <2>1, Counted
<1> QED
  BY <1>1, EnqueueEventTypes DEF Execute, HistoryTypeOK, Counts

(* A reading that is over, or goes on, is still a reading. *)
LEMMA ReadingKept ==
    ASSUME ScheduleTypeOK, NEW n \in 1 .. Len(readings), NEW r \in Reading,
           readings' = [readings EXCEPT ![n] = r], UNCHANGED schedule
    PROVE  ScheduleTypeOK'
<1>1. readings' \in Seq(Reading) /\ Len(readings') = Len(readings)
  <2> HIDE DEF Reading
  <2> QED
    BY DEF ScheduleTypeOK
<1> QED
  BY <1>1 DEF ScheduleTypeOK, schedule

LEMMA ReadingResults ==
    ASSUME EventsTypeOK, NEW n \in 1 .. Len(readings)
    PROVE  /\ [NewReading(readings[n].file) EXCEPT !.at = "done"] \in Reading
           /\ [readings[n] EXCEPT !.at = "done"] \in Reading
           /\ \A c \in {content[readings[n].file], Gone} :
                 [readings[n] EXCEPT !.got = c, !.at = "read"] \in Reading
           /\ readings[n].tries + 1 < MaxRetries =>
                 [readings[n] EXCEPT !.tries = @ + 1, !.at = "reading"] \in Reading
<1>1. readings[n] \in Reading /\ readings[n].file \in EventFiles /\ readings[n].tries \in 0 .. MaxRetries
  BY ReadingFields
<1>2. NewReading(readings[n].file) \in Reading /\ content[readings[n].file] \in Files0
      /\ Gone \in Files0
  BY <1>1, NewReadingType, GoneType DEF EventsTypeOK
<1>3. /\ [NewReading(readings[n].file) EXCEPT !.at = "done"] \in Reading
      /\ [readings[n] EXCEPT !.at = "done"] \in Reading
      /\ \A c \in {content[readings[n].file], Gone} :
            [readings[n] EXCEPT !.got = c, !.at = "read"] \in Reading
  BY <1>1, <1>2 DEF Reading
<1>4. ASSUME readings[n].tries + 1 < MaxRetries
      PROVE  [readings[n] EXCEPT !.tries = @ + 1, !.at = "reading"] \in Reading
  <2>1. readings[n].tries + 1 \in 0 .. MaxRetries
    BY <1>1, <1>4, BoundsNat
  <2> QED
    BY <1>1, <2>1 DEF Reading
<1> QED
  BY <1>3, <1>4

LEMMA WriteTypes ==
    ASSUME EventsTypeOK, NEW f \in EventFiles,
           (\E k \in EventKinds : WriteFile(f, k)) \/ TouchFile(f) \/ DeleteFile(f)
    PROVE  EventsTypeOK'
<1>1. /\ FileTypeOK /\ ScheduleTypeOK /\ ChannelTypeOK /\ HistoryTypeOK
      /\ up \in BOOLEAN /\ messages \in 0 .. MaxMessages
  BY TypeParts
<1>2. /\ UNCHANGED <<up, readings, schedule, channelVars, ran, raced>> /\ messages' \in 0 .. MaxMessages
  BY <1>1, BoundsNat DEF WriteFile, TouchFile, DeleteFile, Use
<1>3. FileTypeOK'
  <2>1. ASSUME NEW k \in EventKinds, WriteFile(f, k) PROVE FileTypeOK'
    <3>1. [version |-> versions + 1, kind |-> k, fresh |-> up] \in Files0 /\ versions' \in 0 .. MaxVersions
      BY <1>1, <2>1, BoundsNat DEF WriteFile, Files0, FileTypeOK
    <3> QED
      BY <1>1, <2>1, <3>1 DEF WriteFile, FileTypeOK
  <2>2. ASSUME TouchFile(f) PROVE FileTypeOK'
    <3>1. [content[f] EXCEPT !.fresh = TRUE] \in Files0
      BY <1>1 DEF FileTypeOK, Files0
    <3> QED
      BY <1>1, <2>2, <3>1 DEF TouchFile, FileTypeOK
  <2>3. ASSUME DeleteFile(f) PROVE FileTypeOK'
    BY <1>1, <2>3, GoneType DEF DeleteFile, FileTypeOK
  <2> QED
    BY <2>1, <2>2, <2>3
<1> QED
  BY <1>1, <1>2, <1>3 DEF EventsTypeOK, FileTypeOK, ScheduleTypeOK, ChannelTypeOK, HistoryTypeOK,
     schedule, channelVars

LEMMA ExitTypes ==
    ASSUME EventsTypeOK, Exit
    PROVE  EventsTypeOK'
<1>1. content' \in [EventFiles -> Files0]
  <2>1. \A f \in EventFiles : [content[f] EXCEPT !.fresh = FALSE] \in Files0
    BY ZenonT(30) DEF EventsTypeOK, Files0
  <2> QED
    BY <2>1 DEF Exit
<1>2. readings' = <<>> /\ readings' \in Seq(Reading) /\ Len(readings') = 0
  BY DEF Exit
<1>3. ScheduleTypeOK'
  BY <1>2 DEF Exit, ScheduleTypeOK
<1>4. ChannelTypeOK'
  <2>1. /\ current' = NoWork /\ phase' = "idle" /\ work' = <<>>
        /\ stopRequested' = FALSE /\ interrupted' = FALSE
    BY DEF Exit, Begin
  <2>2. work' \in Seq({Message, "event"})
    BY <2>1
  <2> QED
    BY <2>1, <2>2 DEF ChannelTypeOK
<1>5. messages' \in 0 .. MaxMessages
  BY BoundsNat DEF Exit, Use, EventsTypeOK
<1>6. HistoryTypeOK' /\ FileTypeOK' /\ up' \in BOOLEAN
  BY <1>1 DEF Exit, HistoryTypeOK, FileTypeOK, EventsTypeOK
<1> QED
  BY <1>3, <1>4, <1>5, <1>6 DEF EventsTypeOK, FileTypeOK, ScheduleTypeOK, ChannelTypeOK, HistoryTypeOK

(* start: one reading of each file there is, in some order. *)
ReadsAll(found) ==
    \E order \in [1 .. Cardinality(found) -> found] :
       /\ {order[i] : i \in DOMAIN order} = found
       /\ readings' = readings \o [i \in DOMAIN order |-> NewReading(order[i])]

LEMMA StartReadings ==
    ASSUME EventsTypeOK, readings = <<>>, ReadsAll({f \in EventFiles : content[f] # Gone})
    PROVE  LET found == {f \in EventFiles : content[f] # Gone} IN
           /\ readings' \in Seq(Reading)
           /\ \A n \in 1 .. Len(readings') : \E f \in found : readings'[n] = NewReading(f)
           /\ \A f \in found : \E n \in 1 .. Len(readings') : readings'[n].file = f
           /\ \A n, k \in 1 .. Len(readings') : readings'[n].file = readings'[k].file => n = k
<1> DEFINE found == {f \in EventFiles : content[f] # Gone}
           N     == Cardinality(found)
<1>1. IsFiniteSet(found) /\ N \in Nat
  BY EventsAssumption, FS_Subset, FS_CardinalityType
<1>2. PICK order \in [1 .. N -> found] :
          /\ {order[i] : i \in DOMAIN order} = found
          /\ readings' = readings \o [i \in DOMAIN order |-> NewReading(order[i])]
  BY DEF ReadsAll
<1> HIDE DEF N, found
<1>4. \A f \in found : NewReading(f) \in Reading /\ NewReading(f).file = f
  BY NewReadingType DEF found, NewReading
<1>5. DOMAIN order = 1 .. N /\ \A i \in 1 .. N : order[i] \in found
  BY <1>2
<1> DEFINE new == [i \in 1 .. N |-> NewReading(order[i])]
<1>6. /\ new \in Seq(Reading) /\ Len(new) = N
      /\ \A i \in 1 .. N : new[i] = NewReading(order[i]) /\ new[i].file = order[i]
  <2>1. new \in [1 .. N -> Reading] /\ DOMAIN new = 1 .. N
    BY <1>4, <1>5
  <2>2. new \in Seq(Reading)
    BY <1>1, <2>1
  <2>3. Len(new) = N
    BY <1>1, <2>1, <2>2, LenProperties
  <2> QED
    BY <1>4, <1>5, <2>2, <2>3
<1>7. readings' = new
  <2>1. readings' = <<>> \o new
    BY <1>2, <1>5
  <2> HIDE DEF new
  <2> QED
    BY <1>6, <2>1, ConcatEmptySeq
<1>8. \A i, j \in 1 .. N : order[i] = order[j] => i = j
  <2>1. order \in Surjection(1 .. N, found)
    BY <1>2, <1>5 DEF Surjection
  <2>2. IsFiniteSet(1 .. N) /\ Cardinality(1 .. N) = Cardinality(found)
    BY <1>1, FS_Interval DEF N
  <2>3. order \in Injection(1 .. N, found)
    BY <2>1, <2>2, Zenon, FS_SurjSameCardinalityImpliesInj
  <2> QED
    BY <2>3, Fun_InjectionProperties
<1>9. \A f \in found : \E i \in 1 .. N : order[i] = f
  BY <1>2, <1>5
<1> HIDE DEF new
<1> QED
  BY <1>5, <1>6, <1>7, <1>8, <1>9 DEF found

LEMMA StartReadsOrFails ==
    ASSUME Dormant, StartBot
    PROVE  /\ readings = <<>> /\ armed = {} /\ left = {}
           /\ \/ ReadsAll({f \in EventFiles : content[f] # Gone}) /\ left' = left
              \/ readings' = <<>> /\ left' = {f \in EventFiles : content[f] # Gone}
BY DEF StartBot, Dormant, ReadsAll

LEMMA StartTypes ==
    ASSUME EventsTypeOK, Dormant, StartBot
    PROVE  EventsTypeOK'
<1>1. readings' \in Seq(Reading) /\ readings = <<>> /\ armed = {} /\ Len(readings) = 0 /\ Len(readings') \in Nat
  <2>1. readings' \in Seq(Reading)
    <3>1. CASE ReadsAll({f \in EventFiles : content[f] # Gone})
      BY <3>1, StartReadsOrFails, StartReadings, Zenon
    <3>2. CASE readings' = <<>>
      BY <3>2, EmptySeq
    <3> QED
      BY <3>1, <3>2, StartReadsOrFails
  <2>2. readings = <<>> /\ armed = {}
    BY DEF StartBot, Dormant
  <2>3. Len(readings') \in Nat
    <3> HIDE DEF Reading
    <3> QED
      BY <2>1
  <2> QED
    BY <2>1, <2>2, <2>3, EmptySeq
<1>2. timers \in [EventFiles -> 0 .. 0] /\ crons \in [EventFiles -> 0 .. 0]
  BY <1>1 DEF EventsTypeOK
<1>3. ScheduleTypeOK'
  <2>1. timers' = timers /\ crons' = crons /\ armed' = {}
    BY <1>1 DEF StartBot, schedule
  <2>2. 0 .. 0 \subseteq 0 .. Len(readings')
    BY <1>1
  <2> QED
    BY <1>1, <1>2, <2>1, <2>2 DEF ScheduleTypeOK
<1>4. /\ UNCHANGED <<content, versions, changed, known, undeleted, channelVars, ran, raced>>
      /\ up' \in BOOLEAN /\ left' \subseteq EventFiles /\ (messages' = messages \/ Use)
  BY DEF StartBot, EventsTypeOK
<1>5. messages' \in 0 .. MaxMessages
  BY <1>4, UseTypes DEF EventsTypeOK
<1> QED
  BY <1>3, <1>4, <1>5 DEF EventsTypeOK, FileTypeOK, ScheduleTypeOK, ChannelTypeOK, HistoryTypeOK,
     channelVars

LEMMA ChangeTypes ==
    ASSUME EventsTypeOK, NEW f \in EventFiles, HandleFileChange(f)
    PROVE  EventsTypeOK'
<1>1. /\ FileTypeOK /\ ScheduleTypeOK /\ ChannelTypeOK /\ HistoryTypeOK
      /\ up \in BOOLEAN /\ messages \in 0 .. MaxMessages
  BY TypeParts
<1>2. /\ content' = content /\ versions' = versions /\ up' = up /\ UNCHANGED channelVars
      /\ (messages' = messages \/ Use) /\ ran' = ran /\ undeleted' = undeleted
      /\ changed' = changed \ {f} /\ raced' \subseteq raced \cup {f} /\ known' \subseteq known
      /\ left' \subseteq left \cup {f}
  BY DEF HandleFileChange, NotFound, HandleDelete, CancelScheduled
<1>3. /\ readings' \in Seq(Reading) /\ Len(readings') \in Nat /\ Len(readings) \in Nat
      /\ Len(readings) <= Len(readings')
  <2>1. CASE readings' = readings
    <3> HIDE DEF Reading
    <3> QED
      BY <1>1, <2>1 DEF ScheduleTypeOK
  <2>2. CASE readings' = Append(readings, NewReading(f))
    BY <2>2, NewReadingType, ReadingAdded
  <2> QED
    BY <2>1, <2>2 DEF HandleFileChange
<1>4. /\ timers' \in [EventFiles -> 0 .. Len(readings')] /\ crons' \in [EventFiles -> 0 .. Len(readings')]
      /\ armed' \subseteq 1 .. Len(readings')
  <2>1. /\ timers \in [EventFiles -> 0 .. Len(readings')] /\ crons \in [EventFiles -> 0 .. Len(readings')]
        /\ armed \subseteq 1 .. Len(readings')
    BY <1>1, <1>3 DEF ScheduleTypeOK
  <2>2. CASE UNCHANGED schedule
    BY <2>1, <2>2 DEF schedule
  <2>3. CASE CancelScheduled(f)
    <3>1. 0 \in 0 .. Len(readings')
      BY <1>3
    <3>2. timers' = [timers EXCEPT ![f] = 0] /\ crons' = [crons EXCEPT ![f] = 0] /\ armed' \subseteq armed
      BY <2>3 DEF CancelScheduled
    <3> QED
      BY <2>1, <3>1, <3>2
  <2> QED
    BY <2>2, <2>3 DEF HandleFileChange, HandleDelete
<1>5. messages' \in 0 .. MaxMessages
  BY <1>1, <1>2, UseTypes
<1> QED
  BY <1>1, <1>2, <1>3, <1>4, <1>5
     DEF EventsTypeOK, FileTypeOK, ScheduleTypeOK, ChannelTypeOK, HistoryTypeOK, channelVars

LEMMA HandleTypes ==
    ASSUME EventsTypeOK, NEW n \in 1 .. Len(readings), HandleReading(n) \/ TimerFires(n)
    PROVE  EventsTypeOK'
<1> DEFINE f == readings[n].file
<1>1. /\ FileTypeOK /\ ScheduleTypeOK /\ ChannelTypeOK /\ HistoryTypeOK
      /\ up \in BOOLEAN /\ messages \in 0 .. MaxMessages /\ f \in EventFiles
  BY TypeParts, ReadingFields
<1>2. /\ UNCHANGED <<up, raced>> /\ (messages' = messages \/ Use)
      /\ messages' \in 0 .. MaxMessages
  <2>1. UNCHANGED <<up, raced>> /\ (messages' = messages \/ Use)
    BY DEF HandleReading, ReadEventFile, ReadingFails, HandleImmediate, HandleOneShot, HandlePeriodic,
       TimerFires, RemoveFile, NotFound
  <2> QED
    BY <1>1, <2>1, UseTypes
<1>3. PICK r \in Reading : readings' = [readings EXCEPT ![n] = r]
  <2>1. DoneReading(n) => readings' = [readings EXCEPT ![n] = [NewReading(readings[n].file) EXCEPT !.at = "done"]]
    BY DEF DoneReading
  <2>2. KeepReading(n) => readings' = [readings EXCEPT ![n] = [readings[n] EXCEPT !.at = "done"]]
    BY DEF KeepReading
  <2>3. CASE DoneReading(n) \/ KeepReading(n)
    BY <2>1, <2>2, <2>3, ReadingResults
  <2>4. CASE ReadEventFile(n)
    <3>1. \E c \in {content[readings[n].file], Gone} :
             readings' = [readings EXCEPT ![n] = [readings[n] EXCEPT !.got = c, !.at = "read"]]
      BY <2>4 DEF ReadEventFile, ScheduleTypeOK
    <3> QED
      BY <3>1, ReadingResults
  <2>5. CASE ReadingFails(n) /\ ~DoneReading(n)
    <3>1. readings' = [readings EXCEPT ![n] = [readings[n] EXCEPT !.tries = @ + 1, !.at = "reading"]]
          /\ readings[n].tries + 1 < MaxRetries
      BY <2>5 DEF ReadingFails
    <3> QED
      BY <3>1, ReadingResults
  <2> QED
    BY <2>3, <2>4, <2>5 DEF HandleReading, HandleImmediate, HandleOneShot, HandlePeriodic, TimerFires
<1>4. readings' \in Seq(Reading) /\ Len(readings') = Len(readings)
  BY <1>3, ReadingReplaced
<1>5. /\ timers' \in [EventFiles -> 0 .. Len(readings)] /\ crons' \in [EventFiles -> 0 .. Len(readings)]
      /\ armed' \subseteq 1 .. Len(readings)
  <2>1. Len(readings) \in Nat
    <3> HIDE DEF Reading
    <3> QED
      BY <1>1 DEF ScheduleTypeOK
  <2>2. /\ timers' \in {timers, [timers EXCEPT ![f] = n], [timers EXCEPT ![f] = 0]}
        /\ crons' \in {crons, [crons EXCEPT ![f] = n]}
        /\ armed' \subseteq armed \cup {n}
    BY DEF HandleReading, ReadEventFile, ReadingFails, HandleImmediate, HandleOneShot,
       HandlePeriodic, TimerFires, schedule
  <2>3. n \in 0 .. Len(readings) /\ 0 \in 0 .. Len(readings)
    BY <2>1
  <2> QED
    BY <1>1, <2>2, <2>3 DEF ScheduleTypeOK
<1>6. FileTypeOK'
  <2>1. UNCHANGED fileVars => FileTypeOK'
    BY <1>1 DEF fileVars, FileTypeOK
  <2>2. RemoveFile(f) \/ (Learn(f) /\ (left' = left \/ left' = left \cup {f})) => FileTypeOK'
    BY <1>1, RemoveTypes, LearnTypes
  <2> QED
    BY <2>1, <2>2 DEF HandleReading, ReadEventFile, ReadingFails, HandleImmediate, HandleOneShot,
       HandlePeriodic, TimerFires, NotFound
<1>7. ChannelTypeOK' /\ HistoryTypeOK'
  <2>1. UNCHANGED <<channelVars, ran>> => ChannelTypeOK' /\ HistoryTypeOK'
    BY <1>1, <1>2 DEF channelVars, ChannelTypeOK, HistoryTypeOK
  <2>2. \A v : Execute(f, v) => ChannelTypeOK' /\ HistoryTypeOK'
    BY <1>1, <1>2, ExecuteTypes
  <2> QED
    BY <2>1, <2>2 DEF HandleReading, ReadEventFile, ReadingFails, HandleImmediate, HandleOneShot,
       HandlePeriodic, TimerFires
<1> QED
  BY <1>1, <1>2, <1>4, <1>5, <1>6, <1>7 DEF EventsTypeOK, FileTypeOK, ScheduleTypeOK, ChannelTypeOK, HistoryTypeOK

LEMMA EventsTypesInit == EventsInit => EventsTypeOK
<1> SUFFICES ASSUME EventsInit PROVE EventsTypeOK
  OBVIOUS
<1>1. readings = <<>> /\ Len(readings) = 0 /\ readings \in Seq(Reading) /\ work \in Seq({Message, "event"})
  BY EmptySeq DEF EventsInit
<1>2. ScheduleTypeOK
  BY <1>1 DEF EventsInit, ScheduleTypeOK
<1>3. FileTypeOK /\ HistoryTypeOK /\ ChannelTypeOK /\ up \in BOOLEAN /\ messages \in 0 .. MaxMessages
  <2>1. FileTypeOK
    BY GoneType, BoundsNat DEF EventsInit, FileTypeOK
  <2>2. HistoryTypeOK
    BY DEF EventsInit, HistoryTypeOK
  <2>3. ChannelTypeOK
    BY <1>1 DEF EventsInit, ChannelTypeOK
  <2>4. up \in BOOLEAN
    BY Zenon DEF EventsInit
  <2>5. messages \in 0 .. MaxMessages
    BY BoundsNat DEF EventsInit
  <2> QED
    BY <2>1, <2>2, <2>3, <2>4, <2>5
<1> QED
  BY <1>2, <1>3, TypeParts


-----------------------------------------------------------------------------
(* What a step leaves alone.                                               *)

(* A step leaves file g alone. *)
Leaves(g) ==
    /\ up' = up /\ content'[g] = content[g] /\ ran'[g] = ran[g]
    /\ g \in changed' <=> g \in changed
    /\ g \in known' <=> g \in known
    /\ g \in left' <=> g \in left
    /\ undeleted'[g] = undeleted[g]
    /\ timers'[g] = timers[g] /\ crons'[g] = crons[g]
    /\ Active(g)' = Active(g) /\ Scheduled(g)' = Scheduled(g)
    /\ \A n \in Pending(g) : readings'[n] = readings[n]

LEMMA Undisturbed ==
    ASSUME NEW g \in EventFiles, FileInv(g), Leaves(g)
    PROVE  FileInv(g)'
<1>1. Pending(g)' = Pending(g) /\ \A n \in Pending(g) : readings'[n] = readings[n]
  BY DEF Leaves, Pending
<1>2. Scheduled(g)' = Scheduled(g) /\ Scheduled(g) \subseteq Pending(g)
  BY DEF Leaves, Pending
<1>3. OneAtATime(g)'
  BY <1>1, <1>2 DEF Leaves, FileInv, OneAtATime
<1>4. UpToDate(g)'
  BY <1>1 DEF Leaves, FileInv, UpToDate
<1>5. Once(g)'
  BY <1>1 DEF Leaves, FileInv, Once
<1>6. LeftAlone(g)'
  BY <1>1 DEF Leaves, FileInv, LeftAlone
<1> QED
  BY <1>3, <1>4, <1>5, <1>6 DEF FileInv

(* Nothing but the channel changes. *)
LEMMA NothingDisturbed ==
    ASSUME EventsInv, EventsTypeOK', OthersRest
    PROVE  EventsInv'
<1>1. UNCHANGED <<content, versions, changed, known, left, undeleted, up, readings, timers, crons, armed,
                  ran, raced>>
  BY DEF OthersRest, fileVars, schedule
<1>2. \A g \in EventFiles : Leaves(g)
  BY <1>1 DEF Leaves, Active, Scheduled
<1>3. \A g \in EventFiles \ raced' : FileInv(g)'
  BY <1>1, <1>2, Undisturbed DEF EventsInv
<1>4. Dormant' /\ Numbered' /\ Entries'
  BY <1>1 DEF EventsInv, Dormant, Numbered, Entries
<1> QED
  BY <1>3, <1>4 DEF EventsInv

(* The members of these sets. *)
LEMMA PendingMembers ==
    ASSUME EventsTypeOK, NEW f
    PROVE  /\ \A n : n \in Active(f) <=>
                 n \in 1 .. Len(readings) /\ readings[n].file = f /\ readings[n].at # "done"
           /\ \A n : n \in Scheduled(f) <=>
                 n \in 1 .. Len(readings) /\ readings[n].file = f /\ n \in armed
           /\ \A n : n \in Pending(f) <=>
                 /\ n \in 1 .. Len(readings) /\ readings[n].file = f
                 /\ readings[n].at # "done" \/ n \in armed
BY DEF Active, Scheduled, Pending, EventsTypeOK

(* A reading under way is all there is of its file. *)
LEMMA ReadingAlone ==
    ASSUME EventsTypeOK, Entries, NEW f, OneAtATime(f), NEW n \in Active(f)
    PROVE  Pending(f) = {n} /\ Scheduled(f) = {}
<1>1. n \in Pending(f) /\ n \notin armed
  BY PendingMembers DEF Entries
<1>2. \A k \in Pending(f) : k = n
  BY <1>1 DEF OneAtATime
<1>3. \A k \in Scheduled(f) : k \in Pending(f) /\ k \in armed
  BY PendingMembers
<1> QED
  BY <1>1, <1>2, <1>3

-----------------------------------------------------------------------------
(* A step of one reading. *)

(* What the steps of a reading have in common. *)
LEMMA ReadingStep ==
    ASSUME EventsInv, EventsTypeOK', NEW n \in 1 .. Len(readings), HandleReading(n) \/ TimerFires(n)
    PROVE  LET f == readings[n].file IN
           /\ f \in EventFiles /\ up /\ up' = up /\ raced' = raced /\ versions' = versions
           /\ Len(readings') = Len(readings)
           /\ \A k \in 1 .. Len(readings) : k # n => readings'[k] = readings[k]
           /\ \A k \in 1 .. Len(readings) : readings'[k].file = readings[k].file
           /\ content' \in {content, [content EXCEPT ![f] = Gone]}
           /\ \A g \in EventFiles \ {f} : /\ g \in changed' <=> g \in changed
                                          /\ g \in known' <=> g \in known
                                          /\ g \in left' <=> g \in left
           /\ undeleted' \in {undeleted, OneMore(undeleted, f, content[f].version)}
           /\ timers' \in {timers, [timers EXCEPT ![f] = n], [timers EXCEPT ![f] = 0]}
           /\ crons' \in {crons, [crons EXCEPT ![f] = n]}
           /\ armed' \in {armed, armed \cup {n}, armed \ {n}}
           /\ ran' \in {ran, OneMore(ran, f, readings[n].got.version)}
<1> DEFINE f == readings[n].file
<1>1. EventsTypeOK /\ Dormant /\ f \in EventFiles /\ readings[n] \in Reading
  BY ReadingFields DEF EventsInv
<1>2. up
  BY <1>1, EmptySeq DEF Dormant
<1>3. /\ Len(readings') = Len(readings)
      /\ \A k \in 1 .. Len(readings) : k # n => readings'[k] = readings[k]
      /\ readings'[n].file = f
  <2>1. readings \in Seq(Reading) /\ f = readings[n].file
    BY <1>1 DEF EventsTypeOK
  <2>2. PICK r : readings' = [readings EXCEPT ![n] = r] /\ r.file = f
    <3>1. DoneReading(n) => readings' = [readings EXCEPT ![n] = [NewReading(f) EXCEPT !.at = "done"]]
      BY DEF DoneReading
    <3>2. [NewReading(f) EXCEPT !.at = "done"].file = f
      BY DEF NewReading
    <3>3. KeepReading(n) => readings' = [readings EXCEPT ![n] = [readings[n] EXCEPT !.at = "done"]]
      BY DEF KeepReading
    <3>4. /\ [readings[n] EXCEPT !.at = "done"].file = f
          /\ \A c : [readings[n] EXCEPT !.got = c, !.at = "read"].file = f
          /\ [readings[n] EXCEPT !.tries = @ + 1, !.at = "reading"].file = f
      BY <1>1 DEF Reading
    <3>5. CASE DoneReading(n) \/ KeepReading(n)
      BY <3>1, <3>2, <3>3, <3>4, <3>5
    <3>6. CASE ReadEventFile(n)
      <4>1. \E c : readings' = [readings EXCEPT ![n] = [readings[n] EXCEPT !.got = c, !.at = "read"]]
        BY <2>1, <3>6 DEF ReadEventFile
      <4> QED
        BY <3>4, <4>1
    <3>7. CASE ReadingFails(n) /\ ~DoneReading(n)
      <4>1. readings' = [readings EXCEPT ![n] = [readings[n] EXCEPT !.tries = @ + 1, !.at = "reading"]]
        BY <2>1, <3>7 DEF ReadingFails
      <4> QED
        BY <3>4, <4>1
    <3> QED
      BY <3>5, <3>6, <3>7 DEF HandleReading, HandleImmediate, HandleOneShot, HandlePeriodic, TimerFires
  <2> HIDE DEF Reading, f
  <2> QED
    BY <2>1, <2>2
<1>4. /\ up' = up /\ raced' = raced /\ versions' = versions
      /\ content' \in {content, [content EXCEPT ![f] = Gone]}
      /\ \A g \in EventFiles \ {f} : /\ g \in changed' <=> g \in changed
                                     /\ g \in known' <=> g \in known
                                     /\ g \in left' <=> g \in left
      /\ undeleted' \in {undeleted, OneMore(undeleted, f, content[f].version)}
  <2>1. \/ UNCHANGED fileVars \/ RemoveFile(f)
        \/ Learn(f) /\ (left' = left \/ left' = left \cup {f})
    BY DEF HandleReading, ReadEventFile, ReadingFails, HandleImmediate, HandleOneShot, HandlePeriodic,
       TimerFires, NotFound
  <2>2. UNCHANGED <<up, raced>>
    BY DEF HandleReading, ReadEventFile, ReadingFails, HandleImmediate, HandleOneShot, HandlePeriodic,
       TimerFires
  <2> QED
    BY <2>1, <2>2 DEF fileVars, RemoveFile, Learn, OneMore
<1>5. /\ timers' \in {timers, [timers EXCEPT ![f] = n], [timers EXCEPT ![f] = 0]}
      /\ crons' \in {crons, [crons EXCEPT ![f] = n]}
      /\ armed' \in {armed, armed \cup {n}, armed \ {n}}
  BY DEF HandleReading, ReadEventFile, ReadingFails, HandleImmediate, HandleOneShot, HandlePeriodic,
     TimerFires, schedule
<1>6. ran' \in {ran, OneMore(ran, f, readings[n].got.version)}
  BY DEF HandleReading, ReadEventFile, ReadingFails, HandleImmediate, HandleOneShot, HandlePeriodic,
     TimerFires, Execute, OneMore
<1> QED
  BY <1>1, <1>2, <1>3, <1>4, <1>5, <1>6

(* ... leaves the other files alone, *)
LEMMA ReadingElsewhere ==
    ASSUME EventsInv, EventsTypeOK', NEW n \in 1 .. Len(readings), HandleReading(n) \/ TimerFires(n),
           NEW g \in EventFiles, g # readings[n].file, FileInv(g)
    PROVE  FileInv(g)'
<1> DEFINE f == readings[n].file
<1>1. /\ f \in EventFiles /\ up' = up
      /\ Len(readings') = Len(readings)
      /\ \A k \in 1 .. Len(readings) : k # n => readings'[k] = readings[k]
      /\ \A k \in 1 .. Len(readings) : readings'[k].file = readings[k].file
      /\ content' \in {content, [content EXCEPT ![f] = Gone]}
      /\ g \in changed' <=> g \in changed
      /\ g \in known' <=> g \in known
      /\ g \in left' <=> g \in left
      /\ undeleted' \in {undeleted, OneMore(undeleted, f, content[f].version)}
      /\ timers' \in {timers, [timers EXCEPT ![f] = n], [timers EXCEPT ![f] = 0]}
      /\ crons' \in {crons, [crons EXCEPT ![f] = n]}
      /\ armed' \in {armed, armed \cup {n}, armed \ {n}}
      /\ ran' \in {ran, OneMore(ran, f, readings[n].got.version)}
  BY ReadingStep
<1>2. EventsTypeOK
  BY DEF EventsInv
<1>3. \A k : k \in Active(g)' <=> k \in Active(g)
  BY <1>1 DEF Active
<1>4. \A k : k \in Scheduled(g)' <=> k \in Scheduled(g)
  <2>1. armed \subseteq 1 .. Len(readings) /\ armed' \subseteq 1 .. Len(readings)
    BY <1>1, <1>2 DEF EventsTypeOK
  <2> QED
    BY <1>1, <2>1 DEF Scheduled
<1>5. \A k \in Pending(g) : readings'[k] = readings[k]
  BY <1>1, <1>2, PendingMembers
<1>6. /\ content'[g] = content[g] /\ timers'[g] = timers[g] /\ crons'[g] = crons[g]
      /\ ran'[g] = ran[g] /\ undeleted'[g] = undeleted[g]
  BY <1>1, <1>2, ZenonT(30) DEF EventsTypeOK, OneMore
<1>7. Active(g)' = Active(g) /\ Scheduled(g)' = Scheduled(g)
  BY <1>3, <1>4
<1> QED
  BY <1>1, <1>5, <1>6, <1>7, Undisturbed DEF Leaves

(* ... and of its own file leaves at most this reading. *)
LEMMA ReadingLeft ==
    ASSUME EventsInv, EventsTypeOK', NEW n \in 1 .. Len(readings), NEW f \in EventFiles,
           f = readings[n].file, HandleReading(n) \/ TimerFires(n),
           OneAtATime(f), n \in Pending(f)
    PROVE  /\ \A k : k \in Pending(f)' <=> k = n /\ (readings'[n].at # "done" \/ n \in armed')
           /\ \A k : k \in Scheduled(f)' <=> k = n /\ n \in armed'
<1>1. /\ Len(readings') = Len(readings)
      /\ \A k \in 1 .. Len(readings) : k # n => readings'[k] = readings[k]
      /\ \A k \in 1 .. Len(readings) : readings'[k].file = readings[k].file
      /\ armed' \in {armed, armed \cup {n}, armed \ {n}}
  BY ReadingStep
<1>2. EventsTypeOK
  BY DEF EventsInv
<1>3. \A k \in 1 .. Len(readings) : readings[k].file = f /\ k # n => readings[k].at = "done" /\ k \notin armed
  BY <1>2, PendingMembers DEF OneAtATime
<1>4. armed' \subseteq 1 .. Len(readings)
  BY <1>1 DEF EventsTypeOK
<1>5. \A k : k \in Active(f)' <=> k = n /\ readings'[n].at # "done"
  BY <1>1, <1>3 DEF Active
<1>6. \A k : k \in Scheduled(f)' <=> k = n /\ n \in armed'
  BY <1>1, <1>3, <1>4 DEF Scheduled
<1>7. \A k : k \in Pending(f)' <=> k \in Active(f)' \/ k \in Scheduled(f)'
  BY DEF Pending
<1> QED
  BY <1>5, <1>6, <1>7

(* The reading is over and its file is gone, could not be deleted or was    *)
(* not found, *)
Finishes(n, f) ==
    /\ readings'[n].at = "done" /\ readings'[n].got = Gone /\ n \notin armed'
    /\ \/ content'[f] = Gone /\ undeleted' = undeleted
       \/ /\ content' = content /\ f \in left'
          /\ undeleted' = OneMore(undeleted, f, content[f].version)
       \/ content' = content /\ f \in left' /\ undeleted' = undeleted /\ ran' = ran

(* ... or it goes on, or what it has read is scheduled. *)
Continues(n, f) ==
    /\ UNCHANGED <<content, versions, changed, left, undeleted, ran>>
    /\ f \in known => f \in known'
    /\ \/ readings'[n].at = "read" /\ readings'[n].got \in {content[f], Gone} /\ armed' = armed
       \/ readings'[n].at = "reading" /\ readings'[n].got = readings[n].got /\ armed' = armed
       \/ /\ readings'[n].at = "done" /\ readings'[n].got = readings[n].got
          /\ readings[n].at = "read" /\ armed' = armed \cup {n} /\ f \in known'
          /\ readings[n].got.kind \in {"one-shot", "periodic"}
          /\ IF readings[n].got.kind = "one-shot" THEN timers'[f] = n ELSE crons'[f] = n

(* Nothing is left that could execute what the reading has read. *)
LEMMA ReadingFinished ==
    ASSUME EventsInv, EventsTypeOK', NEW n \in 1 .. Len(readings), NEW f \in EventFiles,
           f = readings[n].file, HandleReading(n) \/ TimerFires(n),
           FileInv(f), n \in Pending(f), Finishes(n, f)
    PROVE  FileInv(f)'
<1>0. OneAtATime(f) /\ EventsTypeOK /\ Once(f) /\ f \in EventFiles
  BY DEF FileInv, EventsInv
<1>1. Pending(f)' = {} /\ Scheduled(f)' = {}
  <2>1. /\ \A k : k \in Pending(f)' <=> k = n /\ (readings'[n].at # "done" \/ n \in armed')
        /\ \A k : k \in Scheduled(f)' <=> k = n /\ n \in armed'
    BY <1>0, ReadingLeft, Zenon
  <2>2. \A k : k \notin Pending(f)' /\ k \notin Scheduled(f)'
    BY <2>1 DEF Finishes
  <2> QED
    BY <2>2
<1>2. OneAtATime(f)' /\ UpToDate(f)' /\ LeftAlone(f)'
  <2>1. OneAtATime(f)'
    BY <1>1 DEF OneAtATime
  <2>2. UpToDate(f)'
    BY <1>1 DEF UpToDate, Finishes
  <2>3. LeftAlone(f)'
    BY <1>1 DEF LeftAlone
  <2> QED
    BY <2>1, <2>2, <2>3
<1>3. Once(f)'
  <2> DEFINE got == readings[n].got.version
             was == content[f].version
  <2> SUFFICES ASSUME NEW v \in 1 .. MaxVersions
               PROVE  \/ ran'[f][v] <= undeleted'[f][v]
                      \/ ran'[f][v] = undeleted'[f][v] + 1 /\ content'[f].version # v
    BY <1>1 DEF Once
  <2>0. ran \in Counts /\ undeleted \in Counts
    BY <1>0 DEF EventsTypeOK, Counts
  <2>1. ran[f][v] \in Nat /\ undeleted[f][v] \in Nat
    BY <1>0, <2>0 DEF Counts
  <2>2. \/ ran'[f][v] = ran[f][v] \/ (ran'[f][v] = ran[f][v] + 1 /\ v = got)
    <3>1. ran' \in {ran, OneMore(ran, f, got)}
      BY ReadingStep
    <3> QED
      BY <2>0, <3>1, Counted
  <2>3. \/ ran[f][v] <= undeleted[f][v]
        \/ ran[f][v] = undeleted[f][v] + 1 /\ was # v /\ got # v
    BY <1>0 DEF Once
  <2>4. CASE content'[f] = Gone /\ undeleted' = undeleted
    <3>1. content'[f].version # v
      BY <2>4, GoneType
    <3> QED
      BY <2>1, <2>2, <2>3, <2>4, <3>1
  <2>5. CASE content' = content /\ undeleted' = OneMore(undeleted, f, was)
    <3>1. undeleted'[f][v] = IF v = was THEN undeleted[f][v] + 1 ELSE undeleted[f][v]
      BY <2>0, <2>5, Counted
    <3>2. content'[f].version = was
      BY <2>5
    <3> HIDE DEF got, was
    <3> QED
      BY <2>1, <2>2, <2>3, <3>1, <3>2, SMTT(30)
  <2>6. CASE content' = content /\ undeleted' = undeleted /\ ran' = ran
    BY <2>3, <2>6
  <2> QED
    BY <2>4, <2>5, <2>6 DEF Finishes
<1> QED
  BY <1>2, <1>3 DEF FileInv

LEMMA ReadingContinued ==
    ASSUME EventsInv, EventsTypeOK', NEW n \in 1 .. Len(readings), NEW f \in EventFiles,
           f = readings[n].file, HandleReading(n),
           FileInv(f), n \in Active(f),
           Continues(n, f)
    PROVE  FileInv(f)'
<1>0. OneAtATime(f) /\ EventsTypeOK /\ Entries /\ UpToDate(f) /\ LeftAlone(f) /\ Once(f) /\ f \in EventFiles
  BY DEF FileInv, EventsInv
<1>1. Pending(f) = {n} /\ n \notin armed
  BY <1>0, ReadingAlone, PendingMembers DEF Entries
<1>2. /\ \A k : k \in Pending(f)' <=> k = n
      /\ \A k : k \in Scheduled(f)' <=> k = n /\ n \in armed'
  <2>1. n \in Pending(f)
    BY <1>1
  <2>2. /\ \A k : k \in Pending(f)' <=> k = n /\ (readings'[n].at # "done" \/ n \in armed')
        /\ \A k : k \in Scheduled(f)' <=> k = n /\ n \in armed'
    BY <1>0, <2>1, ReadingLeft, Zenon
  <2>3. readings'[n].at # "done" \/ n \in armed'
    BY DEF Continues
  <2> QED
    BY <2>2, <2>3
<1>3. OneAtATime(f)'
  BY <1>1, <1>2 DEF OneAtATime, Continues
<1>4. UpToDate(f)'
  <2>1. up' = up
    BY ReadingStep
  <2> QED
    BY <1>0, <1>1, <1>2, <2>1 DEF UpToDate, Continues
<1>5. Once(f)'
  <2>1. readings'[n].got = readings[n].got \/ readings'[n].got = content[f] \/ readings'[n].got.version = 0
    BY GoneType DEF Continues
  <2> QED
    BY <1>0, <1>1, <1>2, <2>1 DEF Once, Continues
<1>6. LeftAlone(f)'
  BY <1>0, <1>1 DEF LeftAlone, Continues
<1> QED
  BY <1>3, <1>4, <1>5, <1>6 DEF FileInv

LEMMA ReadingSet ==
    ASSUME EventsTypeOK, NEW n \in 1 .. Len(readings), NEW r, readings' = [readings EXCEPT ![n] = r]
    PROVE  readings'[n] = r
<1>1. readings \in Seq(Reading)
  BY DEF EventsTypeOK
<1> HIDE DEF Reading
<1> QED
  BY <1>1

LEMMA ReadingOutcomes ==
    ASSUME EventsInv, EventsTypeOK', NEW n \in 1 .. Len(readings), NEW f \in EventFiles,
           f = readings[n].file, HandleReading(n) \/ TimerFires(n)
    PROVE  Finishes(n, f) \/ (HandleReading(n) /\ Continues(n, f))
<1>1. /\ EventsTypeOK /\ Entries /\ readings[n] \in Reading /\ readings \in Seq(Reading)
      /\ content \in [EventFiles -> Files0]
      /\ timers \in [EventFiles -> 0 .. Len(readings)] /\ crons \in [EventFiles -> 0 .. Len(readings)]
  BY ReadingFields DEF EventsInv, EventsTypeOK
<1>2. HandleReading(n) => readings[n].at # "done" /\ n \notin armed
  <2>1. HandleReading(n) => readings[n].at # "done"
    BY DEF HandleReading, ReadEventFile, ReadingFails, HandleImmediate, HandleOneShot, HandlePeriodic
  <2> QED
    BY <1>1, <2>1 DEF Entries
<1>3. DoneReading(n) => readings'[n].at = "done" /\ readings'[n].got = Gone
  <2>1. [NewReading(f) EXCEPT !.at = "done"].at = "done" /\ [NewReading(f) EXCEPT !.at = "done"].got = Gone
    BY DEF NewReading
  <2>2. DoneReading(n) => readings'[n] = [NewReading(f) EXCEPT !.at = "done"]
    <3> HIDE DEF Reading
    <3> QED
      BY <1>1 DEF DoneReading
  <2> QED
    BY <2>1, <2>2
<1>4. KeepReading(n) => readings'[n].at = "done" /\ readings'[n].got = readings[n].got
  <2>1. [readings[n] EXCEPT !.at = "done"].at = "done" /\ [readings[n] EXCEPT !.at = "done"].got = readings[n].got
    BY <1>1 DEF Reading
  <2>2. KeepReading(n) => readings'[n] = [readings[n] EXCEPT !.at = "done"]
    <3> HIDE DEF Reading
    <3> QED
      BY <1>1 DEF KeepReading
  <2> QED
    BY <2>1, <2>2
<1>5. RemoveFile(f) => \/ content'[f] = Gone /\ undeleted' = undeleted
                       \/ /\ content' = content /\ f \in left'
                          /\ undeleted' = OneMore(undeleted, f, content[f].version)
  BY <1>1 DEF RemoveFile, OneMore
<1>6. CASE ReadEventFile(n)
  <2>0. PICK c \in {content[f], Gone} :
            readings' = [readings EXCEPT ![n] = [readings[n] EXCEPT !.got = c, !.at = "read"]]
    BY <1>1, <1>6 DEF ReadEventFile
  <2>1. readings'[n] = [readings[n] EXCEPT !.got = c, !.at = "read"]
    BY <1>1, <2>0, ReadingSet, Zenon
  <2>2. readings'[n].at = "read" /\ readings'[n].got \in {content[f], Gone}
    BY <1>1, <2>1 DEF Reading
  <2> QED
    BY <1>6, <2>2 DEF ReadEventFile, Continues, fileVars, schedule, HandleReading
<1>7. CASE ReadingFails(n)
  <2>1. CASE DoneReading(n) /\ RemoveFile(f)
    BY <1>2, <1>3, <1>5, <1>7, <2>1 DEF ReadingFails, Finishes, schedule, HandleReading
  <2>2. CASE readings' = [readings EXCEPT ![n].tries = @ + 1, ![n].at = "reading"] /\ UNCHANGED fileVars
    <3>1. readings'[n] = [readings[n] EXCEPT !.tries = @ + 1, !.at = "reading"]
      <4>1. readings' = [readings EXCEPT ![n] = [readings[n] EXCEPT !.tries = @ + 1, !.at = "reading"]]
        BY <1>1, <2>2
      <4> QED
        BY <1>1, <4>1, ReadingSet, Zenon
    <3>2. readings'[n].at = "reading" /\ readings'[n].got = readings[n].got
      BY <1>1, <3>1 DEF Reading
    <3> QED
      BY <1>7, <2>2, <3>2 DEF ReadingFails, Continues, fileVars, schedule, HandleReading
  <2> QED
    BY <1>7, <2>1, <2>2 DEF ReadingFails
<1>8. CASE HandleImmediate(n)
  <2>1. \/ RemoveFile(f)
        \/ content'[f] = Gone /\ undeleted' = undeleted
        \/ content' = content /\ f \in left' /\ undeleted' = undeleted /\ ran' = ran
    BY <1>8 DEF HandleImmediate, Learn, NotFound
  <2> QED
    BY <1>2, <1>3, <1>5, <1>8, <2>1 DEF HandleImmediate, Finishes, schedule, HandleReading
<1>9. CASE HandleOneShot(n)
  <2>1. CASE RemoveFile(f) /\ DoneReading(n) /\ UNCHANGED schedule
    BY <1>2, <1>3, <1>5, <1>9, <2>1 DEF Finishes, schedule, HandleReading
  <2>2. CASE KeepReading(n) /\ timers' = [timers EXCEPT ![f] = n] /\ armed' = armed \cup {n} /\ Learn(f)
    <3>1. timers'[f] = n
      BY <1>1, <2>2
    <3>2. UNCHANGED <<ran, left>>
      BY <1>1, <1>9, <2>2, <3>1, <1>2 DEF HandleOneShot, HandleReading, schedule
    <3> QED
      BY <1>4, <1>9, <2>2, <3>1, <3>2 DEF HandleOneShot, Learn, Continues, HandleReading
  <2> QED
    BY <1>9, <2>1, <2>2 DEF HandleOneShot
<1>10. CASE HandlePeriodic(n)
  <2>1. CASE RemoveFile(f) /\ DoneReading(n) /\ UNCHANGED schedule
    BY <1>2, <1>3, <1>5, <1>10, <2>1 DEF Finishes, schedule, HandleReading
  <2>2. CASE /\ readings[n].got.kind = "periodic" /\ KeepReading(n)
             /\ crons' = [crons EXCEPT ![f] = n] /\ armed' = armed \cup {n} /\ Learn(f)
    <3>1. crons'[f] = n
      BY <1>1, <2>2
    <3> QED
      BY <1>4, <1>10, <2>2, <3>1 DEF HandlePeriodic, Learn, Continues, HandleReading
  <2> QED
    BY <1>10, <2>1, <2>2 DEF HandlePeriodic
<1>11. CASE TimerFires(n)
  BY <1>3, <1>5, <1>11 DEF TimerFires, Finishes
<1> QED
  BY <1>6, <1>7, <1>8, <1>9, <1>10, <1>11 DEF HandleReading

(* A step of a reading keeps the invariant. *)
LEMMA ReadingInv ==
    ASSUME EventsInv, EventsTypeOK', NEW n \in 1 .. Len(readings), HandleReading(n) \/ TimerFires(n)
    PROVE  EventsInv'
<1>1. PICK f \in EventFiles : f = readings[n].file
  BY ReadingFields DEF EventsInv
<1>2. /\ up /\ up' = up /\ raced' = raced /\ versions' = versions
      /\ Len(readings') = Len(readings)
      /\ \A k \in 1 .. Len(readings) : k # n => readings'[k] = readings[k]
      /\ \A k \in 1 .. Len(readings) : readings'[k].file = readings[k].file
      /\ content' \in {content, [content EXCEPT ![f] = Gone]}
      /\ timers' \in {timers, [timers EXCEPT ![f] = n], [timers EXCEPT ![f] = 0]}
      /\ crons' \in {crons, [crons EXCEPT ![f] = n]}
      /\ armed' \in {armed, armed \cup {n}, armed \ {n}}
      /\ ran' \in {ran, OneMore(ran, f, readings[n].got.version)}
  BY <1>1, ReadingStep
<1>3. Finishes(n, f) \/ (HandleReading(n) /\ Continues(n, f))
  BY <1>1, ReadingOutcomes
<1>4. EventsTypeOK /\ Numbered /\ Entries
  BY DEF EventsInv
<1>5. Dormant'
  BY <1>2 DEF Dormant
<1>6. Numbered'
  <2>1. \A g \in EventFiles : content'[g] = content[g] \/ content'[g] = Gone
    BY <1>2, <1>4 DEF EventsTypeOK
  <2>0. versions \in Nat /\ Gone.version <= versions
    BY <1>4, BoundsNat, GoneType DEF EventsTypeOK
  <2>2. \A g \in EventFiles : content'[g].version <= versions
    BY <1>4, <2>0, <2>1 DEF Numbered
  <2>3. readings'[n].got = content[f] \/ readings'[n].got = readings[n].got \/ readings'[n].got = Gone
    BY <1>3 DEF Finishes, Continues
  <2>4. \A k \in 1 .. Len(readings) : readings'[k].got.version <= versions
    BY <1>2, <1>4, <2>0, <2>3 DEF Numbered
  <2>5. ASSUME NEW g \in EventFiles, NEW v \in 1 .. MaxVersions, ran'[g][v] > 0 PROVE v <= versions
    <3>1. ran \in [EventFiles -> [1 .. MaxVersions -> Nat]]
      BY <1>4 DEF EventsTypeOK
    <3>2. ran'[g][v] = ran[g][v] \/ v = readings[n].got.version
      <4>1. ran[f] \in [1 .. MaxVersions -> Nat] /\ ran[g] \in [1 .. MaxVersions -> Nat]
        BY <3>1
      <4>2. g = f \/ ran'[g] = ran[g]
        BY <1>2, <3>1 DEF OneMore
      <4>3. ran'[f] = ran[f] \/ ran'[f] = [ran[f] EXCEPT ![readings[n].got.version] = @ + 1]
        BY <1>2, <3>1 DEF OneMore
      <4> QED
        BY <4>1, <4>2, <4>3
    <3> QED
      BY <1>4, <2>5, <3>2 DEF Numbered, EventsTypeOK
  <2> QED
    BY <1>2, <2>2, <2>4, <2>5 DEF Numbered
<1>7. Entries'
  <2>1. \A g \in EventFiles : timers'[g] # 0 => readings'[timers'[g]].file = g
    <3> SUFFICES ASSUME NEW g \in EventFiles, timers'[g] # 0 PROVE readings'[timers'[g]].file = g
      OBVIOUS
    <3>1. timers'[g] = timers[g] \/ (g = f /\ timers'[g] = n)
      BY <1>2, <1>4 DEF EventsTypeOK
    <3>2. timers[g] # 0 => timers[g] \in 1 .. Len(readings)
      BY <1>4, SMTT(30) DEF EventsTypeOK
    <3> QED
      BY <1>1, <1>2, <1>4, <3>1, <3>2 DEF Entries
  <2>2. \A g \in EventFiles : crons'[g] # 0 => readings'[crons'[g]].file = g
    <3> SUFFICES ASSUME NEW g \in EventFiles, crons'[g] # 0 PROVE readings'[crons'[g]].file = g
      OBVIOUS
    <3>1. crons'[g] = crons[g] \/ (g = f /\ crons'[g] = n)
      BY <1>2, <1>4 DEF EventsTypeOK
    <3>2. crons[g] # 0 => crons[g] \in 1 .. Len(readings)
      BY <1>4, SMTT(30) DEF EventsTypeOK
    <3> QED
      BY <1>1, <1>2, <1>4, <3>1, <3>2 DEF Entries
  <2>3. ASSUME NEW k \in armed'
        PROVE  readings'[k].at = "done" /\ readings'[k].got.kind \in {"one-shot", "periodic"}
    <3>1. CASE k # n
      <4>1. k \in armed
        BY <1>2, <2>3, <3>1
      <4>2. k \in 1 .. Len(readings)
        BY <1>4, <4>1 DEF EventsTypeOK
      <4> QED
        BY <1>2, <1>4, <3>1, <4>1, <4>2 DEF Entries
    <3>2. CASE k = n
      <4>1. HandleReading(n) /\ Continues(n, f)
        BY <1>3, <2>3, <3>2 DEF Finishes
      <4>2. readings[n].at # "done"
        BY <4>1 DEF HandleReading, ReadEventFile, ReadingFails, HandleImmediate, HandleOneShot, HandlePeriodic
      <4>3. n \notin armed
        BY <1>4, <4>2 DEF Entries
      <4> QED
        BY <2>3, <3>2, <4>1, <4>3 DEF Continues
    <3> QED
      BY <3>1, <3>2
  <2> QED
    BY <2>1, <2>2, <2>3 DEF Entries
<1>8. ASSUME NEW g \in EventFiles \ raced' PROVE FileInv(g)'
  <2>1. FileInv(g) /\ g \in EventFiles
    BY <1>2, <1>8 DEF EventsInv
  <2>2. CASE g # f
    BY <1>1, <2>1, <2>2, ReadingElsewhere
  <2>3. CASE g = f
    <3>1. HandleReading(n) => n \in Active(f)
      BY <1>1 DEF HandleReading, ReadEventFile, ReadingFails, HandleImmediate, HandleOneShot,
         HandlePeriodic, Active
    <3>2. TimerFires(n) => n \in Scheduled(f)
      BY <1>1 DEF TimerFires, Scheduled
    <3>3. n \in Pending(f)
      BY <3>1, <3>2 DEF Pending
    <3>4. CASE Finishes(n, f)
      BY <1>1, <2>1, <2>3, <3>3, <3>4, ReadingFinished
    <3>5. CASE HandleReading(n) /\ Continues(n, f)
      BY <1>1, <2>1, <2>3, <3>1, <3>5, ReadingContinued
    <3> QED
      BY <1>3, <3>4, <3>5
  <2> QED
    BY <2>2, <2>3
<1> QED
  BY <1>5, <1>6, <1>7, <1>8 DEF EventsInv

-----------------------------------------------------------------------------
(* The files are written, touched and deleted; the bot starts and exits.   *)

(* Readings, schedule and what was executed are as before. *)
LEMMA SameSchedule ==
    ASSUME UNCHANGED <<readings, schedule>>, NEW g
    PROVE  Active(g)' = Active(g) /\ Scheduled(g)' = Scheduled(g) /\ Pending(g)' = Pending(g)
BY DEF schedule, Active, Scheduled, Pending

LEMMA WriteInv ==
    ASSUME EventsInv, EventsTypeOK', NEW f \in EventFiles,
           (\E k \in EventKinds : WriteFile(f, k)) \/ TouchFile(f) \/ DeleteFile(f)
    PROVE  EventsInv'
<1>0. EventsTypeOK /\ Dormant /\ Numbered /\ Entries /\ content \in [EventFiles -> Files0] /\ versions \in Nat
  <2>1. EventsTypeOK /\ Dormant /\ Numbered /\ Entries
    BY DEF EventsInv
  <2>2. content \in [EventFiles -> Files0] /\ versions \in 0 .. MaxVersions
    BY <2>1 DEF EventsTypeOK
  <2>3. versions \in Nat
    BY <2>2, BoundsNat
  <2> QED
    BY <2>1, <2>2, <2>3
<1>1. /\ UNCHANGED <<known, left, undeleted, up, readings, schedule, ran, raced>>
      /\ \A g \in EventFiles \ {f} : content'[g] = content[g] /\ (g \in changed' <=> g \in changed)
      /\ changed' = IF up THEN changed \cup {f} ELSE changed
  BY <1>0 DEF WriteFile, TouchFile, DeleteFile
<1>2. /\ versions' \in Nat /\ versions <= versions'
      /\ \/ content'[f].version = content[f].version /\ versions' = versions
         \/ content'[f].version = 0 /\ versions' = versions
         \/ content'[f].version = versions + 1 /\ versions' = versions + 1
  <2>1. CASE \E k \in EventKinds : WriteFile(f, k)
    BY <1>0, <2>1 DEF WriteFile
  <2>2. CASE TouchFile(f)
    <3>1. content'[f] = [content[f] EXCEPT !.fresh = TRUE]
      BY <1>0, <2>2 DEF TouchFile
    <3>2. content'[f].version = content[f].version
      BY <1>0, <3>1 DEF Files0
    <3> QED
      BY <1>0, <2>2, <3>2 DEF TouchFile
  <2>3. CASE DeleteFile(f)
    BY <1>0, <2>3, GoneType DEF DeleteFile
  <2> QED
    BY <2>1, <2>2, <2>3
<1>3. Dormant'
  BY <1>0, <1>1 DEF Dormant, schedule
<1>4. Entries'
  BY <1>0, <1>1 DEF Entries, schedule
<1>5. Numbered'
  <2>1. \A g \in EventFiles : content[g].version \in Nat
    BY <1>0, BoundsNat DEF Files0
  <2>2. \A n \in 1 .. Len(readings) : readings[n].got.version \in Nat
    BY <1>0, ReadingFields, BoundsNat
  <2>3. \A g \in EventFiles : content'[g].version <= versions'
    BY <1>0, <1>1, <1>2, <2>1 DEF Numbered
  <2>4. \A n \in 1 .. Len(readings) : readings[n].got.version <= versions'
    BY <1>0, <1>2, <2>2 DEF Numbered
  <2>5. \A g \in EventFiles, v \in 1 .. MaxVersions : ran[g][v] > 0 => v <= versions'
    BY <1>0, <1>2, BoundsNat DEF Numbered
  <2> QED
    BY <1>1, <2>3, <2>4, <2>5 DEF Numbered
<1>6. ASSUME NEW g \in EventFiles \ raced' PROVE FileInv(g)'
  <2>1. FileInv(g) /\ g \in EventFiles
    BY <1>1, <1>6 DEF EventsInv
  <2>2. Active(g)' = Active(g) /\ Scheduled(g)' = Scheduled(g) /\ Pending(g)' = Pending(g)
    BY <1>1, SameSchedule
  <2>3. CASE g # f
    <3>1. Leaves(g)
      BY <1>1, <2>1, <2>2, <2>3 DEF Leaves, schedule
    <3> QED
      BY <2>1, <3>1, Undisturbed
  <2>4. CASE g = f
    <3>1. OneAtATime(g)'
      BY <1>1, <2>1, <2>2 DEF FileInv, OneAtATime, schedule
    <3>2. UpToDate(g)'
      BY <1>1, <2>4 DEF UpToDate
    <3>3. Once(g)'
      <4> SUFFICES ASSUME NEW v \in 1 .. MaxVersions, ~(ran[g][v] <= undeleted[g][v])
                   PROVE  /\ ran[g][v] = undeleted[g][v] + 1 /\ content'[g].version # v
                          /\ \A n \in Pending(g) : readings[n].got.version # v
        BY <1>1, <2>2 DEF Once
      <4>1. /\ ran[g][v] = undeleted[g][v] + 1 /\ content[g].version # v
            /\ \A n \in Pending(g) : readings[n].got.version # v
        BY <2>1 DEF FileInv, Once
      <4>0. undeleted[g][v] \in Nat
        <5>1. undeleted[g] \in [1 .. MaxVersions -> Nat]
          BY <1>0, <2>1 DEF EventsTypeOK
        <5> QED
          BY <5>1
      <4>3. ran[g][v] > 0
        BY <4>0, <4>1
      <4>2. v \in Nat /\ v <= versions /\ v # 0
        BY <1>0, <2>1, <4>3, BoundsNat DEF Numbered
      <4> QED
        BY <1>0, <1>2, <2>4, <4>1, <4>2
    <3>4. LeftAlone(g)'
      BY <1>1, <2>1, <2>2 DEF FileInv, LeftAlone
    <3> QED
      BY <3>1, <3>2, <3>3, <3>4 DEF FileInv
  <2> QED
    BY <2>3, <2>4
<1> QED
  BY <1>3, <1>4, <1>5, <1>6 DEF EventsInv

(* An exit forgets everything that could still be executed. *)
LEMMA ExitInv ==
    ASSUME EventsInv, EventsTypeOK', Exit
    PROVE  EventsInv'
<1>0. EventsTypeOK /\ Numbered
  BY DEF EventsInv
<1>1. /\ readings' = <<>> /\ Len(readings') = 0 /\ armed' = {} /\ changed' = {} /\ ~up'
      /\ left' = {}
      /\ \A g \in EventFiles : timers'[g] = 0 /\ crons'[g] = 0
      /\ UNCHANGED <<versions, undeleted, ran, raced>>
  BY EmptySeq DEF Exit
<1>2. \A g \in EventFiles : content'[g].version = content[g].version
  BY <1>0 DEF Exit, EventsTypeOK, Files0
<1>3. \A g : Pending(g)' = {} /\ Scheduled(g)' = {}
  BY <1>1 DEF Pending, Active, Scheduled
<1>4. Dormant' /\ Numbered' /\ Entries'
  BY <1>0, <1>1, <1>2 DEF Dormant, Numbered, Entries
<1>5. ASSUME NEW g \in EventFiles \ raced' PROVE FileInv(g)'
  <2>1. Once(g) /\ g \in EventFiles
    BY <1>1, <1>5 DEF EventsInv, FileInv
  <2>2. OneAtATime(g)'
    BY <1>3 DEF OneAtATime
  <2>3. UpToDate(g)'
    BY <1>1 DEF UpToDate
  <2>4. Once(g)'
    BY <1>1, <1>2, <1>3, <2>1 DEF Once
  <2>5. LeftAlone(g)'
    BY <1>1 DEF LeftAlone
  <2> QED
    BY <2>2, <2>3, <2>4, <2>5 DEF FileInv
<1> QED
  BY <1>4, <1>5 DEF EventsInv

(* A start reads each file there is once, or leaves them all alone. *)
LEMMA StartInv ==
    ASSUME EventsInv, EventsTypeOK', StartBot
    PROVE  EventsInv'
<1> DEFINE found == {f \in EventFiles : content[f] # Gone}
<1>0. EventsTypeOK /\ Dormant /\ Numbered
  BY DEF EventsInv
<1>1. /\ readings = <<>> /\ armed = {} /\ left = {} /\ Len(readings) = 0 /\ up'
      /\ UNCHANGED <<content, versions, changed, known, undeleted, timers, crons, armed, ran, raced>>
  <2>1. readings = <<>> /\ armed = {} /\ left = {} /\ up'
    BY <1>0, StartReadsOrFails DEF StartBot
  <2>2. UNCHANGED <<content, versions, changed, known, undeleted, timers, crons, armed, ran, raced>>
    BY DEF StartBot, schedule
  <2> QED
    BY <2>1, <2>2, EmptySeq
<1>2. /\ \A n \in 1 .. Len(readings') : \E f \in found : readings'[n] = NewReading(f)
      /\ \A f \in found : f \in left' \/ \E n \in 1 .. Len(readings') : readings'[n].file = f
      /\ \A n, k \in 1 .. Len(readings') : readings'[n].file = readings'[k].file => n = k
      /\ left' = {} \/ Len(readings') = 0
  <2>1. CASE ReadsAll(found) /\ left' = left
    BY <1>0, <1>1, <2>1, StartReadings, Zenon
  <2>2. CASE readings' = <<>> /\ left' = found
    <3>1. Len(readings') = 0 /\ 1 .. Len(readings') = {}
      BY <2>2, EmptySeq
    <3> HIDE DEF found
    <3> QED
      BY <2>2, <3>1
  <2> QED
    BY <1>0, <2>1, <2>2, StartReadsOrFails
<1>3. \A g \in EventFiles : timers'[g] = 0 /\ crons'[g] = 0
  BY <1>0, <1>1 DEF EventsTypeOK
<1>4. \A n \in 1 .. Len(readings') : readings'[n].at = "reading" /\ readings'[n].got = Gone
  <2>1. \A f : NewReading(f).at = "reading" /\ NewReading(f).got = Gone
    BY DEF NewReading
  <2> HIDE DEF found
  <2> QED
    BY <1>2, <2>1
<1>5. Dormant' /\ Numbered' /\ Entries'
  <2>1. \A n \in 1 .. Len(readings') : readings'[n].got.version <= versions'
    BY <1>0, <1>1, <1>4, GoneType, BoundsNat DEF EventsTypeOK
  <2> QED
    BY <1>0, <1>1, <1>3, <2>1 DEF Dormant, Numbered, Entries
<1>6. ASSUME NEW g \in EventFiles \ raced' PROVE FileInv(g)'
  <2>0. Once(g) /\ g \in EventFiles
    BY <1>1, <1>6 DEF EventsInv, FileInv
  <2>1. /\ \A n : n \in Pending(g)' <=> n \in 1 .. Len(readings') /\ readings'[n].file = g
        /\ \A n : n \notin Scheduled(g)'
    BY <1>1, <1>4 DEF Pending, Active, Scheduled
  <2>2. OneAtATime(g)'
    BY <1>2, <2>1 DEF OneAtATime
  <2>3. UpToDate(g)'
    <3>1. content'[g] # Gone => g \in left' \/ \E n : n \in Pending(g)'
      BY <1>1, <1>2, <2>0, <2>1
    <3>2. \A n : n \in Pending(g)' => readings'[n].at = "reading"
      BY <1>4, <2>1
    <3> QED
      BY <3>1, <3>2 DEF UpToDate
  <2>4. Once(g)'
    <3>1. \A n : n \in Pending(g)' => readings'[n].got.version = 0
      BY <1>4, <2>1, GoneType
    <3> QED
      BY <1>1, <2>0, <3>1 DEF Once
  <2>5. LeftAlone(g)'
    <3>1. Len(readings') = 0 => 1 .. Len(readings') = {}
      OBVIOUS
    <3> QED
      BY <1>2, <2>1, <3>1 DEF LeftAlone
  <2> QED
    BY <2>2, <2>3, <2>4, <2>5 DEF FileInv
<1> QED
  BY <1>5, <1>6 DEF EventsInv

-----------------------------------------------------------------------------
(* A change is handled: what is scheduled for the file is cancelled, ...   *)

LEMMA ChangeCancels ==
    ASSUME EventsInv, NEW f \in EventFiles, HandleFileChange(f), f \notin raced'
    PROVE  OneAtATime(f) /\ Active(f) = {} /\ (\A n \in armed' : readings[n].file # f)
<1>1. Active(f) = {} /\ f \notin raced
  BY DEF HandleFileChange
<1>2. OneAtATime(f) /\ EventsTypeOK
  BY <1>1 DEF EventsInv, FileInv
<1>3. \A n \in Scheduled(f) : f \in known /\ (timers[f] = n \/ crons[f] = n)
  BY <1>2 DEF OneAtATime
<1>4. (f \in known /\ CancelScheduled(f)) \/ (f \notin known /\ armed' = armed)
  BY DEF HandleFileChange, HandleDelete, schedule
<1>5. ASSUME NEW n \in armed', readings[n].file = f PROVE FALSE
  <2>1. n \in armed
    BY <1>4, <1>5 DEF CancelScheduled
  <2>2. n \in Scheduled(f)
    BY <1>5, <2>1 DEF Scheduled
  <2> QED
    BY <1>3, <1>4, <1>5, <2>2 DEF CancelScheduled
<1> QED
  BY <1>1, <1>2, <1>5

(* ... the other files are left alone, *)
LEMMA ChangeElsewhere ==
    ASSUME EventsInv, EventsTypeOK', NEW f \in EventFiles, HandleFileChange(f),
           NEW g \in EventFiles, g # f, FileInv(g)
    PROVE  FileInv(g)'
<1>0. EventsTypeOK /\ Entries
  BY DEF EventsInv
<1>1. /\ content' = content /\ up' = up /\ ran' = ran /\ changed' = changed \ {f}
      /\ g \in known' <=> g \in known
      /\ g \in left' <=> g \in left
      /\ undeleted' = undeleted
  BY DEF HandleFileChange, NotFound, HandleDelete
<1>2. timers'[g] = timers[g] /\ crons'[g] = crons[g] /\ armed' \subseteq armed
      /\ \A n \in armed \ armed' : n \in {timers[f], crons[f]}
  BY <1>0 DEF HandleFileChange, HandleDelete, CancelScheduled, schedule, EventsTypeOK
<1>3. /\ armed \subseteq 1 .. Len(readings) /\ Len(readings) \in Nat
      /\ \A n \in armed \ armed' : readings[n].file = f
  <2>1. armed \subseteq 1 .. Len(readings) /\ Len(readings) \in Nat
    BY <1>0, LenProperties DEF EventsTypeOK
  <2> QED
    BY <1>0, <1>2, <2>1 DEF Entries
<1>4. \/ readings' = readings
      \/ /\ Len(readings') = Len(readings) + 1 /\ readings'[Len(readings) + 1].file = f
         /\ \A k \in 1 .. Len(readings) : readings'[k] = readings[k]
  <2>1. NewReading(f).file = f
    BY DEF NewReading
  <2> QED
    BY <1>0, <2>1, ReadingAdded, NewReadingType DEF HandleFileChange
<1>5. /\ \A k \in 1 .. Len(readings) : readings'[k] = readings[k]
      /\ \A k : k \in Active(g)' <=> k \in Active(g)
      /\ \A k : k \in Scheduled(g)' <=> k \in Scheduled(g)
  <2>1. \A k \in 1 .. Len(readings) : readings'[k] = readings[k]
    BY <1>4
  <2>2. \A k \in 1 .. Len(readings') : k \in 1 .. Len(readings) \/ readings'[k].file = f
    BY <1>3, <1>4
  <2>3. 1 .. Len(readings) \subseteq 1 .. Len(readings')
    BY <1>3, <1>4
  <2>4. \A k : k \in Active(g)' <=> k \in Active(g)
    BY <2>1, <2>2, <2>3 DEF Active
  <2>5. \A k : k \in Scheduled(g)' <=> k \in Scheduled(g)
    <3>1. ASSUME NEW k, k \in Scheduled(g) PROVE k \in Scheduled(g)'
      <4>1. k \in armed /\ readings[k].file = g /\ k \in 1 .. Len(readings)
        BY <1>3, <3>1 DEF Scheduled
      <4>2. k \in armed' /\ readings'[k].file = g
        BY <1>3, <2>1, <4>1
      <4> QED
        BY <4>2 DEF Scheduled
    <3>2. ASSUME NEW k, k \in Scheduled(g)' PROVE k \in Scheduled(g)
      <4>1. k \in armed' /\ readings'[k].file = g
        BY <3>2 DEF Scheduled
      <4>2. k \in armed /\ k \in 1 .. Len(readings)
        BY <1>2, <1>3, <4>1
      <4> QED
        BY <2>1, <4>1, <4>2 DEF Scheduled
    <3> QED
      BY <3>1, <3>2
  <2> QED
    BY <2>1, <2>4, <2>5
<1>6. Active(g)' = Active(g) /\ Scheduled(g)' = Scheduled(g) /\ Pending(g) \subseteq 1 .. Len(readings)
  BY <1>0, <1>5, PendingMembers
<1> QED
  BY <1>1, <1>2, <1>5, <1>6, Undisturbed DEF Leaves

(* ... and nothing but one new reading of the file, if it is there, is left. *)
LEMMA ChangeHere ==
    ASSUME EventsInv, EventsTypeOK', NEW f \in EventFiles, HandleFileChange(f), f \notin raced'
    PROVE  FileInv(f)'
<1>0. EventsTypeOK /\ Once(f) /\ f \in EventFiles
  <2>1. f \notin raced
    BY DEF HandleFileChange
  <2> QED
    BY <2>1 DEF EventsInv, FileInv
<1>1. content' = content /\ ran' = ran /\ undeleted' = undeleted
  BY DEF HandleFileChange
<1>2. Active(f) = {} /\ \A n \in armed' : readings[n].file # f
  BY ChangeCancels
<1>3. armed' \subseteq 1 .. Len(readings) /\ Len(readings) \in Nat
  <2>1. armed \subseteq 1 .. Len(readings) /\ Len(readings) \in Nat
    BY <1>0, LenProperties DEF EventsTypeOK
  <2> QED
    BY <2>1 DEF HandleFileChange, HandleDelete, CancelScheduled, schedule
<1>4. CASE NotFound(f) /\ readings' = readings
  <2>1. content[f] = Gone \/ f \in left'
    BY <1>4 DEF NotFound
  <2>2. \A n : n \notin Pending(f)' /\ n \notin Scheduled(f)'
    BY <1>2, <1>4 DEF Pending, Active, Scheduled
  <2>3. OneAtATime(f)' /\ LeftAlone(f)'
    BY <2>2 DEF OneAtATime, LeftAlone
  <2>4. UpToDate(f)'
    BY <1>1, <2>1, <2>2 DEF UpToDate
  <2>5. Once(f)'
    BY <1>0, <1>1, <2>2 DEF Once
  <2> QED
    BY <2>3, <2>4, <2>5 DEF FileInv
<1>5. CASE readings' = Append(readings, NewReading(f)) /\ left' = left \ {f}
  <2>1. /\ Len(readings') = Len(readings) + 1 /\ readings'[Len(readings) + 1] = NewReading(f)
        /\ \A k \in 1 .. Len(readings) : readings'[k] = readings[k]
    BY <1>0, <1>5, ReadingAdded, NewReadingType
  <2>2. /\ readings'[Len(readings) + 1].file = f /\ readings'[Len(readings) + 1].at = "reading"
        /\ readings'[Len(readings) + 1].got.version = 0
    BY <2>1, GoneType DEF NewReading
  <2>3. \A n : n \notin Scheduled(f)'
    BY <1>2, <1>3, <2>1 DEF Scheduled
  <2>4. \A n : n \in Active(f)' <=> n = Len(readings) + 1
    <3>1. \A n \in 1 .. Len(readings) : n \notin Active(f)'
      BY <1>2, <2>1 DEF Active
    <3>2. Len(readings) + 1 \in Active(f)'
      BY <1>3, <2>1, <2>2 DEF Active
    <3>3. \A n : n \in Active(f)' => n \in 1 .. Len(readings) + 1
      BY <2>1 DEF Active
    <3> QED
      BY <1>3, <3>1, <3>2, <3>3
  <2>5. \A n : n \in Pending(f)' <=> n = Len(readings) + 1
    BY <2>3, <2>4 DEF Pending
  <2>6. OneAtATime(f)'
    BY <2>3, <2>5 DEF OneAtATime
  <2>7. UpToDate(f)'
    <3>1. \A n : n \in Pending(f)' => readings'[n].at = "reading"
      BY <2>2, <2>5
    <3>2. Pending(f)' # {}
      BY <2>5
    <3> QED
      BY <3>1, <3>2 DEF UpToDate
  <2>8. Once(f)'
    <3>1. \A n : n \in Pending(f)' => readings'[n].got.version = 0
      BY <2>2, <2>5
    <3> QED
      BY <1>0, <1>1, <3>1 DEF Once
  <2>9. LeftAlone(f)'
    BY <1>5 DEF LeftAlone
  <2> QED
    BY <2>6, <2>7, <2>8, <2>9 DEF FileInv
<1> QED
  BY <1>4, <1>5 DEF HandleFileChange

LEMMA ChangeInv ==
    ASSUME EventsInv, EventsTypeOK', NEW f \in EventFiles, HandleFileChange(f)
    PROVE  EventsInv'
<1>0. EventsTypeOK /\ Dormant /\ Numbered /\ Entries
  BY DEF EventsInv
<1>1. /\ content' = content /\ up' = up /\ ran' = ran /\ versions' = versions /\ raced \subseteq raced'
      /\ up /\ f \in changed
  BY <1>0 DEF HandleFileChange, Dormant
<1>2. /\ armed' \subseteq armed /\ armed \subseteq 1 .. Len(readings) /\ Len(readings) \in Nat
      /\ \A g \in EventFiles : timers'[g] \in {0, timers[g]} /\ crons'[g] \in {0, crons[g]}
  <2>1. armed \subseteq 1 .. Len(readings) /\ Len(readings) \in Nat
    BY <1>0, LenProperties DEF EventsTypeOK
  <2> QED
    BY <1>0, <2>1 DEF HandleFileChange, HandleDelete, CancelScheduled, schedule, EventsTypeOK
<1>3. /\ \A k \in 1 .. Len(readings) : readings'[k] = readings[k]
      /\ \A k \in 1 .. Len(readings') : k \in 1 .. Len(readings) \/ readings'[k].got = Gone
  <2>1. NewReading(f).got = Gone
    BY DEF NewReading
  <2>2. CASE readings' = readings
    BY <2>2
  <2>3. CASE readings' = Append(readings, NewReading(f))
    <3>1. /\ Len(readings') = Len(readings) + 1 /\ readings'[Len(readings) + 1] = NewReading(f)
          /\ \A k \in 1 .. Len(readings) : readings'[k] = readings[k]
      BY <1>0, <2>3, ReadingAdded, NewReadingType
    <3> QED
      BY <1>2, <2>1, <3>1
  <2> QED
    BY <2>2, <2>3 DEF HandleFileChange
<1>4. Dormant'
  BY <1>1 DEF Dormant
<1>5. Numbered'
  <2>1. Gone.version <= versions
    BY <1>0, GoneType, BoundsNat DEF EventsTypeOK
  <2>2. \A k \in 1 .. Len(readings') : readings'[k].got.version <= versions
    BY <1>0, <1>3, <2>1 DEF Numbered
  <2> QED
    BY <1>0, <1>1, <2>2 DEF Numbered
<1>6. Entries'
  <2>1. \A g \in EventFiles : /\ timers[g] # 0 => timers[g] \in 1 .. Len(readings)
                              /\ crons[g] # 0 => crons[g] \in 1 .. Len(readings)
    BY <1>0, <1>2, SMTT(30) DEF EventsTypeOK
  <2>2. \A g \in EventFiles : timers'[g] # 0 => readings'[timers'[g]].file = g
    BY <1>0, <1>2, <1>3, <2>1 DEF Entries
  <2>3. \A g \in EventFiles : crons'[g] # 0 => readings'[crons'[g]].file = g
    BY <1>0, <1>2, <1>3, <2>1 DEF Entries
  <2>4. \A n \in armed' : readings'[n].at = "done" /\ readings'[n].got.kind \in {"one-shot", "periodic"}
    BY <1>0, <1>2, <1>3 DEF Entries
  <2> QED
    BY <2>2, <2>3, <2>4 DEF Entries
<1>7. ASSUME NEW g \in EventFiles \ raced' PROVE FileInv(g)'
  <2>1. FileInv(g) /\ g \in EventFiles
    BY <1>1, <1>7 DEF EventsInv
  <2>2. CASE g # f
    BY <2>1, <2>2, ChangeElsewhere
  <2>3. CASE g = f
    BY <1>7, <2>3, ChangeHere
  <2> QED
    BY <2>2, <2>3
<1> QED
  BY <1>4, <1>5, <1>6, <1>7 DEF EventsInv

-----------------------------------------------------------------------------
(* The specification. *)

LEMMA EventsInvInit == EventsInit => EventsInv
<1> SUFFICES ASSUME EventsInit PROVE EventsInv
  OBVIOUS
<1>1. EventsTypeOK /\ readings = <<>> /\ Len(readings) = 0 /\ armed = {} /\ changed = {} /\ left = {} /\ ~up
  <2>1. EventsTypeOK
    BY EventsTypesInit
  <2>2. readings = <<>> /\ armed = {} /\ changed = {} /\ left = {} /\ ~up
    BY DEF EventsInit
  <2> QED
    BY <2>1, <2>2, EmptySeq
<1>2. \A f \in EventFiles : content[f] = Gone /\ timers[f] = 0 /\ crons[f] = 0
                            /\ \A v \in 1 .. MaxVersions : ran[f][v] = 0 /\ undeleted[f][v] = 0
  BY DEF EventsInit
<1>3. Dormant /\ Numbered /\ Entries
  <2>1. versions = 0
    BY DEF EventsInit
  <2> QED
    BY <1>1, <1>2, <2>1, GoneType DEF Dormant, Numbered, Entries
<1>4. \A f : Pending(f) = {} /\ Scheduled(f) = {}
  BY <1>1 DEF Pending, Active, Scheduled
<1>5. \A f \in EventFiles : OneAtATime(f) /\ UpToDate(f) /\ LeftAlone(f) /\ Once(f)
  BY <1>1, <1>2, <1>4 DEF OneAtATime, UpToDate, LeftAlone, Once
<1> QED
  BY <1>1, <1>3, <1>5 DEF EventsInv, FileInv

LEMMA EventsInvNext == EventsInv /\ [EventsNext]_momVars => EventsInv'
<1> SUFFICES ASSUME EventsInv, [EventsNext]_momVars PROVE EventsInv'
  OBVIOUS
<1>0. EventsTypeOK /\ Dormant
  BY DEF EventsInv
<1>1. CASE ChannelStep
  BY <1>0, <1>1, ChannelTypes, NothingDisturbed
<1>2. CASE StartBot
  BY <1>0, <1>2, StartTypes, StartInv
<1>3. CASE Exit
  BY <1>0, <1>3, ExitTypes, ExitInv
<1>4. ASSUME NEW f \in EventFiles,
             (\E k \in EventKinds : WriteFile(f, k)) \/ TouchFile(f) \/ DeleteFile(f)
      PROVE  EventsInv'
  BY <1>0, <1>4, WriteTypes, WriteInv
<1>5. ASSUME NEW f \in EventFiles, HandleFileChange(f) PROVE EventsInv'
  BY <1>0, <1>5, ChangeTypes, ChangeInv
<1>6. ASSUME NEW n \in 1 .. Len(readings), HandleReading(n) \/ TimerFires(n) PROVE EventsInv'
  BY <1>0, <1>6, HandleTypes, ReadingInv
<1>7. CASE UNCHANGED momVars
  <2>1. EventsTypeOK'
    BY <1>0, <1>7 DEF EventsTypeOK, momVars, fileVars, schedule, channelVars
  <2>2. OthersRest
    BY <1>7 DEF OthersRest, momVars
  <2> QED
    BY <2>1, <2>2, NothingDisturbed
<1> QED
  BY <1>1, <1>2, <1>3, <1>4, <1>5, <1>6, <1>7 DEF EventsNext, ChannelStep

LEMMA EventsInvariant == EventsSpec => []EventsInv
BY EventsInvInit, EventsInvNext, PTL DEF EventsSpec

(* The bot's variables have their types: the entries of the watcher's maps *)
(* and the armed timers are of readings there are, the queue holds works.  *)
THEOREM EventsTypesCorrect == EventsSpec => []EventsTypeOK
<1>1. EventsInv => EventsTypeOK
  BY DEF EventsInv
<1> QED
  BY <1>1, EventsInvariant, PTL

(* An immediate or one-shot event comes to be executed once, and once more *)
(* at most for each time that its file could not be deleted, however often *)
(* the file is touched, read and written again, and whenever the bot exits *)
(* and starts, where readings of the file did not overlap.                 *)
THEOREM EventsExecutedOnce == EventsSpec => []ExecutedOnce
<1>1. EventsInv => ExecutedOnce
  <2> SUFFICES ASSUME EventsInv, NEW f \in EventFiles \ raced, NEW v \in 1 .. versions
               PROVE  ran[f][v] <= 1 + undeleted[f][v]
    BY DEF ExecutedOnce
  <2>1. v \in 1 .. MaxVersions
    BY BoundsNat DEF EventsInv, EventsTypeOK
  <2>2. ran[f][v] <= undeleted[f][v] \/ ran[f][v] = undeleted[f][v] + 1
    BY <2>1 DEF EventsInv, FileInv, Once
  <2>3. ran[f][v] \in Nat /\ undeleted[f][v] \in Nat
    <3>1. ran[f] \in [1 .. MaxVersions -> Nat] /\ undeleted[f] \in [1 .. MaxVersions -> Nat]
      BY DEF EventsInv, EventsTypeOK
    <3> QED
      BY <2>1, <3>1
  <2> QED
    BY <2>2, <2>3
<1> QED
  BY <1>1, EventsInvariant, PTL

(* When every change of a file has been handled, exactly one timer or cron *)
(* job with the file's last version is alive, and none for a file that is  *)
(* gone or that an operation that failed left where it is, where readings  *)
(* of the file did not overlap.                                            *)
THEOREM EventsScheduleMatches == EventsSpec => []ScheduleMatchesFiles
<1>1. EventsInv => ScheduleMatchesFiles
  <2> SUFFICES ASSUME EventsInv, NEW f \in EventFiles, up, f \notin changed, f \notin raced, Active(f) = {}
               PROVE  IF content[f] = Gone \/ f \in left THEN Scheduled(f) = {}
                      ELSE /\ Cardinality(Scheduled(f)) = 1
                           /\ \A n \in Scheduled(f) : readings[n].got.version = content[f].version
    BY DEF ScheduleMatchesFiles
  <2>1. /\ OneAtATime(f) /\ UpToDate(f) /\ LeftAlone(f) /\ Entries /\ EventsTypeOK
        /\ Pending(f) = Scheduled(f)
    BY DEF EventsInv, FileInv, Pending
  <2>2. \A n \in Scheduled(f) : readings[n].got = content[f] /\ readings[n].got.kind # "none"
    BY <2>1, GoneType DEF UpToDate, Entries, Scheduled
  <2>3. CASE content[f] = Gone \/ f \in left
    BY <2>1, <2>2, <2>3, GoneType DEF LeftAlone
  <2>4. CASE content[f] # Gone /\ f \notin left
    <3>1. PICK n : n \in Scheduled(f)
      BY <2>1, <2>4 DEF UpToDate
    <3>2. Scheduled(f) = {n}
      BY <2>1, <3>1 DEF OneAtATime
    <3>3. Cardinality(Scheduled(f)) = 1
      BY <3>2, FS_Singleton
    <3> QED
      BY <2>2, <2>4, <3>3
  <2> QED
    BY <2>3, <2>4
<1> QED
  BY <1>1, EventsInvariant, PTL

=============================================================================
