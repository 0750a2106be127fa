------------------------------ MODULE MomEvents ------------------------------
(***************************************************************************)
(* The Slack bot's event files and its work queue                          *)
(* (packages/mom/src/events.ts, slack.ts, main.ts), for one channel.       *)
(*                                                                         *)
(* Programs put event files into a directory.  A watcher reads a file some *)
(* time after it changed, and schedules what it finds: at once, by a timer *)
(* or by a cron job.  A reading is asynchronous and tries again when the   *)
(* file does not parse, so several readings of one file may overlap.  An   *)
(* event that is due goes into the queue of the channel, where one work is *)
(* done after the other, and its file is deleted.                          *)
(*                                                                         *)
(* An operation on the file system may fail: the watcher then leaves the   *)
(* file where it is, and nothing is scheduled for it until it changes.     *)
(*                                                                         *)
(* Abstractions.  A file's content is the number of its version and the    *)
(* kind of event in it.  Time is left out: a debounce, a timer and a cron  *)
(* job fire at some moment, a one-shot event may be past when it is read.  *)
(***************************************************************************)
EXTENDS Naturals, Sequences, FiniteSets

CONSTANTS
    EventFiles,
    EventKinds,     \* the kinds of event that files are written with
    MaxRetries,     \* tries of a reading
    QueueLimit,     \* works that may wait before events are discarded (5)
    MaxVersions,    \* bound: versions of files
    MaxReadings,    \* bound: readings
    MaxMessages     \* bound: messages of users, stop commands, cron runs, restarts,
                    \* touches and failures of the file system

ASSUME EventsAssumption ==
    /\ IsFiniteSet(EventFiles)
    /\ EventKinds \subseteq {"immediate", "one-shot", "periodic", "bad cron", "broken"}
    /\ {MaxRetries, QueueLimit, MaxVersions, MaxReadings, MaxMessages} \subseteq Nat

VARIABLES
    content,    \* file -> what is on the disk
    versions,   \* versions written so far
    up,         \* the bot runs
    changed,    \* debounceTimers: the files a change of which was noticed
    known,      \* knownFiles
    readings,   \* every handleFile so far: its file, tries, and what it has read
    timers,     \* file -> the reading that set its entry, or 0
    crons,      \* file -> the reading that set its entry, or 0
    armed,      \* the readings whose timer or cron job is alive
    work,       \* the channel's queue
    current,    \* the work being done
    phase,      \* what handleEvent is at
    stopRequested, interrupted, \* the run was told to stop; its agent was aborted
    messages,   \* messages, stops, cron runs, restarts, touches and failures so far
    ran,        \* history: file, version -> how often it came to be executed
    left,       \* history: files left as they are by an operation that failed
    undeleted,  \* history: file, version -> how often deleting it failed
    raced       \* history: files a change of which was handled during a reading

fileVars    == <<content, versions, changed, known, left, undeleted>>
schedule    == <<timers, crons, armed>>
channelVars == <<work, current, phase, stopRequested, interrupted>>
momVars     == <<fileVars, up, readings, schedule, channelVars, messages, ran, raced>>

Gone    == [version |-> 0, kind |-> "none", fresh |-> FALSE]
Files0  == [version: 0 .. MaxVersions, kind: EventKinds \cup {"none"}, fresh: BOOLEAN]
Reading == [file: EventFiles, tries: 0 .. MaxRetries, got: Files0,
            at: {"reading", "read", "done"}]
NoWork  == "none"
Message == "message"

EventsTypeOK ==
    /\ content \in [EventFiles -> Files0]
    /\ versions \in 0 .. MaxVersions
    /\ up \in BOOLEAN
    /\ changed \subseteq EventFiles /\ known \subseteq EventFiles
    /\ readings \in Seq(Reading)
    /\ {timers, crons} \subseteq [EventFiles -> 0 .. Len(readings)]
    /\ armed \subseteq 1 .. Len(readings)
    /\ work \in Seq({Message, "event"})
    /\ current \in {NoWork, Message, "event"}
    /\ phase \in {"idle", "setup", "agent", "report"}
    /\ stopRequested \in BOOLEAN /\ interrupted \in BOOLEAN
    /\ messages \in 0 .. MaxMessages
    /\ ran \in [EventFiles -> [1 .. MaxVersions -> Nat]]
    /\ undeleted \in [EventFiles -> [1 .. MaxVersions -> Nat]]
    /\ left \subseteq EventFiles /\ raced \subseteq EventFiles

EventsInit ==
    /\ content = [f \in EventFiles |-> Gone] /\ versions = 0
    /\ up = FALSE
    /\ changed = {} /\ known = {} /\ readings = <<>>
    /\ timers = [f \in EventFiles |-> 0] /\ crons = timers /\ armed = {}
    /\ work = <<>> /\ current = NoWork /\ phase = "idle"
    /\ stopRequested = FALSE /\ interrupted = FALSE
    /\ messages = 0
    /\ ran = [f \in EventFiles |-> [v \in 1 .. MaxVersions |-> 0]] /\ undeleted = ran
    /\ left = {} /\ raced = {}

Use == messages < MaxMessages /\ messages' = messages + 1

-----------------------------------------------------------------------------
(* The channel's queue (ChannelQueue, handleEvent).                        *)

Begin(w) == /\ current' = w /\ phase' = IF w = NoWork THEN "idle" ELSE "setup"
            /\ stopRequested' = FALSE /\ interrupted' = FALSE

(* enqueue: the work starts at once when none is being done. *)
Enqueue(w) ==
    IF current = NoWork THEN Begin(w) /\ UNCHANGED work
    ELSE work' = Append(work, w) /\ UNCHANGED <<current, phase, stopRequested, interrupted>>

(* enqueueEvent: discarded when too many wait. *)
EnqueueEvent == IF Len(work) >= QueueLimit THEN UNCHANGED channelVars ELSE Enqueue("event")

(* The queue goes on with the next work, whether this one failed or not. *)
NextWork ==
    /\ Begin(IF work = <<>> THEN NoWork ELSE Head(work))
    /\ work' = IF work = <<>> THEN <<>> ELSE Tail(work)

OthersRest == UNCHANGED <<fileVars, up, readings, schedule, ran, raced>>

(* A message of a user: refused while a run is under way. *)
UserMessage ==
    /\ up /\ Use
    /\ IF current = NoWork THEN Enqueue(Message) ELSE UNCHANGED channelVars
    /\ OthersRest

(* stop: aborts the agent, which does nothing until its run has begun. *)
StopCommand ==
    /\ up /\ current # NoWork /\ Use
    /\ stopRequested' = TRUE
    /\ interrupted' = (interrupted \/ phase = "agent")
    /\ UNCHANGED <<work, current, phase>> /\ OthersRest

(* The next await of handleEvent is over. *)
RunGoesOn ==
    /\ current # NoWork
    /\ \/ phase = "setup" /\ phase' = "agent" /\ UNCHANGED <<work, current, stopRequested, interrupted>>
       \/ phase = "agent" /\ phase' = "report" /\ UNCHANGED <<work, current, stopRequested, interrupted>>
       \/ phase = "report" /\ NextWork
    /\ UNCHANGED messages /\ OthersRest

(* Mutant of RunFails: the queue waits for a work that has thrown. *)
NeverCaught ==
    /\ current # NoWork
    /\ phase' = "idle"
    /\ UNCHANGED <<work, current, stopRequested, interrupted, messages>> /\ OthersRest

(* Slack or the agent throws: caught, and running is reset. *)
RunFails ==
    /\ current # NoWork
    /\ NextWork
    /\ UNCHANGED messages /\ OthersRest

-----------------------------------------------------------------------------
(* The watcher.                                                            *)

(* A program, or the agent itself, writes, touches or deletes an event file. *)
WriteFile(f, k) ==
    /\ versions < MaxVersions /\ versions' = versions + 1
    /\ content' = [content EXCEPT ![f] = [version |-> versions + 1, kind |-> k, fresh |-> up]]
    /\ changed' = IF up THEN changed \cup {f} ELSE changed
    /\ UNCHANGED <<known, left, undeleted, up, readings, schedule, channelVars, messages, ran, raced>>

(* Its modification time is now. *)
TouchFile(f) ==
    /\ up /\ content[f] # Gone /\ Use
    /\ content' = [content EXCEPT ![f].fresh = TRUE]
    /\ changed' = changed \cup {f}
    /\ UNCHANGED <<versions, known, left, undeleted, up, readings, schedule, channelVars, ran, raced>>

DeleteFile(f) ==
    /\ up /\ content[f] # Gone
    /\ content' = [content EXCEPT ![f] = Gone]
    /\ changed' = changed \cup {f}
    /\ UNCHANGED <<versions, known, left, undeleted, up, readings, schedule, channelVars, messages,
                   ran, raced>>

NewReading(f) == [file |-> f, tries |-> 0, got |-> Gone, at |-> "reading"]
Active(f) == {n \in 1 .. Len(readings) : readings[n].file = f /\ readings[n].at # "done"}

(* start: every file there is gets read, or none if listing them fails. *)
StartBot ==
    LET found == {f \in EventFiles : content[f] # Gone} IN
    /\ ~up /\ up' = TRUE
    /\ \/ /\ Len(readings) + Cardinality(found) <= MaxReadings
          /\ \E order \in [1 .. Cardinality(found) -> found] :
                /\ {order[i] : i \in DOMAIN order} = found
                /\ readings' = readings \o [i \in DOMAIN order |-> NewReading(order[i])]
          /\ UNCHANGED <<left, messages>>
       \/ Use /\ left' = found /\ UNCHANGED readings
    /\ UNCHANGED <<content, versions, changed, known, undeleted, schedule, channelVars, ran, raced>>

(* The bot exits or is killed: what it had in memory is gone, and whatever *)
(* file is there when it starts again is an old one.                       *)
Exit ==
    /\ up /\ Use
    /\ up' = FALSE /\ changed' = {} /\ known' = {} /\ left' = {}
    /\ content' = [f \in EventFiles |-> [content[f] EXCEPT !.fresh = FALSE]]
    /\ readings' = <<>>
    /\ timers' = [f \in EventFiles |-> 0] /\ crons' = timers' /\ armed' = {}
    /\ Begin(NoWork) /\ work' = <<>>
    /\ UNCHANGED <<versions, undeleted, ran, raced>>

(* Mutant of CancelScheduled: the timer is forgotten, not cleared. *)
ForgetScheduled(f) ==
    /\ timers' = [timers EXCEPT ![f] = 0]
    /\ crons' = [crons EXCEPT ![f] = 0]
    /\ UNCHANGED armed

CancelScheduled(f) ==
    /\ timers' = [timers EXCEPT ![f] = 0]
    /\ crons' = [crons EXCEPT ![f] = 0]
    /\ armed' = armed \ {timers[f], crons[f]}

(* Mutant of HandleDelete: the file is no longer known, but its event is  *)
(* still scheduled.                                                        *)
DeleteKnown(f) == known' = known \ {f} /\ UNCHANGED schedule

HandleDelete(f) ==
    IF f \in known THEN CancelScheduled(f) /\ known' = known \ {f}
    ELSE UNCHANGED <<known, schedule>>

(* existsSync or statSync does not find the file, whether it is gone or    *)
(* looking at it failed.                                                   *)
NotFound(f) == \/ content[f] = Gone /\ UNCHANGED <<left, messages>>
               \/ content[f] # Gone /\ Use /\ left' = left \cup {f}

(* handleFileChange, when the debounce timer fires: another reading begins *)
(* whether or not one is under way.                                        *)
HandleFileChange(f) ==
    /\ f \in changed /\ changed' = changed \ {f}
    /\ raced' = IF Active(f) = {} THEN raced ELSE raced \cup {f}
    /\ \/ NotFound(f) /\ HandleDelete(f) /\ UNCHANGED readings
       \/ /\ content[f] # Gone /\ Len(readings) < MaxReadings
          /\ readings' = Append(readings, NewReading(f)) /\ left' = left \ {f}
          /\ IF f \in known THEN CancelScheduled(f) ELSE UNCHANGED schedule
          /\ UNCHANGED <<known, messages>>
    /\ UNCHANGED <<content, versions, undeleted, up, channelVars, ran>>

(* readFile has read the file as it is now, or fails. *)
ReadEventFile(n) ==
    LET f == readings[n].file IN
    /\ readings[n].at = "reading"
    /\ \E c \in {content[f], Gone} :
          /\ readings' = [readings EXCEPT ![n].got = c, ![n].at = "read"]
          /\ IF c = content[f] THEN UNCHANGED messages ELSE Use
    /\ UNCHANGED <<fileVars, up, schedule, channelVars, ran, raced>>

(* deleteFile, whatever version of the file is there by now: if that fails *)
(* the file stays and is not known any more.                               *)
RemoveFile(f) ==
    /\ known' = known \ {f}
    /\ \/ /\ content' = [content EXCEPT ![f] = Gone]
          /\ changed' = IF content[f] = Gone THEN changed ELSE changed \cup {f}
          /\ UNCHANGED <<left, undeleted, messages>>
       \/ /\ content[f] # Gone /\ Use
          /\ left' = left \cup {f}
          /\ undeleted' = [undeleted EXCEPT ![f][content[f].version] = @ + 1]
          /\ UNCHANGED <<content, changed>>
    /\ UNCHANGED versions

Execute(f, v) == EnqueueEvent /\ ran' = [ran EXCEPT ![f][v] = @ + 1]

(* The reading is over; what it has read is kept for a timer or a cron job. *)
DoneReading(n) == readings' = [readings EXCEPT ![n] = [NewReading(@.file) EXCEPT !.at = "done"]]
KeepReading(n) == readings' = [readings EXCEPT ![n].at = "done"]

(* Not there, or it does not parse: tried again later, deleted at last. *)
ReadingFails(n) ==
    LET r == readings[n] IN
    /\ r.at = "read" /\ r.got.kind \in {"none", "broken"}
    /\ IF r.tries + 1 < MaxRetries
         THEN /\ readings' = [readings EXCEPT ![n].tries = @ + 1, ![n].at = "reading"]
              /\ UNCHANGED <<fileVars, messages>>
         ELSE DoneReading(n) /\ RemoveFile(r.file)
    /\ UNCHANGED <<up, schedule, channelVars, ran, raced>>

Learn(f) == known' = known \cup {f} /\ UNCHANGED <<content, versions, changed, undeleted>>

(* handleImmediate: old ones are deleted; without a file nothing is done. *)
HandleImmediate(n) ==
    LET f == readings[n].file
        v == readings[n].got.version
    IN
    /\ readings[n].at = "read" /\ readings[n].got.kind = "immediate"
    /\ DoneReading(n)
    /\ \/ NotFound(f) /\ Learn(f) /\ UNCHANGED <<channelVars, ran>>
       \/ content[f] # Gone /\ ~content[f].fresh /\ RemoveFile(f) /\ UNCHANGED <<channelVars, ran>>
       \/ content[f].fresh /\ RemoveFile(f) /\ Execute(f, v)
    /\ UNCHANGED <<up, schedule, raced>>

(* handleOneShot: a past event is deleted, and one whose timer fired is    *)
(* past; another gets a timer.                                             *)
HandleOneShot(n) ==
    LET f == readings[n].file IN
    /\ readings[n].at = "read" /\ readings[n].got.kind = "one-shot"
    /\ \/ RemoveFile(f) /\ DoneReading(n) /\ UNCHANGED schedule
       \/ /\ ran[f][readings[n].got.version] = 0
          /\ KeepReading(n)
          /\ timers' = [timers EXCEPT ![f] = n] /\ armed' = armed \cup {n}
          /\ Learn(f) /\ UNCHANGED <<left, messages, crons>>
    /\ UNCHANGED <<up, channelVars, ran, raced>>

(* handlePeriodic: a schedule that makes no sense is deleted. *)
HandlePeriodic(n) ==
    LET f == readings[n].file IN
    /\ readings[n].at = "read"
    /\ \/ /\ readings[n].got.kind = "bad cron"
          /\ RemoveFile(f) /\ DoneReading(n) /\ UNCHANGED schedule
       \/ /\ readings[n].got.kind = "periodic"
          /\ KeepReading(n)
          /\ crons' = [crons EXCEPT ![f] = n] /\ armed' = armed \cup {n}
          /\ Learn(f) /\ UNCHANGED <<left, messages, timers>>
    /\ UNCHANGED <<up, channelVars, ran, raced>>

TimerFires(n) ==
    LET r == readings[n] IN
    /\ n \in armed /\ r.got.kind = "one-shot"
    /\ armed' = armed \ {n} /\ timers' = [timers EXCEPT ![r.file] = 0]
    /\ DoneReading(n)
    /\ Execute(r.file, r.got.version) /\ RemoveFile(r.file)
    /\ UNCHANGED <<up, crons, raced>>

CronFires(n) ==
    /\ n \in armed /\ readings[n].got.kind = "periodic" /\ Use
    /\ EnqueueEvent
    /\ OthersRest

HandleReading(n) == \/ ReadEventFile(n) \/ ReadingFails(n) \/ HandleImmediate(n)
                    \/ HandleOneShot(n) \/ HandlePeriodic(n)

RunStep == RunGoesOn \/ RunFails

EventsNext ==
    \/ UserMessage \/ StopCommand \/ RunStep \/ StartBot \/ Exit
    \/ \E f \in EventFiles :
          \/ \E k \in EventKinds : WriteFile(f, k)
          \/ TouchFile(f) \/ DeleteFile(f) \/ HandleFileChange(f)
    \/ \E n \in 1 .. Len(readings) : HandleReading(n) \/ TimerFires(n) \/ CronFires(n)

(* A call of Slack's or of the agent's ends sometime, well or not. *)
EventsSpec == EventsInit /\ [][EventsNext]_momVars /\ WF_momVars(RunStep)

-----------------------------------------------------------------------------
Scheduled(f) == {n \in armed : readings[n].file = f}

(* When all changes of a file have been handled, what is scheduled for it  *)
(* is what is in it: one timer or cron job with its last version, and none *)
(* for a file that is gone, nor for one that an operation that failed left *)
(* where it is (deleting it, finding it or listing the directory), until   *)
(* it changes again.  Files whose readings overlapped are left out.        *)
ScheduleMatchesFiles ==
    \A f \in EventFiles : up /\ f \notin changed /\ f \notin raced /\ Active(f) = {} =>
        IF content[f] = Gone \/ f \in left THEN Scheduled(f) = {}
        ELSE /\ Cardinality(Scheduled(f)) = 1
             /\ \A n \in Scheduled(f) : readings[n].got.version = content[f].version

(* An immediate or one-shot event comes to be executed once, and once more *)
(* at most for each time that its file could not be deleted, however often *)
(* the file is touched and read, and whenever the bot is restarted.  One   *)
(* that a full queue discards counts too.  Files whose readings overlapped *)
(* are left out.                                                           *)
ExecutedOnce ==
    \A f \in EventFiles \ raced : \A v \in 1 .. versions : ran[f][v] <= 1 + undeleted[f][v]

(* The channel's queue never gets stuck: while the bot runs, whatever is   *)
(* in it is dealt with.                                                    *)
QueueDrains == (current # NoWork) ~> (current = NoWork)
=============================================================================
