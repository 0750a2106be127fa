---------------------------- MODULE AgentSession ----------------------------
(***************************************************************************)
(* The session around an agent                                             *)
(* (packages/coding-agent/src/core/agent-session.ts).                      *)
(*                                                                         *)
(* The agent emits its events as they happen; the session puts them in a   *)
(* queue of its own and processes them one after the other, as slowly as   *)
(* the handlers of extensions are.  Processing an event persists messages; *)
(* at the end of a run it may remove a failed answer from the agent's      *)
(* messages, sleep and try again, or compact, and try again after that.    *)
(* All the while users prompt, abort, compact and cancel.                  *)
(*                                                                         *)
(* Abstractions.  A message is its kind and an identity that grows with    *)
(* time, its timestamp.  A run is an answer after another: tool calls and  *)
(* their results are part of the answer that asks for them, the last       *)
(* answer of a run and its agent_end come together, and the queues for     *)
(* steering and follow-ups are left to Agent.  Where a compaction cuts *)
(* is left open (see Compaction), and so is when the context counts as     *)
(* large; the API key is at hand.  There is one model, auto-retry and      *)
(* auto-compaction are on and compact the context in place.                *)
(***************************************************************************)
EXTENDS Integers, Sequences, FiniteSets

CONSTANTS
    Prompts,        \* bound: calls of prompt()
    Manual,         \* bound: calls of compact() at a time
    MaxAnswers,     \* bound: answers of the model, over the whole behaviour
    MaxRetries,     \* settings.retry.maxRetries
    MaxAborts,      \* bound: calls of compact() and of the three that abort
    Answers,        \* bound: the kinds of answers the model may give
    Breaks,         \* whether runs may break off outside the stream
    Overlap         \* whether prompts may come while the session is at work

(* "error" is an error that is retried, "fatal" one that is not, "overflow" *)
(* one that says that the context is too long; after "more" the run goes on. *)
(* "silent" is a finished answer whose usage exceeds the context window.   *)
Errors      == {"error", "fatal", "overflow"}
AnswerKinds == Errors \cup {"more", "stop", "silent", "aborted"}

ASSUME AgentSessionBounds ==
    /\ MaxAnswers \in Nat /\ MaxRetries \in Nat /\ MaxAborts \in Nat
    /\ Answers \subseteq AnswerKinds
    /\ Breaks \in BOOLEAN /\ Overlap \in BOOLEAN
    /\ Prompts \cap Manual = {} /\ "queue" \notin Prompts \cup Manual /\ "none" \notin Prompts

(* What a compaction entry keeps is the entries from index "from" on. *)
Entry     == [id: Nat, kind: AnswerKinds \cup {"user", "compaction"}, from: Nat]
Message   == Entry
Said(i, kind) == [id |-> i, kind |-> kind, from |-> 0]
NoMessage == Said(0, "stop")

Compactors == {"queue"} \cup Prompts \cup Manual
Job        == [stage: {"aborting", "summarizing"}, from: Nat, retry: BOOLEAN]
NoJob      == [stage |-> "none", from |-> 0, retry |-> FALSE]
Aborting   == [stage |-> "aborting", from |-> 0, retry |-> FALSE]

VARIABLES
    run,                \* the agent's activeRun: "none", "live" or "aborted"
    messages,           \* agent.state.messages
    entries,            \* the branch of the session manager
    connected,          \* _unsubscribeAgent is set
    events,             \* the agent's events the session has not processed
    lastAssistant,      \* _lastAssistantMessage
    handler,            \* "ready", or _handleRetryableError is in "backoff" or "cancelled"
    failed,             \* the message it was called with
    retryPromise,       \* _retryPromise is set
    retryAttempt,       \* _retryAttempt
    timers,             \* timeouts that will call agent.continue()
    overflowAttempted,  \* _overflowRecoveryAttempted
    jobs,               \* what compacts -> its compaction
    autoSignal,         \* _autoCompactionAbortController: "none", "on" or "aborted"
    manualSignal,       \* _compactionAbortController
    phase,              \* how far each prompt() is
    owner,              \* the prompt() of the run, if any
    clock, answers, aborts, \* identities, answers and aborts so far
    unheard,            \* history: messages of which the session heard no message_end
    missed,             \* history: the newest run ended without the session's knowing how
    overlapped,         \* history: a prompt was sent while the session was at work
    automatic,          \* history: failed runs since the last prompt() that nobody prompted
    cutOff              \* history: finished answers cut off as overflows, no compaction since

retrying   == <<handler, failed, retryPromise, retryAttempt>>
compacting == <<jobs, autoSignal, manualSignal, cutOff>>
bounds     == <<clock, answers, aborts>>
history    == <<unheard, missed, automatic, overlapped>>
vars       == <<run, messages, entries, connected, events, lastAssistant, retrying, timers,
                overflowAttempted, compacting, phase, owner, bounds, history>>

LastOf(s) == s[Len(s)]

IsAnswer(m) == m.kind \in AnswerKinds
IsError(m)  == m.kind \in Errors

(* isContextOverflow: an error says so, or the usage of an answer does. *)
Overflowed(m) == m.kind \in {"overflow", "silent"}

(* The messages of ms that are of these kinds, those with these ids left out. *)
Sift(ms, kinds, ids) ==
    LET upTo[n \in 0 .. Len(ms)] ==
            IF n = 0 THEN <<>>
            ELSE IF ms[n].kind \in kinds /\ ms[n].id \notin ids
                   THEN Append(upTo[n - 1], ms[n]) ELSE upTo[n - 1]
    IN  upTo[Len(ms)]

(* buildSessionContext: the newest summary, then what it keeps. *)
Compactions(es) == {k \in 1 .. Len(es) : es[k].kind = "compaction"}
Latest(es) == IF Compactions(es) = {} THEN 0
              ELSE CHOOSE k \in Compactions(es) : \A j \in Compactions(es) : j <= k
Context(es) ==
    LET latest == Latest(es)
    IN  IF latest = 0 THEN es
        ELSE <<es[latest]>>
               \o Sift(SubSeq(es, es[latest].from, Len(es)), AnswerKinds \cup {"user"}, {})

(* The last message is the model's; behind "more" there are results. *)
EndsInAnswer(ms) == ms # <<>> /\ IsAnswer(LastOf(ms)) /\ LastOf(ms).kind # "more"

(* "Remove error message from agent state (keep in session for history)". *)
DropAnswer(ms) ==
    IF EndsInAnswer(ms) THEN SubSeq(ms, 1, Len(ms) - 1) ELSE ms

-----------------------------------------------------------------------------
Init ==
    /\ run = "none" /\ messages = <<>> /\ entries = <<>> /\ connected = TRUE /\ events = <<>>
    /\ lastAssistant = NoMessage /\ handler = "ready" /\ failed = NoMessage
    /\ retryPromise = FALSE /\ retryAttempt = 0 /\ timers = 0 /\ overflowAttempted = FALSE
    /\ jobs = [c \in Compactors |-> NoJob] /\ autoSignal = "none" /\ manualSignal = "none"
    /\ phase = [p \in Prompts |-> "unused"] /\ owner = "none"
    /\ clock = 1 /\ answers = 0 /\ aborts = 0
    /\ unheard = {} /\ missed = FALSE /\ automatic = 0 /\ overlapped = FALSE
    /\ cutOff = {}

-----------------------------------------------------------------------------
(* The agent's runs.  What they emit the session hears while it is         *)
(* connected.                                                              *)

Event(type, m) == [type |-> type, message |-> m]

Hear(es) == events' = IF connected THEN events \o es ELSE events

(* prompt() and continue() of the agent, with a user message or without. *)
StartRun(p, ms) ==
    /\ run' = "live" /\ owner' = p
    /\ messages' = messages \o ms
    /\ Hear([k \in 1 .. Len(ms) |-> Event("message", ms[k])])
    /\ unheard' = IF connected THEN unheard ELSE unheard \cup {ms[k].id : k \in 1 .. Len(ms)}

EndRun ==
    /\ run' = "none" /\ owner' = "none"
    /\ phase' = IF owner = "none" THEN phase ELSE [phase EXCEPT ![owner] = "ended"]

(* Mutant of Answer: the promise is left to _handleRetryableError. *)
AnswerWithoutPromise(kind) ==
    /\ run # "none" /\ answers < MaxAnswers
    /\ kind = "aborted" => run = "aborted"
    /\ messages' = Append(messages, Said(clock, kind))
    /\ LET m == Said(clock, kind) IN
       IF kind = "more" THEN Hear(<<Event("message", m)>>)
                        ELSE Hear(<<Event("message", m), Event("end", m)>>)
    /\ IF kind = "more" THEN UNCHANGED <<run, owner, phase, missed>>
                        ELSE EndRun /\ missed' = ~connected
    /\ unheard' = IF connected THEN unheard ELSE unheard \cup {clock}
    /\ automatic' = IF kind \in Errors THEN automatic ELSE 0
    /\ clock' = clock + 1 /\ answers' = answers + 1
    /\ UNCHANGED <<entries, connected, lastAssistant, retrying, timers,
                   overflowAttempted, compacting, aborts, overlapped>>

(* The model answers; unless it asks for more, the run ends.  Hearing of   *)
(* the end, the session makes a promise at once if it is going to retry    *)
(* (_createRetryPromiseForAgentEnd).                                       *)
Answer(kind) ==
    /\ run # "none" /\ answers < MaxAnswers
    /\ kind = "aborted" => run = "aborted"
    /\ messages' = Append(messages, Said(clock, kind))
    /\ LET m == Said(clock, kind) IN
       IF kind = "more" THEN Hear(<<Event("message", m)>>)
                        ELSE Hear(<<Event("message", m), Event("end", m)>>)
    /\ IF kind = "more" THEN UNCHANGED <<run, owner, phase, missed>>
                        ELSE EndRun /\ missed' = ~connected
    /\ retryPromise' = (retryPromise \/ (connected /\ kind = "error"))
    /\ unheard' = IF connected THEN unheard ELSE unheard \cup {clock}
    /\ automatic' = IF kind \in Errors THEN automatic ELSE 0
    /\ clock' = clock + 1 /\ answers' = answers + 1
    /\ UNCHANGED <<entries, connected, lastAssistant, handler, failed, retryAttempt, timers,
                   overflowAttempted, compacting, aborts, overlapped>>

(* The run breaks off outside the stream: handleRunFailure makes up an     *)
(* answer for which there is no message_end, only an agent_end.            *)
Break(kind) ==
    /\ Breaks /\ run # "none" /\ answers < MaxAnswers
    /\ kind = "aborted" <=> run = "aborted"
    /\ messages' = Append(messages, Said(clock, kind))
    /\ Hear(<<Event("end", Said(clock, kind))>>)
    /\ EndRun /\ missed' = TRUE
    /\ retryPromise' = (retryPromise \/ (connected /\ kind = "error"))
    /\ unheard' = unheard \cup {clock}
    /\ clock' = clock + 1 /\ answers' = answers + 1
    /\ UNCHANGED <<entries, connected, lastAssistant, handler, failed, retryAttempt, timers,
                   overflowAttempted, compacting, aborts, automatic, overlapped>>

(* A timeout calls agent.continue(), which throws while a run is under way *)
(* and if there is nothing to continue from; nobody hears of that.         *)
TimerFires ==
    /\ timers > 0 /\ timers' = timers - 1
    /\ IF run = "none" /\ messages # <<>> /\ ~EndsInAnswer(messages)
         THEN StartRun("none", <<>>) /\ automatic' = automatic + 1
         ELSE UNCHANGED <<run, owner, messages, events, unheard, automatic>>
    /\ UNCHANGED <<entries, connected, lastAssistant, retrying, overflowAttempted, compacting,
                   phase, bounds, missed, overlapped>>

-----------------------------------------------------------------------------
(* Compactions.                                                            *)

(* prepareCompaction: not behind a compaction, not of nothing. *)
MayPrepare == entries # <<>> /\ LastOf(entries).kind # "compaction"
Cuts == {k \in 1 .. Len(entries) :
            /\ entries[k].kind # "compaction"
            /\ Latest(entries) # 0 => k >= entries[Latest(entries)].from}
Summarizing(k, retry) == [stage |-> "summarizing", from |-> k, retry |-> retry]

(* _runAutoCompaction, up to the request of the summary. *)
RunAutoCompaction(c, retry) ==
    /\ IF MayPrepare
         THEN /\ \E k \in Cuts : jobs' = [jobs EXCEPT ![c] = Summarizing(k, retry)]
              /\ autoSignal' = "on"
         ELSE autoSignal' = "none" /\ UNCHANGED jobs
    /\ UNCHANGED manualSignal

(* The agent's messages end without answer m, which overflowed. *)
CutOff(m, ms) ==
    /\ messages' = DropAnswer(ms)
    /\ cutOff' = IF EndsInAnswer(ms) /\ ~IsError(m) THEN cutOff \cup {m.id} ELSE cutOff

(* Mutant of CheckCompaction: it does not note that it tried. *)
CheckCompactionForgetful(c, m, skipAborted, ms) ==
    LET stale == Latest(entries) # 0 /\ m.id <= entries[Latest(entries)].id
        skip  == stale \/ (skipAborted /\ m.kind = "aborted")
    IN  \/ /\ skip \/ ~Overflowed(m) \/ overflowAttempted
           /\ messages' = ms
           /\ UNCHANGED <<overflowAttempted, compacting>>
        \/ /\ ~skip /\ Overflowed(m) /\ ~overflowAttempted
           /\ UNCHANGED overflowAttempted
           /\ CutOff(m, ms)
           /\ RunAutoCompaction(c, TRUE)
        \/ /\ ~skip /\ ~Overflowed(m)
           /\ messages' = ms
           /\ RunAutoCompaction(c, FALSE)
           /\ UNCHANGED <<overflowAttempted, cutOff>>

(* _checkCompaction after answer m, with the agent's messages ms. *)
CheckCompaction(c, m, skipAborted, ms) ==
    LET stale == Latest(entries) # 0 /\ m.id <= entries[Latest(entries)].id
        skip  == stale \/ (skipAborted /\ m.kind = "aborted")
    IN  \/ /\ skip \/ ~Overflowed(m) \/ overflowAttempted
           /\ messages' = ms
           /\ UNCHANGED <<overflowAttempted, compacting>>
        \/ /\ ~skip /\ Overflowed(m) /\ ~overflowAttempted
           /\ overflowAttempted' = TRUE
           /\ CutOff(m, ms)
           /\ RunAutoCompaction(c, TRUE)
        \/ /\ ~skip /\ ~Overflowed(m)
           /\ messages' = ms
           /\ RunAutoCompaction(c, FALSE)
           /\ UNCHANGED <<overflowAttempted, cutOff>>

(* The finally clauses forget the controller, whosever it is, and listen   *)
(* to the agent again.                                                     *)
EndJob(c) ==
    /\ jobs' = [jobs EXCEPT ![c] = NoJob]
    /\ IF c \in Manual THEN manualSignal' = "none" /\ connected' = TRUE /\ UNCHANGED autoSignal
                       ELSE autoSignal' = "none" /\ UNCHANGED <<manualSignal, connected>>

SignalOf(c) == IF c \in Manual THEN manualSignal ELSE autoSignal

(* Mutant of Compacted: the agent keeps its messages. *)
CompactedWithoutReload(c) ==
    /\ jobs[c].stage = "summarizing" /\ SignalOf(c) = "on"
    /\ entries' = Append(entries, [id |-> clock, kind |-> "compaction", from |-> jobs[c].from])
    /\ clock' = clock + 1
    /\ messages' = IF jobs[c].retry THEN DropAnswer(messages) ELSE messages
    /\ timers' = IF jobs[c].retry THEN timers + 1 ELSE timers
    /\ cutOff' = {}
    /\ EndJob(c)
    /\ UNCHANGED <<run, events, lastAssistant, retrying, overflowAttempted, phase, owner,
                   answers, aborts, history>>

(* The summary is there: the entry is appended, the agent's messages are   *)
(* replaced by the session's, and what overflowed is tried again.          *)
Compacted(c) ==
    /\ jobs[c].stage = "summarizing" /\ SignalOf(c) = "on"
    /\ entries' = Append(entries, [id |-> clock, kind |-> "compaction", from |-> jobs[c].from])
    /\ clock' = clock + 1
    /\ LET ms == Context(entries') IN
       messages' = IF jobs[c].retry /\ ms # <<>> /\ IsError(LastOf(ms)) THEN DropAnswer(ms) ELSE ms
    /\ timers' = IF jobs[c].retry THEN timers + 1 ELSE timers
    /\ cutOff' = {}
    /\ EndJob(c)
    /\ UNCHANGED <<run, events, lastAssistant, retrying, overflowAttempted, phase, owner,
                   answers, aborts, history>>

(* The model fails, the compaction was cancelled, or the controller it     *)
(* asks is gone.                                                           *)
CompactionFails(c) ==
    /\ jobs[c].stage = "summarizing"
    /\ EndJob(c)
    /\ UNCHANGED <<run, messages, entries, events, lastAssistant, retrying, timers,
                   overflowAttempted, phase, owner, bounds, history, cutOff>>

-----------------------------------------------------------------------------
(* The queue of events.                                                    *)

Free == handler = "ready" /\ jobs["queue"] = NoJob

(* _resolveRetry. *)
Resolve ==
    /\ retryPromise' = FALSE
    /\ phase' = [p \in Prompts |-> IF phase[p] = "waiting" THEN "returned" ELSE phase[p]]

(* message_start and message_end: the message is persisted. *)
ProcessMessage ==
    /\ Free /\ events # <<>> /\ Head(events).type = "message"
    /\ events' = Tail(events)
    /\ LET m == Head(events).message IN
       /\ entries' = Append(entries, m)
       /\ lastAssistant' = IF IsAnswer(m) THEN m ELSE lastAssistant
       /\ overflowAttempted' = (overflowAttempted /\ IsError(m))
       /\ retryAttempt' = IF IsAnswer(m) /\ ~IsError(m) THEN 0 ELSE retryAttempt
    /\ UNCHANGED <<run, messages, connected, handler, failed, retryPromise, timers, compacting,
                   phase, owner, bounds, history>>

ProcessingEnd ==
    /\ Free /\ events # <<>> /\ Head(events).type = "end"
    /\ events' = Tail(events) /\ lastAssistant' = NoMessage
    /\ UNCHANGED <<run, entries, connected, timers, owner, bounds, history>>

(* The run ended without an answer the session knows of. *)
IgnoreEnd ==
    /\ ProcessingEnd /\ lastAssistant = NoMessage
    /\ UNCHANGED <<messages, retrying, overflowAttempted, compacting, phase>>

(* Mutant of Backoff: one retry too many. *)
BackoffOnceMore ==
    /\ ProcessingEnd /\ lastAssistant.kind = "error" /\ retryAttempt <= MaxRetries
    /\ handler' = "backoff" /\ failed' = lastAssistant
    /\ retryPromise' = TRUE /\ retryAttempt' = retryAttempt + 1
    /\ messages' = DropAnswer(messages)
    /\ UNCHANGED <<overflowAttempted, compacting, phase>>

(* _handleRetryableError, up to its sleep. *)
Backoff ==
    /\ ProcessingEnd /\ lastAssistant.kind = "error" /\ retryAttempt < MaxRetries
    /\ handler' = "backoff" /\ failed' = lastAssistant
    /\ retryPromise' = TRUE /\ retryAttempt' = retryAttempt + 1
    /\ messages' = DropAnswer(messages)
    /\ UNCHANGED <<overflowAttempted, compacting, phase>>

(* No more retries. *)
Exhausted ==
    /\ ProcessingEnd /\ lastAssistant.kind = "error" /\ retryAttempt >= MaxRetries
    /\ retryAttempt' = 0 /\ UNCHANGED <<handler, failed>>
    /\ Resolve
    /\ CheckCompaction("queue", lastAssistant, TRUE, messages)

(* Mutant of EndWithoutRetry: nobody is told that the retry succeeded. *)
EndWithoutResolving ==
    /\ ProcessingEnd /\ lastAssistant # NoMessage /\ lastAssistant.kind # "error"
    /\ UNCHANGED <<retrying, phase>>
    /\ CheckCompaction("queue", lastAssistant, TRUE, messages)

(* The answer is none that is retried. *)
EndWithoutRetry ==
    /\ ProcessingEnd /\ lastAssistant # NoMessage /\ lastAssistant.kind # "error"
    /\ Resolve /\ UNCHANGED <<handler, failed, retryAttempt>>
    /\ CheckCompaction("queue", lastAssistant, TRUE, messages)

(* The sleep is over: a timeout of no time is going to try again. *)
BackoffEnds ==
    /\ handler = "backoff"
    /\ handler' = "ready" /\ failed' = NoMessage
    /\ timers' = timers + 1
    /\ UNCHANGED <<run, messages, entries, connected, events, lastAssistant, retryPromise,
                   retryAttempt, overflowAttempted, compacting, phase, owner, bounds, history>>

(* Mutant of BackoffCancelled: the attempts are kept. *)
BackoffCancelledCounting ==
    /\ handler = "cancelled"
    /\ handler' = "ready" /\ failed' = NoMessage
    /\ Resolve
    /\ CheckCompaction("queue", failed, TRUE, messages)
    /\ UNCHANGED <<run, entries, connected, events, lastAssistant, retryAttempt, timers, owner,
                   bounds, history>>

(* Or it was cancelled: the attempts are forgotten. *)
BackoffCancelled ==
    /\ handler = "cancelled"
    /\ handler' = "ready" /\ failed' = NoMessage /\ retryAttempt' = 0
    /\ Resolve
    /\ CheckCompaction("queue", failed, TRUE, messages)
    /\ UNCHANGED <<run, entries, connected, events, lastAssistant, timers, owner, bounds, history>>

-----------------------------------------------------------------------------
(* Users.                                                                  *)

IsCompacting == autoSignal # "none" \/ manualSignal # "none"
AtWork ==
    \/ events # <<>> \/ handler # "ready" \/ timers > 0
    \/ \E c \in Compactors : jobs[c] # NoJob
Checking == {p \in Prompts : phase[p] = "checking"}

(* prompt(), while the agent is not streaming; the interactive mode holds  *)
(* messages back during compactions.                                       *)
Prompt(p) ==
    /\ phase[p] = "unused" /\ run = "none"
    /\ Overlap \/ (~IsCompacting /\ \A q \in Prompts : phase[q] \in {"unused", "returned"})
    /\ phase' = [phase EXCEPT ![p] = "checking"]
    /\ overlapped' = (overlapped \/ AtWork \/ Checking # {}) /\ automatic' = 0
    /\ LET said == {k \in 1 .. Len(messages) : IsAnswer(messages[k])} IN
       IF said = {} THEN UNCHANGED <<messages, overflowAttempted, compacting>>
       ELSE \E k \in said : /\ \A j \in said : j <= k
                            /\ CheckCompaction(p, messages[k], FALSE, messages)
    /\ UNCHANGED <<run, entries, connected, events, lastAssistant, retrying, timers, owner,
                   bounds, unheard, missed>>

(* The check is done: the agent is prompted, or refuses as it is busy. *)
Submit(p) ==
    /\ phase[p] = "checking" /\ jobs[p] = NoJob
    /\ IF run = "none"
         THEN /\ StartRun(p, <<Said(clock, "user")>>)
              /\ phase' = [phase EXCEPT ![p] = "running"]
              /\ clock' = clock + 1 /\ automatic' = 0
              /\ overlapped' = (overlapped \/ AtWork)
         ELSE /\ phase' = [phase EXCEPT ![p] = "returned"]
              /\ UNCHANGED <<run, messages, events, owner, clock, unheard, automatic, overlapped>>
    /\ UNCHANGED <<entries, connected, lastAssistant, retrying, timers, overflowAttempted,
                   compacting, answers, aborts, missed>>

(* waitForRetry. *)
WaitForRetry(p) ==
    /\ phase[p] = "ended"
    /\ phase' = [phase EXCEPT ![p] = IF retryPromise THEN "waiting" ELSE "returned"]
    /\ UNCHANGED <<run, messages, entries, connected, events, lastAssistant, retrying, timers,
                   overflowAttempted, compacting, owner, bounds, history>>

(* abortRetry: the sleep ends; who waits for the retry waits no longer. *)
CancelRetry ==
    /\ handler' = IF handler = "backoff" THEN "cancelled" ELSE handler
    /\ Resolve /\ UNCHANGED <<failed, retryAttempt>>

AbortRun == run' = IF run = "none" THEN "none" ELSE "aborted"

AbortRetry ==
    /\ aborts < MaxAborts /\ aborts' = aborts + 1
    /\ CancelRetry
    /\ UNCHANGED <<run, messages, entries, connected, events, lastAssistant, timers,
                   overflowAttempted, compacting, owner, clock, answers, history>>

Abort ==
    /\ aborts < MaxAborts /\ aborts' = aborts + 1
    /\ CancelRetry /\ AbortRun
    /\ UNCHANGED <<messages, entries, connected, events, lastAssistant, timers,
                   overflowAttempted, compacting, owner, clock, answers, history>>

AbortCompaction ==
    /\ aborts < MaxAborts /\ aborts' = aborts + 1
    /\ autoSignal' = IF autoSignal = "on" THEN "aborted" ELSE autoSignal
    /\ manualSignal' = IF manualSignal = "on" THEN "aborted" ELSE manualSignal
    /\ UNCHANGED <<run, messages, entries, connected, events, lastAssistant, retrying, timers,
                   overflowAttempted, jobs, phase, owner, clock, answers, history, cutOff>>

(* compact(): no longer listens to the agent and aborts it. *)
Compact(c) ==
    /\ jobs[c] = NoJob /\ aborts < MaxAborts /\ aborts' = aborts + 1
    /\ connected' = FALSE
    /\ overlapped' = (overlapped \/ AtWork \/ Checking # {})
    /\ CancelRetry /\ AbortRun
    /\ jobs' = [jobs EXCEPT ![c] = Aborting]
    /\ UNCHANGED <<messages, entries, events, lastAssistant, timers, overflowAttempted,
                   autoSignal, manualSignal, owner, clock, answers, unheard, missed, automatic,
                   cutOff>>

(* Mutant of CompactWhenIdle: it gives up in front of the try. *)
CompactWhenIdleDeaf(c) ==
    /\ jobs[c].stage = "aborting" /\ run = "none"
    /\ IF MayPrepare
         THEN /\ \E k \in Cuts : jobs' = [jobs EXCEPT ![c] = Summarizing(k, FALSE)]
              /\ manualSignal' = "on" /\ UNCHANGED <<connected, autoSignal>>
         ELSE /\ jobs' = [jobs EXCEPT ![c] = NoJob]
              /\ UNCHANGED <<autoSignal, manualSignal, connected>>
    /\ UNCHANGED <<run, messages, entries, events, lastAssistant, retrying, timers,
                   overflowAttempted, phase, owner, bounds, history, cutOff>>

(* The agent is idle: the summary is asked for, if there is anything to    *)
(* summarize.                                                              *)
CompactWhenIdle(c) ==
    /\ jobs[c].stage = "aborting" /\ run = "none"
    /\ IF MayPrepare
         THEN /\ \E k \in Cuts : jobs' = [jobs EXCEPT ![c] = Summarizing(k, FALSE)]
              /\ manualSignal' = "on" /\ UNCHANGED <<connected, autoSignal>>
         ELSE EndJob(c)
    /\ UNCHANGED <<run, messages, entries, events, lastAssistant, retrying, timers,
                   overflowAttempted, phase, owner, bounds, history, cutOff>>

-----------------------------------------------------------------------------
Next ==
    \/ \E kind \in Answers : Answer(kind)
    \/ \E kind \in Answers \cap {"error", "fatal", "aborted"} : Break(kind)
    \/ TimerFires \/ ProcessMessage
    \/ IgnoreEnd \/ Backoff \/ Exhausted \/ EndWithoutRetry
    \/ BackoffEnds \/ BackoffCancelled
    \/ \E p \in Prompts : Prompt(p) \/ Submit(p) \/ WaitForRetry(p)
    \/ \E c \in Compactors : Compacted(c) \/ CompactionFails(c)
    \/ \E c \in Manual : Compact(c) \/ CompactWhenIdle(c)
    \/ Abort \/ AbortRetry \/ AbortCompaction

Spec == Init /\ [][Next]_vars

-----------------------------------------------------------------------------
(* Properties.                                                             *)

(* Nothing is under way but runs to come: the queue is empty, and no       *)
(* timeout, compaction or prompt is going to change anything.              *)
Quiet == run = "none" /\ ~AtWork /\ Checking = {} /\ \A p \in Prompts : phase[p] # "ended"

(* Types; there are never more than settings.retry.maxRetries attempts.    *)
TypeOK ==
    /\ run \in {"none", "live", "aborted"} /\ (run = "none" => owner = "none")
    /\ messages \in Seq(Message) /\ entries \in Seq(Entry) /\ connected \in BOOLEAN
    /\ events \in Seq([type: {"message", "end"}, message: Message])
    /\ lastAssistant \in Message /\ failed \in Message
    /\ handler \in {"ready", "backoff", "cancelled"}
    /\ (handler = "ready" <=> failed = NoMessage)
    /\ retryPromise \in BOOLEAN /\ retryAttempt \in 0 .. MaxRetries
    /\ timers \in Nat /\ overflowAttempted \in BOOLEAN
    /\ jobs \in [Compactors -> Job \cup {NoJob}]
    /\ autoSignal \in {"none", "on", "aborted"} /\ manualSignal \in {"none", "on", "aborted"}
    /\ phase \in [Prompts -> {"unused", "checking", "running", "ended", "waiting", "returned"}]
    /\ owner \in {"none"} \cup Prompts

(* "Returns immediately if no retry is in progress" (waitForRetry): when   *)
(* all is quiet, no prompt() waits.                                        *)
WaitsForRetryOnly == Quiet => \A p \in Prompts : phase[p] # "waiting"

(* The same where the session heard how the newest run ended, and nobody   *)
(* prompted it at work: whatever sequence of failures, retries, recoveries *)
(* and aborts a run leads to, prompt() returns.                            *)
PromptsReturn == ~overlapped /\ ~missed => WaitsForRetryOnly

(* And the attempts are forgotten (auto_retry_end was emitted), so that    *)
(* the next failure is tried as often as the first - unless the retry met  *)
(* an error of another kind.                                               *)
AttemptsForgotten ==
    Quiet /\ ~overlapped /\ ~missed /\ retryAttempt > 0 =>
        \E k \in 1 .. Len(entries) :
            /\ entries[k].kind \in {"fatal", "overflow"}
            /\ \A j \in k + 1 .. Len(entries) : ~IsAnswer(entries[j])

(* prompt() does not return before the retries of its run are over,        *)
(* however late the session comes to see that there is one to make; only   *)
(* the runs that follow a compaction are nobody's.                         *)
RetryAwaited ==
    LET compactedSince == \E k \in Compactions(entries) :
                              \A j \in k + 1 .. Len(entries) : entries[j].kind # "user"
    IN  handler = "backoff" /\ ~overlapped /\ aborts = 0 /\ ~compactedSince =>
            \E p \in Prompts : phase[p] \in {"ended", "waiting"}

(* A compaction by hand stops listening to the agent; however it ends, and *)
(* whatever else compacts or aborts, the session listens again.            *)
Connected == (\A c \in Manual : jobs[c] = NoJob) => connected

(* A model that does nothing but fail is not asked forever: retries and    *)
(* recoveries from overflows do not restart each other's count.  (A prompt *)
(* that comes while a timeout is still to fire restarts both.)             *)
RecoveryEnds == ~overlapped => automatic <= MaxRetries + 1

(* When all is quiet, what the model is going to see is what a restart     *)
(* rebuilds from the session, errors aside: retries, recoveries and        *)
(* compactions change the agent's messages and the session alike.  One     *)
(* thing is lost to the model until a compaction completes: a finished     *)
(* answer that exceeded the context window, which is cut off like an error *)
(* and stays cut off when the compaction it asks for fails or is cancelled. *)
InSync ==
    LET Kept(ms) == Sift(ms, (AnswerKinds \ Errors) \cup {"user", "compaction"},
                         unheard \cup cutOff)
    IN  Quiet /\ ~overlapped => Kept(messages) = Kept(Context(entries))
=============================================================================
