------------------------------- MODULE Agent -------------------------------
(***************************************************************************)
(* The Agent and the loop it runs (packages/agent/src/agent.ts,            *)
(* packages/agent/src/agent-loop.ts).                                      *)
(*                                                                         *)
(* A run is one call of the loop: it prompts the model, executes the tool  *)
(* calls of the answer, injects steering messages between turns and        *)
(* follow-up messages when it would stop.  The loop works on a private     *)
(* copy of the transcript (context); the Agent keeps its own (messages),   *)
(* fed by the loop's events.  Every await is an interleaving point: users  *)
(* steer, queue, clear, abort and reset there, and tools report progress   *)
(* and finish.                                                             *)
(*                                                                         *)
(* Abstractions.  A message is its role, an identity and, for an answer,   *)
(* its tool calls and how it ended; its text, the partial messages of a    *)
(* stream and streamingMessage are left out.  An event that changes no     *)
(* other state is part of the step of the event after it.  Model provider, *)
(* tools and hooks are external: they answer, after some time, in any way  *)
(* their types allow.                                                      *)
(***************************************************************************)
EXTENDS Integers, Sequences, FiniteSets

CONSTANTS
    MaxUser,    \* bound: messages users write, over the whole behaviour
    MaxCall,    \* bound: tool calls the model makes, over the whole behaviour
    MaxBatch,   \* bound: messages in one prompt, tool calls in one answer
    Configs,    \* which settings the agent is built with
    Throwers,   \* who may throw: "listener", "provider" and/or "afterToolCall"
    Outside     \* bound: which of "clear", "reset", "continue" and "retry" happen

Settings == [toolExecution: {"sequential", "parallel"}, interruptMode: {"wait", "immediate"},
             steeringMode: {"one-at-a-time", "all"}, followUpMode: {"one-at-a-time", "all"}]

ASSUME AgentBounds == MaxUser \in Nat /\ MaxCall \in Nat /\ MaxBatch \in Nat
ASSUME AgentInputs ==
    /\ Configs # {} /\ Configs \subseteq Settings
    /\ Throwers \subseteq {"listener", "provider", "afterToolCall"}
    /\ Outside \subseteq {"clear", "reset", "continue", "retry"}

Users == 1 .. MaxUser
Calls == 1 .. MaxCall

Kinds == {"prompt", "steer", "followUp"}
Stops == {"stop", "error", "aborted"}

User(u, kind)       == [role |-> "user", id |-> u, calls |-> <<>>, kind |-> kind]
Answer(calls, stop) == [role |-> "assistant", id |-> 0, calls |-> calls, kind |-> stop]
ToolResult(c)       == [role |-> "toolResult", id |-> c, calls |-> <<>>, kind |-> "result"]
Failure             == Answer(<<>>, "failure")

UserMessage == {User(u, kind) : u \in Users, kind \in Kinds}
Message     == [role: {"user"}, id: Users, calls: {<<>>}, kind: Kinds]
                 \cup [role: {"assistant"}, id: {0}, calls: Seq(Calls), kind: Stops \cup {"failure"}]
                 \cup [role: {"toolResult"}, id: Calls, calls: {<<>>}, kind: {"result"}]

VARIABLES
    config,             \* the settings, fixed when the agent is built
    run,                \* activeRun and its signal: "none", "live" or "aborted"
    messages,           \* state.messages
    pendingToolCalls,   \* state.pendingToolCalls
    steeringQueue,
    followUpQueue,
    pc,                 \* where the loop is
    context,            \* the loop's own currentContext.messages
    pending,            \* messages still to be injected (while prompting: emitted)
    skipPoll,           \* skipInitialSteeringPoll
    todo,               \* calls of the current answer not yet prepared
    running,            \* calls prepared and not yet finalized, in order
    results,            \* results of the current answer, not yet in the context
    execution,          \* call -> what became of the tool's execute
    nextUser, nextCall, \* the next identities handed out
    gone,               \* history: messages cleared, reset or lost in a failing run
    late,               \* history: messages queued too late for the current look at the queues
    resetInRun          \* history: reset() was called while a run was active

queues  == <<steeringQueue, followUpQueue>>
tools   == <<todo, running, results>>
history == <<gone, late, resetInRun>>
vars == <<config, run, messages, pendingToolCalls, steeringQueue, followUpQueue, pc, context,
          pending, skipPoll, todo, running, results, execution, nextUser, nextCall,
          gone, late, resetInRun>>

Elements(s)    == {s[k] : k \in 1 .. Len(s)}
Identities(s)  == {m.id : m \in {x \in Elements(s) : x.role = "user"}}
Last(s)        == s[Len(s)]

Sequential  == config.toolExecution = "sequential"
Interrupted == config.interruptMode = "immediate" /\ steeringQueue # <<>>

(* PendingMessageQueue.drain: what it takes and what it leaves. *)
Taken(queue, mode) ==
    IF mode = "all" THEN queue ELSE SubSeq(queue, 1, IF queue = <<>> THEN 0 ELSE 1)
Left(queue, mode) == SubSeq(queue, Len(Taken(queue, mode)) + 1, Len(queue))

-----------------------------------------------------------------------------
(* Starting a run.                                                         *)

(* runWithLifecycle and the start of the loop, on the current transcript   *)
(* and the messages ps, which runAgentLoop puts in its context at once and *)
(* emits one by one.                                                       *)
StartRun(ps, skip) ==
    /\ run' = "live"
    /\ context' = messages \o ps
    /\ pending' = ps
    /\ skipPoll' = skip
    /\ pc' = IF ps = <<>> THEN "start" ELSE "prompting"
    /\ resetInRun' = FALSE
    /\ UNCHANGED <<config, messages, pendingToolCalls, todo, running, results, execution,
                   nextCall, gone, late>>

(* prompt with n messages. *)
Prompt(n) ==
    /\ run = "none" /\ nextUser + n - 1 \in Users
    /\ nextUser' = nextUser + n
    /\ StartRun([k \in 1 .. n |-> User(nextUser + k - 1, "prompt")], FALSE)
    /\ UNCHANGED queues

(* Mutant of ContinueWithSteering: the queue is read and not drained. *)
ContinueWithoutDraining ==
    /\ run = "none" /\ messages # <<>> /\ Last(messages).role = "assistant"
    /\ steeringQueue # <<>>
    /\ steeringQueue' = steeringQueue
    /\ StartRun(Taken(steeringQueue, config.steeringMode), TRUE)
    /\ UNCHANGED <<followUpQueue, nextUser>>

(* continue: from a transcript that ends in an answer, with the queued     *)
(* steering messages or else the follow-ups; from any other, as it is.     *)
ContinueWithSteering ==
    /\ run = "none" /\ messages # <<>> /\ Last(messages).role = "assistant"
    /\ steeringQueue # <<>>
    /\ steeringQueue' = Left(steeringQueue, config.steeringMode)
    /\ StartRun(Taken(steeringQueue, config.steeringMode), TRUE)
    /\ UNCHANGED <<followUpQueue, nextUser>>

ContinueWithFollowUps ==
    /\ run = "none" /\ messages # <<>> /\ Last(messages).role = "assistant"
    /\ steeringQueue = <<>> /\ followUpQueue # <<>>
    /\ followUpQueue' = Left(followUpQueue, config.followUpMode)
    /\ StartRun(Taken(followUpQueue, config.followUpMode), FALSE)
    /\ UNCHANGED <<steeringQueue, nextUser>>

ContinueAsIs ==
    /\ run = "none" /\ messages # <<>> /\ Last(messages).role # "assistant"
    /\ StartRun(<<>>, FALSE)
    /\ UNCHANGED <<queues, nextUser>>

-----------------------------------------------------------------------------
(* The loop.                                                               *)

LoopUnchanged == UNCHANGED <<config, run, skipPoll, nextUser, history>>

(* runAgentLoop emits its prompts; the agent appends each to its messages. *)
EmitPrompt ==
    /\ pc = "prompting"
    /\ messages' = Append(messages, Head(pending))
    /\ pending' = Tail(pending)
    /\ pc' = IF Tail(pending) = <<>> THEN "start" ELSE "prompting"
    /\ LoopUnchanged
    /\ UNCHANGED <<queues, context, tools, pendingToolCalls, execution, nextCall>>

(* The poll before the first turn, which continue() may have made already. *)
PollBeforeFirstTurn ==
    /\ pc = "start"
    /\ IF skipPoll
         THEN skipPoll' = FALSE /\ UNCHANGED <<pending, steeringQueue>>
         ELSE /\ pending' = Taken(steeringQueue, config.steeringMode)
              /\ steeringQueue' = Left(steeringQueue, config.steeringMode)
              /\ UNCHANGED skipPoll
    /\ pc' = "turn"
    /\ UNCHANGED <<config, run, messages, followUpQueue, context, tools, pendingToolCalls, execution,
                   nextUser, nextCall, history>>

(* Mutant of InjectPending: injected into the transcript, not the context. *)
InjectForUserOnly ==
    /\ pc = "turn" /\ pending # <<>>
    /\ messages' = Append(messages, Head(pending))
    /\ context' = context
    /\ pending' = Tail(pending)
    /\ LoopUnchanged
    /\ UNCHANGED <<queues, pc, tools, pendingToolCalls, execution, nextCall>>

InjectPending ==
    /\ pc = "turn" /\ pending # <<>>
    /\ messages' = Append(messages, Head(pending))
    /\ context' = Append(context, Head(pending))
    /\ pending' = Tail(pending)
    /\ LoopUnchanged
    /\ UNCHANGED <<queues, pc, tools, pendingToolCalls, execution, nextCall>>

(* The model is asked with the context as it is now. *)
AtRequest == pc = "turn" /\ pending = <<>>

Request ==
    /\ AtRequest
    /\ pc' = "streaming"
    /\ LoopUnchanged
    /\ UNCHANGED <<messages, queues, context, pending, tools, pendingToolCalls, execution, nextCall>>

(* The provider's answer, with any tool calls.  A stream that ends in an   *)
(* error, or by an abort, ends the run.                                    *)
StreamEnds(stop, n) ==
    /\ pc = "streaming" /\ nextCall + n - 1 <= MaxCall
    /\ stop = "aborted" => run = "aborted"
    /\ \E m \in {Answer([k \in 1 .. n |-> nextCall + k - 1], stop)} :
          /\ messages' = Append(messages, m)
          /\ context' = Append(context, m)
          /\ IF stop = "stop"
               THEN pc' = "tools" /\ todo' = m.calls
               ELSE pc' = "ending" /\ UNCHANGED todo
    /\ nextCall' = nextCall + n
    /\ LoopUnchanged
    /\ UNCHANGED <<queues, pending, running, results, pendingToolCalls, execution>>

-----------------------------------------------------------------------------
(* Tool calls.                                                             *)

Emit(result) ==
    /\ messages' = Append(messages, result)
    /\ results' = Append(results, result)

(* The calls in cs begin to execute. *)
Started(cs) == [c \in Calls |-> IF c \in Elements(cs) /\ execution[c] = "none"
                                  THEN "running" ELSE execution[c]]

(* prepareToolCall finds no such tool, rejects the arguments or has the    *)
(* call blocked by beforeToolCall: it is answered at once with an error.   *)
(* In parallel mode the prepared calls start when none is left to prepare. *)
AnswerAtOnce ==
    /\ pc = "tools" /\ todo # <<>> /\ (Sequential => running = <<>>)
    /\ Emit(ToolResult(Head(todo)))
    /\ todo' = IF Sequential /\ Interrupted THEN <<>> ELSE Tail(todo)
    /\ execution' = IF Tail(todo) = <<>> THEN Started(running) ELSE execution
    /\ LoopUnchanged
    /\ UNCHANGED <<queues, pc, context, pending, running, pendingToolCalls, nextCall>>

PrepareToolCall ==
    /\ pc = "tools" /\ todo # <<>> /\ (Sequential => running = <<>>)
    /\ running' = Append(running, Head(todo))
    /\ todo' = Tail(todo)
    /\ pendingToolCalls' = pendingToolCalls \cup {Head(todo)}
    /\ execution' = IF Sequential \/ Tail(todo) = <<>>
                      THEN Started(Append(running, Head(todo))) ELSE execution
    /\ LoopUnchanged
    /\ UNCHANGED <<messages, queues, pc, context, pending, results, nextCall>>

(* The tool of call c reports progress.  Outside a run processEvents       *)
(* throws, as it does when a listener does; then the execution will reject. *)
ReportProgress(c) ==
    /\ execution[c] = "running"
    /\ \/ run # "none" /\ UNCHANGED execution
       \/ /\ run = "none" \/ "listener" \in Throwers
          /\ execution' = [execution EXCEPT ![c] = "doomed"]
    /\ UNCHANGED <<config, run, skipPoll, nextUser, gone, late, resetInRun, messages, queues, pc,
                   context, pending, tools, pendingToolCalls, nextCall>>

(* The tool returns or throws: either way a result, unless an update threw. *)
ToolSettles(c) ==
    /\ execution[c] \in {"running", "doomed"}
    /\ execution' = [execution EXCEPT ![c] = IF @ = "running" THEN "settled" ELSE "rejected"]
    /\ LoopUnchanged
    /\ UNCHANGED <<messages, queues, pc, context, pending, tools, pendingToolCalls, nextCall>>

(* The loop awaits the first of the running calls. *)
Awaits(c, outcome) ==
    /\ pc = "tools" /\ running # <<>> /\ c = Head(running)
    /\ Sequential \/ todo = <<>>
    /\ execution[c] = outcome

(* Mutant of FinalizeToolCall: a steering message always interrupts. *)
FinalizeAndYield(c) ==
    /\ Awaits(c, "settled")
    /\ Emit(ToolResult(c))
    /\ pendingToolCalls' = pendingToolCalls \ {c}
    /\ IF steeringQueue # <<>> THEN todo' = <<>> /\ running' = <<>>
                               ELSE running' = Tail(running) /\ UNCHANGED todo
    /\ LoopUnchanged
    /\ UNCHANGED <<queues, pc, context, pending, execution, nextCall>>

(* finalizeExecutedToolCall, and the interrupt check after it: the calls   *)
(* not prepared yet are skipped, those running are no longer awaited.      *)
FinalizeToolCall(c) ==
    /\ Awaits(c, "settled")
    /\ Emit(ToolResult(c))
    /\ pendingToolCalls' = pendingToolCalls \ {c}
    /\ IF Interrupted THEN todo' = <<>> /\ running' = <<>>
                      ELSE running' = Tail(running) /\ UNCHANGED todo
    /\ LoopUnchanged
    /\ UNCHANGED <<queues, pc, context, pending, execution, nextCall>>

(* The results go into the context, in the order they were emitted. *)
EndTurn ==
    /\ pc = "tools" /\ todo = <<>> /\ running = <<>>
    /\ context' = context \o results
    /\ results' = <<>>
    /\ pc' = "poll"
    /\ LoopUnchanged
    /\ UNCHANGED <<messages, queues, pending, todo, running, pendingToolCalls, execution, nextCall>>

-----------------------------------------------------------------------------
(* Between turns.                                                          *)

(* A batch of tool calls leaves at least one result at the context's end. *)
HasMoreToolCalls == Last(context).role = "toolResult"

PollSteering ==
    /\ pc = "poll"
    /\ pending' = Taken(steeringQueue, config.steeringMode)
    /\ steeringQueue' = Left(steeringQueue, config.steeringMode)
    /\ pc' = IF steeringQueue # <<>> \/ HasMoreToolCalls THEN "turn" ELSE "followUp"
    /\ late' = {}
    /\ UNCHANGED <<config, run, skipPoll, messages, followUpQueue, context, tools, pendingToolCalls,
                   execution, nextUser, nextCall, gone, resetInRun>>

(* Mutant of PollFollowUps: the run stops without a look at the queue. *)
StopWithoutPoll ==
    /\ pc = "followUp"
    /\ pending' = <<>> /\ followUpQueue' = followUpQueue
    /\ pc' = "ending"
    /\ LoopUnchanged
    /\ UNCHANGED <<messages, steeringQueue, context, tools, pendingToolCalls, execution, nextCall>>

PollFollowUps ==
    /\ pc = "followUp"
    /\ pending' = Taken(followUpQueue, config.followUpMode)
    /\ followUpQueue' = Left(followUpQueue, config.followUpMode)
    /\ pc' = IF followUpQueue # <<>> THEN "turn" ELSE "ending"
    /\ LoopUnchanged
    /\ UNCHANGED <<messages, steeringQueue, context, tools, pendingToolCalls, execution, nextCall>>

(* finishRun, once the listeners of agent_end have settled. *)
FinishRun ==
    /\ pc \in {"ending", "failed"}
    /\ run' = "none" /\ pc' = "idle" /\ pendingToolCalls' = {}
    /\ context' = <<>> /\ todo' = <<>> /\ running' = <<>> /\ results' = <<>>
    /\ UNCHANGED <<config, messages, queues, pending, skipPoll, execution, nextUser,
                   nextCall, history>>

-----------------------------------------------------------------------------
(* Failures: whatever throws inside the loop ends in handleRunFailure.     *)

Fail ==
    /\ pc' = "failing"
    /\ UNCHANGED <<config, run, skipPoll, nextUser, gone, late, resetInRun, messages, queues, context,
                   pending, tools, pendingToolCalls, execution, nextCall>>

(* On agent_end a listener that throws makes the run end a second time. *)
ListenerThrows ==
    /\ "listener" \in Throwers /\ pc \notin {"idle", "failing", "failed"}
    /\ Fail

(* transformContext, convertToLlm, getApiKey or the stream function. *)
ProviderThrows == "provider" \in Throwers /\ AtRequest /\ Fail

AfterToolCallThrows ==
    /\ "afterToolCall" \in Throwers /\ \E c \in Calls : Awaits(c, "settled")
    /\ Fail

(* Mutant of ExecutionRejected: the loop goes on waiting. *)
RejectionSwallowed == (\E c \in Calls : Awaits(c, "rejected")) /\ UNCHANGED vars

ExecutionRejected == (\E c \in Calls : Awaits(c, "rejected")) /\ Fail

(* The failing run's message goes into the transcript without an event of  *)
(* its own; what the loop had drained and not emitted is lost.             *)
HandleRunFailure ==
    /\ pc = "failing"
    /\ messages' = Append(messages, Failure)
    /\ pc' = "failed"
    /\ pending' = <<>> /\ gone' = gone \cup Identities(pending)
    /\ UNCHANGED <<config, run, queues, context, skipPoll, tools, pendingToolCalls, execution,
                   nextUser, nextCall, late, resetInRun>>

-----------------------------------------------------------------------------
(* The users of the agent, at any moment.                                  *)

OutsideUnchanged ==
    UNCHANGED <<config, pc, context, pending, skipPoll, tools, execution, nextCall>>

(* Mutant of Steer: the newest message goes first. *)
SteerFirst ==
    /\ nextUser \in Users
    /\ steeringQueue' = <<User(nextUser, "steer")>> \o steeringQueue
    /\ nextUser' = nextUser + 1
    /\ late' = IF pc \in {"followUp", "ending"} THEN late \cup {nextUser} ELSE late
    /\ OutsideUnchanged
    /\ UNCHANGED <<run, messages, pendingToolCalls, followUpQueue, gone, resetInRun>>

Steer ==
    /\ nextUser \in Users
    /\ steeringQueue' = Append(steeringQueue, User(nextUser, "steer"))
    /\ nextUser' = nextUser + 1
    /\ late' = IF pc \in {"followUp", "ending"} THEN late \cup {nextUser} ELSE late
    /\ OutsideUnchanged
    /\ UNCHANGED <<run, messages, pendingToolCalls, followUpQueue, gone, resetInRun>>

FollowUp ==
    /\ nextUser \in Users
    /\ followUpQueue' = Append(followUpQueue, User(nextUser, "followUp"))
    /\ nextUser' = nextUser + 1
    /\ late' = IF pc = "ending" THEN late \cup {nextUser} ELSE late
    /\ OutsideUnchanged
    /\ UNCHANGED <<run, messages, pendingToolCalls, steeringQueue, gone, resetInRun>>

(* clearSteeringQueue, clearFollowUpQueue (clearAllQueues is both). *)
ClearSteeringQueue ==
    /\ steeringQueue' = <<>> /\ gone' = gone \cup Identities(steeringQueue)
    /\ OutsideUnchanged
    /\ UNCHANGED <<run, messages, pendingToolCalls, followUpQueue, nextUser, late, resetInRun>>

ClearFollowUpQueue ==
    /\ followUpQueue' = <<>> /\ gone' = gone \cup Identities(followUpQueue)
    /\ OutsideUnchanged
    /\ UNCHANGED <<run, messages, pendingToolCalls, steeringQueue, nextUser, late, resetInRun>>

(* Mutant of Abort: the run is given up at once. *)
AbortForgetsRun ==
    /\ run = "live" /\ run' = "none"
    /\ OutsideUnchanged
    /\ UNCHANGED <<messages, pendingToolCalls, queues, nextUser, history>>

Abort ==
    /\ run = "live" /\ run' = "aborted"
    /\ OutsideUnchanged
    /\ UNCHANGED <<messages, pendingToolCalls, queues, nextUser, history>>

(* reset does not look at the run: the loop keeps its own context. *)
Reset ==
    /\ messages' = <<>> /\ pendingToolCalls' = {}
    /\ steeringQueue' = <<>> /\ followUpQueue' = <<>>
    /\ gone' = gone \cup Identities(messages) \cup Identities(steeringQueue)
                    \cup Identities(followUpQueue)
    /\ resetInRun' = (run # "none")
    /\ OutsideUnchanged
    /\ UNCHANGED <<run, nextUser, late>>

(* A session about to retry takes a failed answer off the transcript. *)
RemoveFailedAnswer ==
    /\ pc \in {"idle", "ending"} /\ messages # <<>> /\ Last(messages).kind = "error"
    /\ messages' = SubSeq(messages, 1, Len(messages) - 1)
    /\ OutsideUnchanged
    /\ UNCHANGED <<run, pendingToolCalls, queues, nextUser, history>>

-----------------------------------------------------------------------------
Init ==
    /\ config \in Configs
    /\ run = "none" /\ pc = "idle"
    /\ messages = <<>> /\ pendingToolCalls = {}
    /\ steeringQueue = <<>> /\ followUpQueue = <<>>
    /\ context = <<>> /\ pending = <<>> /\ skipPoll = FALSE
    /\ todo = <<>> /\ running = <<>> /\ results = <<>>
    /\ execution = [c \in Calls |-> "none"]
    /\ nextUser = 1 /\ nextCall = 1
    /\ gone = {} /\ late = {} /\ resetInRun = FALSE

LoopStep ==
    \/ EmitPrompt
    \/ PollBeforeFirstTurn
    \/ InjectPending
    \/ Request
    \/ \E stop \in Stops, n \in 0 .. MaxBatch : StreamEnds(stop, n)
    \/ AnswerAtOnce
    \/ PrepareToolCall
    \/ \E c \in Calls : FinalizeToolCall(c)
    \/ EndTurn
    \/ PollSteering
    \/ PollFollowUps
    \/ FinishRun
    \/ ExecutionRejected
    \/ HandleRunFailure

Next ==
    \/ \E n \in 1 .. MaxBatch : Prompt(n)
    \/ "continue" \in Outside /\ (ContinueWithSteering \/ ContinueWithFollowUps \/ ContinueAsIs)
    \/ LoopStep
    \/ \E c \in Calls : ReportProgress(c) \/ ToolSettles(c)
    \/ ListenerThrows
    \/ ProviderThrows
    \/ AfterToolCallThrows
    \/ Steer
    \/ FollowUp
    \/ "clear" \in Outside /\ (ClearSteeringQueue \/ ClearFollowUpQueue)
    \/ Abort
    \/ "reset" \in Outside /\ Reset
    \/ "retry" \in Outside /\ RemoveFailedAnswer

Spec == Init /\ [][Next]_vars

(* Awaited promises settle: the loop goes on, a stream that was requested  *)
(* ends, a tool that was started returns or throws.                        *)
Fairness == WF_vars(LoopStep) /\ \A c \in Calls : WF_vars(ToolSettles(c))

FairSpec == Spec /\ Fairness
-----------------------------------------------------------------------------
(* Properties.                                                             *)

TypeOK ==
    /\ config \in Configs
    /\ run \in {"none", "live", "aborted"}
    /\ messages \in Seq(Message) /\ context \in Seq(Message)
    /\ pendingToolCalls \subseteq Calls
    /\ steeringQueue \in Seq(UserMessage) /\ followUpQueue \in Seq(UserMessage)
    /\ pending \in Seq(UserMessage)
    /\ pc \in {"idle", "prompting", "start", "turn", "streaming", "tools", "poll", "followUp",
               "ending", "failing", "failed"}
    /\ pc = "idle" <=> run = "none"
    /\ skipPoll \in BOOLEAN
    /\ todo \in Seq(Calls) /\ running \in Seq(Calls) /\ results \in Seq(Message)
    /\ execution \in [Calls -> {"none", "running", "doomed", "settled", "rejected"}]
    /\ nextUser \in 1 .. MaxUser + 1 /\ nextCall \in 1 .. MaxCall + 1
    /\ gone \subseteq Users /\ late \subseteq Users
    /\ resetInRun \in BOOLEAN

(* Whenever the model is asked, the loop's private context is, message for *)
(* message, the transcript the agent and its session have: no turn, tool   *)
(* result or injected message is known to one of them only, in any tool    *)
(* and interrupt mode (unless reset() emptied the transcript during the    *)
(* run, which the loop does not notice).                                   *)
ContextIsTranscript == AtRequest /\ ~resetInRun => context = messages

(* The calls of the answer at k that the tool results right after it answer. *)
Answered(s, k) ==
    {s[j].id : j \in {i \in k + 1 .. Len(s) :
                        \A h \in k + 1 .. i : s[h].role = "toolResult"}}

(* Whether the answer at k is where a run broke off. *)
BrokeOff(s, k) ==
    \E j \in k + 1 .. Len(s) :
        /\ s[j] = Failure
        /\ \A h \in k + 1 .. j - 1 : s[h].role = "toolResult"

(* Each tool call of a finished answer has its result, right behind it,    *)
(* before the model is asked again, whatever the user steers, queues or    *)
(* aborts meanwhile and however the tools end; only interruptMode          *)
(* "immediate" leaves calls out, never all of them, and so does a run that *)
(* broke off with a failure.                                               *)
CallsAnswered ==
    AtRequest =>
        \A k \in 1 .. Len(context) :
            context[k].kind = "stop" /\ context[k].calls # <<>> /\ ~BrokeOff(context, k) =>
                LET answered == Answered(context, k) IN
                /\ answered \subseteq Elements(context[k].calls)
                /\ config.interruptMode = "wait" => answered = Elements(context[k].calls)
                /\ answered # {}

(* How often message m of a user is somewhere in the agent. *)
Occurrences(u) ==
    LET count(s) == Cardinality({k \in 1 .. Len(s) : s[k].role = "user" /\ s[k].id = u})
    IN  count(messages) + count(pending) + count(steeringQueue) + count(followUpQueue)

(* Nothing a user prompts, steers or queues is lost or delivered twice: it *)
(* is in exactly one of the queues, the loop's hands and the transcript,   *)
(* through polls, drains by continue(), errors and aborts, until a queue   *)
(* or the agent is cleared or a run fails with the message in its hands.   *)
MessagesAccounted ==
    \A u \in 1 .. nextUser - 1 : Occurrences(u) = IF u \in gone THEN 0 ELSE 1

(* Steering messages reach the transcript in the order they were sent, and *)
(* so do follow-ups, in both queue modes and across runs and continue().   *)
QueuesInOrder ==
    LET s == messages \o pending \o steeringQueue \o followUpQueue IN
    \A j, k \in 1 .. Len(s) :
        j < k /\ s[j].kind = s[k].kind /\ s[k].kind \in {"steer", "followUp"} => s[j].id < s[k].id

(* A run that ends by itself has delivered everything that was queued      *)
(* before it started or while it ran, in both queue modes, but for what    *)
(* came too late for its last look at the queues: while it was emitting    *)
(* agent_end already, or, for a steering message, while it looked for      *)
(* follow-ups.                                                             *)
NothingForgotten ==
    pc = "ending" /\ Last(context).kind = "stop" =>
        Identities(steeringQueue) \cup Identities(followUpQueue) \subseteq late

(* A run ends, whatever is steered, queued or aborted meanwhile: neither   *)
(* an abandoned nor a rejected execution, nor a failing listener, leaves   *)
(* the agent busy forever, so waitForIdle() and prompt() return.           *)
RunEnds == run # "none" ~> run = "none"
=============================================================================
