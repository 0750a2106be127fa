---------------------------- MODULE Agent_proofs ----------------------------
(***************************************************************************)
(* The agent and its loop, for any number of messages, tool calls and      *)
(* runs, in every mode, whoever throws and whatever users do meanwhile.    *)
(***************************************************************************)
EXTENDS Agent, FiniteSetTheorems, TLAPS

-----------------------------------------------------------------------------
(* Messages and sequences of them. *)

LEMMA MessageTypes ==
    /\ UserMessage \subseteq Message /\ Failure \in Message
    /\ \A u \in Users, kind \in Kinds :
          User(u, kind) \in UserMessage /\ User(u, kind).role = "user"
    /\ \A c \in Calls : ToolResult(c) \in Message
    /\ \A calls \in Seq(Calls), stop \in Stops : Answer(calls, stop) \in Message
<1>1. \A u \in Users, kind \in Kinds :
         User(u, kind) \in UserMessage /\ User(u, kind) \in Message /\ User(u, kind).role = "user"
  BY DEF User, UserMessage, Message
<1>2. UserMessage \subseteq Message
  BY <1>1 DEF UserMessage
<1>3. Failure \in Message
  BY DEF Failure, Answer, Message
<1>4. \A c \in Calls : ToolResult(c) \in Message
  BY DEF ToolResult, Message
<1>5. \A calls \in Seq(Calls), stop \in Stops : Answer(calls, stop) \in Message
  BY DEF Answer, Message, Stops
<1>. QED BY <1>1, <1>2, <1>3, <1>4, <1>5

LEMMA UserSequences == ASSUME NEW s \in Seq(UserMessage) PROVE s \in Seq(Message)
BY MessageTypes

LEMMA IdentitiesOf ==
    ASSUME NEW s \in Seq(Message)
    PROVE  /\ Identities(s) \subseteq Users
           /\ \A u : u \in Identities(s) <=>
                  \E k \in 1 .. Len(s) : s[k].role = "user" /\ s[k].id = u
<1>1. \A u : u \in Identities(s) <=>
         \E k \in 1 .. Len(s) : s[k].role = "user" /\ s[k].id = u
  BY DEF Identities, Elements
<1>2. \A k \in 1 .. Len(s) : s[k].role = "user" => s[k].id \in Users
  <2>1. \A m \in Message : m.role = "user" => m.id \in Users
    BY DEF Message
  <2>. QED BY <2>1
<1>. QED BY <1>1, <1>2

(* Sequences are equal when they have the same members in the same places, *)
(* so it does not matter when the first of t goes over to s.               *)
LEMMA SameMembers ==
    ASSUME NEW S, NEW s \in Seq(S), NEW t \in Seq(S), Len(s) = Len(t),
           \A k \in 1 .. Len(s) : s[k] = t[k]
    PROVE  s = t
OBVIOUS

LEMMA HeadGoesOver ==
    ASSUME NEW S, NEW s \in Seq(S), NEW t \in Seq(S), t # <<>>
    PROVE  s \o t = Append(s, Head(t)) \o Tail(t)
<1>1. /\ s \o t \in Seq(S) /\ Append(s, Head(t)) \o Tail(t) \in Seq(S)
      /\ Len(s \o t) = Len(Append(s, Head(t)) \o Tail(t))
  OBVIOUS
<1>2. \A k \in 1 .. Len(s \o t) : (s \o t)[k] = (Append(s, Head(t)) \o Tail(t))[k]
  OBVIOUS
<1>. QED BY <1>1, <1>2, SameMembers

LEMMA NothingAdded == ASSUME NEW S, NEW s \in Seq(S) PROVE s \o <<>> = s
<1>1. /\ s \o <<>> \in Seq(S) /\ Len(s \o <<>>) = Len(s)
      /\ \A k \in 1 .. Len(s) : (s \o <<>>)[k] = s[k]
  OBVIOUS
<1>. QED BY <1>1, SameMembers

LEMMA AppendedToBoth ==
    ASSUME NEW S, NEW s \in Seq(S), NEW t \in Seq(S), NEW x \in S
    PROVE  s \o Append(t, x) = Append(s \o t, x)
<1>1. /\ Append(s \o t, x) \in Seq(S) /\ s \o Append(t, x) \in Seq(S)
      /\ Len(Append(s \o t, x)) = Len(s \o Append(t, x))
  OBVIOUS
<1>2. \A k \in 1 .. Len(s \o Append(t, x)) : Append(s \o t, x)[k] = (s \o Append(t, x))[k]
  OBVIOUS
<1>. QED BY <1>1, <1>2, SameMembers

(* What drain() takes and leaves is the queue. *)
LEMMA Drained ==
    ASSUME NEW S, NEW queue \in Seq(S), NEW mode
    PROVE  /\ Taken(queue, mode) \in Seq(S) /\ Left(queue, mode) \in Seq(S)
           /\ Len(queue) = Len(Taken(queue, mode)) + Len(Left(queue, mode))
           /\ \A k \in 1 .. Len(Taken(queue, mode)) : Taken(queue, mode)[k] = queue[k]
           /\ \A k \in 1 .. Len(Left(queue, mode)) :
                 Left(queue, mode)[k] = queue[Len(Taken(queue, mode)) + k]
           /\ queue # <<>> => Taken(queue, mode) # <<>>
           /\ queue = <<>> => Taken(queue, mode) = <<>> /\ Left(queue, mode) = <<>>
<1>1. /\ Taken(queue, mode) \in Seq(S) /\ Len(Taken(queue, mode)) <= Len(queue)
      /\ \A k \in 1 .. Len(Taken(queue, mode)) : Taken(queue, mode)[k] = queue[k]
      /\ queue # <<>> => Taken(queue, mode) # <<>>
  BY DEF Taken
<1>2. ASSUME NEW n \in 0 .. Len(queue)
      PROVE  /\ SubSeq(queue, n + 1, Len(queue)) \in Seq(S)
             /\ Len(SubSeq(queue, n + 1, Len(queue))) = Len(queue) - n
             /\ \A k \in 1 .. Len(queue) - n : SubSeq(queue, n + 1, Len(queue))[k] = queue[n + k]
  OBVIOUS
<1>3. Len(Taken(queue, mode)) \in 0 .. Len(queue)
  BY <1>1
<1>4. /\ Left(queue, mode) \in Seq(S)
      /\ Len(Left(queue, mode)) = Len(queue) - Len(Taken(queue, mode))
      /\ \A k \in 1 .. Len(Left(queue, mode)) :
            Left(queue, mode)[k] = queue[Len(Taken(queue, mode)) + k]
  BY <1>2, <1>3 DEF Left
<1>5. queue = <<>> => Taken(queue, mode) = <<>> /\ Left(queue, mode) = <<>>
  <2>. SUFFICES ASSUME queue = <<>> PROVE Taken(queue, mode) = <<>> /\ Left(queue, mode) = <<>>
    OBVIOUS
  <2>1. Len(Taken(queue, mode)) = 0 /\ Len(Left(queue, mode)) = 0
    BY <1>3, <1>4
  <2>. QED BY <1>1, <1>4, <2>1
<1>. QED BY <1>1, <1>3, <1>4, <1>5

-----------------------------------------------------------------------------
(* Types.  The loop holds messages in hand only between a poll, or the     *)
(* start of a run, and their injection.                                    *)

Hands ==
    /\ pc = "prompting" => pending # <<>>
    /\ pc \notin {"prompting", "turn", "failing"} => pending = <<>>

Typed == TypeOK /\ Hands

LEMMA InitTyped == Init => Typed
<1>. SUFFICES ASSUME Init PROVE Typed
  OBVIOUS
<1>. USE DEF Init
<1>1. messages \in Seq(Message) /\ context \in Seq(Message) /\ results \in Seq(Message)
  OBVIOUS
<1>2. /\ steeringQueue \in Seq(UserMessage) /\ followUpQueue \in Seq(UserMessage)
      /\ pending \in Seq(UserMessage) /\ todo \in Seq(Calls) /\ running \in Seq(Calls)
  OBVIOUS
<1>3. nextUser \in 1 .. MaxUser + 1 /\ nextCall \in 1 .. MaxCall + 1
  BY AgentBounds
<1>4. execution \in [Calls -> {"none", "running", "doomed", "settled", "rejected"}]
  OBVIOUS
<1>. QED BY <1>1, <1>2, <1>3, <1>4 DEF Typed, TypeOK, Hands

(* A run starts with messages it has in hand, or with none. *)
LEMMA StartTyped ==
    ASSUME Typed, run = "none", NEW ps \in Seq(UserMessage), NEW skip \in BOOLEAN,
           StartRun(ps, skip), steeringQueue' \in Seq(UserMessage),
           followUpQueue' \in Seq(UserMessage), nextUser' \in 1 .. MaxUser + 1
    PROVE  Typed'
<1>1. messages \o ps \in Seq(Message)
  BY UserSequences DEF Typed, TypeOK
<1>2. /\ run' = "live" /\ context' \in Seq(Message) /\ pending' = ps /\ skipPoll' = skip
      /\ pc' = (IF ps = <<>> THEN "start" ELSE "prompting") /\ resetInRun' = FALSE
  BY <1>1 DEF StartRun
<1>. QED BY <1>2 DEF StartRun, Typed, TypeOK, Hands

LEMMA PromptMessages ==
    ASSUME Typed, NEW n \in 1 .. MaxBatch, Prompt(n)
    PROVE  [k \in 1 .. n |-> User(nextUser + k - 1, "prompt")] \in Seq(UserMessage)
<1>1. n \in Nat /\ nextUser \in Nat /\ nextUser + n - 1 <= MaxUser /\ nextUser >= 1
  BY AgentBounds DEF Typed, TypeOK, Prompt, Users
<1>2. \A k \in 1 .. n : User(nextUser + k - 1, "prompt") \in UserMessage
  BY <1>1, AgentBounds, MessageTypes DEF Users, Kinds
<1>. QED BY <1>1, <1>2

LEMMA PromptTyped == ASSUME Typed, NEW n \in 1 .. MaxBatch, Prompt(n) PROVE Typed'
<1>1. [k \in 1 .. n |-> User(nextUser + k - 1, "prompt")] \in Seq(UserMessage)
  BY PromptMessages
<1>2. nextUser' \in 1 .. MaxUser + 1
  BY AgentBounds DEF Typed, TypeOK, Prompt, Users
<1>3. /\ run = "none" /\ UNCHANGED queues
      /\ StartRun([k \in 1 .. n |-> User(nextUser + k - 1, "prompt")], FALSE)
  BY DEF Prompt
<1>4. steeringQueue' \in Seq(UserMessage) /\ followUpQueue' \in Seq(UserMessage)
  BY <1>3 DEF queues, Typed, TypeOK
<1>. QED BY <1>1, <1>2, <1>3, <1>4, StartTyped

LEMMA ContinueTyped ==
    ASSUME Typed, ContinueWithSteering \/ ContinueWithFollowUps \/ ContinueAsIs
    PROVE  Typed'
<1>. USE DEF Typed, TypeOK
<1>1. CASE ContinueWithSteering
  <2>1. /\ Taken(steeringQueue, config.steeringMode) \in Seq(UserMessage)
        /\ Left(steeringQueue, config.steeringMode) \in Seq(UserMessage)
    BY Drained
  <2>. QED BY <1>1, <2>1, StartTyped DEF ContinueWithSteering
<1>2. CASE ContinueWithFollowUps
  <2>1. /\ Taken(followUpQueue, config.followUpMode) \in Seq(UserMessage)
        /\ Left(followUpQueue, config.followUpMode) \in Seq(UserMessage)
    BY Drained
  <2>. QED BY <1>2, <2>1, StartTyped DEF ContinueWithFollowUps
<1>3. CASE ContinueAsIs
  <2>1. <<>> \in Seq(UserMessage)
    OBVIOUS
  <2>. QED BY <1>3, <2>1, StartTyped DEF ContinueAsIs, queues
<1>. QED BY <1>1, <1>2, <1>3

LEMMA AnswerTyped ==
    ASSUME Typed, NEW stop \in Stops, NEW n \in 0 .. MaxBatch, StreamEnds(stop, n)
    PROVE  /\ [k \in 1 .. n |-> nextCall + k - 1] \in Seq(Calls)
           /\ Answer([k \in 1 .. n |-> nextCall + k - 1], stop) \in Message
           /\ nextCall + n \in 1 .. MaxCall + 1
<1>1. n \in Nat /\ nextCall \in Nat /\ nextCall >= 1 /\ nextCall + n - 1 <= MaxCall
  BY AgentBounds DEF StreamEnds, Typed, TypeOK
<1>2. \A k \in 1 .. n : nextCall + k - 1 \in Calls
  BY <1>1, AgentBounds DEF Calls
<1>3. [k \in 1 .. n |-> nextCall + k - 1] \in Seq(Calls)
  BY <1>1, <1>2
<1>4. nextCall + n \in 1 .. MaxCall + 1
  BY <1>1, AgentBounds
<1>. DEFINE cs == [k \in 1 .. n |-> nextCall + k - 1]
<1>5. cs \in Seq(Calls)
  BY <1>3
<1>. HIDE DEF cs
<1>6. Answer(cs, stop) \in Message
  BY <1>5, MessageTypes
<1>. QED BY <1>4, <1>5, <1>6 DEF cs

LEMMA LoopTyped == ASSUME Typed, LoopStep PROVE Typed'
<1>. USE DEF Typed, TypeOK, Hands, LoopUnchanged, queues, tools, history
<1>1. CASE EmitPrompt
  <2>1. /\ pending # <<>> /\ Head(pending) \in UserMessage /\ Tail(pending) \in Seq(UserMessage)
    BY <1>1 DEF EmitPrompt
  <2>2. Append(messages, Head(pending)) \in Seq(Message)
    BY <2>1, MessageTypes
  <2>. QED BY <1>1, <2>1, <2>2 DEF EmitPrompt
<1>2. CASE PollBeforeFirstTurn
  <2>1. /\ Taken(steeringQueue, config.steeringMode) \in Seq(UserMessage)
        /\ Left(steeringQueue, config.steeringMode) \in Seq(UserMessage)
    BY Drained
  <2>. QED BY <1>2, <2>1 DEF PollBeforeFirstTurn
<1>3. CASE InjectPending
  <2>1. /\ pending # <<>> /\ Head(pending) \in UserMessage /\ Tail(pending) \in Seq(UserMessage)
    BY <1>3 DEF InjectPending
  <2>2. /\ Append(messages, Head(pending)) \in Seq(Message)
        /\ Append(context, Head(pending)) \in Seq(Message)
    BY <2>1, MessageTypes
  <2>. QED BY <1>3, <2>1, <2>2 DEF InjectPending
<1>4. CASE Request
  BY <1>4 DEF Request, AtRequest
<1>5. ASSUME NEW stop \in Stops, NEW n \in 0 .. MaxBatch, StreamEnds(stop, n)
      PROVE  Typed'
  <2>. DEFINE cs == [k \in 1 .. n |-> nextCall + k - 1]
              m  == Answer(cs, stop)
  <2>3. cs \in Seq(Calls) /\ m \in Message /\ nextCall + n \in 1 .. MaxCall + 1
    BY <1>5, AnswerTyped
  <2>4. m.calls = cs
    BY DEF Answer
  <2>. HIDE DEF m
  <2>5. Append(messages, m) \in Seq(Message) /\ Append(context, m) \in Seq(Message)
    BY <2>3
  <2>6. /\ messages' = Append(messages, m) /\ context' = Append(context, m)
        /\ IF stop = "stop" THEN pc' = "tools" /\ todo' = m.calls
                            ELSE pc' = "ending" /\ UNCHANGED todo
        /\ nextCall' = nextCall + n /\ pc = "streaming"
    BY <1>5 DEF StreamEnds, m
  <2>7. nextCall' \in 1 .. MaxCall + 1
    BY <2>3, <2>6
  <2>8. todo' \in Seq(Calls)
    BY <2>3, <2>4, <2>6
  <2>9. /\ LoopUnchanged
        /\ UNCHANGED <<queues, pending, running, results, pendingToolCalls, execution>>
    BY <1>5 DEF StreamEnds
  <2>10. pc' \in {"tools", "ending"}
    BY <2>6
  <2>. HIDE DEF cs
  <2>. QED BY <2>5, <2>6, <2>7, <2>8, <2>9, <2>10
<1>6. CASE AnswerAtOnce
  <2>1. /\ Head(todo) \in Calls /\ Tail(todo) \in Seq(Calls)
    BY <1>6 DEF AnswerAtOnce
  <2>2. /\ Append(messages, ToolResult(Head(todo))) \in Seq(Message)
        /\ Append(results, ToolResult(Head(todo))) \in Seq(Message)
    BY <2>1, MessageTypes
  <2>3. execution' \in [Calls -> {"none", "running", "doomed", "settled", "rejected"}]
    BY <1>6 DEF AnswerAtOnce, Started
  <2>4. todo' \in Seq(Calls)
    BY <1>6, <2>1 DEF AnswerAtOnce
  <2>. QED BY <1>6, <2>2, <2>3, <2>4 DEF AnswerAtOnce, Emit
<1>7. CASE PrepareToolCall
  <2>1. /\ Head(todo) \in Calls /\ Tail(todo) \in Seq(Calls)
    BY <1>7 DEF PrepareToolCall
  <2>2. Append(running, Head(todo)) \in Seq(Calls) /\ pendingToolCalls \cup {Head(todo)} \subseteq Calls
    BY <2>1
  <2>3. execution' \in [Calls -> {"none", "running", "doomed", "settled", "rejected"}]
    BY <1>7 DEF PrepareToolCall, Started
  <2>. QED BY <1>7, <2>1, <2>2, <2>3 DEF PrepareToolCall
<1>8. ASSUME NEW c \in Calls, FinalizeToolCall(c) PROVE Typed'
  <2>1. /\ Append(messages, ToolResult(c)) \in Seq(Message)
        /\ Append(results, ToolResult(c)) \in Seq(Message)
    BY MessageTypes
  <2>2. /\ running # <<>> /\ todo' \in {<<>>, todo} /\ running' \in {<<>>, Tail(running)}
    <3>1. running # <<>> /\ UNCHANGED <<queues, pc>>
      BY <1>8 DEF FinalizeToolCall, Awaits
    <3>2. CASE Interrupted
      BY <1>8, <3>1, <3>2 DEF FinalizeToolCall
    <3>3. CASE ~Interrupted
      BY <1>8, <3>1, <3>3 DEF FinalizeToolCall
    <3>. QED BY <3>2, <3>3
  <2>3. todo' \in Seq(Calls) /\ running' \in Seq(Calls)
    <3>1. running # <<>> => Tail(running) \in Seq(Calls)
      OBVIOUS
    <3>2. todo \in Seq(Calls) /\ <<>> \in Seq(Calls)
      OBVIOUS
    <3>. QED BY <2>2, <3>1, <3>2
  <2>. QED BY <1>8, <2>1, <2>3 DEF FinalizeToolCall, Awaits, Emit
<1>9. CASE EndTurn
  <2>1. context \o results \in Seq(Message) /\ <<>> \in Seq(Message)
    OBVIOUS
  <2>. QED BY <1>9, <2>1 DEF EndTurn
<1>10. CASE PollSteering
  <2>1. /\ Taken(steeringQueue, config.steeringMode) \in Seq(UserMessage)
        /\ Left(steeringQueue, config.steeringMode) \in Seq(UserMessage)
        /\ steeringQueue = <<>> => Taken(steeringQueue, config.steeringMode) = <<>>
    BY Drained
  <2>. QED BY <1>10, <2>1 DEF PollSteering
<1>11. CASE PollFollowUps
  <2>1. /\ Taken(followUpQueue, config.followUpMode) \in Seq(UserMessage)
        /\ Left(followUpQueue, config.followUpMode) \in Seq(UserMessage)
        /\ followUpQueue = <<>> => Taken(followUpQueue, config.followUpMode) = <<>>
    BY Drained
  <2>. QED BY <1>11, <2>1 DEF PollFollowUps
<1>12. CASE FinishRun
  <2>1. <<>> \in Seq(Message) /\ <<>> \in Seq(Calls)
    OBVIOUS
  <2>. QED BY <1>12, <2>1 DEF FinishRun
<1>13. CASE ExecutionRejected
  BY <1>13 DEF ExecutionRejected, Awaits, Fail
<1>14. CASE HandleRunFailure
  <2>1. Append(messages, Failure) \in Seq(Message) /\ <<>> \in Seq(UserMessage)
    BY MessageTypes
  <2>2. Identities(pending) \subseteq Users
    BY UserSequences, IdentitiesOf
  <2>. QED BY <1>14, <2>1, <2>2 DEF HandleRunFailure
<1>. HIDE DEF Typed
<1>. QED BY <1>1, <1>2, <1>3, <1>4, <1>5, <1>6, <1>7, <1>8, <1>9, <1>10, <1>11, <1>12,
            <1>13, <1>14 DEF LoopStep

LEMMA OutsideTyped ==
    ASSUME Typed,
           \/ Steer \/ FollowUp \/ ClearSteeringQueue \/ ClearFollowUpQueue \/ Abort \/ Reset
           \/ RemoveFailedAnswer
    PROVE  Typed'
<1>. USE DEF Typed, TypeOK, Hands, OutsideUnchanged, queues, tools, history
<1>0. /\ <<>> \in Seq(UserMessage) /\ <<>> \in Seq(Message)
      /\ nextUser \in Users => nextUser + 1 \in 1 .. MaxUser + 1
  BY AgentBounds DEF Users
<1>1. CASE Steer
  <2>1. Append(steeringQueue, User(nextUser, "steer")) \in Seq(UserMessage)
    BY <1>1, MessageTypes DEF Steer, Kinds
  <2>2. late' \subseteq Users
    BY <1>1 DEF Steer
  <2>. QED BY <1>0, <1>1, <2>1, <2>2 DEF Steer
<1>2. CASE FollowUp
  <2>1. Append(followUpQueue, User(nextUser, "followUp")) \in Seq(UserMessage)
    BY <1>2, MessageTypes DEF FollowUp, Kinds
  <2>2. late' \subseteq Users
    BY <1>2 DEF FollowUp
  <2>. QED BY <1>0, <1>2, <2>1, <2>2 DEF FollowUp
<1>3. /\ Identities(steeringQueue) \subseteq Users /\ Identities(followUpQueue) \subseteq Users
      /\ Identities(messages) \subseteq Users
  BY UserSequences, IdentitiesOf
<1>4. CASE ClearSteeringQueue
  BY <1>0, <1>3, <1>4 DEF ClearSteeringQueue
<1>5. CASE ClearFollowUpQueue
  BY <1>0, <1>3, <1>5 DEF ClearFollowUpQueue
<1>6. CASE Abort
  BY <1>6 DEF Abort
<1>7. CASE Reset
  <2>1. gone' \subseteq Users
    BY <1>3, <1>7 DEF Reset
  <2>. QED BY <1>0, <1>7, <2>1 DEF Reset
<1>8. CASE RemoveFailedAnswer
  <2>1. SubSeq(messages, 1, Len(messages) - 1) \in Seq(Message)
    BY <1>8 DEF RemoveFailedAnswer
  <2>. QED BY <1>8, <2>1 DEF RemoveFailedAnswer
<1>. HIDE DEF Typed
<1>. QED BY <1>1, <1>2, <1>4, <1>5, <1>6, <1>7, <1>8

LEMMA ToolsTyped ==
    ASSUME Typed,
           \/ \E c \in Calls : ReportProgress(c) \/ ToolSettles(c)
           \/ ListenerThrows \/ ProviderThrows \/ AfterToolCallThrows
    PROVE  Typed'
<1>. USE DEF Typed, TypeOK, Hands, LoopUnchanged, queues, tools, history
<1>1. ASSUME NEW c \in Calls, ReportProgress(c) PROVE Typed'
  <2>1. execution' \in [Calls -> {"none", "running", "doomed", "settled", "rejected"}]
    BY <1>1 DEF ReportProgress
  <2>. QED BY <1>1, <2>1 DEF ReportProgress
<1>2. ASSUME NEW c \in Calls, ToolSettles(c) PROVE Typed'
  BY <1>2 DEF ToolSettles
<1>3. CASE ListenerThrows
  BY <1>3 DEF ListenerThrows, Fail
<1>4. CASE ProviderThrows
  BY <1>4 DEF ProviderThrows, AtRequest, Fail
<1>5. CASE AfterToolCallThrows
  BY <1>5 DEF AfterToolCallThrows, Awaits, Fail
<1>. HIDE DEF Typed
<1>. QED BY <1>1, <1>2, <1>3, <1>4, <1>5

LEMMA NextTyped == Typed /\ [Next]_vars => Typed'
<1>. SUFFICES ASSUME Typed, [Next]_vars PROVE Typed'
  OBVIOUS
<1>1. CASE UNCHANGED vars
  BY <1>1 DEF vars, Typed, TypeOK, Hands
<1>2. CASE Next
  BY <1>2, PromptTyped, ContinueTyped, LoopTyped, ToolsTyped, OutsideTyped DEF Next
<1>. QED BY <1>1, <1>2

LEMMA AlwaysTyped == Spec => []Typed
<1>. QED BY InitTyped, NextTyped, PTL DEF Spec

(* The types of all variables, for any number of messages and calls: a run *)
(* is active exactly while the loop is, and no step takes from an empty    *)
(* queue of messages or calls.                                             *)
THEOREM AgentTypeCorrect == Spec => []TypeOK
<1>1. Typed => TypeOK
  BY DEF Typed
<1>. QED BY <1>1, AlwaysTyped, PTL

-----------------------------------------------------------------------------
(* The two copies of the transcript.  What the loop's has and the agent's  *)
(* lacks are the prompts still to be emitted; what the agent's has and the *)
(* loop's lacks are the results of the current batch.                      *)

Copies ==
    /\ pc \in {"idle", "prompting", "start", "turn", "streaming", "poll", "followUp"} =>
          results = <<>>
    /\ ~resetInRun =>
          /\ pc = "prompting" => context = messages \o pending
          /\ pc \in {"start", "turn", "streaming", "poll", "followUp"} => context = messages
          /\ pc = "tools" => messages = context \o results

LEMMA InitCopies == Init => Copies
BY DEF Init, Copies

LEMMA StartCopies ==
    ASSUME Typed, Copies, run = "none", NEW ps \in Seq(Message), NEW skip, StartRun(ps, skip)
    PROVE  Copies'
<1>1. pc = "idle" /\ results = <<>> /\ results' = <<>>
  BY DEF Typed, TypeOK, Copies, StartRun, tools
<1>2. ps = <<>> => messages \o ps = messages
  BY DEF Typed, TypeOK
<1>. QED BY <1>1, <1>2 DEF Copies, StartRun

LEMMA LoopCopies == ASSUME Typed, Copies, LoopStep PROVE Copies'
<1>. USE DEF LoopUnchanged, queues, tools, history
<1>0. /\ messages \in Seq(Message) /\ context \in Seq(Message) /\ results \in Seq(Message)
      /\ pending \in Seq(Message)
      /\ pc = "prompting" => pending # <<>>
  BY UserSequences DEF Typed, TypeOK, Hands
<1>1. CASE EmitPrompt
  <2>1. messages \o pending = Append(messages, Head(pending)) \o Tail(pending)
    BY <1>0, <1>1, HeadGoesOver DEF EmitPrompt
  <2>2. Tail(pending) = <<>> => Append(messages, Head(pending)) \o Tail(pending) = Append(messages, Head(pending))
    <3>1. Append(messages, Head(pending)) \in Seq(Message)
      BY <1>0, <1>1 DEF EmitPrompt
    <3>. QED BY <3>1, NothingAdded
  <2>3. /\ pc = "prompting" /\ pc' = (IF Tail(pending) = <<>> THEN "start" ELSE "prompting")
        /\ messages' = Append(messages, Head(pending)) /\ pending' = Tail(pending)
        /\ UNCHANGED <<context, results, resetInRun>>
    BY <1>1 DEF EmitPrompt
  <2>. QED BY <2>1, <2>2, <2>3 DEF Copies
<1>2. CASE PollBeforeFirstTurn
  BY <1>2 DEF PollBeforeFirstTurn, Copies
<1>3. CASE InjectPending
  BY <1>3 DEF InjectPending, Copies
<1>4. CASE Request
  BY <1>4 DEF Request, AtRequest, Copies
<1>5. ASSUME NEW stop \in Stops, NEW n \in 0 .. MaxBatch, StreamEnds(stop, n)
      PROVE  Copies'
  <2>. DEFINE m == Answer([k \in 1 .. n |-> nextCall + k - 1], stop)
  <2>1. /\ pc = "streaming" /\ UNCHANGED <<results, resetInRun>>
        /\ messages' = Append(messages, m) /\ context' = Append(context, m)
    BY <1>5 DEF StreamEnds
  <2>2. pc' \in {"tools", "ending"}
    BY <1>5 DEF StreamEnds
  <2>. HIDE DEF m
  <2>3. Append(context, m) \o <<>> = Append(context, m)
    BY <1>0
  <2>. QED BY <2>1, <2>2, <2>3 DEF Copies
<1>6. ASSUME NEW m \in Message, pc = "tools", UNCHANGED <<pc, context, resetInRun>>, Emit(m)
      PROVE  Copies'
  <2>1. context \o Append(results, m) = Append(context \o results, m)
    BY <1>0, <1>6, AppendedToBoth
  <2>2. messages' = Append(messages, m) /\ results' = Append(results, m)
    BY <1>6 DEF Emit
  <2>. QED BY <1>6, <2>1, <2>2 DEF Copies
<1>7. CASE AnswerAtOnce
  <2>1. Head(todo) \in Calls
    BY <1>7 DEF AnswerAtOnce, Typed, TypeOK
  <2>. QED BY <1>6, <1>7, <2>1, MessageTypes DEF AnswerAtOnce
<1>8. CASE PrepareToolCall
  BY <1>8 DEF PrepareToolCall, Copies
<1>9. ASSUME NEW c \in Calls, FinalizeToolCall(c) PROVE Copies'
  BY <1>6, <1>9, MessageTypes DEF FinalizeToolCall, Awaits
<1>10. CASE EndTurn
  <2>1. /\ pc = "tools" /\ pc' = "poll" /\ context' = context \o results /\ results' = <<>>
        /\ UNCHANGED <<messages, resetInRun>>
    BY <1>10 DEF EndTurn
  <2>. QED BY <2>1 DEF Copies
<1>11. CASE PollSteering
  BY <1>11 DEF PollSteering, Copies
<1>12. CASE PollFollowUps
  BY <1>12 DEF PollFollowUps, Copies
<1>13. CASE FinishRun
  BY <1>13 DEF FinishRun, Copies
<1>14. CASE ExecutionRejected
  BY <1>14 DEF ExecutionRejected, Fail, Copies
<1>15. CASE HandleRunFailure
  BY <1>15 DEF HandleRunFailure, Copies
<1>. QED BY <1>1, <1>2, <1>3, <1>4, <1>5, <1>7, <1>8, <1>9, <1>10, <1>11, <1>12, <1>13,
            <1>14, <1>15 DEF LoopStep

LEMMA NextCopies == Typed /\ Copies /\ [Next]_vars => Copies'
<1>. SUFFICES ASSUME Typed, Copies, [Next]_vars PROVE Copies'
  OBVIOUS
<1>. USE DEF LoopUnchanged, OutsideUnchanged, queues, tools, history
<1>1. ASSUME NEW n \in 1 .. MaxBatch, Prompt(n) PROVE Copies'
  <2>1. [k \in 1 .. n |-> User(nextUser + k - 1, "prompt")] \in Seq(Message)
    BY <1>1, PromptMessages, UserSequences
  <2>. QED BY <1>1, <2>1, StartCopies DEF Prompt
<1>2. CASE ContinueWithSteering \/ ContinueWithFollowUps \/ ContinueAsIs
  <2>1. /\ Taken(steeringQueue, config.steeringMode) \in Seq(Message)
        /\ Taken(followUpQueue, config.followUpMode) \in Seq(Message)
        /\ <<>> \in Seq(Message)
    BY Drained, UserSequences DEF Typed, TypeOK
  <2>. QED BY <1>2, <2>1, StartCopies
           DEF ContinueWithSteering, ContinueWithFollowUps, ContinueAsIs
<1>3. ASSUME NEW c \in Calls, ReportProgress(c) \/ ToolSettles(c) PROVE Copies'
  BY <1>3 DEF ReportProgress, ToolSettles, Copies
<1>4. CASE ListenerThrows \/ ProviderThrows \/ AfterToolCallThrows
  BY <1>4 DEF ListenerThrows, ProviderThrows, AfterToolCallThrows, Fail, Copies
<1>5. CASE Steer \/ FollowUp \/ ClearSteeringQueue \/ ClearFollowUpQueue \/ Abort
  BY <1>5 DEF Steer, FollowUp, ClearSteeringQueue, ClearFollowUpQueue, Abort, Copies
<1>6. CASE Reset
  BY <1>6 DEF Reset, Typed, TypeOK, Copies
<1>7. CASE RemoveFailedAnswer
  BY <1>7 DEF RemoveFailedAnswer, Copies
<1>8. CASE UNCHANGED vars
  BY <1>8 DEF vars, Copies
<1>. QED BY <1>1, <1>2, <1>3, <1>4, <1>5, <1>6, <1>7, <1>8, LoopCopies DEF Next

(* Whenever the model is asked, the loop's private context is the agent's  *)
(* transcript, in every mode and whatever users, tools and listeners do,   *)
(* unless reset() was called during the run.                               *)
THEOREM ModelSeesTranscript == Spec => []ContextIsTranscript
<1>1. Spec => [](Typed /\ Copies)
  BY InitTyped, NextTyped, InitCopies, NextCopies, PTL DEF Spec
<1>2. Copies => ContextIsTranscript
  BY DEF Copies, ContextIsTranscript, AtRequest
<1>. QED BY <1>1, <1>2, PTL

-----------------------------------------------------------------------------
(* Every message in one place. *)

(* No message occurs twice in s; none is both in s and in t. *)
NoRepeats(s) ==
    \A j, k \in 1 .. Len(s) :
        j < k => s[j].role # "user" \/ s[k].role # "user" \/ s[j].id # s[k].id
Apart(s, t) == Identities(s) \cap Identities(t) = {}

OnePlace ==
    /\ NoRepeats(messages) /\ NoRepeats(pending)
    /\ NoRepeats(steeringQueue) /\ NoRepeats(followUpQueue)
    /\ Apart(messages, pending) /\ Apart(messages, steeringQueue) /\ Apart(messages, followUpQueue)
    /\ Apart(pending, steeringQueue) /\ Apart(pending, followUpQueue)
    /\ Apart(steeringQueue, followUpQueue)
    /\ Identities(messages) \cup Identities(pending) \cup Identities(steeringQueue)
          \cup Identities(followUpQueue) = (1 .. nextUser - 1) \ gone
    /\ gone \subseteq 1 .. nextUser - 1

(* Order: messages of a kind were written in the order they stand. *)
Sent(m, n) == m.kind = n.kind /\ m.kind \in {"steer", "followUp"} => m.id < n.id
Ordered(s) == \A j, k \in 1 .. Len(s) : j < k => Sent(s[j], s[k])
Before(s, t) == \A j \in 1 .. Len(s), k \in 1 .. Len(t) : Sent(s[j], t[k])

InOrder ==
    /\ \A k \in 1 .. Len(steeringQueue) : steeringQueue[k].kind = "steer"
    /\ \A k \in 1 .. Len(followUpQueue) : followUpQueue[k].kind = "followUp"
    /\ Ordered(messages) /\ Ordered(pending) /\ Ordered(steeringQueue) /\ Ordered(followUpQueue)
    /\ Before(messages, pending) /\ Before(messages, steeringQueue) /\ Before(messages, followUpQueue)
    /\ Before(pending, steeringQueue) /\ Before(pending, followUpQueue)

(* s is a with b behind it. *)
Splits(s, a, b) ==
    /\ s \in Seq(Message) /\ a \in Seq(Message) /\ b \in Seq(Message)
    /\ Len(s) = Len(a) + Len(b)
    /\ \A k \in 1 .. Len(a) : s[k] = a[k]
    /\ \A k \in 1 .. Len(b) : s[Len(a) + k] = b[k]

LEMMA SplitAppend ==
    ASSUME NEW s \in Seq(Message), NEW m \in Message PROVE Splits(Append(s, m), s, <<m>>)
<1>1. <<m>> \in Seq(Message) /\ Len(<<m>>) = 1 /\ <<m>>[1] = m
  OBVIOUS
<1>2. /\ Append(s, m) \in Seq(Message) /\ Len(Append(s, m)) = Len(s) + 1
      /\ \A k \in 1 .. Len(s) : Append(s, m)[k] = s[k]
      /\ Append(s, m)[Len(s) + 1] = m
  OBVIOUS
<1>. QED BY <1>1, <1>2 DEF Splits

LEMMA SplitHead ==
    ASSUME NEW s \in Seq(Message), s # <<>> PROVE Splits(s, <<Head(s)>>, Tail(s))
<1>1. Head(s) \in Message /\ Head(s) = s[1]
  OBVIOUS
<1>2. /\ Tail(s) \in Seq(Message) /\ Len(s) = 1 + Len(Tail(s))
      /\ \A k \in 1 .. Len(Tail(s)) : Tail(s)[k] = s[1 + k]
  OBVIOUS
<1>3. <<Head(s)>> \in Seq(Message) /\ Len(<<Head(s)>>) = 1 /\ <<Head(s)>>[1] = s[1]
  BY <1>1
<1>. QED BY <1>2, <1>3 DEF Splits

LEMMA SplitLast ==
    ASSUME NEW s \in Seq(Message), s # <<>>
    PROVE  Splits(s, SubSeq(s, 1, Len(s) - 1), <<Last(s)>>)
<1>1. Len(s) \in Nat /\ Len(s) >= 1 /\ Last(s) \in Message /\ Last(s) = s[Len(s)]
  BY DEF Last
<1>2. ASSUME NEW n \in 0 .. Len(s)
      PROVE  /\ SubSeq(s, 1, n) \in Seq(Message) /\ Len(SubSeq(s, 1, n)) = n
             /\ \A k \in 1 .. n : SubSeq(s, 1, n)[k] = s[k]
  OBVIOUS
<1>3. <<Last(s)>> \in Seq(Message) /\ Len(<<Last(s)>>) = 1 /\ <<Last(s)>>[1] = s[Len(s)]
  BY <1>1
<1>4. Len(s) - 1 \in 0 .. Len(s)
  BY <1>1
<1>5. /\ SubSeq(s, 1, Len(s) - 1) \in Seq(Message) /\ Len(SubSeq(s, 1, Len(s) - 1)) = Len(s) - 1
      /\ \A k \in 1 .. Len(s) - 1 : SubSeq(s, 1, Len(s) - 1)[k] = s[k]
  BY <1>2, <1>4
<1>. QED BY <1>1, <1>3, <1>5 DEF Splits

LEMMA SplitQueue ==
    ASSUME NEW queue \in Seq(UserMessage), NEW mode
    PROVE  Splits(queue, Taken(queue, mode), Left(queue, mode))
BY Drained, UserSequences DEF Splits

LEMMA SplitIdentities ==
    ASSUME NEW s, NEW a, NEW b, Splits(s, a, b)
    PROVE  Identities(s) = Identities(a) \cup Identities(b)
<1>. USE DEF Splits
<1>1. \A k \in 1 .. Len(s) : (k \in 1 .. Len(a) /\ s[k] = a[k])
         \/ (k - Len(a) \in 1 .. Len(b) /\ s[k] = b[k - Len(a)])
  OBVIOUS
<1>2. \A k \in 1 .. Len(a) : k \in 1 .. Len(s)
  OBVIOUS
<1>3. \A k \in 1 .. Len(b) : Len(a) + k \in 1 .. Len(s)
  OBVIOUS
<1>4. Elements(s) \subseteq Elements(a) \cup Elements(b)
  BY <1>1, SMTT(30) DEF Elements
<1>5. Elements(a) \subseteq Elements(s) /\ Elements(b) \subseteq Elements(s)
  BY <1>2, <1>3 DEF Elements
<1>. QED BY <1>4, <1>5 DEF Identities

LEMMA SplitNoRepeats ==
    ASSUME NEW s, NEW a, NEW b, Splits(s, a, b)
    PROVE  NoRepeats(s) <=> NoRepeats(a) /\ NoRepeats(b) /\ Apart(a, b)
<1>. USE DEF Splits
<1>1. Apart(a, b) <=> \A j \in 1 .. Len(a), k \in 1 .. Len(b) :
         a[j].role # "user" \/ b[k].role # "user" \/ a[j].id # b[k].id
  <2>1. \A u : u \in Identities(a) <=> \E j \in 1 .. Len(a) : a[j].role = "user" /\ a[j].id = u
    BY IdentitiesOf
  <2>2. \A u : u \in Identities(b) <=> \E k \in 1 .. Len(b) : b[k].role = "user" /\ b[k].id = u
    BY IdentitiesOf
  <2>3. Apart(a, b) <=> \A u : ~(u \in Identities(a) /\ u \in Identities(b))
    BY DEF Apart
  <2>. HIDE DEF Splits
  <2>4. ASSUME Apart(a, b), NEW j \in 1 .. Len(a), NEW k \in 1 .. Len(b),
               a[j].role = "user", b[k].role = "user"
        PROVE  a[j].id # b[k].id
    <3>1. a[j].id \in Identities(a) /\ b[k].id \in Identities(b)
      BY <2>1, <2>2, <2>4
    <3>. QED BY <2>3, <2>4, <3>1
  <2>5. ASSUME ~Apart(a, b)
        PROVE  \E j \in 1 .. Len(a), k \in 1 .. Len(b) :
                  a[j].role = "user" /\ b[k].role = "user" /\ a[j].id = b[k].id
    <3>1. PICK u : u \in Identities(a) /\ u \in Identities(b)
      BY <2>3, <2>5
    <3>2. PICK j \in 1 .. Len(a) : a[j].role = "user" /\ a[j].id = u
      BY <2>1, <3>1
    <3>3. PICK k \in 1 .. Len(b) : b[k].role = "user" /\ b[k].id = u
      BY <2>2, <3>1
    <3>. QED BY <3>2, <3>3
  <2>. QED BY <2>4, <2>5
<1>2. ASSUME NoRepeats(s) PROVE NoRepeats(a) /\ NoRepeats(b)
  <2>1. \A j \in 1 .. Len(a) : j \in 1 .. Len(s) /\ s[j] = a[j]
    OBVIOUS
  <2>2. \A j, k \in 1 .. Len(b) :
           /\ Len(a) + j \in 1 .. Len(s) /\ Len(a) + k \in 1 .. Len(s)
           /\ s[Len(a) + j] = b[j] /\ s[Len(a) + k] = b[k]
           /\ j < k <=> Len(a) + j < Len(a) + k
    OBVIOUS
  <2>. HIDE DEF Splits
  <2>3. ASSUME NEW j \in 1 .. Len(b), NEW k \in 1 .. Len(b), j < k
        PROVE  b[j].role # "user" \/ b[k].role # "user" \/ b[j].id # b[k].id
    <3>1. /\ Len(a) + j \in 1 .. Len(s) /\ Len(a) + k \in 1 .. Len(s)
          /\ s[Len(a) + j] = b[j] /\ s[Len(a) + k] = b[k]
          /\ Len(a) + j < Len(a) + k
      BY <2>2, <2>3
    <3>2. \/ s[Len(a) + j].role # "user" \/ s[Len(a) + k].role # "user"
          \/ s[Len(a) + j].id # s[Len(a) + k].id
      BY <1>2, <3>1 DEF NoRepeats
    <3>. QED BY <3>1, <3>2
  <2>4. ASSUME NEW j \in 1 .. Len(a), NEW k \in 1 .. Len(a), j < k
        PROVE  a[j].role # "user" \/ a[k].role # "user" \/ a[j].id # a[k].id
    <3>1. s[j].role # "user" \/ s[k].role # "user" \/ s[j].id # s[k].id
      BY <1>2, <2>1, <2>4 DEF NoRepeats
    <3>. QED BY <2>1, <3>1
  <2>. QED BY <2>3, <2>4, Zenon DEF NoRepeats
<1>3. ASSUME NoRepeats(s) PROVE Apart(a, b)
  <2>1. \A j \in 1 .. Len(a), k \in 1 .. Len(b) :
           /\ j \in 1 .. Len(s) /\ Len(a) + k \in 1 .. Len(s) /\ j < Len(a) + k
           /\ s[j] = a[j] /\ s[Len(a) + k] = b[k]
    OBVIOUS
  <2>. QED BY <1>1, <1>3, <2>1 DEF NoRepeats
<1>4. ASSUME NoRepeats(a), NoRepeats(b), Apart(a, b) PROVE NoRepeats(s)
  <2>. SUFFICES ASSUME NEW j \in 1 .. Len(s), NEW k \in 1 .. Len(s), j < k
                PROVE  s[j].role # "user" \/ s[k].role # "user" \/ s[j].id # s[k].id
    BY DEF NoRepeats
  <2>1. CASE k <= Len(a)
    <3>1. j \in 1 .. Len(a) /\ k \in 1 .. Len(a) /\ s[j] = a[j] /\ s[k] = a[k]
      BY <2>1
    <3>. QED BY <1>4, <3>1 DEF NoRepeats
  <2>2. CASE Len(a) < j
    <3>1. /\ j - Len(a) \in 1 .. Len(b) /\ k - Len(a) \in 1 .. Len(b) /\ j - Len(a) < k - Len(a)
          /\ s[j] = b[j - Len(a)] /\ s[k] = b[k - Len(a)]
      BY <2>2, SMTT(30)
    <3>. HIDE DEF Splits
    <3>2. \/ b[j - Len(a)].role # "user" \/ b[k - Len(a)].role # "user"
          \/ b[j - Len(a)].id # b[k - Len(a)].id
      BY <1>4, <3>1 DEF NoRepeats
    <3>. QED BY <3>1, <3>2
  <2>3. CASE j <= Len(a) /\ Len(a) < k
    <3>1. /\ j \in 1 .. Len(a) /\ k - Len(a) \in 1 .. Len(b)
          /\ s[j] = a[j] /\ s[k] = b[k - Len(a)]
      BY <2>3, SMTT(30)
    <3>. QED BY <1>1, <1>4, <3>1
  <2>4. j \in Int /\ k \in Int /\ Len(a) \in Int
    OBVIOUS
  <2>. QED BY <2>1, <2>2, <2>3, <2>4
<1>. QED BY <1>2, <1>3, <1>4

LEMMA SplitOrdered ==
    ASSUME NEW s, NEW a, NEW b, Splits(s, a, b)
    PROVE  Ordered(s) <=> Ordered(a) /\ Ordered(b) /\ Before(a, b)
<1>. USE DEF Splits
<1>1. ASSUME Ordered(s) PROVE Ordered(a) /\ Ordered(b)
  <2>1. \A j \in 1 .. Len(a) : j \in 1 .. Len(s) /\ s[j] = a[j]
    OBVIOUS
  <2>2. \A j, k \in 1 .. Len(b) :
           /\ Len(a) + j \in 1 .. Len(s) /\ Len(a) + k \in 1 .. Len(s)
           /\ s[Len(a) + j] = b[j] /\ s[Len(a) + k] = b[k]
           /\ j < k <=> Len(a) + j < Len(a) + k
    OBVIOUS
  <2>. HIDE DEF Splits
  <2>3. ASSUME NEW j \in 1 .. Len(a), NEW k \in 1 .. Len(a), j < k PROVE Sent(a[j], a[k])
    <3>1. Sent(s[j], s[k])
      BY <1>1, <2>1, <2>3 DEF Ordered
    <3>. QED BY <2>1, <3>1
  <2>4. ASSUME NEW j \in 1 .. Len(b), NEW k \in 1 .. Len(b), j < k PROVE Sent(b[j], b[k])
    <3>1. Sent(s[Len(a) + j], s[Len(a) + k])
      BY <1>1, <2>2, <2>4 DEF Ordered
    <3>. QED BY <2>2, <2>4, <3>1
  <2>. QED BY <2>3, <2>4, Zenon DEF Ordered
<1>2. ASSUME Ordered(s) PROVE Before(a, b)
  <2>1. \A j \in 1 .. Len(a), k \in 1 .. Len(b) :
           /\ j \in 1 .. Len(s) /\ Len(a) + k \in 1 .. Len(s) /\ j < Len(a) + k
           /\ s[j] = a[j] /\ s[Len(a) + k] = b[k]
    OBVIOUS
  <2>. QED BY <1>2, <2>1 DEF Ordered, Before
<1>3. ASSUME Ordered(a), Ordered(b), Before(a, b) PROVE Ordered(s)
  <2>. SUFFICES ASSUME NEW j \in 1 .. Len(s), NEW k \in 1 .. Len(s), j < k
                PROVE  Sent(s[j], s[k])
    BY DEF Ordered
  <2>1. CASE k <= Len(a)
    <3>1. j \in 1 .. Len(a) /\ k \in 1 .. Len(a) /\ s[j] = a[j] /\ s[k] = a[k]
      BY <2>1
    <3>. QED BY <1>3, <3>1 DEF Ordered
  <2>2. CASE Len(a) < j
    <3>1. /\ j - Len(a) \in 1 .. Len(b) /\ k - Len(a) \in 1 .. Len(b) /\ j - Len(a) < k - Len(a)
          /\ s[j] = b[j - Len(a)] /\ s[k] = b[k - Len(a)]
      BY <2>2, SMTT(30)
    <3>. QED BY <1>3, <3>1 DEF Ordered
  <2>3. CASE j <= Len(a) /\ Len(a) < k
    <3>1. /\ j \in 1 .. Len(a) /\ k - Len(a) \in 1 .. Len(b)
          /\ s[j] = a[j] /\ s[k] = b[k - Len(a)]
      BY <2>3, SMTT(30)
    <3>. QED BY <1>3, <3>1 DEF Before
  <2>4. j \in Int /\ k \in Int /\ Len(a) \in Int
    OBVIOUS
  <2>. QED BY <2>1, <2>2, <2>3, <2>4
<1>. QED BY <1>1, <1>2, <1>3

LEMMA SplitBefore ==
    ASSUME NEW s, NEW a, NEW b, Splits(s, a, b), NEW t \in Seq(Message)
    PROVE  /\ Before(s, t) <=> Before(a, t) /\ Before(b, t)
           /\ Before(t, s) <=> Before(t, a) /\ Before(t, b)
<1>1. \A k \in 1 .. Len(s) : (k \in 1 .. Len(a) /\ s[k] = a[k])
         \/ (k - Len(a) \in 1 .. Len(b) /\ s[k] = b[k - Len(a)])
  BY DEF Splits
<1>2. \A k \in 1 .. Len(a) : k \in 1 .. Len(s) /\ s[k] = a[k]
  BY DEF Splits
<1>3. \A k \in 1 .. Len(b) : Len(a) + k \in 1 .. Len(s) /\ s[Len(a) + k] = b[k]
  BY DEF Splits
<1>4. Before(s, t) => Before(a, t) /\ Before(b, t)
  BY <1>2, <1>3 DEF Before
<1>5. Before(a, t) /\ Before(b, t) => Before(s, t)
  BY <1>1 DEF Before
<1>6. Before(t, s) => Before(t, a) /\ Before(t, b)
  BY <1>2, <1>3 DEF Before
<1>7. Before(t, a) /\ Before(t, b) => Before(t, s)
  BY <1>1 DEF Before
<1>. QED BY <1>4, <1>5, <1>6, <1>7

LEMMA OneMessage ==
    ASSUME NEW m \in Message
    PROVE  /\ <<m>> \in Seq(Message) /\ NoRepeats(<<m>>) /\ Ordered(<<m>>)
           /\ Identities(<<m>>) = IF m.role = "user" THEN {m.id} ELSE {}
           /\ \A t : Before(<<m>>, t) <=> \A k \in 1 .. Len(t) : Sent(m, t[k])
           /\ \A t : Before(t, <<m>>) <=> \A k \in 1 .. Len(t) : Sent(t[k], m)
<1>1. <<m>> \in Seq(Message) /\ Len(<<m>>) = 1 /\ <<m>>[1] = m /\ 1 .. 1 = {1}
  OBVIOUS
<1>2. Elements(<<m>>) = {m}
  BY <1>1 DEF Elements
<1>3. NoRepeats(<<m>>) /\ Ordered(<<m>>)
  BY <1>1 DEF NoRepeats, Ordered
<1>4. /\ \A t : Before(<<m>>, t) <=> \A k \in 1 .. Len(t) : Sent(m, t[k])
      /\ \A t : Before(t, <<m>>) <=> \A k \in 1 .. Len(t) : Sent(t[k], m)
  BY <1>1 DEF Before
<1>. QED BY <1>1, <1>2, <1>3, <1>4 DEF Identities

LEMMA NoMessage ==
    /\ <<>> \in Seq(Message) /\ NoRepeats(<<>>) /\ Ordered(<<>>) /\ Identities(<<>>) = {}
    /\ \A t : Before(<<>>, t) /\ Before(t, <<>>)
<1>1. <<>> \in Seq(Message) /\ Len(<<>>) = 0 /\ 1 .. 0 = {}
  OBVIOUS
<1>. QED BY <1>1 DEF NoRepeats, Ordered, Before, Identities, Elements

(* What a step may do to the places a message can be in: nothing; append a *)
(* message that is no user's; deliver one in hand; take from a queue to    *)
(* have it in hand; or what the named operations do.                       *)
Answers ==
    /\ \E m \in Message : m.role # "user" /\ messages' = Append(messages, m)
    /\ UNCHANGED <<pending, steeringQueue, followUpQueue, nextUser, gone>>
Delivers ==
    /\ pending # <<>> /\ messages' = Append(messages, Head(pending)) /\ pending' = Tail(pending)
    /\ UNCHANGED <<steeringQueue, followUpQueue, nextUser, gone>>
TakesSteering ==
    /\ pending = <<>> /\ pending' = Taken(steeringQueue, config.steeringMode)
    /\ steeringQueue' = Left(steeringQueue, config.steeringMode)
    /\ UNCHANGED <<messages, followUpQueue, nextUser, gone>>
TakesFollowUps ==
    /\ pending = <<>> /\ pending' = Taken(followUpQueue, config.followUpMode)
    /\ followUpQueue' = Left(followUpQueue, config.followUpMode)
    /\ UNCHANGED <<messages, steeringQueue, nextUser, gone>>
Prompts(n) ==
    /\ pending = <<>> /\ nextUser + n - 1 \in Users /\ nextUser' = nextUser + n
    /\ pending' = [k \in 1 .. n |-> User(nextUser + k - 1, "prompt")]
    /\ UNCHANGED <<messages, steeringQueue, followUpQueue, gone>>

Effect ==
    \/ UNCHANGED <<messages, pending, steeringQueue, followUpQueue, nextUser, gone>>
    \/ Answers \/ Delivers \/ TakesSteering \/ TakesFollowUps
    \/ \E n \in 1 .. MaxBatch : Prompts(n)
    \/ Steer \/ FollowUp \/ ClearSteeringQueue \/ ClearFollowUpQueue \/ Reset
    \/ RemoveFailedAnswer \/ HandleRunFailure

LEMMA LoopEffect == ASSUME Typed, LoopStep PROVE Effect
<1>. USE DEF LoopUnchanged, queues, tools, history
<1>0. pc = "prompting" => pending # <<>>
  BY DEF Typed, Hands
<1>1. CASE EmitPrompt
  BY <1>0, <1>1 DEF EmitPrompt, Effect, Delivers
<1>2. CASE PollBeforeFirstTurn
  <2>1. pending = <<>>
    BY <1>2 DEF PollBeforeFirstTurn, Typed, Hands
  <2>. QED BY <1>2, <2>1 DEF PollBeforeFirstTurn, Effect, TakesSteering
<1>3. CASE InjectPending
  BY <1>3 DEF InjectPending, Effect, Delivers
<1>4. CASE Request
  BY <1>4 DEF Request, AtRequest, Effect
<1>5. ASSUME NEW stop \in Stops, NEW n \in 0 .. MaxBatch, StreamEnds(stop, n) PROVE Effect
  <2>. DEFINE m == Answer([k \in 1 .. n |-> nextCall + k - 1], stop)
  <2>1. m \in Message
    BY <1>5, AnswerTyped
  <2>2. m.role # "user"
    BY DEF Answer
  <2>3. /\ messages' = Append(messages, m)
        /\ UNCHANGED <<pending, steeringQueue, followUpQueue, nextUser, gone>>
    BY <1>5 DEF StreamEnds
  <2>. HIDE DEF m
  <2>. QED BY <2>1, <2>2, <2>3 DEF Effect, Answers
<1>6. ASSUME NEW c \in Calls, Emit(ToolResult(c)),
             UNCHANGED <<pending, steeringQueue, followUpQueue, nextUser, gone>>
      PROVE  Effect
  <2>1. ToolResult(c) \in Message /\ ToolResult(c).role # "user"
    BY MessageTypes DEF ToolResult
  <2>. QED BY <1>6, <2>1 DEF Emit, Effect, Answers
<1>7. CASE AnswerAtOnce
  <2>1. Head(todo) \in Calls
    BY <1>7 DEF AnswerAtOnce, Typed, TypeOK
  <2>. QED BY <1>6, <1>7, <2>1 DEF AnswerAtOnce
<1>8. CASE PrepareToolCall
  BY <1>8 DEF PrepareToolCall, Effect
<1>9. ASSUME NEW c \in Calls, FinalizeToolCall(c) PROVE Effect
  BY <1>6, <1>9 DEF FinalizeToolCall
<1>10. CASE EndTurn
  BY <1>10 DEF EndTurn, Effect
<1>11. CASE PollSteering
  BY <1>11 DEF PollSteering, Effect, TakesSteering, Typed, Hands
<1>12. CASE PollFollowUps
  BY <1>12 DEF PollFollowUps, Effect, TakesFollowUps, Typed, Hands
<1>13. CASE FinishRun
  BY <1>13 DEF FinishRun, Effect
<1>14. CASE ExecutionRejected
  BY <1>14 DEF ExecutionRejected, Fail, Effect
<1>. QED BY <1>1, <1>2, <1>3, <1>4, <1>5, <1>7, <1>8, <1>9, <1>10, <1>11, <1>12, <1>13,
            <1>14 DEF LoopStep, Effect

LEMMA NextEffect == ASSUME Typed, [Next]_vars PROVE Effect
<1>. USE DEF LoopUnchanged, OutsideUnchanged, queues, tools, history
<1>0. run = "none" => pending = <<>>
  BY DEF Typed, TypeOK, Hands
<1>1. ASSUME NEW n \in 1 .. MaxBatch, Prompt(n) PROVE Effect
  BY <1>0, <1>1 DEF Prompt, StartRun, Prompts, Effect
<1>2. CASE ContinueWithSteering
  BY <1>0, <1>2 DEF ContinueWithSteering, StartRun, TakesSteering, Effect
<1>3. CASE ContinueWithFollowUps
  BY <1>0, <1>3 DEF ContinueWithFollowUps, StartRun, TakesFollowUps, Effect
<1>4. CASE ContinueAsIs
  BY <1>0, <1>4 DEF ContinueAsIs, StartRun, Effect
<1>5. ASSUME NEW c \in Calls, ReportProgress(c) \/ ToolSettles(c) PROVE Effect
  BY <1>5 DEF ReportProgress, ToolSettles, Effect
<1>6. CASE ListenerThrows \/ ProviderThrows \/ AfterToolCallThrows
  BY <1>6 DEF ListenerThrows, ProviderThrows, AfterToolCallThrows, Fail, Effect
<1>7. CASE Abort
  BY <1>7 DEF Abort, Effect
<1>8. CASE UNCHANGED vars
  BY <1>8 DEF vars, Effect
<1>. QED BY <1>1, <1>2, <1>3, <1>4, <1>5, <1>6, <1>7, <1>8, LoopEffect DEF Next, Effect

LEMMA NotUsers ==
    \A m \in Message :
        /\ m.kind \in {"steer", "followUp"} => m.role = "user"
        /\ m.kind = "error" => m.role # "user"
BY DEF Message, Kinds, Stops

LEMMA PlacesTyped ==
    ASSUME Typed
    PROVE  /\ messages \in Seq(Message) /\ pending \in Seq(Message)
           /\ steeringQueue \in Seq(Message) /\ followUpQueue \in Seq(Message)
           /\ steeringQueue \in Seq(UserMessage) /\ followUpQueue \in Seq(UserMessage)
           /\ nextUser \in Nat /\ nextUser >= 1
BY UserSequences, AgentBounds DEF Typed, TypeOK

(* The messages of a prompt are all new. *)
LEMMA PromptsAreNew ==
    ASSUME Typed, NEW n \in 1 .. MaxBatch, Prompts(n)
    PROVE  /\ pending' \in Seq(Message) /\ NoRepeats(pending')
           /\ Identities(pending') = nextUser .. nextUser + n - 1
           /\ \A k \in 1 .. Len(pending') : pending'[k].kind = "prompt"
<1>1. n \in Nat /\ n >= 1 /\ nextUser \in Nat /\ nextUser >= 1 /\ nextUser + n - 1 <= MaxUser
  BY AgentBounds DEF Typed, TypeOK, Prompts, Users
<1>2. \A k \in 1 .. n : User(nextUser + k - 1, "prompt") \in UserMessage
  BY <1>1, AgentBounds, MessageTypes DEF Users, Kinds
<1>. DEFINE ps == [k \in 1 .. n |-> User(nextUser + k - 1, "prompt")]
<1>3. ps \in Seq(UserMessage) /\ Len(ps) = n
  BY <1>1, <1>2
<1>4. \A k \in 1 .. n : ps[k].role = "user" /\ ps[k].id = nextUser + k - 1 /\ ps[k].kind = "prompt"
  BY DEF User
<1>5. pending' = ps
  BY DEF Prompts
<1>. HIDE DEF ps
<1>6. ps \in Seq(Message)
  BY <1>3, UserSequences
<1>7. NoRepeats(ps)
  BY <1>1, <1>3, <1>4 DEF NoRepeats
<1>8. \A u : u \in Identities(ps) <=> \E k \in 1 .. n : nextUser + k - 1 = u
  BY <1>3, <1>4, <1>6, IdentitiesOf
<1>9. ASSUME NEW u \in nextUser .. nextUser + n - 1 PROVE u \in Identities(ps)
  <2>1. u - nextUser + 1 \in 1 .. n /\ nextUser + (u - nextUser + 1) - 1 = u
    BY <1>1
  <2>. QED BY <1>8, <2>1
<1>10. ASSUME NEW u \in Identities(ps) PROVE u \in nextUser .. nextUser + n - 1
  BY <1>1, <1>8
<1>. QED BY <1>3, <1>4, <1>5, <1>6, <1>7, <1>9, <1>10

LEMMA InitOnePlace == Init => OnePlace
BY NoMessage DEF Init, OnePlace, Apart

(* A message goes from the end of b, or from nowhere, to the end of a. *)
LEMMA AppendApart ==
    ASSUME NEW s \in Seq(Message), NEW m \in Message, NoRepeats(s),
           m.role = "user" => m.id \notin Identities(s)
    PROVE  /\ NoRepeats(Append(s, m))
           /\ Identities(Append(s, m)) =
                 Identities(s) \cup IF m.role = "user" THEN {m.id} ELSE {}
<1>1. Splits(Append(s, m), s, <<m>>)
  BY SplitAppend
<1>2. NoRepeats(<<m>>) /\ Identities(<<m>>) = IF m.role = "user" THEN {m.id} ELSE {}
  BY OneMessage
<1>3. Apart(s, <<m>>)
  BY <1>2 DEF Apart
<1>4. NoRepeats(Append(s, m))
  BY <1>1, <1>2, <1>3, SplitNoRepeats
<1>5. Identities(Append(s, m)) = Identities(s) \cup Identities(<<m>>)
  BY <1>1, SplitIdentities
<1>. QED BY <1>2, <1>4, <1>5

LEMMA EffectOnePlace == ASSUME Typed, OnePlace, Effect PROVE OnePlace'
<1>0. /\ messages \in Seq(Message) /\ pending \in Seq(Message)
      /\ steeringQueue \in Seq(Message) /\ followUpQueue \in Seq(Message)
      /\ steeringQueue \in Seq(UserMessage) /\ followUpQueue \in Seq(UserMessage)
      /\ nextUser \in Nat /\ nextUser >= 1
  BY PlacesTyped
<1>. USE DEF OnePlace, Apart
<1>1. CASE UNCHANGED <<messages, pending, steeringQueue, followUpQueue, nextUser, gone>>
  BY <1>1
<1>2. CASE Answers
  <2>1. PICK m \in Message : m.role # "user" /\ messages' = Append(messages, m)
    BY <1>2 DEF Answers
  <2>2. NoRepeats(messages') /\ Identities(messages') = Identities(messages)
    BY <1>0, <2>1, AppendApart
  <2>. QED BY <1>2, <2>2 DEF Answers
<1>3. CASE Delivers
  <2>. DEFINE h == Head(pending)
  <2>1. /\ pending # <<>> /\ messages' = Append(messages, h) /\ pending' = Tail(pending)
        /\ UNCHANGED <<steeringQueue, followUpQueue, nextUser, gone>>
    BY <1>3 DEF Delivers
  <2>2. Splits(pending, <<h>>, pending')
    BY <1>0, <2>1, SplitHead
  <2>3. h \in Message
    BY <1>0, <2>1
  <2>4. Splits(messages', messages, <<h>>)
    BY <1>0, <2>1, <2>3, SplitAppend
  <2>. HIDE DEF h
  <2>5. Identities(pending) = Identities(<<h>>) \cup Identities(pending')
    BY <2>2, SplitIdentities
  <2>6. Identities(messages') = Identities(messages) \cup Identities(<<h>>)
    BY <2>4, SplitIdentities
  <2>7. NoRepeats(pending') /\ NoRepeats(<<h>>) /\ Apart(<<h>>, pending')
    BY <2>2, SplitNoRepeats
  <2>8. NoRepeats(messages')
    BY <2>4, <2>5, <2>7, SplitNoRepeats
  <2>. QED BY <2>1, <2>5, <2>6, <2>7, <2>8
<1>4. CASE TakesSteering
  <2>1. /\ pending = <<>> /\ Splits(steeringQueue, pending', steeringQueue')
        /\ UNCHANGED <<messages, followUpQueue, nextUser, gone>>
    BY <1>0, <1>4, SplitQueue DEF TakesSteering
  <2>2. Identities(steeringQueue) = Identities(pending') \cup Identities(steeringQueue')
    BY <2>1, SplitIdentities
  <2>3. NoRepeats(pending') /\ NoRepeats(steeringQueue') /\ Apart(pending', steeringQueue')
    BY <2>1, SplitNoRepeats
  <2>4. Identities(pending) = {}
    BY <2>1, NoMessage
  <2>. QED BY <2>1, <2>2, <2>3, <2>4
<1>5. CASE TakesFollowUps
  <2>1. /\ pending = <<>> /\ Splits(followUpQueue, pending', followUpQueue')
        /\ UNCHANGED <<messages, steeringQueue, nextUser, gone>>
    BY <1>0, <1>5, SplitQueue DEF TakesFollowUps
  <2>2. Identities(followUpQueue) = Identities(pending') \cup Identities(followUpQueue')
    BY <2>1, SplitIdentities
  <2>3. NoRepeats(pending') /\ NoRepeats(followUpQueue') /\ Apart(pending', followUpQueue')
    BY <2>1, SplitNoRepeats
  <2>4. Identities(pending) = {}
    BY <2>1, NoMessage
  <2>. QED BY <2>1, <2>2, <2>3, <2>4
<1>6. ASSUME NEW n \in 1 .. MaxBatch, Prompts(n) PROVE OnePlace'
  <2>1. NoRepeats(pending') /\ Identities(pending') = nextUser .. nextUser + n - 1
    BY <1>6, PromptsAreNew
  <2>2. /\ pending = <<>> /\ nextUser' = nextUser + n
        /\ UNCHANGED <<messages, steeringQueue, followUpQueue, gone>>
    BY <1>6 DEF Prompts
  <2>3. Identities(pending) = {}
    BY <2>2, NoMessage
  <2>4. n \in Nat /\ n >= 1
    BY AgentBounds
  <2>5. /\ 1 .. nextUser' - 1 = (1 .. nextUser - 1) \cup (nextUser .. nextUser + n - 1)
        /\ (1 .. nextUser - 1) \cap (nextUser .. nextUser + n - 1) = {}
    BY <1>0, <2>2, <2>4
  <2>. QED BY <2>1, <2>2, <2>3, <2>5
<1>7. CASE Steer
  <2>1. /\ nextUser \in Users /\ nextUser' = nextUser + 1
        /\ steeringQueue' = Append(steeringQueue, User(nextUser, "steer"))
        /\ UNCHANGED <<messages, pending, followUpQueue, gone>>
    BY <1>7 DEF Steer, OutsideUnchanged
  <2>2. /\ User(nextUser, "steer") \in Message /\ User(nextUser, "steer").role = "user"
        /\ User(nextUser, "steer").id = nextUser
    BY <2>1, MessageTypes DEF User, Kinds
  <2>3. nextUser \notin 1 .. nextUser - 1 /\ 1 .. nextUser' - 1 = (1 .. nextUser - 1) \cup {nextUser}
    BY <1>0, <2>1
  <2>4. NoRepeats(steeringQueue') /\ Identities(steeringQueue') = Identities(steeringQueue) \cup {nextUser}
    BY <1>0, <2>1, <2>2, <2>3, AppendApart
  <2>. QED BY <2>1, <2>3, <2>4
<1>8. CASE FollowUp
  <2>1. /\ nextUser \in Users /\ nextUser' = nextUser + 1
        /\ followUpQueue' = Append(followUpQueue, User(nextUser, "followUp"))
        /\ UNCHANGED <<messages, pending, steeringQueue, gone>>
    BY <1>8 DEF FollowUp, OutsideUnchanged
  <2>2. /\ User(nextUser, "followUp") \in Message /\ User(nextUser, "followUp").role = "user"
        /\ User(nextUser, "followUp").id = nextUser
    BY <2>1, MessageTypes DEF User, Kinds
  <2>3. nextUser \notin 1 .. nextUser - 1 /\ 1 .. nextUser' - 1 = (1 .. nextUser - 1) \cup {nextUser}
    BY <1>0, <2>1
  <2>4. NoRepeats(followUpQueue') /\ Identities(followUpQueue') = Identities(followUpQueue) \cup {nextUser}
    BY <1>0, <2>1, <2>2, <2>3, AppendApart
  <2>. QED BY <2>1, <2>3, <2>4
<1>9. CASE ClearSteeringQueue \/ ClearFollowUpQueue \/ Reset
  BY <1>9, NoMessage DEF ClearSteeringQueue, ClearFollowUpQueue, Reset, OutsideUnchanged
<1>10. CASE RemoveFailedAnswer
  <2>1. /\ messages # <<>> /\ Last(messages).kind = "error"
        /\ messages' = SubSeq(messages, 1, Len(messages) - 1)
        /\ UNCHANGED <<pending, steeringQueue, followUpQueue, nextUser, gone>>
    BY <1>10 DEF RemoveFailedAnswer, OutsideUnchanged, queues, history
  <2>2. Splits(messages, messages', <<Last(messages)>>)
    BY <1>0, <2>1, SplitLast
  <2>3. Identities(<<Last(messages)>>) = {}
    <3>1. Last(messages) \in Message
      BY <1>0, <2>1 DEF Last
    <3>. QED BY <2>1, <3>1, NotUsers, OneMessage
  <2>4. NoRepeats(messages') /\ Identities(messages') = Identities(messages)
    <3>1. NoRepeats(messages')
      BY <2>2, SplitNoRepeats
    <3>2. Identities(messages) = Identities(messages') \cup Identities(<<Last(messages)>>)
      BY <2>2, SplitIdentities
    <3>. QED BY <2>3, <3>1, <3>2
  <2>. QED BY <2>1, <2>4
<1>11. CASE HandleRunFailure
  <2>1. /\ messages' = Append(messages, Failure) /\ pending' = <<>>
        /\ gone' = gone \cup Identities(pending)
        /\ UNCHANGED <<steeringQueue, followUpQueue, nextUser>>
    BY <1>11 DEF HandleRunFailure, queues
  <2>2. Failure \in Message /\ Failure.role # "user"
    BY MessageTypes DEF Failure, Answer
  <2>3. NoRepeats(messages') /\ Identities(messages') = Identities(messages)
    BY <1>0, <2>1, <2>2, AppendApart
  <2>. QED BY <2>1, <2>3, NoMessage
<1>. HIDE DEF OnePlace
<1>. QED BY <1>1, <1>2, <1>3, <1>4, <1>5, <1>6, <1>7, <1>8, <1>9, <1>10, <1>11 DEF Effect

LEMMA AlwaysOnePlace == Spec => [](Typed /\ OnePlace)
<1>1. Typed /\ OnePlace /\ [Next]_vars => OnePlace'
  BY NextEffect, EffectOnePlace
<1>. QED BY <1>1, InitTyped, NextTyped, InitOnePlace, PTL DEF Spec

(* How often a message is in a sequence without repeats. *)
LEMMA CountedOnce ==
    ASSUME NEW s \in Seq(Message), NoRepeats(s), NEW u
    PROVE  Cardinality({k \in 1 .. Len(s) : s[k].role = "user" /\ s[k].id = u})
              = IF u \in Identities(s) THEN 1 ELSE 0
<1>. DEFINE K == {k \in 1 .. Len(s) : s[k].role = "user" /\ s[k].id = u}
<1>1. CASE u \notin Identities(s)
  <2>1. K = {}
    BY <1>1, IdentitiesOf
  <2>. QED BY <1>1, <2>1, FS_EmptySet
<1>2. CASE u \in Identities(s)
  <2>1. PICK k \in 1 .. Len(s) : s[k].role = "user" /\ s[k].id = u
    BY <1>2, IdentitiesOf
  <2>2. ASSUME NEW j \in K PROVE j = k
    <3>1. j \in Int /\ k \in Int /\ ~(j < k) /\ ~(k < j)
      BY <2>1 DEF NoRepeats
    <3>. QED BY <3>1
  <2>3. K = {k}
    BY <2>1, <2>2
  <2>. QED BY <1>2, <2>3, FS_Singleton
<1>. QED BY <1>1, <1>2

(* Every message a user wrote is in exactly one of the queues, the loop's  *)
(* hands and the transcript, until it is cleared or its run fails.         *)
THEOREM EveryMessageOnce == Spec => []MessagesAccounted
<1>1. ASSUME Typed, OnePlace PROVE MessagesAccounted
  <2>. SUFFICES ASSUME NEW u \in 1 .. nextUser - 1
                PROVE  Occurrences(u) = IF u \in gone THEN 0 ELSE 1
    BY DEF MessagesAccounted
  <2>1. Occurrences(u) =
           (IF u \in Identities(messages) THEN 1 ELSE 0) + (IF u \in Identities(pending) THEN 1 ELSE 0)
           + (IF u \in Identities(steeringQueue) THEN 1 ELSE 0)
           + (IF u \in Identities(followUpQueue) THEN 1 ELSE 0)
    BY <1>1, PlacesTyped, CountedOnce, SMTT(30) DEF Occurrences, OnePlace
  <2>. QED BY <1>1, <2>1 DEF OnePlace, Apart
<1>. QED BY <1>1, AlwaysOnePlace, PTL

-----------------------------------------------------------------------------
(* The order of the messages. *)

LEMMA InitInOrder == Init => InOrder
BY NoMessage DEF Init, InOrder

LEMMA SplitPlaces ==
    ASSUME NEW s, NEW a, NEW b, Splits(s, a, b)
    PROVE  /\ \A k \in 1 .. Len(a) : k \in 1 .. Len(s) /\ s[k] = a[k]
           /\ \A k \in 1 .. Len(b) : Len(a) + k \in 1 .. Len(s) /\ s[Len(a) + k] = b[k]
BY DEF Splits

LEMMA AppendOrdered ==
    ASSUME NEW s \in Seq(Message), NEW m \in Message, Ordered(s), Before(s, <<m>>)
    PROVE  Ordered(Append(s, m))
<1>1. Splits(Append(s, m), s, <<m>>)
  BY SplitAppend
<1>. QED BY <1>1, OneMessage, SplitOrdered

LEMMA AppendBefore ==
    ASSUME NEW s \in Seq(Message), NEW m \in Message, NEW t \in Seq(Message)
    PROVE  /\ Before(s, t) /\ Before(<<m>>, t) => Before(Append(s, m), t)
           /\ Before(t, s) /\ Before(t, <<m>>) => Before(t, Append(s, m))
<1>1. Splits(Append(s, m), s, <<m>>)
  BY SplitAppend
<1>. QED BY <1>1, SplitBefore

(* An answer, a result or a failure may stand anywhere. *)
LEMMA Unordered ==
    ASSUME NEW m \in Message, m.kind \notin {"steer", "followUp"}, NEW t \in Seq(Message)
    PROVE  Before(<<m>>, t) /\ Before(t, <<m>>)
<1>1. \A k \in 1 .. Len(t) : Sent(m, t[k]) /\ Sent(t[k], m)
  BY DEF Sent
<1>. QED BY <1>1, OneMessage

(* A new message comes after all that are there. *)
LEMMA NewestLast ==
    ASSUME Typed, OnePlace, NEW s \in Seq(Message), NEW m \in Message, m.id = nextUser,
           Identities(s) \subseteq 1 .. nextUser - 1
    PROVE  Before(s, <<m>>)
<1>1. ASSUME NEW k \in 1 .. Len(s) PROVE Sent(s[k], m)
  <2>. SUFFICES ASSUME s[k].kind \in {"steer", "followUp"} PROVE s[k].id < nextUser
    BY DEF Sent
  <2>1. s[k].role = "user"
    BY NotUsers
  <2>2. s[k].id \in Identities(s)
    BY <2>1, IdentitiesOf
  <2>. QED BY <2>2, PlacesTyped
<1>. QED BY <1>1, OneMessage

LEMMA EffectInOrder == ASSUME Typed, OnePlace, InOrder, Effect PROVE InOrder'
<1>0. /\ messages \in Seq(Message) /\ pending \in Seq(Message)
      /\ steeringQueue \in Seq(Message) /\ followUpQueue \in Seq(Message)
      /\ steeringQueue \in Seq(UserMessage) /\ followUpQueue \in Seq(UserMessage)
      /\ nextUser \in Nat /\ nextUser >= 1
  BY PlacesTyped
<1>. USE DEF InOrder
<1>1. CASE UNCHANGED <<messages, pending, steeringQueue, followUpQueue, nextUser, gone>>
  BY <1>1
<1>a. ASSUME NEW m \in Message, m.kind \notin {"steer", "followUp"},
             messages' = Append(messages, m)
      PROVE  /\ Ordered(messages') /\ Before(messages', pending)
             /\ Before(messages', steeringQueue) /\ Before(messages', followUpQueue)
  <2>1. /\ Before(messages, <<m>>) /\ Before(<<m>>, pending)
        /\ Before(<<m>>, steeringQueue) /\ Before(<<m>>, followUpQueue)
    BY <1>0, <1>a, Unordered
  <2>. QED BY <1>0, <1>a, <2>1, AppendOrdered, AppendBefore
<1>2. CASE Answers
  <2>1. PICK m \in Message : m.role # "user" /\ messages' = Append(messages, m)
    BY <1>2 DEF Answers
  <2>2. m.kind \notin {"steer", "followUp"}
    BY <2>1, NotUsers
  <2>. QED BY <1>2, <1>a, <2>1, <2>2 DEF Answers
<1>3. CASE Delivers
  <2>. DEFINE h == Head(pending)
  <2>1. /\ pending # <<>> /\ messages' = Append(messages, h) /\ pending' = Tail(pending)
        /\ UNCHANGED <<steeringQueue, followUpQueue, nextUser, gone>>
    BY <1>3 DEF Delivers
  <2>2. Splits(pending, <<h>>, pending')
    BY <1>0, <2>1, SplitHead
  <2>3. h \in Message /\ pending' \in Seq(Message)
    BY <1>0, <2>1
  <2>. HIDE DEF h
  <2>4. Before(<<h>>, steeringQueue) /\ Before(pending', steeringQueue)
    BY <1>0, <2>2, SplitBefore
  <2>5. Before(<<h>>, followUpQueue) /\ Before(pending', followUpQueue)
    BY <1>0, <2>2, SplitBefore
  <2>6. Before(messages, <<h>>) /\ Before(messages, pending')
    BY <1>0, <2>2, SplitBefore
  <2>7. Ordered(pending') /\ Before(<<h>>, pending')
    BY <2>2, SplitOrdered
  <2>8. Ordered(messages')
    BY <1>0, <2>1, <2>3, <2>6, AppendOrdered
  <2>9. /\ Before(messages', pending') /\ Before(messages', steeringQueue)
        /\ Before(messages', followUpQueue)
    BY <1>0, <2>1, <2>3, <2>4, <2>5, <2>6, <2>7, AppendBefore
  <2>. QED BY <2>1, <2>4, <2>5, <2>7, <2>8, <2>9
<1>4. CASE TakesSteering
  <2>1. /\ Splits(steeringQueue, pending', steeringQueue')
        /\ UNCHANGED <<messages, followUpQueue, nextUser, gone>>
    BY <1>0, <1>4, SplitQueue DEF TakesSteering
  <2>2. /\ \A k \in 1 .. Len(pending') : pending'[k].kind = "steer"
        /\ \A k \in 1 .. Len(steeringQueue') : steeringQueue'[k].kind = "steer"
    BY <2>1, SplitPlaces
  <2>3. Ordered(pending') /\ Ordered(steeringQueue') /\ Before(pending', steeringQueue')
    BY <2>1, SplitOrdered
  <2>4. Before(messages, pending') /\ Before(messages, steeringQueue')
    BY <1>0, <2>1, SplitBefore
  <2>5. Before(pending', followUpQueue)
    BY <2>2 DEF Before, Sent
  <2>. QED BY <2>1, <2>2, <2>3, <2>4, <2>5
<1>5. CASE TakesFollowUps
  <2>1. /\ Splits(followUpQueue, pending', followUpQueue')
        /\ UNCHANGED <<messages, steeringQueue, nextUser, gone>>
    BY <1>0, <1>5, SplitQueue DEF TakesFollowUps
  <2>2. /\ \A k \in 1 .. Len(pending') : pending'[k].kind = "followUp"
        /\ \A k \in 1 .. Len(followUpQueue') : followUpQueue'[k].kind = "followUp"
    BY <2>1, SplitPlaces
  <2>3. Ordered(pending') /\ Ordered(followUpQueue') /\ Before(pending', followUpQueue')
    BY <2>1, SplitOrdered
  <2>4. Before(messages, pending') /\ Before(messages, followUpQueue')
    BY <1>0, <2>1, SplitBefore
  <2>5. Before(pending', steeringQueue)
    BY <2>2 DEF Before, Sent
  <2>. QED BY <2>1, <2>2, <2>3, <2>4, <2>5
<1>6. ASSUME NEW n \in 1 .. MaxBatch, Prompts(n) PROVE InOrder'
  <2>1. \A k \in 1 .. Len(pending') : pending'[k].kind = "prompt"
    BY <1>6, PromptsAreNew
  <2>2. Ordered(pending') /\ \A t : Before(pending', t) /\ Before(t, pending')
    BY <2>1 DEF Ordered, Before, Sent
  <2>. QED BY <1>6, <2>2 DEF Prompts
<1>7. CASE Steer
  <2>. DEFINE m == User(nextUser, "steer")
  <2>1. /\ nextUser \in Users /\ steeringQueue' = Append(steeringQueue, m)
        /\ UNCHANGED <<messages, pending, followUpQueue>>
    BY <1>7 DEF Steer, OutsideUnchanged
  <2>2. m \in Message /\ m.id = nextUser /\ m.kind = "steer"
    BY <2>1, MessageTypes DEF User, Kinds
  <2>. HIDE DEF m
  <2>3. Before(messages, <<m>>) /\ Before(pending, <<m>>) /\ Before(steeringQueue, <<m>>)
    BY <1>0, <2>2, NewestLast DEF OnePlace
  <2>4. Ordered(steeringQueue')
    BY <1>0, <2>1, <2>2, <2>3, AppendOrdered
  <2>5. Before(messages, steeringQueue') /\ Before(pending, steeringQueue')
    BY <1>0, <2>1, <2>2, <2>3, AppendBefore
  <2>6. \A k \in 1 .. Len(steeringQueue') : steeringQueue'[k].kind = "steer"
    <3>1. Splits(steeringQueue', steeringQueue, <<m>>) /\ <<m>>[1] = m /\ Len(<<m>>) = 1
      BY <1>0, <2>1, <2>2, SplitAppend
    <3>2. \A k \in 1 .. Len(steeringQueue') : k \in 1 .. Len(steeringQueue) \/ k = Len(steeringQueue) + 1
      BY <1>0, <3>1 DEF Splits
    <3>3. steeringQueue'[Len(steeringQueue) + 1] = m
      BY <3>1 DEF Splits
    <3>4. \A k \in 1 .. Len(steeringQueue) : steeringQueue'[k] = steeringQueue[k]
      BY <3>1 DEF Splits
    <3>. QED BY <2>2, <3>2, <3>3, <3>4
  <2>. QED BY <2>1, <2>4, <2>5, <2>6
<1>8. CASE FollowUp
  <2>. DEFINE m == User(nextUser, "followUp")
  <2>1. /\ nextUser \in Users /\ followUpQueue' = Append(followUpQueue, m)
        /\ UNCHANGED <<messages, pending, steeringQueue>>
    BY <1>8 DEF FollowUp, OutsideUnchanged
  <2>2. m \in Message /\ m.id = nextUser /\ m.kind = "followUp"
    BY <2>1, MessageTypes DEF User, Kinds
  <2>. HIDE DEF m
  <2>3. Before(messages, <<m>>) /\ Before(pending, <<m>>) /\ Before(followUpQueue, <<m>>)
    BY <1>0, <2>2, NewestLast DEF OnePlace
  <2>4. Ordered(followUpQueue')
    BY <1>0, <2>1, <2>2, <2>3, AppendOrdered
  <2>5. Before(messages, followUpQueue') /\ Before(pending, followUpQueue')
    BY <1>0, <2>1, <2>2, <2>3, AppendBefore
  <2>6. \A k \in 1 .. Len(followUpQueue') : followUpQueue'[k].kind = "followUp"
    <3>1. Splits(followUpQueue', followUpQueue, <<m>>) /\ <<m>>[1] = m /\ Len(<<m>>) = 1
      BY <1>0, <2>1, <2>2, SplitAppend
    <3>2. \A k \in 1 .. Len(followUpQueue') : k \in 1 .. Len(followUpQueue) \/ k = Len(followUpQueue) + 1
      BY <1>0, <3>1 DEF Splits
    <3>3. followUpQueue'[Len(followUpQueue) + 1] = m
      BY <3>1 DEF Splits
    <3>4. \A k \in 1 .. Len(followUpQueue) : followUpQueue'[k] = followUpQueue[k]
      BY <3>1 DEF Splits
    <3>. QED BY <2>2, <3>2, <3>3, <3>4
  <2>. QED BY <2>1, <2>4, <2>5, <2>6
<1>9. CASE ClearSteeringQueue \/ ClearFollowUpQueue \/ Reset
  <2>1. Ordered(<<>>) /\ \A t : Before(<<>>, t) /\ Before(t, <<>>)
    BY NoMessage
  <2>2. \A kind : \A k \in 1 .. Len(<<>>) : <<>>[k].kind = kind
    OBVIOUS
  <2>3. CASE ClearSteeringQueue
    BY <2>1, <2>2, <2>3 DEF ClearSteeringQueue, OutsideUnchanged
  <2>4. CASE ClearFollowUpQueue
    BY <2>1, <2>2, <2>4 DEF ClearFollowUpQueue, OutsideUnchanged
  <2>5. CASE Reset
    BY <2>1, <2>2, <2>5 DEF Reset, OutsideUnchanged
  <2>. QED BY <1>9, <2>3, <2>4, <2>5
<1>10. CASE RemoveFailedAnswer
  <2>1. /\ messages # <<>> /\ messages' = SubSeq(messages, 1, Len(messages) - 1)
        /\ UNCHANGED <<pending, steeringQueue, followUpQueue>>
    BY <1>10 DEF RemoveFailedAnswer, OutsideUnchanged, queues
  <2>2. Splits(messages, messages', <<Last(messages)>>)
    BY <1>0, <2>1, SplitLast
  <2>3. Ordered(messages')
    BY <2>2, SplitOrdered
  <2>4. /\ Before(messages', pending) /\ Before(messages', steeringQueue)
        /\ Before(messages', followUpQueue)
    BY <1>0, <2>2, SplitBefore
  <2>. QED BY <2>1, <2>3, <2>4
<1>11. CASE HandleRunFailure
  <2>1. messages' = Append(messages, Failure) /\ pending' = <<>> /\ UNCHANGED queues
    BY <1>11 DEF HandleRunFailure
  <2>2. Failure \in Message /\ Failure.kind \notin {"steer", "followUp"}
    BY MessageTypes DEF Failure, Answer
  <2>. QED BY <1>a, <2>1, <2>2, NoMessage DEF queues
<1>. HIDE DEF InOrder
<1>. QED BY <1>1, <1>2, <1>3, <1>4, <1>5, <1>6, <1>7, <1>8, <1>9, <1>10, <1>11 DEF Effect

LEMMA Joined ==
    ASSUME NEW a \in Seq(Message), NEW b \in Seq(Message) PROVE Splits(a \o b, a, b)
BY DEF Splits

(* Steering messages, and follow-ups, stand in the order they were sent:   *)
(* in the transcript, in the loop's hands and in the queues.               *)
THEOREM InTheOrderSent == Spec => []QueuesInOrder
<1>1. Typed /\ OnePlace /\ InOrder /\ [Next]_vars => InOrder'
  BY NextEffect, EffectInOrder
<1>2. ASSUME Typed, InOrder PROVE QueuesInOrder
  <2>. DEFINE a == messages \o pending
              b == a \o steeringQueue
              c == b \o followUpQueue
  <2>1. /\ messages \in Seq(Message) /\ pending \in Seq(Message)
        /\ steeringQueue \in Seq(Message) /\ followUpQueue \in Seq(Message)
    BY <1>2, PlacesTyped
  <2>2. a \in Seq(Message) /\ Splits(a, messages, pending)
    BY <2>1, Joined
  <2>. HIDE DEF a
  <2>3. b \in Seq(Message) /\ Splits(b, a, steeringQueue)
    BY <2>1, <2>2, Joined
  <2>. HIDE DEF b
  <2>4. Splits(c, b, followUpQueue)
    BY <2>1, <2>3, Joined
  <2>5. Ordered(a) /\ Before(a, steeringQueue) /\ Before(a, followUpQueue)
    <3>1. Ordered(a)
      BY <1>2, <2>2, SplitOrdered DEF InOrder
    <3>. QED BY <1>2, <2>1, <2>2, <3>1, SplitBefore DEF InOrder
  <2>6. Before(steeringQueue, followUpQueue)
    BY <1>2 DEF InOrder, Before, Sent
  <2>7. Ordered(b)
    BY <1>2, <2>3, <2>5, SplitOrdered DEF InOrder
  <2>8. Before(b, followUpQueue)
    BY <2>1, <2>3, <2>5, <2>6, SplitBefore
  <2>9. Ordered(c)
    BY <1>2, <2>4, <2>7, <2>8, SplitOrdered DEF InOrder
  <2>. HIDE DEF c
  <2>10. \A j, k \in 1 .. Len(c) :
            j < k /\ c[j].kind = c[k].kind /\ c[k].kind \in {"steer", "followUp"} => c[j].id < c[k].id
    BY <2>9 DEF Ordered, Sent
  <2>. QED BY <2>10 DEF QueuesInOrder, a, b, c
<1>. QED BY <1>1, <1>2, AlwaysOnePlace, InitInOrder, PTL DEF Spec

-----------------------------------------------------------------------------
(* What a run leaves in the queues. *)

LookedAt ==
    /\ pc = "followUp" => Identities(steeringQueue) \subseteq late
    /\ NothingForgotten

LEMMA InitLookedAt == Init => LookedAt
BY DEF Init, LookedAt, NothingForgotten

LEMMA QueueIdentities ==
    ASSUME NEW queue \in Seq(UserMessage)
    PROVE  /\ \A u \in Users, kind \in Kinds :
                 Identities(Append(queue, User(u, kind))) = Identities(queue) \cup {u}
           /\ \A mode : Identities(Taken(queue, mode)) \cup Identities(Left(queue, mode))
                           = Identities(queue)
<1>1. ASSUME NEW u \in Users, NEW kind \in Kinds
      PROVE  Identities(Append(queue, User(u, kind))) = Identities(queue) \cup {u}
  <2>1. User(u, kind) \in Message /\ User(u, kind).role = "user" /\ User(u, kind).id = u
    BY MessageTypes DEF User
  <2>2. queue \in Seq(Message)
    BY UserSequences
  <2>3. Identities(Append(queue, User(u, kind)))
           = Identities(queue) \cup Identities(<<User(u, kind)>>)
    BY <2>1, <2>2, SplitAppend, SplitIdentities
  <2>4. Identities(<<User(u, kind)>>) = {u}
    BY <2>1, OneMessage
  <2>. QED BY <2>3, <2>4
<1>2. ASSUME NEW mode
      PROVE  Identities(Taken(queue, mode)) \cup Identities(Left(queue, mode)) = Identities(queue)
  BY SplitQueue, SplitIdentities
<1>. QED BY <1>1, <1>2

LEMMA NextLookedAt == Typed /\ LookedAt /\ [Next]_vars => LookedAt'
<1>. SUFFICES ASSUME Typed, LookedAt, [Next]_vars PROVE LookedAt'
  OBVIOUS
<1>. USE DEF LoopUnchanged, OutsideUnchanged, queues, tools, history, LookedAt, NothingForgotten
<1>0. /\ steeringQueue \in Seq(UserMessage) /\ followUpQueue \in Seq(UserMessage)
      /\ pc = "idle" <=> run = "none"
      /\ Identities(<<>>) = {}
  BY NoMessage DEF Typed, TypeOK
<1>1. ASSUME pc' \notin {"followUp", "ending"} PROVE LookedAt'
  BY <1>1
<1>2. ASSUME NEW n \in 1 .. MaxBatch, Prompt(n) PROVE LookedAt'
  BY <1>1, <1>2 DEF Prompt, StartRun
<1>3. CASE ContinueWithSteering \/ ContinueWithFollowUps \/ ContinueAsIs
  BY <1>1, <1>3 DEF ContinueWithSteering, ContinueWithFollowUps, ContinueAsIs, StartRun
<1>4. CASE EmitPrompt \/ PollBeforeFirstTurn \/ InjectPending \/ Request \/ AnswerAtOnce
           \/ PrepareToolCall \/ EndTurn \/ FinishRun \/ ExecutionRejected \/ HandleRunFailure
  BY <1>1, <1>4 DEF EmitPrompt, PollBeforeFirstTurn, InjectPending, Request, AnswerAtOnce,
                    PrepareToolCall, EndTurn, FinishRun, ExecutionRejected, Fail, HandleRunFailure
<1>5. ASSUME NEW stop \in Stops, NEW n \in 0 .. MaxBatch, StreamEnds(stop, n) PROVE LookedAt'
  <2>. DEFINE m == Answer([k \in 1 .. n |-> nextCall + k - 1], stop)
  <2>1. /\ context' = Append(context, m)
        /\ IF stop = "stop" THEN pc' = "tools" ELSE pc' = "ending"
    BY <1>5 DEF StreamEnds
  <2>2. m.kind = stop /\ m \in Message
    BY <1>5, AnswerTyped DEF Answer
  <2>. HIDE DEF m
  <2>3. Last(context') = m
    BY <2>1, <2>2 DEF Last, Typed, TypeOK
  <2>. QED BY <2>1, <2>2, <2>3
<1>6. ASSUME NEW c \in Calls, FinalizeToolCall(c) PROVE LookedAt'
  BY <1>1, <1>6 DEF FinalizeToolCall, Awaits
<1>7. CASE PollSteering
  <2>1. /\ pc' = (IF steeringQueue # <<>> \/ HasMoreToolCalls THEN "turn" ELSE "followUp")
        /\ steeringQueue' = Left(steeringQueue, config.steeringMode)
    BY <1>7 DEF PollSteering
  <2>2. steeringQueue = <<>> => Left(steeringQueue, config.steeringMode) = <<>>
    BY <1>0, Drained
  <2>. QED BY <1>0, <2>1, <2>2
<1>8. CASE PollFollowUps
  <2>1. /\ pc' = (IF followUpQueue # <<>> THEN "turn" ELSE "ending") /\ pc = "followUp"
        /\ followUpQueue' = Left(followUpQueue, config.followUpMode)
        /\ UNCHANGED <<steeringQueue, late>>
    BY <1>8 DEF PollFollowUps
  <2>2. followUpQueue = <<>> => Left(followUpQueue, config.followUpMode) = <<>>
    BY <1>0, Drained
  <2>. QED BY <1>0, <2>1, <2>2
<1>9. ASSUME UNCHANGED <<pc, context>>, late \subseteq late',
             Identities(steeringQueue') \subseteq Identities(steeringQueue),
             Identities(followUpQueue') \subseteq Identities(followUpQueue)
      PROVE  LookedAt'
  BY <1>9
<1>10. ASSUME NEW c \in Calls, ReportProgress(c) \/ ToolSettles(c) PROVE LookedAt'
  BY <1>9, <1>10 DEF ReportProgress, ToolSettles
<1>11. CASE ListenerThrows \/ ProviderThrows \/ AfterToolCallThrows
  BY <1>1, <1>11 DEF ListenerThrows, ProviderThrows, AfterToolCallThrows, Fail
<1>12. CASE Steer
  <2>1. Identities(steeringQueue') = Identities(steeringQueue) \cup {nextUser}
    BY <1>0, <1>12, QueueIdentities DEF Steer, Kinds
  <2>. QED BY <1>12, <2>1 DEF Steer
<1>13. CASE FollowUp
  <2>1. Identities(followUpQueue') = Identities(followUpQueue) \cup {nextUser}
    BY <1>0, <1>13, QueueIdentities DEF FollowUp, Kinds
  <2>. QED BY <1>13, <2>1 DEF FollowUp
<1>14. CASE ClearSteeringQueue \/ ClearFollowUpQueue \/ Abort \/ Reset \/ RemoveFailedAnswer
  BY <1>0, <1>9, <1>14 DEF ClearSteeringQueue, ClearFollowUpQueue, Abort, Reset, RemoveFailedAnswer
<1>15. CASE UNCHANGED vars
  BY <1>9, <1>15 DEF vars
<1>. QED BY <1>2, <1>3, <1>4, <1>5, <1>6, <1>7, <1>8, <1>10, <1>11, <1>12, <1>13, <1>14, <1>15
         DEF Next, LoopStep

(* A run that ends by itself leaves only what came too late for its last   *)
(* look at the queues, in both queue modes and whatever was queued while.  *)
THEOREM NothingLeftBehind == Spec => []NothingForgotten
<1>1. LookedAt => NothingForgotten
  BY DEF LookedAt
<1>. QED BY <1>1, InitTyped, NextTyped, InitLookedAt, NextLookedAt, PTL DEF Spec

-----------------------------------------------------------------------------
(* Calls and their results. *)

(* The calls of the answer at k of s are answered as they must be before   *)
(* the next request.                                                       *)
Complete(s, k, mode) ==
    s[k].kind = "stop" /\ s[k].calls # <<>> /\ ~BrokeOff(s, k) =>
        LET answered == Answered(s, k) IN
        /\ answered \subseteq Elements(s[k].calls)
        /\ mode = "wait" => answered = Elements(s[k].calls)
        /\ answered # {}

AllComplete(s, mode) == \A k \in 1 .. Len(s) : Complete(s, k, mode)

(* Something other than a result follows k in s: no more results count. *)
Closed(s, k) == \E j \in k + 1 .. Len(s) : s[j].role # "toolResult"

(* The answer at k of s is the current one, and all its results follow.    *)
Current(s, k) ==
    /\ s[k] = Last(context) /\ Len(s) = k + Len(results)
    /\ \A i \in 1 .. Len(results) : s[k + i] = results[i]

(* The calls of the current answer: answered, running or still to prepare, *)
(* but for those an interrupt has skipped.                                 *)
AnsweredNow == {results[i].id : i \in 1 .. Len(results)}
LeftOver    == Elements(todo) \cup Elements(running)

Batch ==
    /\ context # <<>> /\ Last(context).role = "assistant" /\ Last(context).kind = "stop"
    /\ \A k \in 1 .. Len(context) - 1 : Complete(context, k, config.interruptMode)
    /\ \A i \in 1 .. Len(results) : results[i].role = "toolResult"
    /\ AnsweredNow \cup LeftOver \subseteq Elements(Last(context).calls)
    /\ config.interruptMode = "wait" => AnsweredNow \cup LeftOver = Elements(Last(context).calls)
    /\ Last(context).calls # <<>> => AnsweredNow \cup LeftOver # {}

(* In the transcript, an answer is complete and done with, or the current. *)
Transcript ==
    \A k \in 1 .. Len(messages) :
        messages[k].kind = "stop" =>
            \/ Complete(messages, k, config.interruptMode) /\ Closed(messages, k)
            \/ Current(messages, k)

Answering ==
    /\ pc \notin {"tools", "failing"} => AllComplete(messages, config.interruptMode)
    /\ pc \in {"prompting", "start", "turn", "streaming", "poll", "followUp"} =>
          AllComplete(context, config.interruptMode)
    /\ pc = "tools" => Batch /\ Transcript
    /\ pc = "failing" =>
          \A k \in 1 .. Len(messages) :
              Complete(messages, k, config.interruptMode) \/ ~Closed(messages, k)
    /\ pc \notin {"tools", "failing", "failed"} => running = <<>>

LEMMA ConfigFixed == [Next]_vars => config' = config
<1>. SUFFICES ASSUME [Next]_vars PROVE config' = config
  OBVIOUS
<1>. USE DEF LoopUnchanged, OutsideUnchanged
<1>1. CASE LoopStep
  BY <1>1 DEF LoopStep, EmitPrompt, PollBeforeFirstTurn, InjectPending, Request, StreamEnds,
              AnswerAtOnce, PrepareToolCall, FinalizeToolCall, EndTurn, PollSteering,
              PollFollowUps, FinishRun, ExecutionRejected, Fail, HandleRunFailure
<1>2. CASE UNCHANGED vars
  BY <1>2 DEF vars
<1>3. CASE Next /\ ~LoopStep
  BY <1>3 DEF Next, Prompt, ContinueWithSteering, ContinueWithFollowUps, ContinueAsIs, StartRun,
              ReportProgress, ToolSettles, ListenerThrows, ProviderThrows, AfterToolCallThrows,
              Fail, Steer, FollowUp, ClearSteeringQueue, ClearFollowUpQueue, Abort, Reset,
              RemoveFailedAnswer
<1>. QED BY <1>1, <1>2, <1>3

(* t begins with s. *)
Begins(s, t) ==
    /\ s \in Seq(Message) /\ t \in Seq(Message) /\ Len(s) <= Len(t)
    /\ \A k \in 1 .. Len(s) : t[k] = s[k]

(* What was complete stays so when what is added is no further result of   *)
(* it: something else, at j, ends its results.                             *)
LEMMA CompleteKept ==
    ASSUME NEW s, NEW t, Begins(s, t), NEW k \in 1 .. Len(s), NEW mode, Complete(s, k, mode),
           NEW j \in k + 1 .. Len(s) + 1, j <= Len(t) => t[j].role # "toolResult"
    PROVE  Complete(t, k, mode)
<1>. USE DEF Begins
<1>1. t[k] = s[k]
  OBVIOUS
<1>2. BrokeOff(s, k) => BrokeOff(t, k)
  <2>. SUFFICES ASSUME BrokeOff(s, k) PROVE BrokeOff(t, k)
    OBVIOUS
  <2>1. PICK i \in k + 1 .. Len(s) :
           s[i] = Failure /\ \A h \in k + 1 .. i - 1 : s[h].role = "toolResult"
    BY DEF BrokeOff
  <2>2. i \in k + 1 .. Len(t) /\ t[i] = Failure
    BY <2>1
  <2>3. \A h \in k + 1 .. i - 1 : t[h].role = "toolResult"
    BY <2>1
  <2>. QED BY <2>2, <2>3 DEF BrokeOff
<1>3. ASSUME NEW i \in k + 1 .. Len(s), \A h \in k + 1 .. i : s[h].role = "toolResult"
      PROVE  /\ i \in k + 1 .. Len(t) /\ t[i] = s[i]
             /\ \A h \in k + 1 .. i : t[h].role = "toolResult"
  BY <1>3
<1>4. ASSUME NEW i \in k + 1 .. Len(t), \A h \in k + 1 .. i : t[h].role = "toolResult"
      PROVE  /\ i \in k + 1 .. Len(s) /\ t[i] = s[i]
             /\ \A h \in k + 1 .. i : s[h].role = "toolResult"
  <2>1. i < j
    BY <1>4
  <2>. QED BY <1>4, <2>1
<1>. HIDE DEF Begins
<1>5. \A i : i \in k + 1 .. Len(s) /\ (\A h \in k + 1 .. i : s[h].role = "toolResult")
         <=> i \in k + 1 .. Len(t) /\ (\A h \in k + 1 .. i : t[h].role = "toolResult")
  BY <1>3, <1>4
<1>6. Answered(s, k) = Answered(t, k)
  BY <1>3, <1>4 DEF Answered
<1>. QED BY <1>1, <1>2, <1>6 DEF Complete

(* A failed answer taken off the end is neither a result nor a failure.    *)
LEMMA CompleteWithoutLast ==
    ASSUME NEW s, NEW t, Begins(t, s), Len(s) = Len(t) + 1, s[Len(s)].kind = "error",
           NEW k \in 1 .. Len(t), NEW mode, Complete(s, k, mode)
    PROVE  Complete(t, k, mode)
<1>. USE DEF Begins
<1>1. t[k] = s[k]
  OBVIOUS
<1>2. s[Len(s)].role # "toolResult" /\ s[Len(s)] # Failure
  <2>1. \A m \in Message : m.kind = "error" => m.role # "toolResult"
    BY DEF Message, Kinds
  <2>2. Failure.kind = "failure"
    BY DEF Failure, Answer
  <2>3. s[Len(s)] \in Message
    OBVIOUS
  <2>. QED BY <2>1, <2>2, <2>3
<1>3. BrokeOff(s, k) => BrokeOff(t, k)
  <2>. SUFFICES ASSUME BrokeOff(s, k) PROVE BrokeOff(t, k)
    OBVIOUS
  <2>1. PICK i \in k + 1 .. Len(s) :
           s[i] = Failure /\ \A h \in k + 1 .. i - 1 : s[h].role = "toolResult"
    BY DEF BrokeOff
  <2>2. i \in k + 1 .. Len(t) /\ t[i] = Failure
    <3>1. i # Len(s)
      BY <1>2, <2>1
    <3>2. i \in 1 .. Len(t) /\ i \in k + 1 .. Len(t)
      BY <3>1
    <3>3. s[i] = t[i]
      BY <3>2
    <3>. QED BY <2>1, <3>2, <3>3
  <2>3. \A h \in k + 1 .. i - 1 : t[h].role = "toolResult"
    BY <2>1, <2>2
  <2>. QED BY <2>2, <2>3 DEF BrokeOff
<1>4. ASSUME NEW i \in k + 1 .. Len(t), \A h \in k + 1 .. i : t[h].role = "toolResult"
      PROVE  /\ i \in k + 1 .. Len(s) /\ t[i] = s[i]
             /\ \A h \in k + 1 .. i : s[h].role = "toolResult"
  BY <1>4
<1>5. ASSUME NEW i \in k + 1 .. Len(s), \A h \in k + 1 .. i : s[h].role = "toolResult"
      PROVE  /\ i \in k + 1 .. Len(t) /\ t[i] = s[i]
             /\ \A h \in k + 1 .. i : t[h].role = "toolResult"
  <2>1. i # Len(s)
    BY <1>2, <1>5
  <2>. QED BY <1>5, <2>1
<1>. HIDE DEF Begins
<1>6. Answered(s, k) = Answered(t, k)
  BY <1>4, <1>5 DEF Answered
<1>. QED BY <1>1, <1>3, <1>6 DEF Complete

(* When all that follows is the results rs, these answer the calls. *)
LEMMA AnsweredByResults ==
    ASSUME NEW s \in Seq(Message), NEW rs \in Seq(Message), NEW k \in 1 .. Len(s),
           Len(s) = k + Len(rs), \A i \in 1 .. Len(rs) : s[k + i] = rs[i],
           \A i \in 1 .. Len(rs) : rs[i].role = "toolResult"
    PROVE  Answered(s, k) = {rs[i].id : i \in 1 .. Len(rs)}
<1>1. \A h \in k + 1 .. Len(s) : h - k \in 1 .. Len(rs) /\ s[h] = rs[h - k]
  OBVIOUS
<1>2. \A i \in 1 .. Len(rs) : k + i \in k + 1 .. Len(s)
  OBVIOUS
<1>3. \A h \in k + 1 .. Len(s) : s[h].role = "toolResult"
  BY <1>1
<1>4. \A i \in k + 1 .. Len(s) : \A h \in k + 1 .. i : h \in k + 1 .. Len(s)
  OBVIOUS
<1>5. Answered(s, k) = {s[i].id : i \in k + 1 .. Len(s)}
  BY <1>3, <1>4 DEF Answered
<1>6. ASSUME NEW x \in {s[i].id : i \in k + 1 .. Len(s)}
      PROVE  x \in {rs[i].id : i \in 1 .. Len(rs)}
  <2>1. PICK i \in k + 1 .. Len(s) : x = s[i].id
    OBVIOUS
  <2>. QED BY <1>1, <2>1
<1>7. ASSUME NEW x \in {rs[i].id : i \in 1 .. Len(rs)}
      PROVE  x \in {s[i].id : i \in k + 1 .. Len(s)}
  <2>1. PICK i \in 1 .. Len(rs) : x = rs[i].id
    OBVIOUS
  <2>. QED BY <1>2, <2>1
<1>. QED BY <1>5, <1>6, <1>7

(* Only finished answers have calls to be answered. *)
LEMMA OthersComplete ==
    /\ \A s, k, mode : s[k].kind # "stop" => Complete(s, k, mode)
    /\ \A m \in Message : m.role # "assistant" => m.kind # "stop"
    /\ \A m \in Message : m.role = "toolResult" => m.kind = "result"
BY DEF Complete, Message, Kinds

(* A message appended that is no result leaves all answers before complete, *)
(* and they are done with.                                                  *)
LEMMA AppendComplete ==
    ASSUME NEW s \in Seq(Message), NEW m \in Message, m.role # "toolResult", NEW mode,
           NEW k \in 1 .. Len(s), Complete(s, k, mode)
    PROVE  Complete(Append(s, m), k, mode) /\ Closed(Append(s, m), k)
<1>. DEFINE t == Append(s, m)
<1>1. /\ t \in Seq(Message) /\ Len(t) = Len(s) + 1 /\ t[Len(s) + 1] = m
      /\ \A i \in 1 .. Len(s) : t[i] = s[i]
  OBVIOUS
<1>. HIDE DEF t
<1>2. Begins(s, t)
  BY <1>1 DEF Begins
<1>3. Len(s) + 1 \in k + 1 .. Len(s) + 1
  OBVIOUS
<1>4. Complete(t, k, mode)
  BY <1>1, <1>2, <1>3, CompleteKept
<1>5. Closed(t, k)
  BY <1>1, <1>3 DEF Closed
<1>. QED BY <1>4, <1>5 DEF t

LEMMA AppendAllComplete ==
    ASSUME NEW s \in Seq(Message), NEW m \in Message, m.role # "toolResult", m.kind # "stop",
           NEW mode, AllComplete(s, mode)
    PROVE  AllComplete(Append(s, m), mode)
<1>1. \A k \in 1 .. Len(s) : Complete(Append(s, m), k, mode)
  BY AppendComplete DEF AllComplete
<1>2. Complete(Append(s, m), Len(s) + 1, mode)
  <2>1. Append(s, m)[Len(s) + 1] = m
    OBVIOUS
  <2>. QED BY <2>1, OthersComplete
<1>3. \A k \in 1 .. Len(Append(s, m)) : k \in 1 .. Len(s) \/ k = Len(s) + 1
  OBVIOUS
<1>. QED BY <1>1, <1>2, <1>3 DEF AllComplete

(* A run begins with messages of users behind the transcript. *)
LEMMA JoinAllComplete ==
    ASSUME NEW s \in Seq(Message), NEW ps \in Seq(Message), NEW mode, AllComplete(s, mode),
           \A k \in 1 .. Len(ps) : ps[k].role = "user"
    PROVE  AllComplete(s \o ps, mode)
<1>. DEFINE t == s \o ps
<1>1. /\ t \in Seq(Message) /\ Len(t) = Len(s) + Len(ps)
      /\ \A i \in 1 .. Len(s) : t[i] = s[i]
      /\ \A i \in Len(s) + 1 .. Len(t) : t[i] = ps[i - Len(s)] /\ i - Len(s) \in 1 .. Len(ps)
  OBVIOUS
<1>. HIDE DEF t
<1>2. \A i \in Len(s) + 1 .. Len(t) : t[i].role = "user" /\ t[i].kind # "stop"
  BY <1>1, OthersComplete
<1>3. ASSUME NEW k \in 1 .. Len(s) PROVE Complete(t, k, mode)
  <2>1. Begins(s, t) /\ Len(s) + 1 \in k + 1 .. Len(s) + 1
    BY <1>1 DEF Begins
  <2>2. Len(s) + 1 <= Len(t) => t[Len(s) + 1].role # "toolResult"
    BY <1>1, <1>2
  <2>3. Complete(s, k, mode)
    BY DEF AllComplete
  <2>. QED BY <2>1, <2>2, <2>3, CompleteKept
<1>4. ASSUME NEW k \in Len(s) + 1 .. Len(t) PROVE Complete(t, k, mode)
  BY <1>2, OthersComplete
<1>5. \A k \in 1 .. Len(t) : k \in 1 .. Len(s) \/ k \in Len(s) + 1 .. Len(t)
  BY <1>1
<1>6. AllComplete(t, mode)
  BY <1>3, <1>4, <1>5 DEF AllComplete
<1>. QED BY <1>6 DEF t

LEMMA InitAnswering == Init => Answering
<1>. SUFFICES ASSUME Init PROVE Answering
  OBVIOUS
<1>1. AllComplete(messages, config.interruptMode)
  BY DEF Init, AllComplete
<1>. QED BY <1>1 DEF Init, Answering

(* The model's answer ends all that was before it; its calls are the       *)
(* current ones.                                                           *)
LEMMA StreamAnswering ==
    ASSUME Typed, Copies, Answering, config' = config,
           NEW stop \in Stops, NEW n \in 0 .. MaxBatch, StreamEnds(stop, n)
    PROVE  Answering'
<1>. DEFINE m == Answer([k \in 1 .. n |-> nextCall + k - 1], stop)
            mode == config.interruptMode
<1>1. /\ pc = "streaming" /\ messages' = Append(messages, m) /\ context' = Append(context, m)
      /\ IF stop = "stop" THEN pc' = "tools" /\ todo' = m.calls ELSE pc' = "ending"
      /\ UNCHANGED <<running, results>>
  BY DEF StreamEnds
<1>2. m \in Message /\ m.role = "assistant" /\ m.kind = stop /\ m.calls \in Seq(Calls)
  BY AnswerTyped DEF Answer
<1>. HIDE DEF m
<1>3. /\ messages \in Seq(Message) /\ context \in Seq(Message)
      /\ AllComplete(messages, mode) /\ AllComplete(context, mode)
      /\ running = <<>> /\ results = <<>>
  BY <1>1 DEF Typed, TypeOK, Answering, Copies
<1>4. \A k \in 1 .. Len(messages) : Complete(messages', k, mode) /\ Closed(messages', k)
  BY <1>1, <1>2, <1>3, AppendComplete DEF AllComplete
<1>5. \A k \in 1 .. Len(context) : Complete(context', k, mode)
  BY <1>1, <1>2, <1>3, AppendComplete DEF AllComplete
<1>6. /\ Len(messages') = Len(messages) + 1 /\ messages'[Len(messages) + 1] = m
      /\ Len(context') = Len(context) + 1 /\ Last(context') = m /\ context' # <<>>
      /\ \A k \in 1 .. Len(messages') : k \in 1 .. Len(messages) \/ k = Len(messages) + 1
  <2>1. \A s \in Seq(Message) :
           /\ Len(Append(s, m)) = Len(s) + 1 /\ Append(s, m)[Len(s) + 1] = m
           /\ Append(s, m) # <<>>
           /\ \A k \in 1 .. Len(Append(s, m)) : k \in 1 .. Len(s) \/ k = Len(s) + 1
    BY <1>2
  <2>. QED BY <1>1, <1>3, <2>1 DEF Last
<1>7. CASE stop = "stop"
  <2>1. pc' = "tools" /\ todo' = m.calls /\ running' = <<>> /\ results' = <<>>
    BY <1>1, <1>3, <1>7
  <2>2. AnsweredNow' = {} /\ LeftOver' = Elements(m.calls)
    <3>1. Elements(<<>>) = {}
      BY DEF Elements
    <3>. QED BY <2>1, <3>1 DEF AnsweredNow, LeftOver
  <2>3. m.calls # <<>> => Elements(m.calls) # {}
    <3>1. \A cs \in Seq(Calls) : cs # <<>> => cs[1] \in Elements(cs)
      BY DEF Elements
    <3>. QED BY <1>2, <3>1
  <2>4. \A k \in 1 .. Len(context') - 1 : Complete(context', k, mode)
    BY <1>3, <1>5, <1>6
  <2>5. Batch'
    BY <1>2, <1>6, <1>7, <2>1, <2>2, <2>3, <2>4 DEF Batch
  <2>6. \A k \in 1 .. Len(messages') : k = Len(messages) + 1 =>
           /\ messages'[k] = Last(context') /\ Len(messages') = k + Len(results')
           /\ \A i \in 1 .. Len(results') : messages'[k + i] = results'[i]
    BY <1>6, <2>1
  <2>7. Transcript'
    BY <1>4, <1>6, <2>6 DEF Transcript, Current
  <2>. QED BY <2>1, <2>5, <2>7 DEF Answering
<1>8. CASE stop # "stop"
  <2>1. Complete(messages', Len(messages) + 1, mode)
    BY <1>2, <1>6, <1>8, OthersComplete
  <2>2. AllComplete(messages', mode)
    BY <1>4, <1>6, <2>1 DEF AllComplete
  <2>. QED BY <1>1, <1>3, <1>8, <2>2 DEF Answering
<1>. QED BY <1>7, <1>8

(* A result for one of the calls left goes behind the current answer. *)
LEMMA EmitAnswering ==
    ASSUME Typed, Answering, pc = "tools", UNCHANGED <<pc, context, config>>, NEW c \in Calls,
           Emit(ToolResult(c)), c \in LeftOver, LeftOver' \subseteq LeftOver,
           config.interruptMode = "wait" => LeftOver \subseteq LeftOver' \cup {c}
    PROVE  Answering'
<1>. DEFINE m == ToolResult(c)
            mode == config.interruptMode
<1>1. m \in Message /\ m.role = "toolResult" /\ m.kind = "result" /\ m.id = c
  BY MessageTypes DEF ToolResult
<1>2. messages' = Append(messages, m) /\ results' = Append(results, m)
  BY DEF Emit
<1>. HIDE DEF m
<1>3. /\ messages \in Seq(Message) /\ results \in Seq(Message) /\ Batch /\ Transcript
  BY DEF Typed, TypeOK, Answering
<1>4. /\ Len(messages') = Len(messages) + 1 /\ messages'[Len(messages) + 1] = m
      /\ \A k \in 1 .. Len(messages) : messages'[k] = messages[k]
      /\ Len(results') = Len(results) + 1 /\ results'[Len(results) + 1] = m
      /\ \A k \in 1 .. Len(results) : results'[k] = results[k]
      /\ messages' \in Seq(Message)
  BY <1>1, <1>2, <1>3
<1>5. /\ \A k \in 1 .. Len(messages') : k \in 1 .. Len(messages) \/ k = Len(messages) + 1
      /\ \A k \in 1 .. Len(results') : k \in 1 .. Len(results) \/ k = Len(results) + 1
      /\ \A k \in 1 .. Len(results) : k \in 1 .. Len(results')
      /\ Len(results) + 1 \in 1 .. Len(results')
  BY <1>3, <1>4
<1>6. AnsweredNow' = AnsweredNow \cup {c}
  <2>1. ASSUME NEW x \in AnsweredNow' PROVE x \in AnsweredNow \cup {c}
    BY <1>1, <1>4, <1>5, <2>1 DEF AnsweredNow
  <2>2. ASSUME NEW x \in AnsweredNow PROVE x \in AnsweredNow'
    <3>1. PICK k \in 1 .. Len(results) : x = results[k].id
      BY DEF AnsweredNow
    <3>. QED BY <1>4, <1>5, <3>1 DEF AnsweredNow
  <2>3. c \in AnsweredNow'
    BY <1>1, <1>4, <1>5 DEF AnsweredNow
  <2>. QED BY <2>1, <2>2, <2>3
<1>7. Batch'
  <2>1. \A i \in 1 .. Len(results') : results'[i].role = "toolResult"
    BY <1>1, <1>3, <1>4, <1>5 DEF Batch
  <2>2. /\ (AnsweredNow \cup LeftOver)' \subseteq AnsweredNow \cup LeftOver
        /\ c \in (AnsweredNow \cup LeftOver)'
    BY <1>6
  <2>3. mode = "wait" => (AnsweredNow \cup LeftOver)' = AnsweredNow \cup LeftOver
    BY <1>6
  <2>. QED BY <1>3, <2>1, <2>2, <2>3 DEF Batch
<1>8. ASSUME NEW k \in 1 .. Len(messages), Complete(messages, k, mode), Closed(messages, k)
      PROVE  Complete(messages', k, mode) /\ Closed(messages', k)
  <2>1. Begins(messages, messages')
    BY <1>3, <1>4 DEF Begins
  <2>2. PICK j \in k + 1 .. Len(messages) : messages[j].role # "toolResult"
    BY <1>8 DEF Closed
  <2>3. /\ j \in k + 1 .. Len(messages) + 1 /\ j \in k + 1 .. Len(messages')
        /\ messages'[j].role # "toolResult"
    BY <1>3, <1>4, <2>2
  <2>4. Complete(messages', k, mode)
    BY <1>8, <2>1, <2>3, CompleteKept
  <2>. QED BY <2>3, <2>4 DEF Closed
<1>9. ASSUME NEW k \in 1 .. Len(messages), Current(messages, k)
      PROVE  Current(messages, k)'
  <2>1. /\ messages[k] = Last(context) /\ Len(messages) = k + Len(results)
        /\ \A i \in 1 .. Len(results) : messages[k + i] = results[i]
    BY <1>9 DEF Current
  <2>2. \A i \in 1 .. Len(results) : k + i \in 1 .. Len(messages)
    BY <1>3, <2>1
  <2>3. \A i \in 1 .. Len(results') : messages'[k + i] = results'[i]
    BY <1>4, <1>5, <2>1, <2>2
  <2>4. messages'[k] = Last(context') /\ Len(messages') = k + Len(results')
    BY <1>3, <1>4, <2>1
  <2>. QED BY <2>3, <2>4 DEF Current
<1>10. Transcript'
  <2>. SUFFICES ASSUME NEW k \in 1 .. Len(messages'), messages'[k].kind = "stop"
                PROVE  \/ Complete(messages', k, mode) /\ Closed(messages', k)
                       \/ Current(messages, k)'
    BY DEF Transcript
  <2>1. k \in 1 .. Len(messages) /\ messages[k].kind = "stop"
    BY <1>1, <1>4, <1>5
  <2>. QED BY <1>3, <1>8, <1>9, <2>1 DEF Transcript
<1>. QED BY <1>7, <1>10 DEF Answering

(* The results go into the context: the current answer is complete. *)
LEMMA EndTurnAnswering == ASSUME Typed, Answering, EndTurn PROVE Answering'
<1>. DEFINE mode == config.interruptMode
<1>1. /\ pc = "tools" /\ todo = <<>> /\ running = <<>> /\ pc' = "poll" /\ results' = <<>>
      /\ context' = context \o results /\ UNCHANGED <<messages, running, config>>
  BY DEF EndTurn, LoopUnchanged
<1>2. /\ messages \in Seq(Message) /\ context \in Seq(Message) /\ results \in Seq(Message)
      /\ Batch /\ Transcript
  BY <1>1 DEF Typed, TypeOK, Answering
<1>3. LeftOver = {}
  BY <1>1 DEF LeftOver, Elements
<1>. DEFINE a == Last(context)
<1>4. ASSUME NEW s \in Seq(Message), NEW k \in 1 .. Len(s), s[k] = a, Len(s) = k + Len(results),
             \A i \in 1 .. Len(results) : s[k + i] = results[i]
      PROVE  Complete(s, k, mode)
  <2>1. \A i \in 1 .. Len(results) : results[i].role = "toolResult"
    BY <1>2 DEF Batch
  <2>2. Answered(s, k) = AnsweredNow
    BY <1>2, <1>4, <2>1, AnsweredByResults DEF AnsweredNow
  <2>3. /\ AnsweredNow \subseteq Elements(a.calls)
        /\ mode = "wait" => AnsweredNow = Elements(a.calls)
        /\ a.calls # <<>> => AnsweredNow # {}
    BY <1>2, <1>3 DEF Batch
  <2>. HIDE DEF a
  <2>. QED BY <1>4, <2>2, <2>3 DEF Complete
<1>5. AllComplete(messages, mode)
  <2>. SUFFICES ASSUME NEW k \in 1 .. Len(messages), messages[k].kind = "stop", Current(messages, k)
                PROVE  Complete(messages, k, mode)
    BY <1>2, OthersComplete DEF AllComplete, Transcript
  <2>. QED BY <1>2, <1>4 DEF Current
<1>6. AllComplete(context', mode)
  <2>. DEFINE t == context \o results
  <2>1. /\ t \in Seq(Message) /\ Len(t) = Len(context) + Len(results)
        /\ \A i \in 1 .. Len(context) : t[i] = context[i]
        /\ \A i \in 1 .. Len(results) : t[Len(context) + i] = results[i]
    BY <1>2
  <2>. HIDE DEF t
  <2>2. context # <<>> /\ Len(context) \in 1 .. Len(context) /\ a = context[Len(context)]
    BY <1>2 DEF Batch, Last
  <2>3. ASSUME NEW k \in 1 .. Len(context) - 1 PROVE Complete(t, k, mode)
    <3>1. Complete(context, k, mode)
      BY <1>2 DEF Batch
    <3>2. Begins(context, t)
      BY <1>2, <2>1 DEF Begins
    <3>3. Len(context) \in k + 1 .. Len(context) + 1 /\ k \in 1 .. Len(context)
      BY <1>2
    <3>4. t[Len(context)].role # "toolResult"
      BY <1>2, <2>1, <2>2 DEF Batch
    <3>. QED BY <3>1, <3>2, <3>3, <3>4, CompleteKept
  <2>4. Complete(t, Len(context), mode)
    <3>1. Len(context) \in 1 .. Len(t) /\ t[Len(context)] = a
      BY <1>2, <2>1, <2>2
    <3>. HIDE DEF a, mode
    <3>. QED BY <1>4, <2>1, <3>1
  <2>5. ASSUME NEW k \in Len(context) + 1 .. Len(t) PROVE Complete(t, k, mode)
    <3>1. k - Len(context) \in 1 .. Len(results) /\ t[k] = results[k - Len(context)]
      BY <1>2, <2>1
    <3>2. t[k].kind # "stop"
      BY <1>2, <3>1, OthersComplete DEF Batch
    <3>. QED BY <3>2, OthersComplete
  <2>6. \A k \in 1 .. Len(t) : \/ k \in 1 .. Len(context) - 1 \/ k = Len(context)
                               \/ k \in Len(context) + 1 .. Len(t)
    BY <1>2, <2>1
  <2>7. AllComplete(t, mode)
    BY <2>3, <2>4, <2>5, <2>6 DEF AllComplete
  <2>. QED BY <1>1, <2>7 DEF t
<1>. QED BY <1>1, <1>5, <1>6 DEF Answering

(* A run that breaks off leaves at most its current answer incomplete, and *)
(* the failure that follows accounts for it.                               *)
LEMMA FailAnswering ==
    ASSUME Typed, Answering, pc # "failing", Fail PROVE Answering'
<1>. DEFINE mode == config.interruptMode
<1>1. pc' = "failing" /\ UNCHANGED <<messages, config>>
  BY DEF Fail
<1>2. ASSUME pc = "tools", NEW k \in 1 .. Len(messages)
      PROVE  Complete(messages, k, mode) \/ ~Closed(messages, k)
  <2>1. Batch /\ Transcript /\ results \in Seq(Message) /\ messages \in Seq(Message)
    BY <1>2 DEF Answering, Typed, TypeOK
  <2>. SUFFICES ASSUME Current(messages, k) PROVE ~Closed(messages, k)
    BY <2>1, OthersComplete DEF Transcript
  <2>2. \A j \in k + 1 .. Len(messages) : j - k \in 1 .. Len(results) /\ messages[j] = results[j - k]
    <3>1. Len(messages) = k + Len(results) /\ \A i \in 1 .. Len(results) : messages[k + i] = results[i]
      BY DEF Current
    <3>. TAKE j \in k + 1 .. Len(messages)
    <3>2. j - k \in 1 .. Len(results) /\ k + (j - k) = j
      BY <2>1, <3>1
    <3>. QED BY <3>1, <3>2
  <2>. QED BY <2>1, <2>2 DEF Closed, Batch
<1>3. ASSUME pc # "tools", NEW k \in 1 .. Len(messages) PROVE Complete(messages, k, mode)
  BY <1>3 DEF Answering, AllComplete
<1>. QED BY <1>1, <1>2, <1>3 DEF Answering

LEMMA FailureAnswering == ASSUME Typed, Answering, HandleRunFailure PROVE Answering'
<1>. DEFINE mode == config.interruptMode
<1>1. /\ pc = "failing" /\ pc' = "failed" /\ messages' = Append(messages, Failure)
      /\ config' = config
  BY DEF HandleRunFailure
<1>2. messages \in Seq(Message) /\ Failure \in Message /\ Failure.role = "assistant"
      /\ Failure.kind = "failure"
  BY MessageTypes DEF Typed, TypeOK, Failure, Answer
<1>3. ASSUME NEW k \in 1 .. Len(messages), ~Closed(messages, k)
      PROVE  Complete(messages', k, mode)
  <2>1. /\ messages'[Len(messages) + 1] = Failure /\ Len(messages) + 1 \in k + 1 .. Len(messages')
        /\ \A h \in k + 1 .. Len(messages) : messages'[h] = messages[h]
    BY <1>1, <1>2
  <2>2. \A h \in k + 1 .. Len(messages) : messages[h].role = "toolResult"
    BY <1>3 DEF Closed
  <2>3. \A h \in k + 1 .. Len(messages) + 1 - 1 : messages'[h].role = "toolResult"
    BY <1>2, <2>1, <2>2
  <2>4. BrokeOff(messages', k)
    BY <2>1, <2>3 DEF BrokeOff
  <2>. QED BY <2>4 DEF Complete
<1>4. ASSUME NEW k \in 1 .. Len(messages), Complete(messages, k, mode)
      PROVE  Complete(messages', k, mode)
  BY <1>1, <1>2, <1>4, AppendComplete
<1>5. Complete(messages', Len(messages) + 1, mode)
  <2>1. messages'[Len(messages) + 1] = Failure
    BY <1>1, <1>2
  <2>. QED BY <1>2, <2>1, OthersComplete
<1>6. \A k \in 1 .. Len(messages') : k \in 1 .. Len(messages) \/ k = Len(messages) + 1
  BY <1>1, <1>2
<1>7. AllComplete(messages', mode)
  BY <1>1, <1>3, <1>4, <1>5, <1>6 DEF AllComplete, Answering
<1>. QED BY <1>1, <1>7 DEF Answering

LEMMA LoopAnswering ==
    ASSUME Typed, Copies, Answering, config' = config, LoopStep PROVE Answering'
<1>. USE DEF LoopUnchanged, queues, tools, history
<1>. DEFINE mode == config.interruptMode
<1>0. /\ messages \in Seq(Message) /\ context \in Seq(Message) /\ pending \in Seq(UserMessage)
      /\ pc = "prompting" => pending # <<>>
      /\ todo \in Seq(Calls) /\ running \in Seq(Calls)
  BY DEF Typed, TypeOK, Hands
<1>a. \A m \in UserMessage : m \in Message /\ m.role # "toolResult" /\ m.kind # "stop"
  BY MessageTypes DEF UserMessage, User, Kinds
<1>1. CASE EmitPrompt
  <2>1. /\ pc = "prompting" /\ pc' \in {"start", "prompting"} /\ UNCHANGED <<context, running>>
        /\ messages' = Append(messages, Head(pending)) /\ Head(pending) \in UserMessage
    BY <1>0, <1>1 DEF EmitPrompt
  <2>2. AllComplete(messages', mode)
    BY <1>0, <1>a, <2>1, AppendAllComplete DEF Answering
  <2>. QED BY <2>1, <2>2 DEF Answering
<1>2. CASE InjectPending
  <2>1. /\ pc = "turn" /\ pc' = "turn" /\ UNCHANGED running
        /\ messages' = Append(messages, Head(pending)) /\ context' = Append(context, Head(pending))
        /\ Head(pending) \in UserMessage
    BY <1>0, <1>2 DEF InjectPending
  <2>2. AllComplete(messages', mode)
    BY <1>0, <1>a, <2>1, AppendAllComplete DEF Answering
  <2>3. AllComplete(context', mode)
    BY <1>0, <1>a, <2>1, AppendAllComplete DEF Answering
  <2>. QED BY <2>1, <2>2, <2>3 DEF Answering
<1>3. CASE PollBeforeFirstTurn \/ Request \/ PollSteering \/ PollFollowUps
  <2>1. /\ pc \in {"start", "turn", "poll", "followUp"}
        /\ pc' \in {"turn", "streaming", "followUp", "ending"}
        /\ UNCHANGED <<messages, context, running>>
    BY <1>3 DEF PollBeforeFirstTurn, Request, AtRequest, PollSteering, PollFollowUps
  <2>. QED BY <2>1 DEF Answering
<1>4. ASSUME NEW stop \in Stops, NEW n \in 0 .. MaxBatch, StreamEnds(stop, n) PROVE Answering'
  BY <1>4, StreamAnswering
<1>b. ASSUME NEW s \in Seq(Calls), s # <<>>
      PROVE  Elements(s) = {Head(s)} \cup Elements(Tail(s)) /\ Head(s) \in Calls
  <2>1. \A k \in 1 .. Len(s) : k = 1 \/ (k - 1 \in 1 .. Len(Tail(s)) /\ s[k] = Tail(s)[k - 1])
    BY <1>b
  <2>2. \A k \in 1 .. Len(Tail(s)) : k + 1 \in 1 .. Len(s) /\ s[k + 1] = Tail(s)[k]
    BY <1>b
  <2>3. Head(s) = s[1] /\ 1 \in 1 .. Len(s) /\ Head(s) \in Calls
    BY <1>b
  <2>. QED BY <2>1, <2>2, <2>3 DEF Elements
<1>c. Elements(<<>>) = {}
  BY DEF Elements
<1>5. CASE AnswerAtOnce
  <2>1. /\ pc = "tools" /\ todo # <<>> /\ Emit(ToolResult(Head(todo)))
        /\ UNCHANGED <<pc, context, running>>
        /\ todo' = IF Sequential /\ Interrupted THEN <<>> ELSE Tail(todo)
    BY <1>5 DEF AnswerAtOnce
  <2>2. Elements(todo) = {Head(todo)} \cup Elements(Tail(todo)) /\ Head(todo) \in Calls
    BY <1>0, <1>b, <2>1
  <2>3. mode = "wait" => ~Interrupted
    BY DEF Interrupted
  <2>4. /\ Elements(todo') \subseteq Elements(Tail(todo))
        /\ mode = "wait" => Elements(todo') = Elements(Tail(todo))
    BY <1>c, <2>1, <2>3
  <2>5. /\ Head(todo) \in LeftOver /\ LeftOver' \subseteq LeftOver
        /\ mode = "wait" => LeftOver \subseteq LeftOver' \cup {Head(todo)}
    BY <2>1, <2>2, <2>4 DEF LeftOver
  <2>. QED BY <2>1, <2>2, <2>5, EmitAnswering
<1>6. CASE PrepareToolCall
  <2>1. /\ pc = "tools" /\ todo # <<>> /\ running' = Append(running, Head(todo))
        /\ todo' = Tail(todo) /\ UNCHANGED <<pc, messages, context, results>>
    BY <1>6 DEF PrepareToolCall
  <2>2. Elements(todo) = {Head(todo)} \cup Elements(Tail(todo)) /\ Head(todo) \in Calls
    BY <1>0, <1>b, <2>1
  <2>3. Elements(running') = Elements(running) \cup {Head(todo)}
    <3>1. /\ Len(running') = Len(running) + 1 /\ running'[Len(running) + 1] = Head(todo)
          /\ \A k \in 1 .. Len(running) : running'[k] = running[k]
      BY <1>0, <2>1, <2>2
    <3>2. /\ \A k \in 1 .. Len(running') : k \in 1 .. Len(running) \/ k = Len(running) + 1
          /\ \A k \in 1 .. Len(running) : k \in 1 .. Len(running')
          /\ Len(running) + 1 \in 1 .. Len(running')
      BY <1>0, <3>1
    <3>. QED BY <3>1, <3>2 DEF Elements
  <2>4. LeftOver' = LeftOver /\ AnsweredNow' = AnsweredNow
    BY <2>1, <2>2, <2>3 DEF LeftOver, AnsweredNow
  <2>5. Batch /\ Transcript
    BY <2>1 DEF Answering
  <2>6. Batch' /\ Transcript'
    BY <2>1, <2>4, <2>5 DEF Batch, Transcript, Current
  <2>. QED BY <2>1, <2>6 DEF Answering
<1>7. ASSUME NEW c \in Calls, FinalizeToolCall(c) PROVE Answering'
  <2>1. /\ pc = "tools" /\ running # <<>> /\ c = Head(running) /\ Emit(ToolResult(c))
        /\ UNCHANGED <<pc, context>>
    BY <1>7 DEF FinalizeToolCall, Awaits
  <2>2. IF Interrupted THEN todo' = <<>> /\ running' = <<>>
                       ELSE running' = Tail(running) /\ UNCHANGED todo
    BY <1>7 DEF FinalizeToolCall
  <2>3. Elements(running) = {c} \cup Elements(Tail(running))
    BY <1>0, <1>b, <2>1
  <2>4. mode = "wait" => ~Interrupted
    BY DEF Interrupted
  <2>5. /\ c \in LeftOver /\ LeftOver' \subseteq LeftOver
        /\ mode = "wait" => LeftOver \subseteq LeftOver' \cup {c}
    <3>1. CASE Interrupted
      BY <1>c, <2>2, <2>3, <2>4, <3>1 DEF LeftOver
    <3>2. CASE ~Interrupted
      BY <2>2, <2>3, <3>2 DEF LeftOver
    <3>. QED BY <3>1, <3>2
  <2>. QED BY <2>1, <2>5, EmitAnswering
<1>8. CASE EndTurn
  BY <1>8, EndTurnAnswering
<1>9. CASE FinishRun
  <2>1. pc \in {"ending", "failed"} /\ pc' = "idle" /\ running' = <<>> /\ UNCHANGED messages
    BY <1>9 DEF FinishRun
  <2>. QED BY <2>1 DEF Answering
<1>10. CASE ExecutionRejected
  BY <1>10, FailAnswering DEF ExecutionRejected, Awaits
<1>11. CASE HandleRunFailure
  BY <1>11, FailureAnswering
<1>. HIDE DEF mode
<1>. QED BY <1>1, <1>2, <1>3, <1>4, <1>5, <1>6, <1>7, <1>8, <1>9, <1>10, <1>11 DEF LoopStep

LEMMA StartAnswering ==
    ASSUME Typed, Answering, run = "none", config' = config,
           NEW ps \in Seq(UserMessage), NEW skip, StartRun(ps, skip)
    PROVE  Answering'
<1>1. /\ pc = "idle" /\ pc' \in {"start", "prompting"} /\ context' = messages \o ps
      /\ UNCHANGED <<messages, running>>
  BY DEF StartRun, tools, Typed, TypeOK
<1>2. ps \in Seq(Message) /\ \A k \in 1 .. Len(ps) : ps[k].role = "user"
  <2>1. \A m \in UserMessage : m.role = "user"
    BY DEF UserMessage, User
  <2>. QED BY <2>1, UserSequences
<1>3. AllComplete(messages, config.interruptMode) /\ messages \in Seq(Message)
  BY <1>1 DEF Answering, Typed, TypeOK
<1>4. AllComplete(context', config.interruptMode)
  BY <1>1, <1>2, <1>3, JoinAllComplete
<1>. QED BY <1>1, <1>3, <1>4 DEF Answering

LEMMA NextAnswering == Typed /\ Copies /\ Answering /\ [Next]_vars => Answering'
<1>. SUFFICES ASSUME Typed, Copies, Answering, [Next]_vars PROVE Answering'
  OBVIOUS
<1>. USE DEF LoopUnchanged, OutsideUnchanged, queues, tools, history
<1>0. config' = config
  BY ConfigFixed
<1>b. ASSUME UNCHANGED <<context, todo, running, results>>, Batch PROVE Batch'
  <2>1. AnsweredNow' = AnsweredNow /\ LeftOver' = LeftOver
    BY <1>b DEF AnsweredNow, LeftOver
  <2>2. /\ context' # <<>> /\ Last(context').role = "assistant" /\ Last(context').kind = "stop"
        /\ \A k \in 1 .. Len(context') - 1 : Complete(context', k, config'.interruptMode)
        /\ \A i \in 1 .. Len(results') : results'[i].role = "toolResult"
    BY <1>0, <1>b DEF Batch
  <2>3. /\ AnsweredNow' \cup LeftOver' \subseteq Elements(Last(context').calls)
        /\ config'.interruptMode = "wait" => AnsweredNow' \cup LeftOver' = Elements(Last(context').calls)
        /\ Last(context').calls # <<>> => AnsweredNow' \cup LeftOver' # {}
    BY <1>0, <1>b, <2>1 DEF Batch
  <2>. QED BY <2>2, <2>3 DEF Batch
<1>a. ASSUME UNCHANGED <<pc, messages, context, todo, running, results>> PROVE Answering'
  <2>1. Batch => Batch'
    BY <1>0, <1>a, <1>b
  <2>2. Transcript => Transcript'
    BY <1>0, <1>a DEF Transcript, Current
  <2>. QED BY <1>0, <1>a, <2>1, <2>2 DEF Answering
<1>1. ASSUME NEW n \in 1 .. MaxBatch, Prompt(n) PROVE Answering'
  BY <1>0, <1>1, PromptMessages, StartAnswering DEF Prompt
<1>2. CASE ContinueWithSteering \/ ContinueWithFollowUps \/ ContinueAsIs
  <2>1. /\ Taken(steeringQueue, config.steeringMode) \in Seq(UserMessage)
        /\ Taken(followUpQueue, config.followUpMode) \in Seq(UserMessage)
        /\ <<>> \in Seq(UserMessage)
    BY Drained DEF Typed, TypeOK
  <2>. QED BY <1>0, <1>2, <2>1, StartAnswering
           DEF ContinueWithSteering, ContinueWithFollowUps, ContinueAsIs
<1>3. CASE LoopStep
  BY <1>0, <1>3, LoopAnswering
<1>4. ASSUME NEW c \in Calls, ReportProgress(c) \/ ToolSettles(c) PROVE Answering'
  BY <1>4, <1>a DEF ReportProgress, ToolSettles
<1>5. CASE ListenerThrows \/ ProviderThrows \/ AfterToolCallThrows
  BY <1>5, FailAnswering DEF ListenerThrows, ProviderThrows, AfterToolCallThrows, AtRequest, Awaits
<1>6. CASE Steer \/ FollowUp \/ ClearSteeringQueue \/ ClearFollowUpQueue \/ Abort
  BY <1>6, <1>a DEF Steer, FollowUp, ClearSteeringQueue, ClearFollowUpQueue, Abort
<1>7. CASE Reset
  <2>1. messages' = <<>> /\ UNCHANGED <<pc, context, todo, running, results>>
    BY <1>7 DEF Reset
  <2>2. 1 .. Len(messages') = {}
    BY <2>1
  <2>3. pc = "tools" => Batch'
    BY <1>b, <2>1 DEF Answering
  <2>4. Transcript' /\ AllComplete(messages', config'.interruptMode)
    BY <2>2 DEF Transcript, AllComplete
  <2>. QED BY <1>0, <2>1, <2>2, <2>3, <2>4 DEF Answering
<1>8. CASE RemoveFailedAnswer
  <2>. DEFINE mode == config.interruptMode
  <2>1. /\ pc \in {"idle", "ending"} /\ messages # <<>> /\ Last(messages).kind = "error"
        /\ messages' = SubSeq(messages, 1, Len(messages) - 1)
        /\ UNCHANGED <<pc, context, running>>
    BY <1>8 DEF RemoveFailedAnswer
  <2>2. messages \in Seq(Message) /\ AllComplete(messages, mode)
    BY <2>1 DEF Typed, TypeOK, Answering
  <2>3. Splits(messages, messages', <<Last(messages)>>)
    BY <2>1, <2>2, SplitLast
  <2>4. Begins(messages', messages) /\ Len(messages) = Len(messages') + 1
    <3>1. Len(<<Last(messages)>>) = 1
      OBVIOUS
    <3>. QED BY <2>3, <3>1 DEF Splits, Begins
  <2>5. messages[Len(messages)].kind = "error"
    BY <2>1 DEF Last
  <2>6. ASSUME NEW k \in 1 .. Len(messages') PROVE Complete(messages', k, mode)
    <3>1. k \in 1 .. Len(messages)
      BY <2>2, <2>4
    <3>2. Complete(messages, k, mode)
      BY <2>2, <3>1 DEF AllComplete
    <3>. QED BY <2>4, <2>5, <3>2, CompleteWithoutLast
  <2>7. AllComplete(messages', mode)
    BY <2>6 DEF AllComplete
  <2>. QED BY <1>0, <2>1, <2>7 DEF Answering
<1>9. CASE UNCHANGED vars
  BY <1>9, <1>a DEF vars
<1>. QED BY <1>1, <1>2, <1>3, <1>4, <1>5, <1>6, <1>7, <1>8, <1>9 DEF Next

(* Before the model is asked again, each tool call of every finished       *)
(* answer in the context has its result right behind the answer; only an   *)
(* interrupt leaves calls out, never all of them, or a failure.            *)
THEOREM EveryCallAnswered == Spec => []CallsAnswered
<1>1. Typed /\ Copies /\ Answering /\ [Next]_vars => Answering'
  BY NextAnswering
<1>2. Answering => CallsAnswered
  BY DEF Answering, AllComplete, Complete, CallsAnswered, AtRequest
<1>. QED BY <1>1, <1>2, InitTyped, NextTyped, InitCopies, NextCopies, InitAnswering, PTL DEF Spec
=============================================================================
