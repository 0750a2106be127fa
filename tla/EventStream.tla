----------------------------- MODULE EventStream -----------------------------
(***************************************************************************)
(* Streams of events from a provider (packages/ai/src/utils/               *)
(* event-stream.ts) and the lazy provider that forwards one stream into    *)
(* another (packages/ai/src/providers/register-builtins.ts).               *)
(*                                                                         *)
(* The caller gets the outer stream at once.  When the provider's module   *)
(* is loaded, it makes the inner stream, pushes its events, the last one   *)
(* completing it, and ends it; a forwarder iterates over the inner stream  *)
(* and pushes into the outer one.  Several readers may iterate over the    *)
(* outer stream, and leave it before its end.                              *)
(***************************************************************************)
EXTENDS Naturals, Sequences

CONSTANTS
    Readers,    \* who iterate over the outer stream
    MaxDeltas   \* bound: events pushed before the last one

Streams   == {"inner", "outer"}
Forwarder == "forwarder"
Iterators == Readers \cup {Forwarder}
None      == 0
Last      == MaxDeltas + 1      \* done or error: isComplete holds
Events    == 1 .. Last

ASSUME StreamAssumption == Forwarder \notin Readers /\ MaxDeltas \in Nat

VARIABLES
    stream,     \* stream -> its queue, waiting consumers, done, and result
    reader,     \* iterator -> where it is, and the event it has in hand
    provider,   \* what the provider is at
    pushed,     \* history: the events the provider pushed
    taken       \* history: the events handed to the readers of the outer stream

streamVars == <<stream, reader, provider, pushed, taken>>

NewStream == [queue |-> <<>>, waiting |-> <<>>, done |-> FALSE, result |-> None]

Stream == [queue: Seq(Events), waiting: Seq(Iterators), done: BOOLEAN,
           result: Events \cup {None}]

StreamTypeOK ==
    /\ stream \in [Streams -> Stream]
    /\ reader \in [Iterators -> [at: {"new", "waiting", "busy", "returned", "left"},
                                 event: Events \cup {None}]]
    /\ provider \in {"loading", "failed", "streaming", "over"}
    /\ pushed \in Seq(Events) /\ taken \in Seq(Events)

StreamInit ==
    /\ stream = [s \in Streams |-> NewStream]
    /\ reader = [r \in Iterators |-> [at |-> "new", event |-> None]]
    /\ provider = "loading"
    /\ pushed = <<>> /\ taken = <<>>

-----------------------------------------------------------------------------
(* Mutant of Pushed: the event is queued also when a consumer waited. *)
QueuedAndHanded(st, e) ==
    IF st.done THEN st
    ELSE [queue   |-> Append(st.queue, e),
          waiting |-> IF st.waiting = <<>> THEN <<>> ELSE Tail(st.waiting),
          done    |-> e = Last,
          result  |-> IF e = Last THEN e ELSE st.result]

(* push: nothing once the stream is done; the last event completes it; the *)
(* consumer that waits longest gets the event, or it is queued.            *)
Pushed(st, e) ==
    IF st.done THEN st
    ELSE [queue   |-> IF st.waiting = <<>> THEN Append(st.queue, e) ELSE st.queue,
          waiting |-> IF st.waiting = <<>> THEN <<>> ELSE Tail(st.waiting),
          done    |-> e = Last,
          result  |-> IF e = Last THEN e ELSE st.result]

(* Who gets an event pushed now. *)
Served(st) == IF st.done \/ st.waiting = <<>> THEN {} ELSE {Head(st.waiting)}

(* end: a result is only taken when there is none yet. *)
Ended(st, result) ==
    [queue   |-> st.queue,
     waiting |-> <<>>,
     done    |-> TRUE,
     result  |-> IF st.result = None THEN result ELSE st.result]

(* Mutant of Woken: the end is noted, and nobody told. *)
NobodyWoken(st) == {}

(* Who learn of the end: all that wait. *)
Woken(st) == {st.waiting[i] : i \in 1 .. Len(st.waiting)}

(* The iterators after event e went to those in S and the end to those in W. *)
Told(readers, S, e, W) ==
    [r \in Iterators |->
        IF r \in S THEN [at |-> "busy", event |-> e]
        ELSE IF r \in W THEN [at |-> "returned", event |-> None] ELSE readers[r]]

(* The module of the provider is loaded: the forwarder starts. *)
Load ==
    /\ provider = "loading"
    /\ provider' = "streaming"
    /\ UNCHANGED <<stream, reader, pushed, taken>>

(* It cannot be loaded: emitLoadError pushes an error and ends the stream. *)
LoadFails ==
    LET st   == stream["outer"]
        full == Pushed(st, Last)
    IN
    /\ provider = "loading"
    /\ provider' = "failed"
    /\ stream' = [stream EXCEPT !["outer"] = Ended(full, Last)]
    /\ reader' = Told(reader, Served(st), Last, Woken(full))
    /\ pushed' = Append(pushed, Last)
    /\ taken' = IF Served(st) = {} THEN taken ELSE Append(taken, Last)

(* The provider pushes a part of its answer. *)
PushDelta ==
    LET st == stream["inner"]
        e  == Len(pushed) + 1
    IN
    /\ provider = "streaming" /\ e < Last
    /\ stream' = [stream EXCEPT !["inner"] = Pushed(st, e)]
    /\ reader' = Told(reader, Served(st), e, {})
    /\ pushed' = Append(pushed, e)
    /\ UNCHANGED <<provider, taken>>

(* The answer is complete, or the request failed: done or error, then the  *)
(* end, without an await between them.                                     *)
Finish ==
    LET st   == stream["inner"]
        full == Pushed(st, Last)
    IN
    /\ provider = "streaming"
    /\ provider' = "over"
    /\ stream' = [stream EXCEPT !["inner"] = Ended(full, None)]
    /\ reader' = Told(reader, Served(st), Last, Woken(full))
    /\ pushed' = Append(pushed, Last)
    /\ UNCHANGED taken

(* A queued event is taken; a consumer begins to wait. *)
Shifted(st) == [queue |-> Tail(st.queue), waiting |-> st.waiting,
                done |-> st.done, result |-> st.result]
WithWaiter(st, r) == [queue |-> st.queue, waiting |-> Append(st.waiting, r),
                      done |-> st.done, result |-> st.result]

(* The iterator r of stream s asks for the next event. *)
TakeQueued(r, s) ==
    LET st == stream[s] IN
    /\ st.queue # <<>>
    /\ stream' = [stream EXCEPT ![s] = Shifted(@)]
    /\ reader' = Told(reader, {r}, Head(st.queue), {})
    /\ taken' = IF s = "outer" THEN Append(taken, Head(st.queue)) ELSE taken

ReturnAtEnd(r, s) ==
    /\ stream[s].queue = <<>> /\ stream[s].done
    /\ reader' = Told(reader, {}, None, {r})
    /\ UNCHANGED <<stream, taken>>

WaitForEvent(r, s) ==
    /\ stream[s].queue = <<>> /\ ~stream[s].done
    /\ stream' = [stream EXCEPT ![s] = WithWaiter(@, r)]
    /\ reader' = [reader EXCEPT ![r] = [at |-> "waiting", event |-> None]]
    /\ UNCHANGED taken

Ask(r, s) == TakeQueued(r, s) \/ ReturnAtEnd(r, s) \/ WaitForEvent(r, s)

Read(r) ==
    /\ reader[r].at \in {"new", "busy"}
    /\ Ask(r, "outer")
    /\ UNCHANGED <<provider, pushed>>

(* break or return in the body of the loop, like the agent loop's at the   *)
(* end of an answer.                                                       *)
Leave(r) ==
    /\ reader[r].at = "busy"
    /\ reader' = [reader EXCEPT ![r] = [at |-> "left", event |-> None]]
    /\ UNCHANGED <<stream, provider, pushed, taken>>

(* forwardEvents: asks for an event, pushes it into the outer stream, asks *)
(* again; at the end it ends the outer stream.                             *)
ForwardAsks ==
    /\ reader[Forwarder].at = "new" /\ provider \in {"streaming", "over"}
    /\ Ask(Forwarder, "inner")
    /\ UNCHANGED <<provider, pushed>>

ForwardPushes ==
    LET st == stream["outer"]
        e  == reader[Forwarder].event
    IN
    /\ reader[Forwarder].at = "busy"
    /\ stream' = [stream EXCEPT !["outer"] = Pushed(st, e)]
    /\ reader' = [Told(reader, Served(st), e, {}) EXCEPT ![Forwarder] = [at |-> "new", event |-> None]]
    /\ taken' = IF Served(st) = {} THEN taken ELSE Append(taken, e)
    /\ UNCHANGED <<provider, pushed>>

ForwardEnds ==
    LET st == stream["outer"] IN
    /\ reader[Forwarder].at = "returned"
    /\ stream' = [stream EXCEPT !["outer"] = Ended(st, None)]
    /\ reader' = [Told(reader, {}, None, Woken(st)) EXCEPT ![Forwarder] = [at |-> "left", event |-> None]]
    /\ UNCHANGED <<provider, pushed, taken>>

Forward == ForwardAsks \/ ForwardPushes \/ ForwardEnds

Progress ==
    \/ Load \/ LoadFails \/ Finish \/ Forward
    \/ \E r \in Readers : Read(r) \/ Leave(r)

StreamNext == Progress \/ PushDelta

(* The import settles, the request ends, and whoever holds an event or has *)
(* been told goes on.                                                      *)
StreamSpec == StreamInit /\ [][StreamNext]_streamVars /\ WF_streamVars(Progress)

-----------------------------------------------------------------------------
Mail == INSTANCE Mailbox WITH Messages <- Events, sent <- pushed, delivered <- taken

(* From the provider to the readers, through both streams, every event is  *)
(* handed out at most once and in the order in which it was pushed.        *)
DeliversInOrder == Mail!MailSpec

(* Everyone who iterates comes to an end, also next to others that took    *)
(* the last event, and whoever awaits result() gets it.                    *)
StreamsEnd ==
    (provider # "loading") ~>
        /\ stream["outer"].result = Last
        /\ \A r \in Readers : reader[r].at \in {"returned", "left"}
=============================================================================
