------------------------- MODULE EventStream_proofs -------------------------
(***************************************************************************)
(* The forwarded stream of a provider implements Mailbox, for any number   *)
(* of events and of readers that come, wait and leave as they like.        *)
(*                                                                         *)
(* Behind what the readers took, the events that were pushed stand in a    *)
(* row: those queued in the outer stream, the one the forwarder has in     *)
(* hand, those queued in the inner stream.  Nothing is dropped on the way, *)
(* because a stream that is done has nothing in front of it any more.      *)
(***************************************************************************)
EXTENDS EventStream, TLAPS

(* The row: of the pushed events P, t are taken, Q are queued outside, h   *)
(* (one or none, then e) in hand, and R are queued inside.                 *)
InARow(P, t, Q, h, e, R) ==
    /\ Len(P) = t + Len(Q) + h + Len(R)
    /\ \A i \in 1 .. Len(Q) : Q[i] = P[t + i]
    /\ h = 1 => e = P[t + Len(Q) + 1]
    /\ \A i \in 1 .. Len(R) : R[i] = P[t + Len(Q) + h + i]

InHand == IF reader[Forwarder].at = "busy" THEN 1 ELSE 0

OnTheWay == InARow(pushed, Len(taken), stream["outer"].queue,
                   InHand, reader[Forwarder].event, stream["inner"].queue)

(* Only the forwarder waits at the inner stream, and only readers wait at  *)
(* the outer one; nobody waits for what is queued.                         *)
Waiters ==
    /\ stream["outer"].waiting \in Seq(Readers)
    /\ stream["inner"].waiting = IF reader[Forwarder].at = "waiting" THEN <<Forwarder>> ELSE <<>>
    /\ \A s \in Streams : stream[s].waiting # <<>> => stream[s].queue = <<>>

(* The last event is pushed once, and when a stream is done nothing comes  *)
(* after what it has.                                                      *)
LastOne ==
    /\ \A i \in 1 .. Len(pushed) :
          pushed[i] = Last => i = Len(pushed) /\ provider \in {"failed", "over"}
    /\ stream["inner"].done <=> provider = "over"
    /\ provider = "loading" => pushed = <<>>
    /\ provider \in {"loading", "failed"} => reader[Forwarder].at = "new"
    /\ reader[Forwarder].at \in {"returned", "left"} =>
          provider = "over" /\ stream["inner"].queue = <<>>
    /\ stream["outer"].done =>
          provider \in {"failed", "over"} /\ InHand = 0 /\ stream["inner"].queue = <<>>

StreamInv == StreamTypeOK /\ OnTheWay /\ Waiters /\ LastOne

-----------------------------------------------------------------------------
(* How the row moves on. *)

LEMMA RowTaken ==
    ASSUME NEW P \in Seq(Events), NEW Q \in Seq(Events), NEW R \in Seq(Events),
           NEW t \in Nat, NEW h \in {0, 1}, NEW e, InARow(P, t, Q, h, e, R), Q # <<>>
    PROVE  /\ InARow(P, t + 1, Tail(Q), h, e, R)
           /\ t < Len(P) /\ Head(Q) = P[t + 1]
<1>1. /\ Len(Tail(Q)) = Len(Q) - 1 /\ Head(Q) = Q[1] /\ Len(Q) \in Nat \ {0}
      /\ \A i \in 1 .. Len(Q) - 1 : Tail(Q)[i] = Q[i + 1]
  OBVIOUS
<1>. QED BY <1>1 DEF InARow

LEMMA RowAsked ==
    ASSUME NEW P \in Seq(Events), NEW Q \in Seq(Events), NEW R \in Seq(Events),
           NEW t \in Nat, NEW e, InARow(P, t, Q, 0, e, R), R # <<>>
    PROVE  InARow(P, t, Q, 1, Head(R), Tail(R))
<1>1. /\ Len(Tail(R)) = Len(R) - 1 /\ Head(R) = R[1] /\ Len(R) \in Nat \ {0}
      /\ \A i \in 1 .. Len(R) - 1 : Tail(R)[i] = R[i + 1]
  OBVIOUS
<1>2. Len(Q) \in Nat
  OBVIOUS
<1>3. Len(P) = t + Len(Q) + 1 + Len(Tail(R)) /\ Head(R) = P[t + Len(Q) + 1]
  BY <1>1, <1>2 DEF InARow
<1>4. ASSUME NEW i \in 1 .. Len(Tail(R)) PROVE Tail(R)[i] = P[t + Len(Q) + 1 + i]
  <2>1. i + 1 \in 1 .. Len(R) /\ Tail(R)[i] = R[i + 1]
    BY <1>1
  <2>2. R[i + 1] = P[t + Len(Q) + 0 + (i + 1)]
    BY <2>1 DEF InARow
  <2>3. t + Len(Q) + 0 + (i + 1) = t + Len(Q) + 1 + i
    BY <1>2
  <2>. QED BY <2>1, <2>2, <2>3
<1>. QED BY <1>3, <1>4 DEF InARow

LEMMA RowQueued ==
    ASSUME NEW P \in Seq(Events), NEW Q \in Seq(Events), NEW R \in Seq(Events),
           NEW t \in Nat, NEW e \in Events, NEW f, InARow(P, t, Q, 1, e, R)
    PROVE  InARow(P, t, Append(Q, e), 0, f, R)
<1>1. /\ Len(Append(Q, e)) = Len(Q) + 1 /\ Len(Q) \in Nat /\ Append(Q, e)[Len(Q) + 1] = e
      /\ \A i \in 1 .. Len(Q) : Append(Q, e)[i] = Q[i]
  OBVIOUS
<1>2. Len(R) \in Nat
  OBVIOUS
<1>3. Len(P) = t + Len(Append(Q, e)) + 0 + Len(R)
  BY <1>1, <1>2 DEF InARow
<1>4. ASSUME NEW i \in 1 .. Len(Append(Q, e)) PROVE Append(Q, e)[i] = P[t + i]
  <2>1. CASE i = Len(Q) + 1
    BY <1>1, <2>1 DEF InARow
  <2>2. CASE i # Len(Q) + 1
    BY <1>1, <2>2, SMTT(30) DEF InARow
  <2>. QED BY <2>1, <2>2
<1>5. ASSUME NEW i \in 1 .. Len(R) PROVE R[i] = P[t + Len(Append(Q, e)) + 0 + i]
  <2>1. R[i] = P[t + Len(Q) + 1 + i]
    BY DEF InARow
  <2>2. t + Len(Q) + 1 + i = t + Len(Append(Q, e)) + 0 + i
    BY <1>1
  <2>. QED BY <2>1, <2>2
<1>. QED BY <1>3, <1>4, <1>5 DEF InARow

LEMMA RowServed ==
    ASSUME NEW P \in Seq(Events), NEW R \in Seq(Events),
           NEW t \in Nat, NEW e \in Events, NEW f, InARow(P, t, <<>>, 1, e, R)
    PROVE  /\ InARow(P, t + 1, <<>>, 0, f, R)
           /\ t < Len(P) /\ e = P[t + 1]
BY DEF InARow

LEMMA RowPushed ==
    ASSUME NEW P \in Seq(Events), NEW Q \in Seq(Events), NEW R \in Seq(Events),
           NEW t \in Nat, NEW h \in {0, 1}, NEW e, NEW f \in Events, InARow(P, t, Q, h, e, R)
    PROVE  /\ InARow(Append(P, f), t, Q, h, e, Append(R, f))
           /\ h = 0 /\ R = <<>> => InARow(Append(P, f), t, Q, 1, f, R)
<1>1. /\ Len(Append(R, f)) = Len(R) + 1 /\ Len(R) \in Nat /\ Append(R, f)[Len(R) + 1] = f
      /\ \A i \in 1 .. Len(R) : Append(R, f)[i] = R[i]
  OBVIOUS
<1>2. /\ Len(Append(P, f)) = Len(P) + 1 /\ Len(P) \in Nat /\ Append(P, f)[Len(P) + 1] = f
      /\ \A i \in 1 .. Len(P) : Append(P, f)[i] = P[i]
  OBVIOUS
<1>3. Len(Q) \in Nat
  OBVIOUS
<1>4. /\ \A i \in 1 .. Len(Q) : Q[i] = Append(P, f)[t + i]
      /\ h = 1 => e = Append(P, f)[t + Len(Q) + 1]
      /\ \A i \in 1 .. Len(R) : R[i] = Append(P, f)[t + Len(Q) + h + i]
  <2>1. Len(P) = t + Len(Q) + h + Len(R)
    BY DEF InARow
  <2>2. ASSUME NEW i \in 1 .. Len(Q) PROVE Q[i] = Append(P, f)[t + i]
    <3>1. t + i \in 1 .. Len(P) /\ Q[i] = P[t + i]
      BY <1>1, <1>3, <2>1 DEF InARow
    <3>. QED BY <1>2, <3>1
  <2>3. ASSUME h = 1 PROVE e = Append(P, f)[t + Len(Q) + 1]
    <3>1. t + Len(Q) + 1 \in 1 .. Len(P) /\ e = P[t + Len(Q) + 1]
      BY <1>1, <1>3, <2>1, <2>3 DEF InARow
    <3>. QED BY <1>2, <3>1
  <2>4. ASSUME NEW i \in 1 .. Len(R) PROVE R[i] = Append(P, f)[t + Len(Q) + h + i]
    <3>1. t + Len(Q) + h + i \in 1 .. Len(P) /\ R[i] = P[t + Len(Q) + h + i]
      BY <1>1, <1>3, <2>1 DEF InARow
    <3>. QED BY <1>2, <3>1
  <2>. QED BY <2>2, <2>3, <2>4
<1>5. InARow(Append(P, f), t, Q, h, e, Append(R, f))
  <2>1. Len(Append(P, f)) = t + Len(Q) + h + Len(Append(R, f))
    BY <1>1, <1>2, <1>3 DEF InARow
  <2>2. ASSUME NEW i \in 1 .. Len(Append(R, f))
        PROVE  Append(R, f)[i] = Append(P, f)[t + Len(Q) + h + i]
    <3>1. CASE i = Len(R) + 1
      <4>1. t + Len(Q) + h + i = Len(P) + 1
        BY <1>1, <1>3, <3>1 DEF InARow
      <4>. QED BY <1>1, <1>2, <3>1, <4>1
    <3>2. CASE i # Len(R) + 1
      <4>1. i \in 1 .. Len(R)
        BY <1>1, <3>2
      <4>. QED BY <1>1, <1>4, <4>1
    <3>. QED BY <3>1, <3>2
  <2>. QED BY <1>4, <2>1, <2>2 DEF InARow
<1>6. ASSUME h = 0, R = <<>> PROVE InARow(Append(P, f), t, Q, 1, f, R)
  <2>1. Len(P) = t + Len(Q)
    BY <1>3, <1>6 DEF InARow
  <2>. QED BY <1>2, <1>3, <1>4, <1>6, <2>1 DEF InARow
<1>. QED BY <1>5, <1>6

(* With nothing in hand the last argument but one does not matter. *)
LEMMA RowIdle ==
    ASSUME NEW P, NEW t, NEW Q, NEW e, NEW f, NEW R, InARow(P, t, Q, 0, e, R)
    PROVE  InARow(P, t, Q, 0, f, R)
BY DEF InARow

(* As long as nothing was pushed, there is nothing. *)
LEMMA RowEmpty ==
    ASSUME NEW T \in Seq(Events), NEW Q \in Seq(Events), NEW R \in Seq(Events), NEW e,
           InARow(<<>>, Len(T), Q, 0, e, R)
    PROVE  T = <<>> /\ Q = <<>> /\ R = <<>>
<1>1. Len(T) \in Nat /\ Len(Q) \in Nat /\ Len(R) \in Nat
  OBVIOUS
<1>2. Len(T) + Len(Q) + 0 + Len(R) = 0
  BY DEF InARow
<1>3. Len(T) = 0 /\ Len(Q) = 0 /\ Len(R) = 0
  BY <1>1, <1>2
<1>. QED BY <1>3

(* What is in hand was pushed. *)
LEMMA InHandPushed ==
    ASSUME NEW P \in Seq(Events), NEW Q \in Seq(Events), NEW R \in Seq(Events),
           NEW t \in Nat, NEW e, InARow(P, t, Q, 1, e, R)
    PROVE  e \in Events
<1>1. Len(Q) \in Nat /\ Len(R) \in Nat
  OBVIOUS
<1>2. t + Len(Q) + 1 \in 1 .. Len(P) /\ e = P[t + Len(Q) + 1]
  BY <1>1 DEF InARow
<1>. QED BY <1>2

(* Nothing comes after the last event. *)
LEMMA RowEnds ==
    ASSUME NEW P \in Seq(Events), NEW Q \in Seq(Events), NEW R \in Seq(Events),
           NEW t \in Nat, NEW e, InARow(P, t, Q, 1, e, R), e = Last,
           \A i \in 1 .. Len(P) : P[i] = Last => i = Len(P)
    PROVE  R = <<>> /\ \E i \in 1 .. Len(P) : P[i] = Last
<1>1. Len(Q) \in Nat /\ Len(R) \in Nat /\ (Len(R) = 0 => R = <<>>)
  OBVIOUS
<1>2. t + Len(Q) + 1 \in 1 .. Len(P) /\ P[t + Len(Q) + 1] = Last
  BY <1>1 DEF InARow
<1>. QED BY <1>1, <1>2 DEF InARow

-----------------------------------------------------------------------------
(* Streams and readers. *)

ReaderType == [at: {"new", "waiting", "busy", "returned", "left"}, event: Events \cup {None}]
Readings   == [Iterators -> ReaderType]

LEMMA Ranges ==
    /\ Last \in Events /\ Events \subseteq Nat /\ Forwarder \in Iterators
    /\ Forwarder \notin Readers /\ Readers \subseteq Iterators
    /\ "inner" \in Streams /\ "outer" \in Streams
BY StreamAssumption DEF Last, Events, Iterators, Streams

LEMMA StreamOperations ==
    ASSUME NEW st \in Stream, NEW e \in Events
    PROVE  /\ Pushed(st, e) \in Stream
           /\ \A r \in Events \cup {None} : Ended(st, r) \in Stream
           /\ st.queue # <<>> => Shifted(st) \in Stream
           /\ \A r \in Iterators : WithWaiter(st, r) \in Stream
BY DEF Pushed, Ended, Shifted, WithWaiter, Stream

LEMMA ToldTypes ==
    ASSUME reader \in Readings, NEW S, NEW W, NEW e \in Events \cup {None}
    PROVE  /\ Told(reader, S, e, W) \in Readings
           /\ \A r \in Iterators :
                 /\ r \notin S \cup W => Told(reader, S, e, W)[r] = reader[r]
                 /\ r \in S => Told(reader, S, e, W)[r] = [at |-> "busy", event |-> e]
                 /\ r \in W \ S => Told(reader, S, e, W)[r] = [at |-> "returned", event |-> None]
BY DEF Told, Readings, ReaderType

LEMMA ForwarderTold ==
    ASSUME reader \in Readings, NEW e \in Events \cup {None}
    PROVE  /\ reader' = Told(reader, {Forwarder}, e, {}) =>
                 reader' \in Readings /\ reader'[Forwarder] = [at |-> "busy", event |-> e]
           /\ reader' = Told(reader, {}, e, {Forwarder}) =>
                 /\ reader' \in Readings
                 /\ reader'[Forwarder] = [at |-> "returned", event |-> None]
BY Ranges DEF Told, Readings, ReaderType

LEMMA ForwarderNotTold ==
    ASSUME reader \in Readings, NEW S, NEW W, NEW e \in Events \cup {None},
           reader' = Told(reader, S, e, W), Forwarder \notin S \cup W
    PROVE  reader' \in Readings /\ reader'[Forwarder] = reader[Forwarder]
BY Ranges DEF Told, Readings, ReaderType

(* A queue is asked, and a stream pushed into, at its ends. *)
LEMMA WaitersServed ==
    ASSUME NEW w \in Seq(Readers), w # <<>>
    PROVE  Tail(w) \in Seq(Readers) /\ Head(w) \in Readers
OBVIOUS

LEMMA EventTaken ==
    ASSUME NEW P \in Seq(Events), NEW T \in Seq(Events), Len(T) < Len(P)
    PROVE  /\ P[Len(T) + 1] \in Events
           /\ Append(T, P[Len(T) + 1]) \in Seq(Events)
           /\ Len(Append(T, P[Len(T) + 1])) = Len(T) + 1
OBVIOUS

(* A step of EventStream as the mailbox sees it. *)
Mailed == [Mail!MailNext]_<<pushed, taken>>

LEMMA MailedNothing == ASSUME UNCHANGED <<pushed, taken>> PROVE Mailed
BY DEF Mailed

LEMMA MailedPost ==
    ASSUME NEW e \in Events, pushed' = Append(pushed, e), taken' = taken
    PROVE  Mailed
BY DEF Mailed, Mail!MailNext, Mail!Post

LEMMA MailedHandOut ==
    ASSUME Len(taken) < Len(pushed'), taken' = Append(taken, pushed'[Len(taken) + 1]),
           pushed' = pushed \/ \E e \in Events : pushed' = Append(pushed, e)
    PROVE  Mailed
BY DEF Mailed, Mail!MailNext, Mail!Post, Mail!HandOut

-----------------------------------------------------------------------------
(* The steps of the provider. *)

(* An event goes to the forwarder if it waits, and into its queue if not.  *)
LEMMA InnerPush ==
    ASSUME StreamInv, provider = "streaming", NEW e \in Events, NEW st \in Stream,
           st.queue = Pushed(stream["inner"], e).queue, st.waiting = <<>>,
           stream' = [stream EXCEPT !["inner"] = st],
           reader' = Told(reader, Served(stream["inner"]), e, {}),
           pushed' = Append(pushed, e), UNCHANGED taken
    PROVE  /\ stream' \in [Streams -> Stream] /\ reader' \in Readings
           /\ pushed' \in Seq(Events) /\ taken' \in Seq(Events)
           /\ OnTheWay' /\ Waiters' /\ Mailed
           /\ stream'["outer"] = stream["outer"] /\ stream'["inner"] = st
           /\ reader'[Forwarder].at \in {"new", "busy"}
<1>. USE Ranges
<1>1. /\ stream \in [Streams -> Stream] /\ reader \in Readings
      /\ pushed \in Seq(Events) /\ taken \in Seq(Events) /\ Len(taken) \in Nat
      /\ \A s \in Streams : stream[s].queue \in Seq(Events)
  BY DEF StreamInv, StreamTypeOK, Readings, ReaderType, Stream
<1>2. /\ stream'["outer"] = stream["outer"] /\ stream'["inner"] = st
      /\ stream' \in [Streams -> Stream]
  BY <1>1 DEF Streams
<1>3. /\ reader' \in Readings
      /\ Forwarder \notin Served(stream["inner"]) => reader'[Forwarder] = reader[Forwarder]
      /\ Forwarder \in Served(stream["inner"]) =>
            reader'[Forwarder] = [at |-> "busy", event |-> e]
  <2>. DEFINE S == Served(stream["inner"])
  <2>. HIDE DEF S
  <2>1. reader' = Told(reader, S, e, {})
    BY DEF S
  <2>3. e \in Events \cup {None} /\ reader \in Readings /\ Forwarder \in Iterators
    BY <1>1
  <2>2. /\ reader' \in Readings
        /\ Forwarder \notin S \cup {} => reader'[Forwarder] = reader[Forwarder]
        /\ Forwarder \in S => reader'[Forwarder] = [at |-> "busy", event |-> e]
    BY <2>1, <2>3, ToldTypes
  <2>. QED BY <2>2 DEF S
<1>7. pushed' \in Seq(Events) /\ taken' \in Seq(Events)
  BY <1>1
<1>8. OnTheWay <=> InARow(pushed, Len(taken), stream["outer"].queue, InHand,
                          reader[Forwarder].event, stream["inner"].queue)
  BY DEF OnTheWay
<1>9. OnTheWay' <=> InARow(pushed', Len(taken), stream["outer"].queue, InHand',
                           reader'[Forwarder].event, st.queue)
  BY <1>2 DEF OnTheWay
<1>10. OnTheWay
  BY DEF StreamInv
<1>4. ~stream["inner"].done /\ reader[Forwarder].at \in {"new", "waiting", "busy"}
  BY <1>1 DEF StreamInv, LastOne, Readings, ReaderType
<1>5. CASE reader[Forwarder].at = "waiting"
  <2>0. stream["inner"].waiting = <<Forwarder>>
    BY <1>5 DEF StreamInv, Waiters
  <2>7. <<Forwarder>> # <<>>
    OBVIOUS
  <2>1. stream["inner"].waiting = <<Forwarder>> /\ stream["inner"].queue = <<>>
    BY <2>0, <2>7 DEF StreamInv, Waiters
  <2>2. Served(stream["inner"]) = {Forwarder} /\ st.queue = <<>>
    BY <1>4, <2>1 DEF Served, Pushed
  <2>3. reader'[Forwarder] = [at |-> "busy", event |-> e]
    BY <1>3, <2>2
  <2>4. InHand = 0 /\ InHand' = 1
    BY <1>5, <2>3 DEF InHand
  <2>5. OnTheWay'
    <3>1. InARow(pushed', Len(taken), stream["outer"].queue, 1, e, <<>>)
      BY <1>1, <1>8, <1>10, <2>1, <2>4, RowPushed
    <3>. QED BY <1>9, <2>2, <2>3, <2>4, <3>1
  <2>6. Waiters'
    BY <1>2, <2>2, <2>3 DEF StreamInv, Waiters, Streams
  <2>. QED BY <1>2, <1>3, <1>7, <2>3, <2>5, <2>6, MailedPost
<1>6. CASE reader[Forwarder].at # "waiting"
  <2>1. stream["inner"].waiting = <<>>
    BY <1>6 DEF StreamInv, Waiters
  <2>2. Served(stream["inner"]) = {} /\ st.queue = Append(stream["inner"].queue, e)
    BY <1>4, <2>1 DEF Served, Pushed
  <2>3. reader'[Forwarder] = reader[Forwarder]
    BY <1>3, <2>2
  <2>4. InHand' = InHand /\ InHand \in {0, 1}
    BY <2>3 DEF InHand
  <2>5. OnTheWay'
    <3>1. InARow(pushed', Len(taken), stream["outer"].queue, InHand,
                 reader[Forwarder].event, st.queue)
      BY <1>1, <1>8, <1>10, <2>2, <2>4, RowPushed
    <3>. QED BY <1>9, <2>3, <2>4, <3>1
  <2>6. Waiters'
    BY <1>2, <1>6, <2>3 DEF StreamInv, Waiters, Streams
  <2>. QED BY <1>2, <1>3, <1>4, <1>6, <1>7, <2>3, <2>5, <2>6, MailedPost
<1>. QED BY <1>5, <1>6

LEMMA LastAppended ==
    ASSUME NEW P \in Seq(Events), NEW e \in Events,
           \A i \in 1 .. Len(P) : P[i] # Last
    PROVE  /\ \A i \in 1 .. Len(Append(P, e)) : Append(P, e)[i] = Last => i = Len(Append(P, e))
           /\ e # Last => \A i \in 1 .. Len(Append(P, e)) : Append(P, e)[i] # Last
OBVIOUS

LEMMA PushDeltaStep == ASSUME StreamInv, PushDelta PROVE StreamInv' /\ Mailed
<1>. DEFINE e == Len(pushed) + 1
            st == Pushed(stream["inner"], e)
<1>. USE Ranges
<1>1. /\ stream["inner"] \in Stream /\ pushed \in Seq(Events)
      /\ provider = "streaming" /\ provider' = provider /\ e \in Events /\ e # Last
  BY DEF PushDelta, StreamInv, StreamTypeOK, Events, Last
<1>2. st \in Stream /\ st.done = FALSE
  BY <1>1, StreamOperations DEF Pushed, StreamInv, LastOne
<1>3. st.waiting = <<>>
  BY <1>1 DEF Pushed, StreamInv, LastOne, Waiters
<1>4. /\ stream' \in [Streams -> Stream] /\ reader' \in Readings
      /\ pushed' \in Seq(Events) /\ taken' \in Seq(Events)
      /\ OnTheWay' /\ Waiters' /\ Mailed
      /\ stream'["outer"] = stream["outer"] /\ stream'["inner"] = st
      /\ reader'[Forwarder].at \in {"new", "busy"}
  <2>1. /\ stream' = [stream EXCEPT !["inner"] = st]
        /\ reader' = Told(reader, Served(stream["inner"]), e, {})
        /\ pushed' = Append(pushed, e) /\ UNCHANGED taken
    BY DEF PushDelta
  <2>. HIDE DEF e, st
  <2>. QED BY <1>1, <1>2, <1>3, <2>1, InnerPush DEF st
<1>5. StreamTypeOK'
  BY <1>1, <1>4 DEF StreamTypeOK, Readings, ReaderType
<1>6. LastOne'
  <2>1. ~stream["outer"].done /\ \A i \in 1 .. Len(pushed) : pushed[i] # Last
    BY <1>1 DEF StreamInv, LastOne
  <2>2. pushed' = Append(pushed, e)
    BY DEF PushDelta
  <2>3. \A i \in 1 .. Len(pushed') : pushed'[i] # Last
    BY <1>1, <2>1, <2>2, LastAppended
  <2>. QED BY <1>1, <1>2, <1>4, <2>1, <2>3 DEF LastOne
<1>. QED BY <1>4, <1>5, <1>6 DEF StreamInv

LEMMA FinishStep == ASSUME StreamInv, Finish PROVE StreamInv' /\ Mailed
<1>. DEFINE full == Pushed(stream["inner"], Last)
            st == Ended(full, None)
<1>. USE Ranges
<1>1. /\ stream["inner"] \in Stream /\ pushed \in Seq(Events)
      /\ provider = "streaming" /\ provider' = "over"
  BY DEF Finish, StreamInv, StreamTypeOK
<1>2. full \in Stream /\ full.waiting = <<>>
  <2>1. full \in Stream
    BY <1>1, StreamOperations
  <2>2. stream["inner"].waiting \in {<<>>, <<Forwarder>>}
    BY DEF StreamInv, Waiters
  <2>3. ~stream["inner"].done
    BY <1>1 DEF StreamInv, LastOne
  <2>4. full.waiting = IF stream["inner"].waiting = <<>> THEN <<>>
                       ELSE Tail(stream["inner"].waiting)
    BY <2>3 DEF Pushed
  <2>5. Tail(<<Forwarder>>) = <<>>
    OBVIOUS
  <2>. QED BY <2>1, <2>2, <2>4, <2>5
<1>3. st \in Stream /\ st.queue = full.queue /\ st.waiting = <<>> /\ st.done = TRUE
  BY <1>2, StreamOperations DEF Ended
<1>4. /\ stream' \in [Streams -> Stream] /\ reader' \in Readings
      /\ pushed' \in Seq(Events) /\ taken' \in Seq(Events)
      /\ OnTheWay' /\ Waiters' /\ Mailed
      /\ stream'["outer"] = stream["outer"] /\ stream'["inner"] = st
      /\ reader'[Forwarder].at \in {"new", "busy"}
  <2>1. Woken(full) = {}
    BY <1>2 DEF Woken
  <2>2. /\ stream' = [stream EXCEPT !["inner"] = st]
        /\ reader' = Told(reader, Served(stream["inner"]), Last, {})
        /\ pushed' = Append(pushed, Last) /\ UNCHANGED taken
    BY <2>1 DEF Finish
  <2>. HIDE DEF st
  <2>. QED BY <1>1, <1>3, <2>2, InnerPush
<1>5. StreamTypeOK'
  BY <1>1, <1>4 DEF StreamTypeOK, Readings, ReaderType
<1>6. LastOne'
  <2>1. ~stream["outer"].done /\ \A i \in 1 .. Len(pushed) : pushed[i] # Last
    BY <1>1 DEF StreamInv, LastOne
  <2>2. pushed' = Append(pushed, Last)
    BY DEF Finish
  <2>3. \A i \in 1 .. Len(pushed') : pushed'[i] = Last => i = Len(pushed')
    BY <1>1, <2>1, <2>2, LastAppended
  <2>. QED BY <1>1, <1>3, <1>4, <2>1, <2>3 DEF LastOne
<1>. QED BY <1>4, <1>5, <1>6 DEF StreamInv

-----------------------------------------------------------------------------
(* The steps of the forwarder. *)

LEMMA TypesUnfolded ==
    ASSUME StreamInv
    PROVE  /\ stream \in [Streams -> Stream] /\ reader \in Readings
           /\ pushed \in Seq(Events) /\ taken \in Seq(Events) /\ Len(taken) \in Nat
           /\ \A s \in Streams : stream[s] \in Stream /\ stream[s].queue \in Seq(Events)
           /\ \A r \in Iterators : reader[r].event \in Events \cup {None}
           /\ InARow(pushed, Len(taken), stream["outer"].queue, InHand,
                     reader[Forwarder].event, stream["inner"].queue)
BY DEF StreamInv, StreamTypeOK, OnTheWay, Readings, ReaderType, Stream

(* It takes an event in hand. *)
LEMMA ForwarderTakes ==
    ASSUME StreamInv, reader[Forwarder].at = "new", TakeQueued(Forwarder, "inner"),
           provider \in {"streaming", "over"}, UNCHANGED <<provider, pushed>>
    PROVE  StreamInv' /\ Mailed
<1>. DEFINE st == stream["inner"]
<1>. USE Ranges, TypesUnfolded
<1>1. /\ st \in Stream /\ st.queue \in Seq(Events) /\ st.queue # <<>>
      /\ stream' = [stream EXCEPT !["inner"] = Shifted(st)]
      /\ reader' = Told(reader, {Forwarder}, Head(st.queue), {})
      /\ UNCHANGED taken
  BY DEF TakeQueued
<1>2. /\ stream' \in [Streams -> Stream] /\ stream'["outer"] = stream["outer"]
      /\ stream'["inner"] = Shifted(st)
  BY <1>1, StreamOperations DEF Streams
<1>3. Head(st.queue) \in Events
  BY <1>1
<1>4. /\ reader' \in Readings
      /\ reader'[Forwarder] = [at |-> "busy", event |-> Head(st.queue)]
  BY <1>1, <1>3, ForwarderTold
<1>5. StreamTypeOK'
  BY <1>1, <1>2, <1>4 DEF StreamInv, StreamTypeOK, Readings, ReaderType
<1>6. InHand = 0 /\ InHand' = 1
  BY <1>4 DEF InHand
<1>7. OnTheWay'
  <2>1. InARow(pushed, Len(taken), stream["outer"].queue, 1, Head(st.queue), Tail(st.queue))
    BY <1>1, <1>6, RowAsked
  <2>. QED BY <1>1, <1>2, <1>4, <1>6, <2>1 DEF OnTheWay, Shifted
<1>8. st.waiting = <<>>
  BY DEF StreamInv, Waiters
<1>9. Waiters'
  BY <1>2, <1>4, <1>8 DEF StreamInv, Waiters, Shifted, Streams
<1>10. ~stream["outer"].done
  BY <1>1 DEF StreamInv, LastOne
<1>11. LastOne'
  BY <1>2, <1>4, <1>10 DEF StreamInv, LastOne, Shifted
<1>. QED BY <1>1, <1>5, <1>7, <1>9, <1>11, MailedNothing DEF StreamInv

(* It waits, or learns that the stream is at its end. *)
LEMMA ForwarderWaits ==
    ASSUME StreamInv, reader[Forwarder].at = "new", provider \in {"streaming", "over"},
           ReturnAtEnd(Forwarder, "inner") \/ WaitForEvent(Forwarder, "inner"),
           UNCHANGED <<provider, pushed>>
    PROVE  StreamInv' /\ Mailed
<1>. DEFINE st == stream["inner"]
<1>. USE Ranges, TypesUnfolded
<1>1. /\ st \in Stream /\ st.queue = <<>> /\ st.waiting = <<>> /\ UNCHANGED taken
      /\ InHand = 0
  BY DEF ReturnAtEnd, WaitForEvent, StreamInv, Waiters, InHand
<1>2. CASE ReturnAtEnd(Forwarder, "inner")
  <2>1. stream' = stream /\ reader' = Told(reader, {}, None, {Forwarder}) /\ st.done
    BY <1>2 DEF ReturnAtEnd
  <2>2. /\ reader' \in Readings
        /\ reader'[Forwarder] = [at |-> "returned", event |-> None]
    BY <2>1, ForwarderTold
  <2>3. StreamTypeOK'
    BY <1>1, <2>1, <2>2 DEF StreamInv, StreamTypeOK, Readings, ReaderType
  <2>4. InHand' = 0
    BY <2>2 DEF InHand
  <2>5. OnTheWay'
    <3>1. InARow(pushed, Len(taken), stream["outer"].queue, 0, reader'[Forwarder].event, <<>>)
      BY <1>1, RowIdle
    <3>. QED BY <1>1, <2>1, <2>4, <3>1 DEF OnTheWay
  <2>6. Waiters'
    BY <1>1, <2>1, <2>2 DEF StreamInv, Waiters
  <2>7. LastOne'
    BY <1>1, <2>1, <2>2, <2>4 DEF StreamInv, LastOne
  <2>. QED BY <1>1, <2>3, <2>5, <2>6, <2>7, MailedNothing DEF StreamInv
<1>3. CASE WaitForEvent(Forwarder, "inner")
  <2>1. /\ stream' = [stream EXCEPT !["inner"] = WithWaiter(st, Forwarder)] /\ ~st.done
        /\ reader' = [reader EXCEPT ![Forwarder] = [at |-> "waiting", event |-> None]]
    BY <1>3 DEF WaitForEvent
  <2>2. /\ reader' \in Readings
        /\ reader'[Forwarder] = [at |-> "waiting", event |-> None]
    BY <2>1 DEF Readings, ReaderType
  <2>3. /\ stream' \in [Streams -> Stream] /\ stream'["outer"] = stream["outer"]
        /\ stream'["inner"] = WithWaiter(st, Forwarder)
    BY <1>1, <2>1, StreamOperations DEF Streams
  <2>4. StreamTypeOK'
    BY <1>1, <2>2, <2>3 DEF StreamInv, StreamTypeOK, Readings, ReaderType
  <2>5. InHand' = 0
    BY <2>2 DEF InHand
  <2>6. /\ stream'["inner"].queue = <<>> /\ stream'["inner"].waiting = <<Forwarder>>
        /\ stream'["inner"].done = st.done
    BY <1>1, <2>3 DEF WithWaiter
  <2>7. OnTheWay'
    <3>1. InARow(pushed, Len(taken), stream["outer"].queue, 0, reader'[Forwarder].event, <<>>)
      BY <1>1, RowIdle
    <3>. QED BY <1>1, <2>3, <2>5, <2>6, <3>1 DEF OnTheWay
  <2>8. Waiters'
    BY <1>1, <2>2, <2>3, <2>6 DEF StreamInv, Waiters, Streams
  <2>9. LastOne'
    BY <1>1, <2>2, <2>3, <2>5, <2>6 DEF StreamInv, LastOne
  <2>. QED BY <1>1, <2>4, <2>7, <2>8, <2>9, MailedNothing DEF StreamInv
<1>. QED BY <1>2, <1>3

(* It pushes the event into the outer stream. *)
LEMMA ForwardPushesStep == ASSUME StreamInv, ForwardPushes PROVE StreamInv' /\ Mailed
<1>. DEFINE st == stream["outer"]
            e  == reader[Forwarder].event
            R  == stream["inner"].queue
            told == Told(reader, Served(st), e, {})
<1>. USE Ranges, TypesUnfolded
<1>1. /\ st \in Stream /\ InHand = 1 /\ InHand \in {0, 1}
      /\ stream' = [stream EXCEPT !["outer"] = Pushed(st, e)]
      /\ reader' = [told EXCEPT ![Forwarder] = [at |-> "new", event |-> None]]
      /\ taken' = IF Served(st) = {} THEN taken ELSE Append(taken, e)
      /\ UNCHANGED <<provider, pushed>>
  BY DEF ForwardPushes, InHand
<1>2. ~st.done /\ provider \notin {"loading", "failed"}
  BY <1>1 DEF StreamInv, LastOne, InHand
<1>3. InARow(pushed, Len(taken), st.queue, 1, e, R)
  BY <1>1
<1>4. e \in Events
  BY <1>3, <1>1, InHandPushed
<1>5. /\ stream' \in [Streams -> Stream] /\ stream'["inner"] = stream["inner"]
      /\ stream'["outer"] = Pushed(st, e)
  BY <1>1, <1>4, StreamOperations DEF Streams
<1>6. told \in Readings
  <2>. HIDE DEF st, e
  <2>. QED BY ToldTypes DEF e
<1>7. /\ reader' \in Readings
      /\ reader'[Forwarder] = [at |-> "new", event |-> None]
  BY <1>1, <1>6 DEF Readings, ReaderType
<1>8. InHand' = 0
  BY <1>7 DEF InHand
<1>9. e = Last => R = <<>> /\ provider = "over"
  <2>1. \A i \in 1 .. Len(pushed) : pushed[i] = Last => i = Len(pushed) /\ provider = "over"
    BY <1>2 DEF StreamInv, LastOne
  <2>. QED BY <1>3, <2>1, RowEnds
<1>10. LastOne'
  <2>1. stream'["outer"].done => e = Last
    <3>1. stream'["outer"].done = (e = Last)
      BY <1>2, <1>5 DEF Pushed
    <3>. QED BY <3>1, Zenon
  <2>. QED BY <1>1, <1>2, <1>5, <1>7, <1>8, <1>9, <2>1 DEF StreamInv, LastOne
<1>11. stream["inner"].waiting = <<>> /\ st.waiting \in Seq(Readers)
  BY <1>1 DEF StreamInv, Waiters, InHand
<1>12. CASE st.waiting = <<>>
  <2>1. /\ Served(st) = {} /\ stream'["outer"].queue = Append(st.queue, e)
        /\ stream'["outer"].waiting = <<>>
    BY <1>2, <1>5, <1>12 DEF Served, Pushed
  <2>2. taken' = taken
    BY <1>1, <2>1
  <2>3. InARow(pushed, Len(taken), Append(st.queue, e), 0, reader'[Forwarder].event, R)
    BY <1>3, <1>4, RowQueued
  <2>4. OnTheWay'
    BY <1>1, <1>5, <1>8, <2>1, <2>2, <2>3 DEF OnTheWay
  <2>5. Waiters'
    BY <1>5, <1>7, <1>11, <2>1 DEF StreamInv, Waiters, Streams
  <2>6. StreamTypeOK'
    BY <1>1, <1>5, <1>7, <2>2 DEF StreamInv, StreamTypeOK, Readings, ReaderType
  <2>. QED BY <1>1, <1>10, <2>2, <2>4, <2>5, <2>6, MailedNothing DEF StreamInv
<1>13. CASE st.waiting # <<>>
  <2>1. st.queue = <<>>
    BY <1>13 DEF StreamInv, Waiters
  <2>2. /\ Served(st) # {} /\ stream'["outer"].queue = <<>>
        /\ stream'["outer"].waiting = Tail(st.waiting)
    BY <1>2, <1>5, <1>13, <2>1 DEF Served, Pushed
  <2>3. /\ Len(taken) < Len(pushed) /\ e = pushed[Len(taken) + 1]
        /\ InARow(pushed, Len(taken) + 1, <<>>, 0, reader'[Forwarder].event, R)
    <3>1. InARow(pushed, Len(taken), <<>>, 1, e, R)
      BY <1>3, <2>1
    <3>. QED BY <1>4, <3>1, RowServed
  <2>4. taken' = Append(taken, pushed[Len(taken) + 1])
    BY <1>1, <2>2, <2>3
  <2>5. taken' \in Seq(Events) /\ Len(taken') = Len(taken) + 1
    BY <2>3, <2>4, EventTaken
  <2>6. OnTheWay'
    BY <1>1, <1>5, <1>8, <2>2, <2>3, <2>5 DEF OnTheWay
  <2>7. Waiters'
    BY <1>5, <1>7, <1>11, <1>13, <2>2, WaitersServed DEF StreamInv, Waiters, Streams
  <2>8. StreamTypeOK'
    BY <1>1, <1>5, <1>7, <2>5 DEF StreamInv, StreamTypeOK, Readings, ReaderType
  <2>. QED BY <1>1, <1>10, <2>3, <2>4, <2>6, <2>7, <2>8, MailedHandOut DEF StreamInv
<1>. QED BY <1>12, <1>13

LEMMA ForwardEndsStep == ASSUME StreamInv, ForwardEnds PROVE StreamInv' /\ Mailed
<1>. DEFINE st == stream["outer"]
            told == Told(reader, {}, None, Woken(st))
<1>. USE Ranges, TypesUnfolded
<1>1. /\ st \in Stream /\ reader[Forwarder].at = "returned" /\ InHand = 0
      /\ stream' = [stream EXCEPT !["outer"] = Ended(st, None)]
      /\ reader' = [told EXCEPT ![Forwarder] = [at |-> "left", event |-> None]]
      /\ UNCHANGED <<provider, pushed, taken>>
  BY DEF ForwardEnds, InHand
<1>2. provider = "over" /\ stream["inner"].queue = <<>>
  BY <1>1 DEF StreamInv, LastOne
<1>3. /\ stream' \in [Streams -> Stream] /\ stream'["inner"] = stream["inner"]
      /\ stream'["outer"] = Ended(st, None)
  BY <1>1, StreamOperations DEF Streams
<1>4. told \in Readings
  BY ToldTypes
<1>5. reader' \in Readings /\ reader'[Forwarder] = [at |-> "left", event |-> None]
  BY <1>1, <1>4 DEF Readings, ReaderType
<1>6. InHand' = 0
  BY <1>5 DEF InHand
<1>7. stream'["outer"].queue = st.queue /\ stream'["outer"].waiting = <<>>
  BY <1>3 DEF Ended
<1>8. StreamTypeOK'
  BY <1>1, <1>3, <1>5 DEF StreamInv, StreamTypeOK, Readings, ReaderType
<1>9. OnTheWay'
  <2>1. InARow(pushed, Len(taken), st.queue, 0, reader'[Forwarder].event, stream["inner"].queue)
    BY <1>1, RowIdle
  <2>. QED BY <1>1, <1>3, <1>6, <1>7, <2>1 DEF OnTheWay
<1>10. Waiters'
  BY <1>1, <1>3, <1>5, <1>7 DEF StreamInv, Waiters, Streams
<1>11. LastOne'
  BY <1>1, <1>2, <1>3, <1>5, <1>6 DEF StreamInv, LastOne
<1>. QED BY <1>1, <1>8, <1>9, <1>10, <1>11, MailedNothing DEF StreamInv

-----------------------------------------------------------------------------
(* Loading the provider's module. *)

LEMMA LoadStep == ASSUME StreamInv, Load PROVE StreamInv' /\ Mailed
<1>1. StreamTypeOK' /\ Waiters'
  BY DEF Load, StreamInv, StreamTypeOK, Waiters
<1>2. OnTheWay'
  BY DEF Load, StreamInv, OnTheWay, InHand
<1>3. LastOne'
  <2>1. provider = "loading" /\ provider' = "streaming" /\ UNCHANGED <<stream, reader, pushed>>
    BY DEF Load
  <2>2. ~stream["inner"].done /\ ~stream["outer"].done /\ pushed = <<>>
    BY <2>1 DEF StreamInv, LastOne
  <2>3. reader[Forwarder].at = "new"
    BY <2>1 DEF StreamInv, LastOne
  <2>4. \A i \in 1 .. Len(pushed) : FALSE
    BY <2>2
  <2>. QED BY <2>1, <2>2, <2>3, <2>4 DEF LastOne
<1>. QED BY <1>1, <1>2, <1>3, MailedNothing DEF Load, StreamInv

(* The error is the first event and the last one. *)
LEMMA LoadFailsStep == ASSUME StreamInv, LoadFails PROVE StreamInv' /\ Mailed
<1>. DEFINE st   == stream["outer"]
            full == Pushed(st, Last)
            end  == Ended(full, Last)
<1>. USE Ranges, TypesUnfolded
<1>1. /\ st \in Stream /\ provider = "loading" /\ provider' = "failed"
      /\ stream' = [stream EXCEPT !["outer"] = end]
      /\ reader' = Told(reader, Served(st), Last, Woken(full))
      /\ pushed' = Append(pushed, Last)
      /\ taken' = IF Served(st) = {} THEN taken ELSE Append(taken, Last)
  BY DEF LoadFails
<1>2. pushed = <<>> /\ ~st.done /\ ~stream["inner"].done /\ reader[Forwarder].at = "new"
  BY <1>1 DEF StreamInv, LastOne
<1>3. /\ taken = <<>> /\ st.queue = <<>> /\ stream["inner"].queue = <<>> /\ InHand = 0
  <2>1. InHand = 0
    BY <1>2 DEF InHand
  <2>2. InARow(<<>>, Len(taken), st.queue, 0, reader[Forwarder].event, stream["inner"].queue)
    BY <1>2, <2>1
  <2>. QED BY <2>1, <2>2, RowEmpty
<1>4. full \in Stream /\ end \in Stream
  BY <1>1, StreamOperations
<1>5. /\ stream' \in [Streams -> Stream] /\ stream'["inner"] = stream["inner"]
      /\ stream'["outer"] = end
  BY <1>1, <1>4 DEF Streams
<1>6. st.waiting \in Seq(Readers) /\ stream["inner"].waiting = <<>>
  BY <1>2 DEF StreamInv, Waiters
<1>7. full.waiting \in Seq(Readers)
  <2>1. full.waiting = IF st.waiting = <<>> THEN <<>> ELSE Tail(st.waiting)
    BY <1>2 DEF Pushed
  <2>2. <<>> \in Seq(Readers)
    OBVIOUS
  <2>. QED BY <1>6, <2>1, <2>2, WaitersServed
<1>8. Forwarder \notin Served(st) \cup Woken(full)
  <2>1. Served(st) \subseteq Readers
    BY <1>6, WaitersServed DEF Served
  <2>2. \A i \in 1 .. Len(full.waiting) : full.waiting[i] \in Readers
    BY <1>7
  <2>. QED BY <2>1, <2>2 DEF Woken
<1>9. reader' \in Readings /\ reader'[Forwarder] = reader[Forwarder]
  <2>. DEFINE S == Served(st)
              W == Woken(full)
  <2>. HIDE DEF S, W
  <2>1. reader' = Told(reader, S, Last, W) /\ Forwarder \notin S \cup W
    BY <1>1, <1>8 DEF S, W
  <2>2. reader \in Readings /\ Last \in Events \cup {None} /\ Forwarder \in Iterators
    OBVIOUS
  <2>. QED BY <2>1, <2>2, ForwarderNotTold
<1>10. InHand' = 0
  BY <1>3, <1>9 DEF InHand
<1>11. pushed' = <<Last>>
  BY <1>1, <1>2
<1>12. end.queue = full.queue /\ end.waiting = <<>>
  BY DEF Ended
<1>15. Waiters'
  BY <1>2, <1>5, <1>6, <1>9, <1>12 DEF StreamInv, Waiters, Streams
<1>16. LastOne'
  <2>1. \A i \in 1 .. Len(pushed') : i = Len(pushed')
    BY <1>11
  <2>. QED BY <1>1, <1>2, <1>3, <1>5, <1>9, <1>10, <2>1 DEF LastOne
<1>17. ASSUME taken' \in {<<>>, <<Last>>} PROVE StreamTypeOK'
  <2>1. taken' \in Seq(Events) /\ pushed' \in Seq(Events)
    <3>1. <<>> \in Seq(Events) /\ <<Last>> \in Seq(Events)
      OBVIOUS
    <3>. QED BY <1>11, <1>17, <3>1
  <2>. QED BY <1>1, <1>5, <1>9, <2>1 DEF StreamTypeOK, Readings, ReaderType
<1>13. CASE st.waiting = <<>>
  <2>1. Served(st) = {} /\ full.queue = <<Last>>
    BY <1>2, <1>3, <1>13 DEF Served, Pushed
  <2>2. taken' = <<>>
    BY <1>1, <1>3, <2>1
  <2>3. InARow(<<Last>>, 0, <<Last>>, 0, reader'[Forwarder].event, <<>>)
    BY DEF InARow
  <2>4. OnTheWay'
    BY <1>3, <1>5, <1>10, <1>11, <1>12, <2>1, <2>2, <2>3 DEF OnTheWay
  <2>5. Mailed
    BY <1>1, <1>3, <2>2, MailedPost
  <2>. QED BY <1>15, <1>16, <1>17, <2>2, <2>4, <2>5 DEF StreamInv
<1>14. CASE st.waiting # <<>>
  <2>1. Served(st) # {} /\ full.queue = <<>>
    BY <1>2, <1>3, <1>14 DEF Served, Pushed
  <2>2. taken' = <<Last>>
    BY <1>1, <1>3, <2>1
  <2>3. InARow(<<Last>>, 1, <<>>, 0, reader'[Forwarder].event, <<>>)
    BY DEF InARow
  <2>4. OnTheWay'
    BY <1>3, <1>5, <1>10, <1>11, <1>12, <2>1, <2>2, <2>3 DEF OnTheWay
  <2>5. Mailed
    <3>1. Len(taken) < Len(pushed') /\ taken' = Append(taken, pushed'[Len(taken) + 1])
      BY <1>3, <1>11, <2>2
    <3>. QED BY <1>1, <3>1, MailedHandOut
  <2>. QED BY <1>15, <1>16, <1>17, <2>2, <2>4, <2>5 DEF StreamInv
<1>. QED BY <1>13, <1>14

-----------------------------------------------------------------------------
(* The steps of the readers, who are told of nothing but the outer stream. *)

(* Whatever a reader does to itself, the forwarder is where it was. *)
LEMMA ReaderMoves ==
    ASSUME StreamInv, reader' \in Readings, reader'[Forwarder] = reader[Forwarder],
           UNCHANGED <<stream, provider, pushed, taken>>
    PROVE  StreamInv' /\ Mailed
<1>1. InHand' = InHand
  BY DEF InHand
<1>2. StreamTypeOK'
  BY DEF StreamInv, StreamTypeOK, Readings, ReaderType
<1>3. OnTheWay'
  BY <1>1 DEF StreamInv, OnTheWay
<1>4. Waiters'
  BY DEF StreamInv, Waiters
<1>5. LastOne'
  BY <1>1 DEF StreamInv, LastOne
<1>. QED BY <1>2, <1>3, <1>4, <1>5, MailedNothing DEF StreamInv

LEMMA ReaderTakes ==
    ASSUME StreamInv, NEW r \in Readers, TakeQueued(r, "outer"), UNCHANGED <<provider, pushed>>
    PROVE  StreamInv' /\ Mailed
<1>. DEFINE st == stream["outer"]
            R  == stream["inner"].queue
<1>. USE Ranges, TypesUnfolded
<1>1. /\ st \in Stream /\ st.queue \in Seq(Events) /\ st.queue # <<>>
      /\ stream' = [stream EXCEPT !["outer"] = Shifted(st)]
      /\ reader' = Told(reader, {r}, Head(st.queue), {})
      /\ taken' = Append(taken, Head(st.queue))
  BY DEF TakeQueued
<1>2. /\ stream' \in [Streams -> Stream] /\ stream'["inner"] = stream["inner"]
      /\ stream'["outer"] = Shifted(st)
  BY <1>1, StreamOperations DEF Streams
<1>3. Head(st.queue) \in Events /\ Forwarder \notin {r} \cup {}
  BY <1>1
<1>4. reader' \in Readings /\ reader'[Forwarder] = reader[Forwarder]
  BY <1>1, <1>3, ForwarderNotTold
<1>5. InHand' = InHand /\ InHand \in {0, 1}
  BY <1>4 DEF InHand
<1>6. /\ InARow(pushed, Len(taken) + 1, Tail(st.queue), InHand, reader[Forwarder].event, R)
      /\ Len(taken) < Len(pushed) /\ Head(st.queue) = pushed[Len(taken) + 1]
  <2>1. InARow(pushed, Len(taken), st.queue, InHand, reader[Forwarder].event, R)
    OBVIOUS
  <2>. QED BY <1>1, <1>5, <2>1, RowTaken
<1>7. taken' = Append(taken, pushed[Len(taken) + 1])
  BY <1>1, <1>6
<1>8. taken' \in Seq(Events) /\ Len(taken') = Len(taken) + 1
  BY <1>6, <1>7, EventTaken
<1>9. StreamTypeOK'
  BY <1>2, <1>4, <1>8 DEF StreamInv, StreamTypeOK, Readings, ReaderType
<1>10. OnTheWay'
  BY <1>2, <1>4, <1>5, <1>6, <1>8 DEF OnTheWay, Shifted
<1>11. st.waiting = <<>>
  BY <1>1 DEF StreamInv, Waiters
<1>12. Waiters'
  BY <1>2, <1>4, <1>11 DEF StreamInv, Waiters, Shifted, Streams
<1>13. LastOne'
  BY <1>2, <1>4, <1>5 DEF StreamInv, LastOne, Shifted
<1>. QED BY <1>6, <1>7, <1>9, <1>10, <1>12, <1>13, MailedHandOut DEF StreamInv

LEMMA ReaderWaits ==
    ASSUME StreamInv, NEW r \in Readers, WaitForEvent(r, "outer"), UNCHANGED <<provider, pushed>>
    PROVE  StreamInv' /\ Mailed
<1>. DEFINE st == stream["outer"]
<1>. USE Ranges, TypesUnfolded
<1>1. /\ st \in Stream /\ st.queue = <<>> /\ UNCHANGED taken
      /\ stream' = [stream EXCEPT !["outer"] = WithWaiter(st, r)]
      /\ reader' = [reader EXCEPT ![r] = [at |-> "waiting", event |-> None]]
  BY DEF WaitForEvent
<1>2. /\ stream' \in [Streams -> Stream] /\ stream'["inner"] = stream["inner"]
      /\ stream'["outer"] = WithWaiter(st, r)
  BY <1>1, StreamOperations DEF Streams
<1>3. reader' \in Readings /\ reader'[Forwarder] = reader[Forwarder]
  BY <1>1 DEF Readings, ReaderType
<1>4. InHand' = InHand
  BY <1>3 DEF InHand
<1>5. /\ stream'["outer"].queue = st.queue /\ stream'["outer"].done = st.done
      /\ stream'["outer"].waiting = Append(st.waiting, r)
  BY <1>2 DEF WithWaiter
<1>6. StreamTypeOK'
  BY <1>1, <1>2, <1>3 DEF StreamInv, StreamTypeOK, Readings, ReaderType
<1>7. OnTheWay'
  BY <1>1, <1>2, <1>3, <1>4, <1>5 DEF OnTheWay
<1>8. Waiters'
  <2>1. st.waiting \in Seq(Readers)
    BY DEF StreamInv, Waiters
  <2>2. Append(st.waiting, r) \in Seq(Readers)
    BY <2>1
  <2>. QED BY <1>1, <1>2, <1>3, <1>5, <2>2 DEF StreamInv, Waiters, Streams
<1>9. LastOne'
  BY <1>2, <1>3, <1>4, <1>5 DEF StreamInv, LastOne
<1>. QED BY <1>1, <1>6, <1>7, <1>8, <1>9, MailedNothing DEF StreamInv

LEMMA ReadStep == ASSUME StreamInv, NEW r \in Readers, Read(r) PROVE StreamInv' /\ Mailed
<1>1. UNCHANGED <<provider, pushed>>
  BY DEF Read
<1>2. CASE TakeQueued(r, "outer")
  BY <1>1, <1>2, ReaderTakes
<1>3. CASE WaitForEvent(r, "outer")
  BY <1>1, <1>3, ReaderWaits
<1>4. CASE ReturnAtEnd(r, "outer")
  <2>1. reader' = Told(reader, {}, None, {r}) /\ UNCHANGED <<stream, taken>>
    BY <1>4 DEF ReturnAtEnd
  <2>2. None \in Events \cup {None} /\ Forwarder \notin {} \cup {r} /\ reader \in Readings
    BY Ranges, TypesUnfolded
  <2>3. reader' \in Readings /\ reader'[Forwarder] = reader[Forwarder]
    BY <2>1, <2>2, ForwarderNotTold
  <2>. QED BY <1>1, <2>1, <2>3, ReaderMoves
<1>. QED BY <1>2, <1>3, <1>4 DEF Read, Ask

LEMMA LeaveStep == ASSUME StreamInv, NEW r \in Readers, Leave(r) PROVE StreamInv' /\ Mailed
<1>1. /\ reader' = [reader EXCEPT ![r] = [at |-> "left", event |-> None]]
      /\ UNCHANGED <<stream, provider, pushed, taken>>
  BY DEF Leave
<1>2. reader' \in Readings /\ reader'[Forwarder] = reader[Forwarder]
  BY <1>1, Ranges, TypesUnfolded DEF Readings, ReaderType
<1>. QED BY <1>1, <1>2, ReaderMoves

-----------------------------------------------------------------------------
LEMMA StreamInitInv == StreamInit => StreamInv
<1>. SUFFICES ASSUME StreamInit PROVE StreamInv
  OBVIOUS
<1>. USE Ranges
<1>1. /\ stream["inner"] = NewStream /\ stream["outer"] = NewStream
      /\ reader[Forwarder] = [at |-> "new", event |-> None]
      /\ NewStream \in Stream /\ provider = "loading" /\ pushed = <<>> /\ taken = <<>>
  BY DEF StreamInit, NewStream, Stream
<1>2. StreamTypeOK
  BY <1>1 DEF StreamInit, StreamTypeOK
<1>3. InHand = 0
  BY <1>1 DEF InHand
<1>4. OnTheWay
  <2>1. InARow(<<>>, 0, <<>>, 0, None, <<>>)
    BY DEF InARow
  <2>. QED BY <1>1, <1>3, <2>1 DEF OnTheWay, NewStream
<1>5. Waiters
  BY <1>1 DEF Waiters, NewStream, Streams
<1>6. LastOne
  <2>1. \A i \in 1 .. Len(pushed) : FALSE
    BY <1>1
  <2>. QED BY <1>1, <2>1 DEF LastOne, NewStream
<1>. QED BY <1>2, <1>4, <1>5, <1>6 DEF StreamInv

LEMMA ForwardAsksStep == ASSUME StreamInv, ForwardAsks PROVE StreamInv' /\ Mailed
BY ForwarderTakes, ForwarderWaits DEF ForwardAsks, Ask

LEMMA StreamNextInv == StreamInv /\ [StreamNext]_streamVars => StreamInv' /\ Mailed
<1>. SUFFICES ASSUME StreamInv, [StreamNext]_streamVars PROVE StreamInv' /\ Mailed
  OBVIOUS
<1>1. CASE UNCHANGED streamVars
  <2>1. reader' \in Readings
    BY <1>1, TypesUnfolded DEF streamVars
  <2>. QED BY <1>1, <2>1, ReaderMoves DEF streamVars
<1>. QED
  BY <1>1, LoadStep, LoadFailsStep, PushDeltaStep, FinishStep, ForwardAsksStep,
     ForwardPushesStep, ForwardEndsStep, ReadStep, LeaveStep
     DEF StreamNext, Progress, Forward

(* Both streams keep their types (EventStream, forwardEvents). *)
THEOREM StreamTypeCorrect == StreamSpec => []StreamTypeOK
<1>1. StreamInv => StreamTypeOK
  BY DEF StreamInv
<1>. QED BY <1>1, StreamInitInv, StreamNextInv, PTL DEF StreamSpec

(* From the provider through both streams to the readers, each event is    *)
(* handed out at most once and in the order in which it was pushed,        *)
(* whoever waits, leaves or comes late: the two streams and the forwarder  *)
(* between them implement Mailbox.                                         *)
THEOREM StreamsAreMailbox == StreamSpec => DeliversInOrder
<1>1. StreamInit => Mail!MailInit
  BY DEF StreamInit, Mail!MailInit
<1>2. Mailed => [Mail!MailNext]_Mail!mailVars
  BY DEF Mailed, Mail!mailVars
<1>. QED BY <1>1, <1>2, StreamInitInv, StreamNextInv, PTL
         DEF StreamSpec, DeliversInOrder, Mail!MailSpec
=============================================================================
