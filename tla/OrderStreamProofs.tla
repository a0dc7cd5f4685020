------------------------- MODULE OrderStreamProofs --------------------------
(***************************************************************************)
(* Streams are behind only in the ways OrderStream names, and the screens  *)
(* of LiveOrder add none, for any number of handlers, streams and polls    *)
(* and any capacity of the channels.                                       *)
(***************************************************************************)
EXTENDS LiveOrder, SequenceTheorems, TLAPS

\* The newest status the stream knows of: the last event it was sent, or the
\* status written last when its channel is empty.
Latest(s) == IF channel[s] = <<>> THEN shown[s] ELSE channel[s][Len(channel[s])]

\* A handler is about to publish the order's status as it is now.
NewsUnderway ==
    \E p \in Publishers :
        \/ publisher[p].stage = "committed"
        \/ publisher[p].stage = "read" /\ publisher[p].read = status

\* A stream that lost nothing knows the status, or will be told.
Informed(s) == stream[s] # "idle" /\ lost[s] = "nothing" => Latest(s) = status \/ NewsUnderway

StreamInv == TypeOK /\ \A s \in Streams : Informed(s)
-----------------------------------------------------------------------------
LEMMA TailFact ==
    ASSUME NEW c \in Seq(Statuses), c # <<>>
    PROVE  /\ Tail(c) \in Seq(Statuses)
           /\ Len(Tail(c)) = Len(c) - 1
           /\ Tail(c) # <<>> => Tail(c)[Len(Tail(c))] = c[Len(c)]
           /\ Tail(c) = <<>> => Head(c) = c[Len(c)]
           /\ Head(c) \in Statuses
<1>1. Len(c) \in Nat /\ Len(c) >= 1
  OBVIOUS
<1>2. Tail(c) \in Seq(Statuses) /\ Len(Tail(c)) = Len(c) - 1 /\ Head(c) \in Statuses
  OBVIOUS
<1>3. Tail(c) # <<>> => Tail(c)[Len(Tail(c))] = c[Len(c)]
  BY <1>1, <1>2
<1>4. ASSUME Tail(c) = <<>> PROVE Head(c) = c[Len(c)]
  <2>1. Len(Tail(c)) = 0
    <3>1. Len(<<>>) = 0
      BY EmptySeq
    <3> QED
      BY <1>4, <3>1, Zenon
  <2>2. Len(c) = 1
    <3>1. Len(c) - 1 = 0
      BY <1>2, <2>1, Zenon
    <3> QED
      BY <1>1, <3>1
  <2>3. Head(c) = c[1]
    OBVIOUS
  <2> QED
    BY <2>2, <2>3
<1> QED
  BY <1>2, <1>3, <1>4

LEMMA AppendFact ==
    ASSUME NEW c \in Seq(Statuses), NEW event \in Statuses
    PROVE  /\ Append(c, event) \in Seq(Statuses)
           /\ Len(Append(c, event)) = Len(c) + 1
           /\ Append(c, event) # <<>>
           /\ Append(c, event)[Len(Append(c, event))] = event
  OBVIOUS

LEMMA TransitionTarget ==
    ASSUME NEW from \in Statuses, NEW to, IsNoOp(from, to) \/ CanTransition(Fulfilment, from, to)
    PROVE  to \in Statuses
  BY DEF IsNoOp, CanTransition

LEMMA StreamTypeInit == Init => TypeOK
<1> SUFFICES ASSUME Init PROVE TypeOK
  OBVIOUS
<1>1. "pending_payment" \in Statuses
  BY DEF Statuses
<1>2. <<>> \in Seq(Statuses) /\ Len(<<>>) = 0 /\ 0 <= SubBuffer
  BY SubBufferAssumption
<1>3. channel \in [Streams -> Seq(Statuses)] /\ \A s \in Streams : Len(channel[s]) <= SubBuffer
  BY <1>2 DEF Init
<1>4. subs = {s \in Streams : stream[s] \in {"subscribed", "streaming"}}
  BY DEF Init
<1> QED
  BY <1>1, <1>3, <1>4 DEF Init, TypeOK, Idle, StreamStages, Losses

LEMMA StreamTypeStep == TypeOK /\ [Next]_vars => TypeOK'
<1> SUFFICES ASSUME TypeOK, [Next]_vars PROVE TypeOK'
  OBVIOUS
<1> USE SubBufferAssumption
<1>1. ASSUME NEW p \in Publishers, NEW to \in Statuses, Transition(p, to) PROVE TypeOK'
  BY <1>1 DEF TypeOK, Transition, streamVars
<1>2. ASSUME NEW p \in Publishers, ReadBack(p) PROVE TypeOK'
  BY <1>2 DEF TypeOK, ReadBack, streamVars
<1>3. ASSUME NEW p \in Publishers, Announce(p) PROVE TypeOK'
  <2> DEFINE event == publisher[p].read
  <2>1. event \in Statuses
    BY DEF TypeOK
  <2>2. channel' = [s \in Streams |->
                      IF s \in subs /\ Room(s) THEN Append(channel[s], event) ELSE channel[s]]
    BY <1>3 DEF Announce, Publish
  <2>3. ASSUME NEW s \in Streams
        PROVE  /\ channel'[s] \in Seq(Statuses)
               /\ Len(channel'[s]) <= SubBuffer
               /\ s \notin subs => channel'[s] = <<>>
    <3>1. channel[s] \in Seq(Statuses) /\ Len(channel[s]) \in Nat /\ Len(channel[s]) <= SubBuffer
          /\ (s \notin subs => channel[s] = <<>>)
      BY DEF TypeOK
    <3>2. channel'[s] = IF s \in subs /\ Room(s) THEN Append(channel[s], event) ELSE channel[s]
      BY <2>2
    <3> HIDE DEF event
    <3>3. CASE s \in subs /\ Room(s)
      BY <2>1, <3>1, <3>2, <3>3, AppendFact DEF Room
    <3>4. CASE ~(s \in subs /\ Room(s))
      BY <3>1, <3>2, <3>4
    <3> QED
      BY <3>3, <3>4
  <2>4. channel' \in [Streams -> Seq(Statuses)]
    BY <2>3, <2>2
  <2>5. ASSUME NEW s \in Streams PROVE LossAfter(s, event) \in Losses
    BY DEF LossAfter, TypeOK, Losses
  <2>6. lost' \in [Streams -> Losses]
    BY <1>3, <2>5 DEF Announce
  <2>7. publisher' \in [Publishers -> [stage : {"idle", "committed", "read"}, read : Statuses]]
    BY <1>3 DEF Announce, TypeOK, Idle, Statuses
  <2> QED
    BY <1>3, <2>3, <2>6, <2>7, <2>4 DEF TypeOK, Announce
<1>4. ASSUME NEW p \in Publishers, ReadBackFails(p) PROVE TypeOK'
  BY <1>4 DEF TypeOK, ReadBackFails, Idle, Statuses, Losses
<1>5. ASSUME NEW s \in Streams, LoadOrder(s) PROVE TypeOK'
  BY <1>5 DEF TypeOK, LoadOrder, StreamStages
<1>6. ASSUME NEW s \in Streams, StartListening(s) PROVE TypeOK'
  BY <1>6 DEF TypeOK, StartListening, Subscribe, StreamStages
<1>7. ASSUME NEW s \in Streams, WriteSnapshot(s) PROVE TypeOK'
  BY <1>7 DEF TypeOK, WriteSnapshot, StreamStages
<1>8. ASSUME NEW s \in Streams, WriteEvent(s) PROVE TypeOK'
  <2>1. /\ Tail(channel[s]) \in Seq(Statuses)
        /\ Len(Tail(channel[s])) <= SubBuffer
        /\ Head(channel[s]) \in Statuses
        /\ s \in subs
    BY <1>8, TailFact DEF TypeOK, WriteEvent
  <2> QED
    BY <1>8, <2>1 DEF TypeOK, WriteEvent
<1>9. ASSUME NEW s \in Streams, Disconnect(s) PROVE TypeOK'
  BY <1>9 DEF TypeOK, Disconnect
<1>10. ASSUME NEW s \in Streams, EndStream(s) PROVE TypeOK'
  BY <1>10 DEF TypeOK, EndStream, Unsubscribe, StreamStages, Losses
<1>11. ASSUME UNCHANGED vars PROVE TypeOK'
  BY <1>11 DEF TypeOK, vars, streamVars
<1> QED
  BY <1>1, <1>2, <1>3, <1>4, <1>5, <1>6, <1>7, <1>8, <1>9, <1>10, <1>11
     DEF Next, PublisherStep, StreamStep
-----------------------------------------------------------------------------
LEMMA InformedInit == Init => \A s \in Streams : Informed(s)
  BY DEF Init, Informed

\* Whatever is published, a stream that lost nothing by it knows the status or
\* waits for another handler.
LEMMA AnnounceInforms ==
    ASSUME StreamInv, NEW p \in Publishers, Announce(p), NEW s \in Streams
    PROVE  Informed(s)'
<1> DEFINE event == publisher[p].read
<1>1. event \in Statuses /\ channel[s] \in Seq(Statuses)
  BY DEF StreamInv, TypeOK
<1>2. /\ channel'[s] = IF s \in subs /\ Room(s) THEN Append(channel[s], event) ELSE channel[s]
      /\ lost'[s] = LossAfter(s, event)
      /\ publisher' = [publisher EXCEPT ![p] = Idle]
      /\ status' = status /\ stream' = stream /\ shown' = shown
  BY DEF Announce, Publish
<1>3. subs = {t \in Streams : stream[t] \in {"subscribed", "streaming"}}
  BY DEF StreamInv, TypeOK
<1>4. ASSUME stream[s] # "idle", lost'[s] = "nothing"
      PROVE  Latest(s)' = status' \/ NewsUnderway'
  <2>1. CASE s \in subs /\ Room(s)
    <3>1. event = status
      BY <1>2, <1>4, <2>1 DEF LossAfter
    <3>2. channel'[s] # <<>> /\ channel'[s][Len(channel'[s])] = event
      <4> HIDE DEF event
      <4> QED
        BY <1>1, <1>2, <2>1, AppendFact
    <3> QED
      BY <1>2, <3>1, <3>2 DEF Latest
  <2>2. CASE s \in subs /\ ~Room(s)
    BY <1>2, <1>4, <2>2 DEF LossAfter
  <2>3. CASE s \notin subs
    <3>1. stream[s] = "loaded"
      BY <1>3, <1>4, <2>3 DEF StreamInv, TypeOK, StreamStages
    <3>2. event = shown[s] /\ lost[s] = "nothing"
      BY <1>2, <1>4, <2>3, <3>1 DEF LossAfter
    <3>3. channel'[s] = <<>> /\ Latest(s) = shown[s] /\ Latest(s)' = shown[s]
      BY <1>2, <2>3 DEF StreamInv, TypeOK, Latest
    <3>4. shown[s] = status \/ NewsUnderway
      BY <1>4, <3>2, <3>3 DEF StreamInv, Informed
    <3>5. ASSUME NewsUnderway, shown[s] # status PROVE NewsUnderway'
      BY <1>2, <3>2, <3>5 DEF NewsUnderway, Announce, StreamInv, TypeOK
    <3> QED
      BY <1>2, <3>3, <3>4, <3>5
  <2> QED
    BY <2>1, <2>2, <2>3
<1> QED
  BY <1>2, <1>4 DEF Informed

LEMMA InformedStep ==
    ASSUME StreamInv, [Next]_vars, NEW s \in Streams
    PROVE  Informed(s)'
<1>1. ASSUME NEW p \in Publishers, NEW to \in Statuses, Transition(p, to) PROVE Informed(s)'
  <2>1. publisher'[p].stage = "committed"
    BY <1>1 DEF Transition, StreamInv, TypeOK
  <2> QED
    BY <2>1 DEF Informed, NewsUnderway
<1>2. ASSUME NEW p \in Publishers, ReadBack(p) PROVE Informed(s)'
  <2>1. publisher'[p].stage = "read" /\ publisher'[p].read = status'
    BY <1>2 DEF ReadBack, StreamInv, TypeOK
  <2> QED
    BY <2>1 DEF Informed, NewsUnderway
<1>3. ASSUME NEW p \in Publishers, Announce(p) PROVE Informed(s)'
  BY <1>3, AnnounceInforms
<1>4. ASSUME NEW p \in Publishers, ReadBackFails(p) PROVE Informed(s)'
  BY <1>4 DEF ReadBackFails, Informed
<1>5. ASSUME NEW t \in Streams, LoadOrder(t) PROVE Informed(s)'
  <2>1. CASE t = s
    <3>1. channel'[s] = <<>> /\ shown'[s] = status'
      BY <1>5, <2>1 DEF LoadOrder, StreamInv, TypeOK
    <3> QED
      BY <3>1 DEF Informed, Latest
  <2>2. CASE t # s
    BY <1>5, <2>2 DEF LoadOrder, StreamInv, TypeOK, Informed, Latest, NewsUnderway
  <2> QED
    BY <2>1, <2>2
<1>6. ASSUME NEW t \in Streams, StartListening(t) PROVE Informed(s)'
  <2>1. channel'[s] = channel[s] /\ shown'[s] = shown[s]
    BY <1>6 DEF StartListening, Subscribe, StreamInv, TypeOK
  <2>2. stream[s] = "idle" => stream'[s] = "idle"
    BY <1>6 DEF StartListening, StreamInv, TypeOK
  <2> QED
    BY <1>6, <2>1, <2>2 DEF StartListening, StreamInv, Informed, Latest, NewsUnderway
<1>7. ASSUME NEW t \in Streams, WriteSnapshot(t) PROVE Informed(s)'
  <2>1. stream[s] = "idle" => stream'[s] = "idle"
    BY <1>7 DEF WriteSnapshot, StreamInv, TypeOK
  <2> QED
    BY <1>7, <2>1 DEF WriteSnapshot, StreamInv, Informed, Latest, NewsUnderway
<1>8. ASSUME NEW t \in Streams, WriteEvent(t) PROVE Informed(s)'
  <2>1. Latest(s)' = Latest(s)
    <3>1. CASE t = s
      <4>1. channel[s] \in Seq(Statuses) /\ channel[s] # <<>>
            /\ channel'[s] = Tail(channel[s]) /\ shown'[s] = Head(channel[s])
        BY <1>8, <3>1 DEF WriteEvent, StreamInv, TypeOK
      <4> QED
        BY <4>1, TailFact DEF Latest
    <3>2. CASE t # s
      BY <1>8, <3>2 DEF WriteEvent, StreamInv, TypeOK, Latest
    <3> QED
      BY <3>1, <3>2
  <2> QED
    BY <1>8, <2>1 DEF WriteEvent, StreamInv, Informed, NewsUnderway
<1>9. ASSUME NEW t \in Streams, Disconnect(t) PROVE Informed(s)'
  BY <1>9 DEF Disconnect, StreamInv, Informed, Latest, NewsUnderway
<1>10. ASSUME NEW t \in Streams, EndStream(t) PROVE Informed(s)'
  <2>1. CASE t = s
    BY <1>10, <2>1 DEF EndStream, StreamInv, TypeOK, Informed
  <2>2. CASE t # s
    BY <1>10, <2>2 DEF EndStream, Unsubscribe, StreamInv, TypeOK, Informed, Latest, NewsUnderway
  <2> QED
    BY <2>1, <2>2
<1>11. ASSUME UNCHANGED vars PROVE Informed(s)'
  BY <1>11 DEF vars, streamVars, StreamInv, Informed, Latest, NewsUnderway
<1> QED
  BY <1>1, <1>2, <1>3, <1>4, <1>5, <1>6, <1>7, <1>8, <1>9, <1>10, <1>11
     DEF Next, PublisherStep, StreamStep
-----------------------------------------------------------------------------
LEMMA StreamInvariant == Spec => []StreamInv
<1>1. Init => StreamInv
  BY StreamTypeInit, InformedInit DEF StreamInv
<1>2. StreamInv /\ [Next]_vars => StreamInv'
  BY StreamTypeStep, InformedStep DEF StreamInv
<1> QED
  BY <1>1, <1>2, PTL DEF Spec

\* The broker's set holds exactly the streams between Subscribe and their end,
\* and no channel exceeds its capacity (Broker in internal/sse).
THEOREM BrokerTypeCorrect == Spec => []TypeOK
<1>1. StreamInv => TypeOK
  BY DEF StreamInv
<1> QED
  BY <1>1, StreamInvariant, PTL
-----------------------------------------------------------------------------
(* The screens over the streams.                                           *)

\* A screen and its client only use the server in the ways OrderStream has.
LEMMA LiveStepsAreStreamSteps == [LiveNext]_liveVars => [Next]_vars
<1> SUFFICES ASSUME [LiveNext]_liveVars PROVE [Next]_vars
  OBVIOUS
<1>1. ASSUME NEW s \in Streams, HangUp(s) PROVE [Next]_vars
  BY <1>1 DEF HangUp, Next
<1>2. ASSUME NEW p \in Publishers, PublisherStep(p) \/ \E to \in Statuses : Transition(p, to)
      PROVE  Next
  BY <1>2 DEF Next
<1>3. ASSUME NEW s \in Streams, Open(s) \/ Close(s) PROVE [Next]_vars
  BY <1>1, <1>3 DEF Open, Close
<1>4. ASSUME NEW s \in Streams, Connect(s) \/ Write(s) \/ ServerOnly(s) PROVE Next
  BY <1>4 DEF Connect, Write, ServerOnly, Next, StreamStep
<1>5. ASSUME NEW s \in Streams, StatusEvent(s) \/ StreamError(s) PROVE [Next]_vars
  BY <1>1, <1>5 DEF StatusEvent, StreamError
<1>6. ASSUME NEW s \in Streams, NEW k \in Polls,
             Loaded(s, k) \/ Poll(s, k) \/ PollReply(s, k) \/ PollFails(s, k) \/ LoadFails(s)
      PROVE  UNCHANGED vars
  BY <1>6 DEF Loaded, Poll, PollReply, PollFails, LoadFails
<1>7. ASSUME NEW s \in Streams, LoadFails(s) PROVE UNCHANGED vars
  BY <1>7 DEF LoadFails
<1>8. CASE UNCHANGED liveVars
  BY <1>8 DEF liveVars
<1> QED
  BY <1>2, <1>3, <1>4, <1>5, <1>6, <1>7, <1>8 DEF LiveNext, ScreenStep

\* What the client was sent last: the last event on its way, or what it shows.
Sent(s) == IF wire[s] = <<>> THEN view[s].shows ELSE wire[s][Len(wire[s])]

\* Nothing is lost between the handler and the screen that listens to it.
WireTells(s) ==
    At(s, "live") /\ stream[s] = "streaming" /\ connected[s] => Sent(s) = shown[s]

LiveInv == StreamInv /\ LiveTypeOK /\ \A s \in Streams : WireTells(s)

\* What a hook shows, and where it goes from there.
LEMMA ShowFact ==
    ASSUME LiveTypeOK, NEW s \in Streams, NEW stage \in Stages, NEW found \in Found, Show(s, stage, found)
    PROVE  /\ view' \in [Streams -> [stage : Stages, shows : Found]]
           /\ view'[s] = [stage |-> stage, shows |-> found]
           /\ \A t \in Streams : t # s => view'[t] = view[t]
  BY DEF LiveTypeOK, Show

LEMMA UnlessFact ==
    ASSUME NEW stage \in Stages, NEW found
    PROVE  Unless(found, stage) \in {stage, "finished"} /\ Unless(found, stage) \in Stages
  BY DEF Unless, Stages

\* Hanging up leaves nothing on its way and no client.
LEMMA HangUpFact ==
    ASSUME LiveTypeOK, NEW s \in Streams, HangUp(s)
    PROVE  /\ wire' \in [Streams -> Seq(Statuses)]
           /\ wire'[s] = <<>> /\ Len(wire'[s]) = 0
           /\ ~(stream'[s] # "idle" /\ connected'[s])
           /\ \A t \in Streams : t # s => wire'[t] = wire[t] /\ connected'[t] = connected[t]
           /\ stream' = stream /\ shown' = shown
<1>1. <<>> \in Seq(Statuses) /\ Len(<<>>) = 0
  OBVIOUS
<1>2. wire' = [wire EXCEPT ![s] = <<>>]
  BY DEF HangUp
<1>3. wire' \in [Streams -> Seq(Statuses)] /\ wire'[s] = <<>> /\ Len(wire'[s]) = 0
      /\ \A t \in Streams : t # s => wire'[t] = wire[t]
  BY <1>1, <1>2 DEF LiveTypeOK
<1>4. /\ ~(stream'[s] # "idle" /\ connected'[s])
      /\ \A t \in Streams : t # s => connected'[t] = connected[t]
      /\ stream' = stream /\ shown' = shown
  <2>1. CASE stream[s] # "idle" /\ connected[s]
    BY <2>1 DEF HangUp, Disconnect, LiveTypeOK, TypeOK
  <2>2. CASE ~(stream[s] # "idle" /\ connected[s])
    BY <2>2 DEF HangUp, vars, streamVars
  <2> QED
    BY <2>1, <2>2
<1> QED
  BY <1>3, <1>4

\* Of a screen that is left alone nothing changes.
LEMMA OthersKeep ==
    ASSUME LiveInv, NEW t \in Streams,
           view'[t] = view[t], wire'[t] = wire[t], stream'[t] = stream[t],
           connected'[t] = connected[t], shown'[t] = shown[t]
    PROVE  /\ Len(wire'[t]) <= Wire
           /\ stream'[t] # "idle" /\ connected'[t] => At(t, "live")'
           /\ wire'[t] # <<>> => At(t, "live")'
           /\ WireTells(t)'
  BY DEF LiveInv, LiveTypeOK, WireTells, Sent, At

LEMMA LiveInitHolds == LiveInit => LiveInv
<1> SUFFICES ASSUME LiveInit PROVE LiveInv
  OBVIOUS
<1>1. StreamInv
  BY StreamTypeInit, InformedInit DEF LiveInit, StreamInv
<1>2. <<>> \in Seq(Statuses) /\ Len(<<>>) = 0 /\ 0 <= Wire
  BY WireAssumption
<1>3. wire \in [Streams -> Seq(Statuses)] /\ \A s \in Streams : Len(wire[s]) <= Wire /\ wire[s] = <<>>
  BY <1>2 DEF LiveInit
<1>4. view \in [Streams -> [stage : Stages, shows : Found]] /\ \A s \in Streams : view[s].stage = "closed"
  BY DEF LiveInit, Closed, Stages, Found
<1>5. polls \in [Streams -> [Polls -> Found]]
  BY DEF LiveInit, NoPolls, Found
<1>6. \A s \in Streams : stream[s] = "idle"
  BY DEF LiveInit, Init
<1> QED
  BY <1>1, <1>3, <1>4, <1>5, <1>6 DEF LiveInv, LiveTypeOK, StreamInv, WireTells, At

\* What is kept of one screen, and the types of all.
Screen(t) ==
    /\ Len(wire[t]) <= Wire
    /\ stream[t] # "idle" /\ connected[t] => At(t, "live")
    /\ wire[t] # <<>> => At(t, "live")
    /\ WireTells(t)

ScreenTypes ==
    /\ view \in [Streams -> [stage : Stages, shows : Found]]
    /\ wire \in [Streams -> Seq(Statuses)]
    /\ polls \in [Streams -> [Polls -> Found]]

LEMMA LiveInvParts == LiveInv <=> StreamInv /\ ScreenTypes /\ \A s \in Streams : Screen(s)
  BY DEF LiveInv, LiveTypeOK, StreamInv, ScreenTypes, Screen

\* Steps that leave all screens alone.
LEMMA ScreensUntouched ==
    ASSUME LiveInv, UNCHANGED screenVars,
           \A t \in Streams : stream'[t] # "idle" /\ connected'[t] =>
               \/ At(t, "live") /\ stream'[t] # "streaming"
               \/ stream[t] = stream'[t] /\ connected[t] /\ shown'[t] = shown[t]
    PROVE  ScreenTypes' /\ \A t \in Streams : Screen(t)'
  BY DEF LiveInv, LiveTypeOK, ScreenTypes, Screen, WireTells, Sent, At, screenVars

\* The handlers and the broker do not touch what was written.
LEMMA ServerSteps ==
    ASSUME LiveInv,
           \/ /\ \E p \in Publishers : PublisherStep(p) \/ \E to \in Statuses : Transition(p, to)
              /\ UNCHANGED screenVars
           \/ \E s \in Streams : ServerOnly(s) \/ Connect(s)
    PROVE  ScreenTypes' /\ \A t \in Streams : Screen(t)'
<1>1. CASE /\ \E p \in Publishers : PublisherStep(p) \/ \E to \in Statuses : Transition(p, to)
           /\ UNCHANGED screenVars
  <2>1. UNCHANGED <<stream, connected, shown>>
    BY <1>1 DEF PublisherStep, ReadBack, Announce, ReadBackFails, Transition, streamVars
  <2> QED
    BY <1>1, <2>1, ScreensUntouched DEF LiveInv, LiveTypeOK
<1>2. ASSUME NEW s \in Streams, ServerOnly(s)
      PROVE  ScreenTypes' /\ \A t \in Streams : Screen(t)'
  <2>1. UNCHANGED <<connected, shown, screenVars>>
    BY <1>2 DEF ServerOnly, StartListening, EndStream
  <2>2. \/ stream' = [stream EXCEPT ![s] = "subscribed"] /\ stream[s] # "idle"
        \/ stream' = [stream EXCEPT ![s] = "idle"]
    BY <1>2 DEF ServerOnly, StartListening, EndStream
  <2>3. \A t \in Streams : t # s => stream'[t] = stream[t]
    BY <2>2 DEF LiveInv, LiveTypeOK, TypeOK
  <2>4. (stream'[s] = "subscribed" /\ stream[s] # "idle") \/ stream'[s] = "idle"
    BY <2>2 DEF LiveInv, LiveTypeOK, TypeOK
  <2> QED
    BY <2>1, <2>3, <2>4, ScreensUntouched DEF LiveInv, LiveTypeOK
<1>3. ASSUME NEW s \in Streams, Connect(s)
      PROVE  ScreenTypes' /\ \A t \in Streams : Screen(t)'
  <2>1. /\ At(s, "live") /\ UNCHANGED screenVars
        /\ stream'[s] = "loaded"
        /\ \A t \in Streams : t # s => UNCHANGED <<stream[t], connected[t], shown[t]>>
    BY <1>3 DEF Connect, LoadOrder, LiveInv, LiveTypeOK, TypeOK
  <2> QED
    BY <2>1, ScreensUntouched DEF LiveInv, LiveTypeOK
<1> QED
  BY <1>1, <1>2, <1>3

\* A handler writes: to a client that is there.
LEMMA WriteStep ==
    ASSUME LiveInv, NEW s \in Streams, Write(s) PROVE ScreenTypes' /\ \A t \in Streams : Screen(t)'
<1>1. /\ Len(wire[s]) < Wire /\ UNCHANGED <<view, polls, connected>>
      /\ wire' = [wire EXCEPT ![s] = IF connected[s] THEN Append(wire[s], shown'[s]) ELSE wire[s]]
      /\ stream[s] \in {"subscribed", "streaming"} /\ stream'[s] = "streaming"
      /\ \A t \in Streams : t # s => stream'[t] = stream[t] /\ shown'[t] = shown[t]
      /\ shown'[s] \in Statuses
  <2>1. WriteEvent(s) => Head(channel[s]) \in Statuses
    BY TailFact DEF WriteEvent, LiveInv, LiveTypeOK, TypeOK
  <2> QED
    BY <2>1 DEF Write, WriteSnapshot, WriteEvent, LiveInv, LiveTypeOK, TypeOK
<1>2. wire[s] \in Seq(Statuses) /\ Len(wire[s]) \in Nat
  BY DEF LiveInv, LiveTypeOK
<1>3. \A t \in Streams : wire'[t] = IF t = s /\ connected[s] THEN Append(wire[s], shown'[s]) ELSE wire[t]
  BY <1>1 DEF LiveInv, LiveTypeOK
<1>4. /\ Append(wire[s], shown'[s]) \in Seq(Statuses)
      /\ Len(Append(wire[s], shown'[s])) = Len(wire[s]) + 1
      /\ Append(wire[s], shown'[s]) # <<>>
      /\ Append(wire[s], shown'[s])[Len(Append(wire[s], shown'[s]))] = shown'[s]
  BY <1>1, <1>2, AppendFact
<1>5. ScreenTypes'
  BY <1>1, <1>4 DEF ScreenTypes, LiveInv, LiveTypeOK
<1>6. Screen(s)'
  <2>1. CASE connected[s]
    <3>1. wire'[s] = Append(wire[s], shown'[s])
      BY <1>3, <2>1
    <3>2. wire'[s] # <<>> /\ wire'[s][Len(wire'[s])] = shown'[s] /\ Len(wire'[s]) <= Wire
      BY <1>1, <1>2, <1>4, <3>1, WireAssumption
    <3>3. At(s, "live")'
      BY <1>1, <2>1 DEF LiveInv, LiveTypeOK, At
    <3> QED
      BY <3>2, <3>3 DEF Screen, WireTells, Sent
  <2>2. CASE ~connected[s]
    <3>1. wire'[s] = wire[s] /\ ~connected'[s] /\ view' = view
      BY <1>1, <1>3, <2>2
    <3> QED
      BY <3>1 DEF Screen, WireTells, LiveInv, LiveTypeOK, At
  <2> QED
    BY <2>1, <2>2
<1>7. ASSUME NEW t \in Streams, t # s PROVE Screen(t)'
  BY <1>1, <1>3, <1>7, OthersKeep DEF Screen
<1> QED
  BY <1>5, <1>6, <1>7

\* A screen hangs up and goes on without its stream.
LEMMA HangingUp ==
    ASSUME LiveInv, NEW s \in Streams, HangUp(s), NEW stage \in Stages, NEW found \in Found,
           Show(s, stage, found), polls' \in [Streams -> [Polls -> Found]]
    PROVE  ScreenTypes' /\ \A t \in Streams : Screen(t)'
<1>1. LiveTypeOK
  BY DEF LiveInv
<1>2. ScreenTypes'
  BY <1>1, HangUpFact, ShowFact DEF ScreenTypes
<1>3. Screen(s)'
  BY <1>1, HangUpFact, WireAssumption DEF Screen, WireTells
<1>4. ASSUME NEW t \in Streams, t # s PROVE Screen(t)'
  BY <1>1, <1>4, HangUpFact, ShowFact, OthersKeep DEF Screen
<1> QED
  BY <1>2, <1>3, <1>4

\* A screen that has no stream shows something else.
LEMMA ShowingOnly ==
    ASSUME LiveInv, NEW s \in Streams, ~At(s, "live"), NEW stage \in Stages, NEW found \in Found,
           Show(s, stage, found), polls' \in [Streams -> [Polls -> Found]], UNCHANGED <<vars, wire>>
    PROVE  ScreenTypes' /\ \A t \in Streams : Screen(t)'
<1>1. LiveTypeOK /\ UNCHANGED <<stream, connected, shown, wire>>
  BY DEF LiveInv, vars, streamVars
<1>2. ScreenTypes'
  BY <1>1, ShowFact DEF ScreenTypes, LiveTypeOK
<1>3. Screen(s)'
  BY <1>1 DEF Screen, WireTells, LiveTypeOK
<1>4. ASSUME NEW t \in Streams, t # s PROVE Screen(t)'
  BY <1>1, <1>4, ShowFact, OthersKeep DEF Screen
<1> QED
  BY <1>2, <1>3, <1>4

\* An event is shown: the next one now is what was sent last, or the last is shown.
LEMMA StatusEventStep ==
    ASSUME LiveInv, NEW s \in Streams, StatusEvent(s) PROVE ScreenTypes' /\ \A t \in Streams : Screen(t)'
<1> DEFINE event == Head(wire[s])
<1>1. /\ At(s, "live") /\ wire[s] # <<>> /\ polls' = polls
      /\ Show(s, Unless(event, "live"), event)
      /\ IF IsTerminal(event) THEN HangUp(s)
         ELSE wire' = [wire EXCEPT ![s] = Tail(wire[s])] /\ UNCHANGED vars
  BY DEF StatusEvent, LiveInv, LiveTypeOK
<1>2. /\ wire[s] \in Seq(Statuses) /\ event \in Statuses
      /\ Tail(wire[s]) \in Seq(Statuses) /\ Len(Tail(wire[s])) = Len(wire[s]) - 1
      /\ Tail(wire[s]) # <<>> => Tail(wire[s])[Len(Tail(wire[s]))] = wire[s][Len(wire[s])]
      /\ Tail(wire[s]) = <<>> => event = wire[s][Len(wire[s])]
  BY <1>1, TailFact DEF LiveInv, LiveTypeOK
<1> HIDE DEF event
<1>3. event \in Found /\ Unless(event, "live") \in Stages
  BY <1>2, UnlessFact DEF Found, Stages
<1>4. polls' \in [Streams -> [Polls -> Found]]
  BY <1>1 DEF LiveInv, LiveTypeOK
<1>5. CASE IsTerminal(event)
  BY <1>1, <1>3, <1>4, <1>5, HangingUp
<1>6. CASE ~IsTerminal(event)
  <2>1. wire' = [wire EXCEPT ![s] = Tail(wire[s])] /\ UNCHANGED <<stream, connected, shown>>
    BY <1>1, <1>6 DEF vars, streamVars
  <2>2. /\ view' \in [Streams -> [stage : Stages, shows : Found]]
        /\ view'[s] = [stage |-> "live", shows |-> event]
        /\ \A t \in Streams : t # s => view'[t] = view[t]
    BY <1>1, <1>3, <1>6, ShowFact DEF Unless, LiveInv
  <2>3. \A t \in Streams : wire'[t] = IF t = s THEN Tail(wire[s]) ELSE wire[t]
    BY <2>1 DEF LiveInv, LiveTypeOK
  <2>4. ScreenTypes'
    BY <1>2, <1>4, <2>1, <2>2 DEF ScreenTypes, LiveInv, LiveTypeOK
  <2>5. Screen(s)'
    <3>1. At(s, "live")' /\ view'[s].shows = event
      BY <2>2 DEF At
    <3>2. Len(wire'[s]) <= Wire
      <4>1. Len(wire[s]) \in Nat
        BY <1>2
      <4>2. Len(wire[s]) <= Wire
        BY DEF LiveInv, LiveTypeOK
      <4>3. Len(wire'[s]) = Len(Tail(wire[s]))
        BY <2>3, Zenon
      <4>4. Len(Tail(wire[s])) = Len(wire[s]) - 1
        BY <1>2, Zenon
      <4>5. Len(wire'[s]) = Len(wire[s]) - 1
        BY <4>3, <4>4, Zenon
      <4> QED
        BY <4>1, <4>2, <4>5, WireAssumption
    <3>3. WireTells(s)'
      BY <1>1, <1>2, <2>1, <2>3, <3>1 DEF LiveInv, WireTells, Sent
    <3> QED
      BY <3>1, <3>2, <3>3 DEF Screen
  <2>6. ASSUME NEW t \in Streams, t # s PROVE Screen(t)'
    BY <2>1, <2>2, <2>3, <2>6, OthersKeep DEF Screen
  <2> QED
    BY <2>4, <2>5, <2>6
<1> QED
  BY <1>5, <1>6

\* A screen that is not live does as it likes, and a live one hangs up.
LEMMA ScreenSteps ==
    ASSUME LiveInv, NEW s \in Streams,
           \/ Open(s) \/ Close(s) \/ StreamError(s) \/ LoadFails(s)
           \/ \E k \in Polls : Loaded(s, k) \/ Poll(s, k) \/ PollReply(s, k) \/ PollFails(s, k)
    PROVE  ScreenTypes' /\ \A t \in Streams : Screen(t)'
<1>1. /\ status \in Statuses /\ Statuses \subseteq Found /\ NoOrder \in Found
      /\ view \in [Streams -> [stage : Stages, shows : Found]] /\ view[s].shows \in Found
      /\ polls \in [Streams -> [Polls -> Found]] /\ NoPolls \in [Polls -> Found]
  BY DEF LiveInv, LiveTypeOK, TypeOK, Found, NoPolls
<1>2. {"closed", "loading", "failed", "live", "polling", "finished"} = Stages
  BY DEF Stages
<1>3. CASE Open(s)
  <2>1. polls' \in [Streams -> [Polls -> Found]]
    BY <1>1, <1>3 DEF Open
  <2> QED
    BY <1>1, <1>2, <1>3, <2>1, ShowingOnly DEF Open, At
<1>4. CASE Close(s)
  <2>1. Show(s, "closed", NoOrder)
    BY <1>4 DEF Close, Closed, Show
  <2>2. polls' \in [Streams -> [Polls -> Found]]
    BY <1>1, <1>4 DEF Close
  <2> QED
    BY <1>1, <1>2, <1>4, <2>1, <2>2, HangingUp DEF Close
<1>5. CASE StreamError(s)
  BY <1>1, <1>2, <1>5, HangingUp DEF StreamError
<1>6. CASE LoadFails(s)
  <2>1. polls' \in [Streams -> [Polls -> Found]]
    BY <1>1, <1>6 DEF LoadFails
  <2> QED
    BY <1>1, <1>2, <1>6, <2>1, ShowingOnly DEF LoadFails, At
<1>7. ASSUME NEW k \in Polls, Loaded(s, k) PROVE ScreenTypes' /\ \A t \in Streams : Screen(t)'
  <2>1. PICK stage \in {"live", "polling"} : Show(s, Unless(polls[s][k], stage), polls[s][k])
    BY <1>7 DEF Loaded
  <2>2. polls[s][k] \in Found /\ Unless(polls[s][k], stage) \in Stages
    BY <1>1, <1>2, UnlessFact
  <2>3. polls' \in [Streams -> [Polls -> Found]]
    BY <1>1, <1>7 DEF Loaded
  <2> QED
    BY <1>7, <2>1, <2>2, <2>3, ShowingOnly DEF Loaded, At
<1>8. ASSUME NEW k \in Polls, PollReply(s, k) PROVE ScreenTypes' /\ \A t \in Streams : Screen(t)'
  <2>1. polls[s][k] \in Found /\ Unless(polls[s][k], view[s].stage) \in Stages
    BY <1>1, <1>2, <1>8, UnlessFact
  <2>2. polls' \in [Streams -> [Polls -> Found]]
    BY <1>1, <1>8 DEF PollReply
  <2> QED
    BY <1>8, <2>1, <2>2, ShowingOnly DEF PollReply, At
<1>9. ASSUME NEW k \in Polls, Poll(s, k) \/ PollFails(s, k)
      PROVE  ScreenTypes' /\ \A t \in Streams : Screen(t)'
  <2>1. polls' \in [Streams -> [Polls -> Found]]
    <3>1. PICK found \in Found : polls' = [polls EXCEPT ![s][k] = found]
      BY <1>1, <1>9 DEF Poll, PollFails
    <3> QED
      BY <1>1, <3>1
  <2>2. UNCHANGED <<view, wire, stream, connected, shown>>
    BY <1>9 DEF Poll, PollFails, vars, streamVars
  <2> QED
    BY <2>1, <2>2, OthersKeep DEF ScreenTypes, Screen, LiveInv, LiveTypeOK
<1> QED
  BY <1>3, <1>4, <1>5, <1>6, <1>7, <1>8, <1>9

LEMMA LiveInvStep == LiveInv /\ [LiveNext]_liveVars => LiveInv'
<1> SUFFICES ASSUME LiveInv, [LiveNext]_liveVars PROVE LiveInv'
  OBVIOUS
<1>1. StreamInv'
  BY LiveStepsAreStreamSteps, StreamTypeStep, InformedStep DEF LiveInv, StreamInv
<1>2. ScreenTypes' /\ \A t \in Streams : Screen(t)'
  <2>1. CASE UNCHANGED liveVars
    BY <2>1, ScreensUntouched DEF liveVars, vars, streamVars, LiveInv, LiveTypeOK
  <2>2. CASE LiveNext
    BY <2>2, ServerSteps, WriteStep, StatusEventStep, ScreenSteps DEF LiveNext, ScreenStep
  <2> QED
    BY <2>1, <2>2
<1> QED
  BY <1>1, <1>2 DEF LiveInv, LiveTypeOK, StreamInv, ScreenTypes, Screen

LEMMA LiveInvariant == LiveSpec => []LiveInv
  BY LiveInitHolds, LiveInvStep, PTL DEF LiveSpec

\* The screens use the server in no other way than OrderStream has: what holds of
\* its streams holds under any number of useLiveOrder hooks.
THEOREM LiveImplementsStream == LiveSpec => Spec
<1>1. LiveInit => Init
  BY DEF LiveInit
<1> QED
  BY <1>1, LiveStepsAreStreamSteps, PTL DEF LiveSpec, Spec

\* useLiveOrder: a stage without a stream has hung up, and nothing is on its way
\* to it.
THEOREM LiveTypesHold == LiveSpec => []LiveTypeOK
<1>1. LiveInv => LiveTypeOK
  BY DEF LiveInv
<1> QED
  BY <1>1, LiveInvariant, PTL

\* useLiveOrder over handleOrderEvents: a screen that listens and has handled all
\* it was sent shows the order's status, unless the server lost the news.
THEOREM ScreensAreCurrent == LiveSpec => []ScreenIsCurrent
<1>1. LiveInv => ScreenIsCurrent
  <2> SUFFICES ASSUME LiveInv, Quiet, NEW s \in Streams,
                      At(s, "live"), stream[s] = "streaming", connected[s],
                      channel[s] = <<>>, wire[s] = <<>>, lost[s] = "nothing"
               PROVE  view[s].shows = status
    BY DEF ScreenIsCurrent
  <2>1. shown[s] = status
    BY DEF LiveInv, StreamInv, Informed, Latest, NewsUnderway, Quiet
  <2>2. view[s].shows = shown[s]
    BY DEF LiveInv, WireTells, Sent
  <2> QED
    BY <2>1, <2>2
<1> QED
  BY <1>1, LiveInvariant, PTL
=============================================================================
