------------------------------ MODULE LiveOrder ------------------------------
(***************************************************************************)
(* useLiveOrder: the screen of one order, over the server of OrderStream.  *)
(* Screen s reads the order, then listens to stream s until the stream     *)
(* fails, then polls.  Several polls may be under way, because the timer   *)
(* does not wait for a reply.  The mock mode, which never listens, is left *)
(* out.                                                                    *)
(***************************************************************************)
EXTENDS OrderStream

CONSTANTS
    Polls,          \* polls of one screen that may be under way at once
    Wire            \* events written to a client that has not handled them yet

ASSUME WireAssumption == Wire \in Nat \ {0}

VARIABLES
    view,           \* view[s]: the stage of the hook, and the status of its order
    wire,           \* wire[s]: events on their way to the screen
    polls           \* polls[s][k]: the status poll k found, or NoOrder

screenVars == <<view, wire, polls>>
liveVars == <<vars, screenVars>>

NoOrder == "null"
Found == Statuses \cup {NoOrder}
Stages == {"closed", "loading", "failed", "live", "polling", "finished"}

NoPolls == [k \in Polls |-> NoOrder]
Closed == [stage |-> "closed", shows |-> NoOrder]
At(s, stage) == view[s].stage = stage
Show(s, stage, found) == view' = [view EXCEPT ![s] = [stage |-> stage, shows |-> found]]

\* Where an order's status leaves the hook: a final one needs no more news.
Unless(found, stage) == IF IsTerminal(found) THEN "finished" ELSE stage

\* Mutant: the reference to the EventSource is dropped, the source stays open.
HangUpLocally(s) == UNCHANGED vars /\ wire' = [wire EXCEPT ![s] = <<>>]

\* es.close(), or the line breaks: the server's handler loses its client.
HangUp(s) ==
    /\ IF stream[s] # "idle" /\ connected[s] THEN Disconnect(s) ELSE UNCHANGED vars
    /\ wire' = [wire EXCEPT ![s] = <<>>]
-----------------------------------------------------------------------------
(* The hook.                                                               *)

\* The effect runs: the first request is sent and reads the order.  It takes the
\* place of a poll.
Open(s) ==
    /\ At(s, "closed")
    /\ Show(s, "loading", NoOrder)
    /\ \E k \in Polls : polls' = [polls EXCEPT ![s] = [NoPolls EXCEPT ![k] = status]]
    /\ UNCHANGED <<vars, wire>>

\* The snapshot arrives.  A stream that cannot be opened is polled at once.
Loaded(s, k) ==
    /\ At(s, "loading")
    /\ polls[s][k] # NoOrder
    /\ \/ Show(s, Unless(polls[s][k], "live"), polls[s][k])
       \/ MayFail /\ Show(s, Unless(polls[s][k], "polling"), polls[s][k])
    /\ polls' = [polls EXCEPT ![s] = NoPolls]
    /\ UNCHANGED <<vars, wire>>

LoadFails(s) ==
    /\ MayFail
    /\ At(s, "loading")
    /\ Show(s, "failed", NoOrder)
    /\ polls' = [polls EXCEPT ![s] = NoPolls]
    /\ UNCHANGED <<vars, wire>>

\* The EventSource reaches handleOrderEvents.
Connect(s) ==
    /\ At(s, "live")
    /\ LoadOrder(s)
    /\ UNCHANGED screenVars

\* The "status" listener; a final status closes the stream.
StatusEvent(s) ==
    /\ At(s, "live")
    /\ wire[s] # <<>>
    /\ LET event == Head(wire[s]) IN
       /\ Show(s, Unless(event, "live"), event)
       /\ IF IsTerminal(event) THEN HangUp(s)
          ELSE wire' = [wire EXCEPT ![s] = Tail(@)] /\ UNCHANGED vars
    /\ UNCHANGED polls

\* onerror: refused, broken or timed out.  The `order` it looks at is the one
\* of the first render, null, so polling starts whatever the screen shows.
StreamError(s) ==
    /\ MayFail
    /\ At(s, "live")
    /\ HangUp(s)
    /\ Show(s, "polling", view[s].shows)
    /\ UNCHANGED polls

\* The timer fires and its request reads the order.
Poll(s, k) ==
    /\ At(s, "polling")
    /\ polls[s][k] = NoOrder
    /\ polls' = [polls EXCEPT ![s][k] = status]
    /\ UNCHANGED <<vars, view, wire>>

\* Mutant: the timer is not cleared.
PollReplyGoingOn(s, k) ==
    /\ view[s].stage \in {"polling", "finished"}
    /\ polls[s][k] # NoOrder
    /\ Show(s, view[s].stage, polls[s][k])
    /\ polls' = [polls EXCEPT ![s][k] = NoOrder]
    /\ UNCHANGED <<vars, wire>>

\* A reply arrives, also after the polling has stopped.
PollReply(s, k) ==
    /\ view[s].stage \in {"polling", "finished"}
    /\ polls[s][k] # NoOrder
    /\ Show(s, Unless(polls[s][k], view[s].stage), polls[s][k])
    /\ polls' = [polls EXCEPT ![s][k] = NoOrder]
    /\ UNCHANGED <<vars, wire>>

PollFails(s, k) ==
    /\ MayFail
    /\ view[s].stage \in {"polling", "finished"}
    /\ polls[s][k] # NoOrder
    /\ polls' = [polls EXCEPT ![s][k] = NoOrder]
    /\ UNCHANGED <<vars, view, wire>>

\* The component unmounts; replies to it change nothing any more.
Close(s) ==
    /\ ~At(s, "closed")
    /\ HangUp(s)
    /\ view' = [view EXCEPT ![s] = Closed]
    /\ polls' = [polls EXCEPT ![s] = NoPolls]
-----------------------------------------------------------------------------
(* The server, and what it writes.                                         *)

\* Mutant: the stream starts with the first event instead of the snapshot.
WriteSkippingSnapshot(s) ==
    /\ Len(wire[s]) < Wire
    /\ \/ WriteSnapshot(s) /\ UNCHANGED wire
       \/ WriteEvent(s) /\ wire' = [wire EXCEPT ![s] = IF connected[s] THEN Append(@, shown'[s]) ELSE @]
    /\ UNCHANGED <<view, polls>>

\* A client that is gone gets nothing.
Write(s) ==
    /\ Len(wire[s]) < Wire
    /\ WriteSnapshot(s) \/ WriteEvent(s)
    /\ wire' = [wire EXCEPT ![s] = IF connected[s] THEN Append(@, shown'[s]) ELSE @]
    /\ UNCHANGED <<view, polls>>

ServerOnly(s) == (StartListening(s) \/ EndStream(s)) /\ UNCHANGED screenVars
-----------------------------------------------------------------------------
LiveInit ==
    /\ Init
    /\ view = [s \in Streams |-> Closed]
    /\ wire = [s \in Streams |-> <<>>]
    /\ polls = [s \in Streams |-> NoPolls]

ScreenStep(s) ==
    \/ Connect(s) \/ StatusEvent(s) \/ StreamError(s) \/ LoadFails(s)
    \/ \E k \in Polls : Loaded(s, k) \/ Poll(s, k) \/ PollReply(s, k) \/ PollFails(s, k)

LiveNext ==
    \/ /\ \E p \in Publishers : PublisherStep(p) \/ \E to \in Statuses : Transition(p, to)
       /\ UNCHANGED screenVars
    \/ \E s \in Streams : Open(s) \/ Close(s) \/ ScreenStep(s) \/ Write(s) \/ ServerOnly(s)

LiveSpec == LiveInit /\ [][LiveNext]_liveVars

\* As in OrderStream, and an open screen gets on: its connection is made or
\* fails, what was written to it arrives, and polls do not fail for ever.
LiveFairSpec ==
    /\ LiveSpec
    /\ \A p \in Publishers : WF_liveVars(PublisherStep(p) /\ UNCHANGED screenVars)
    /\ \A s \in Streams :
          /\ WF_liveVars(StartListening(s) /\ UNCHANGED screenVars)
          /\ WF_liveVars(EndStream(s) /\ UNCHANGED screenVars)
          /\ WF_liveVars(Connect(s)) /\ WF_liveVars(StatusEvent(s)) /\ WF_liveVars(Write(s))
          /\ \A k \in Polls : WF_liveVars(Poll(s, k)) /\ SF_liveVars(PollReply(s, k))
-----------------------------------------------------------------------------
(* Properties.                                                             *)

\* Types, and what a stage holds: only a screen that listens has events on
\* their way, and one that polls or shows a final status has hung up.
LiveTypeOK ==
    /\ TypeOK
    /\ view \in [Streams -> [stage : Stages, shows : Found]]
    /\ wire \in [Streams -> Seq(Statuses)]
    /\ polls \in [Streams -> [Polls -> Found]]
    /\ \A s \in Streams :
          /\ Len(wire[s]) <= Wire
          /\ stream[s] # "idle" /\ connected[s] => At(s, "live")
          /\ wire[s] # <<>> => At(s, "live")

\* A screen that listens and has handled all that was sent shows the order's
\* status, unless the server lost the news on the way: the screen itself loses
\* none, from its first request through the snapshot to the last event.
ScreenIsCurrent ==
    Quiet => \A s \in Streams :
        /\ At(s, "live") /\ stream[s] = "streaming" /\ connected[s]
        /\ channel[s] = <<>> /\ wire[s] = <<>> /\ lost[s] = "nothing"
        => view[s].shows = status

\* useLiveOrder: whether it listens or polls, an open screen learns that the
\* order has ended and stops, unless the server lost that news.
EndIsSeen ==
    \A s \in Streams :
        view[s].stage \in {"live", "polling"} /\ IsTerminal(status)
            ~> view[s].stage \notin {"live", "polling"} \/ lost[s] # "nothing"
=============================================================================
