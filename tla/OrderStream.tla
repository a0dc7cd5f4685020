---------------------------- MODULE OrderStream -----------------------------
(***************************************************************************)
(* The live status of one order: the broker of internal/sse, the streams   *)
(* of handleOrderEvents, and the handlers that move the order and publish  *)
(* what they read back (handlePaystackWebhook, handleAdminTransition).     *)
(* Orders do not meet in the broker: its map has one subscriber set for    *)
(* each.  A broker method holds the broker's mutex throughout, so each is  *)
(* one step.                                                               *)
(***************************************************************************)
EXTENDS Domain, Sequences

CONSTANTS
    Fulfilment,     \* of the order
    Publishers,     \* handlers that may be moving the order at once
    Streams,        \* event streams that may be open at once
    SubBuffer,      \* the capacity of a subscriber's channel
    MayFail         \* whether the read after a commit may fail

ASSUME FulfilmentAssumption == Fulfilment \in Fulfilments
ASSUME SubBufferAssumption == SubBuffer \in Nat \ {0}
ASSUME MayFailAssumption == MayFail \in BOOLEAN

VARIABLES
    status,         \* orders.status
    publisher,      \* publisher[p]: the handler's stage and the status it read back
    subs,           \* the streams whose channel is in the broker's set
    channel,        \* channel[s]: the events in the stream's channel
    stream,         \* stream[s]: the stage of its handler
    connected,      \* connected[s]: the client is still there
    shown,          \* shown[s]: the status its handler read, then the last one written
    lost            \* lost[s]: what kept the latest news from the stream, if anything did

streamVars == <<subs, channel, stream, connected, shown, lost>>
vars == <<status, publisher, streamVars>>

StreamStages == {"idle", "loaded", "subscribed", "streaming"}
Losses == {"nothing", "gap", "overflow", "overtaken", "unpublished"}
Idle == [stage |-> "idle", read |-> "pending_payment"]
-----------------------------------------------------------------------------
(* Broker.                                                                 *)

Subscribe(s) ==
    /\ subs' = subs \cup {s}
    /\ channel' = [channel EXCEPT ![s] = <<>>]

\* The order's entry goes when its last channel does.
Unsubscribe(s) ==
    /\ subs' = subs \ {s}
    /\ channel' = [channel EXCEPT ![s] = <<>>]

Room(s) == Len(channel[s]) < SubBuffer

\* A full channel misses the event; nobody waits.
Publish(event) ==
    channel' = [s \in Streams |-> IF s \in subs /\ Room(s) THEN Append(channel[s], event) ELSE channel[s]]
-----------------------------------------------------------------------------
(* A handler that moves the order.                                         *)

\* TransitionOrder commits: a legal move, or a no-op.
Transition(p, to) ==
    /\ publisher[p].stage = "idle"
    /\ IsNoOp(status, to) \/ CanTransition(Fulfilment, status, to)
    /\ status' = to
    /\ publisher' = [publisher EXCEPT ![p].stage = "committed"]
    /\ UNCHANGED streamVars

\* s.GetOrder after the commit, outside the transaction.
ReadBack(p) ==
    /\ publisher[p].stage = "committed"
    /\ publisher' = [publisher EXCEPT ![p] = [stage |-> "read", read |-> status]]
    /\ UNCHANGED <<status, streamVars>>

\* What a publication does to the news of each stream.
LossAfter(s, event) ==
    IF s \in subs
    THEN IF ~Room(s) THEN "overflow" ELSE IF event = status THEN "nothing" ELSE "overtaken"
    ELSE IF stream[s] = "loaded" /\ event # shown[s] THEN "gap" ELSE lost[s]

Announce(p) ==
    LET event == publisher[p].read IN
    /\ publisher[p].stage = "read"
    /\ Publish(event)
    /\ lost' = [s \in Streams |-> LossAfter(s, event)]
    /\ publisher' = [publisher EXCEPT ![p] = Idle]
    /\ UNCHANGED <<status, subs, stream, connected, shown>>

\* The request was cancelled or the query failed: 500, nothing is published.
ReadBackFails(p) ==
    /\ MayFail
    /\ publisher[p].stage = "committed"
    /\ publisher' = [publisher EXCEPT ![p] = Idle]
    /\ lost' = [s \in Streams |-> IF stream[s] = "idle" THEN "nothing" ELSE "unpublished"]
    /\ UNCHANGED <<status, subs, channel, stream, connected, shown>>
-----------------------------------------------------------------------------
(* handleOrderEvents.  The heartbeat writes a comment and changes nothing. *)

\* GetOrderForUser, for a client that opens the stream for the first time or
\* again.
LoadOrder(s) ==
    /\ stream[s] = "idle"
    /\ stream' = [stream EXCEPT ![s] = "loaded"]
    /\ connected' = [connected EXCEPT ![s] = TRUE]
    /\ shown' = [shown EXCEPT ![s] = status]
    /\ UNCHANGED <<status, publisher, subs, channel, lost>>

StartListening(s) ==
    /\ stream[s] = "loaded"
    /\ Subscribe(s)
    /\ stream' = [stream EXCEPT ![s] = "subscribed"]
    /\ UNCHANGED <<status, publisher, connected, shown, lost>>

\* The status loaded before is written first.
WriteSnapshot(s) ==
    /\ stream[s] = "subscribed"
    /\ stream' = [stream EXCEPT ![s] = "streaming"]
    /\ UNCHANGED <<status, publisher, subs, channel, connected, shown, lost>>

\* The loop takes an event, also when the client is gone already: select picks
\* any case that is ready.
WriteEvent(s) ==
    /\ stream[s] = "streaming"
    /\ channel[s] # <<>>
    /\ shown' = [shown EXCEPT ![s] = Head(channel[s])]
    /\ channel' = [channel EXCEPT ![s] = Tail(@)]
    /\ UNCHANGED <<status, publisher, subs, stream, connected, lost>>

Disconnect(s) ==
    /\ stream[s] # "idle"
    /\ connected[s]
    /\ connected' = [connected EXCEPT ![s] = FALSE]
    /\ UNCHANGED <<status, publisher, subs, channel, stream, shown, lost>>

\* Mutant: the handler returns without unsubscribing.
EndStreamLeaking(s) ==
    /\ stream[s] = "streaming"
    /\ ~connected[s]
    /\ stream' = [stream EXCEPT ![s] = "idle"]
    /\ lost' = [lost EXCEPT ![s] = "nothing"]
    /\ UNCHANGED <<status, publisher, subs, channel, connected, shown>>

\* The request's context is done: the handler returns and unsubscribes.
EndStream(s) ==
    /\ stream[s] = "streaming"
    /\ ~connected[s]
    /\ Unsubscribe(s)
    /\ stream' = [stream EXCEPT ![s] = "idle"]
    /\ lost' = [lost EXCEPT ![s] = "nothing"]
    /\ UNCHANGED <<status, publisher, connected, shown>>
-----------------------------------------------------------------------------
Init ==
    /\ status = "pending_payment"
    /\ publisher = [p \in Publishers |-> Idle]
    /\ subs = {}
    /\ channel = [s \in Streams |-> <<>>]
    /\ stream = [s \in Streams |-> "idle"]
    /\ connected = [s \in Streams |-> FALSE]
    /\ shown = [s \in Streams |-> "pending_payment"]
    /\ lost = [s \in Streams |-> "nothing"]

PublisherStep(p) == ReadBack(p) \/ Announce(p) \/ ReadBackFails(p)

StreamStep(s) == StartListening(s) \/ WriteSnapshot(s) \/ WriteEvent(s)

Next ==
    \/ \E p \in Publishers :
          \/ \E to \in Statuses : Transition(p, to)
          \/ PublisherStep(p)
    \/ \E s \in Streams : LoadOrder(s) \/ StreamStep(s) \/ Disconnect(s) \/ EndStream(s)

Spec == Init /\ [][Next]_vars
-----------------------------------------------------------------------------
(* Properties.                                                             *)

\* Types, and the bookkeeping of the broker: exactly the streams between
\* Subscribe and their end are in its set, and no other channel holds events.
TypeOK ==
    /\ status \in Statuses
    /\ publisher \in [Publishers -> [stage : {"idle", "committed", "read"}, read : Statuses]]
    /\ subs = {s \in Streams : stream[s] \in {"subscribed", "streaming"}}
    /\ channel \in [Streams -> Seq(Statuses)]
    /\ \A s \in Streams : /\ Len(channel[s]) <= SubBuffer
                          /\ s \notin subs => channel[s] = <<>>
    /\ stream \in [Streams -> StreamStages]
    /\ connected \in [Streams -> BOOLEAN]
    /\ shown \in [Streams -> Statuses]
    /\ lost \in [Streams -> Losses]

\* No handler stands between a commit and its publication.
Quiet == \A p \in Publishers : publisher[p].stage = "idle"

UpToDate(s) == stream[s] = "streaming" /\ channel[s] = <<>> => shown[s] = status

\* handleOrderEvents says "Subscribe BEFORE sending the snapshot so no transition
\* is missed in the gap between reading current status and starting to listen":
\* a stream that has written all it was sent has written the order's status.
GapIsCovered == Quiet => \A s \in Streams : UpToDate(s)

\* A client that leaves is noticed, and its subscription goes.
DepartureIsNoticed ==
    \A s \in Streams : stream[s] # "idle" /\ ~connected[s] ~> s \notin subs /\ stream[s] = "idle"
=============================================================================
