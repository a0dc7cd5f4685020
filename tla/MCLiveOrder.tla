---------------------------- MODULE MCLiveOrder -----------------------------
(***************************************************************************)
(* One screen of an order that two handlers move, so that the news of one  *)
(* can overtake the other's.  One poll at a time runs; the wire and the    *)
(* channel hold one event each, so that a slow client makes the server     *)
(* lose one.  stream_gap has one handler, the capacity of the code and no  *)
(* failures, so that nothing but the gap can keep a transition from it.    *)
(***************************************************************************)
EXTENDS LiveOrder, TLC

CONSTANTS p1, p2, s1, k1

MCPublishers == {p1, p2}
MCOnePublisher == {p1}
MCStreams == {s1}
MCPolls == {k1}
=============================================================================
