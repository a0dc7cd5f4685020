---------------------------- MODULE TransitionTx ----------------------------
(***************************************************************************)
(* The inside of OrderStore!TransitionOrder: Store.TransitionOrder reads   *)
(* the order under a row lock (FOR UPDATE), decides on what it has read,   *)
(* and writes status, event and ledger rows in the same transaction.  What *)
(* it writes is seen by nobody before the commit, so that each call is two *)
(* steps, the locking read and the commit, with a rollback anywhere        *)
(* between.  Webhooks, staff and checkouts call it at the same time.       *)
(***************************************************************************)
EXTENDS OrderStore

CONSTANTS Movers    \* calls of TransitionOrder that may be under way at once

VARIABLES move      \* move[m]: what call m has read and is about to write

txVars == <<storeVars, move>>

NoMove == [stage |-> "idle"]
Moves == [stage : {"locked"}, order : OrderIds, from : Statuses, to : Statuses, actor : Actors]

Unlocked(o) == \A m \in Movers : move[m] # NoMove => move[m].order # o

\* What m has read, and goes by until its commit.
Decide(m, o, to, actor) ==
    /\ move[m] = NoMove
    /\ TransitionReply(o, to) = "applied"
    /\ move' = [move EXCEPT ![m] =
           [stage |-> "locked", order |-> o, from |-> status[o], to |-> to, actor |-> actor]]
    /\ UNCHANGED storeVars

\* Mutant: a plain SELECT, which waits for nobody.
LockOrderReadingOnly(m, o, to, actor) == Decide(m, o, to, actor)

\* SELECT ... FOR UPDATE waits for the transaction that holds the row and then
\* reads what that one left.  Not found, a no-op and an illegal move end the
\* transaction with nothing written.
LockOrder(m, o, to, actor) ==
    /\ Unlocked(o)
    /\ Decide(m, o, to, actor)

\* Mutant: no transaction, so that a failure leaves the status without the rest.
CommitPartly(m) ==
    LET mv == move[m] IN
    /\ mv # NoMove
    /\ status' = [status EXCEPT ![mv.order] = mv.to]
    /\ \/ /\ history' = [history EXCEPT ![mv.order] =
                 Append(@, [from |-> mv.from, to |-> mv.to, actor |-> mv.actor])]
          /\ Settle(mv.order, mv.to)
       \/ UNCHANGED <<history, ledger, points>>
    /\ move' = [move EXCEPT ![m] = NoMove]
    /\ UNCHANGED <<cart, offMenu, orders, referenced>>

\* UPDATE orders, INSERT INTO order_events, the ledger rows, COMMIT.
Commit(m) ==
    LET mv == move[m] IN
    /\ mv # NoMove
    /\ status' = [status EXCEPT ![mv.order] = mv.to]
    /\ history' = [history EXCEPT ![mv.order] =
           Append(@, [from |-> mv.from, to |-> mv.to, actor |-> mv.actor])]
    /\ Settle(mv.order, mv.to)
    /\ move' = [move EXCEPT ![m] = NoMove]
    /\ UNCHANGED <<cart, offMenu, orders, referenced>>

\* A statement fails, the request is cancelled or the process dies.
RollBack(m) ==
    /\ move[m] # NoMove
    /\ move' = [move EXCEPT ![m] = NoMove]
    /\ UNCHANGED storeVars
-----------------------------------------------------------------------------
TxInit == StoreInit /\ move = [m \in Movers |-> NoMove]

\* The transactions of OrderStore that are left as one step.  The UPDATE that
\* saves a reference waits for the row like everybody else.
OtherTransaction ==
    /\ \/ \E u \in Users : EditCart(u)
       \/ \E i \in Items, available \in BOOLEAN : SetItemAvailability(i, available)
       \/ \E o \in OrderIds, u \in Users, f \in Fulfilments,
             request \in RedeemRequests, key \in Keys \cup {NoKey} :
                 Checkout(o, u, f, request, key)
       \/ \E o \in OrderIds : Unlocked(o) /\ SetPaystackReference(o)
    /\ UNCHANGED move

TxNext ==
    \/ OtherTransaction
    \/ \E m \in Movers :
          \/ \E o \in OrderIds, to \in Statuses :
                \E actor \in ActorsFor(to) : LockOrder(m, o, to, actor)
          \/ Commit(m)
          \/ RollBack(m)

TxSpec == TxInit /\ [][TxNext]_txVars
-----------------------------------------------------------------------------
(* Properties.                                                             *)

\* What a call has read is still so when it writes: its order stands where the
\* call found it, and the step it is about to take is legal from there.
ReadingsHold ==
    \A m \in Movers : move[m] # NoMove =>
        /\ status[move[m].order] = move[m].from
        /\ CanTransition(orders[move[m].order].fulfilment, move[m].from, move[m].to)
        /\ move[m].actor \in ActorsFor(move[m].to)

OneCallEach ==
    \A m, n \in Movers :
        m # n /\ move[m] # NoMove /\ move[n] # NoMove => move[m].order # move[n].order

\* Types of tables and calls, and the bookkeeping of the row locks: a row has at
\* most one holder, and what the holder has read of it cannot change under it.
TxTypeOK ==
    /\ TypeOK
    /\ move \in [Movers -> Moves \cup {NoMove}]
    /\ ReadingsHold
    /\ OneCallEach

\* TransitionOrder's comment promises "enforcing the domain state machine under
\* a row lock so concurrent staff actions cannot race": however calls for one
\* order overlap, fail or are retried, each commit moves the tables as one
\* legal transition of the status of that moment would.
TransitionsAreAtomic == StoreSpec
=============================================================================
