# Verification of the Coffee Mug Shop

TLA+ modules, model-checking configurations and machine-checked proofs for the
shop in this repository: a Go backend (`backend/`) that takes orders, is paid
through Paystack and streams order status, and a Next.js frontend (`frontend/`)
for customers, staff and the administrator.

Paths below are relative to the repository; `H/` stands for
`backend/internal/httpapi/` and `S/` for `backend/internal/store/`.

## 1. Inventory

### 1.1 Components

| component | state it keeps | operations | talks to |
|---|---|---|---|
| Domain rules (`backend/internal/domain`) | none | `CanTransition`, `IsNoOp`, `Redemption` | called by the store |
| Order tables (`S/orders.go`) | `orders`, `order_lines`, `order_events`, `loyalty_ledger` in PostgreSQL | `Checkout`, `SetPaystackReference`, `TransitionOrder`, readers | called by the checkout, webhook and staff handlers |
| Cart tables (`S/cart.go`) | `carts`, `cart_lines` | add, update, remove, view | read and cleared by `Checkout` |
| Menu catalogue (`S/catalog.go`) | `categories`, `items`, `item_variants` | list, create, update, delete, `SetItemAvailability` | joined by the cart view |
| Checkout handler (`H/checkout_handlers.go`) | the request in work | checkout, initialize, save reference, `cancelDangling` | store, Paystack |
| Webhook handler (`H/webhook_handlers.go`) | the request in work | four gates: signature, verify, amount, transition | Paystack calls it and is called by it; store; broker |
| Staff handlers (`H/order_handlers.go`) | none | list, history, transition | store, broker |
| Event broker and stream (`backend/internal/sse`, `handleOrderEvents`) | subscriber channels of the process | `Subscribe`, `Publish`, `unsubscribe` | published to by webhook and staff handlers, read by one handler per open stream |
| Paystack client (`backend/internal/paystack`) | none | `Initialize`, `Verify`, `VerifySignature` | HTTPS with a 15 s timeout |
| Accounts and sessions (`S/store.go`, `S/password_reset.go`, `H/auth_handlers.go`, `H/middleware.go`) | `users`, `refresh_tokens`, `password_resets` | register, guest session, login, refresh, logout, reset | every authenticated handler |
| Rate limiter (`H/ratelimit.go`) | a window per client, in memory | `allow` | wraps the auth routes |
| Reports (`S/reports.go`) | none | `ReportSummary` | reads the order tables |
| Server (`backend/cmd/api`, `H/server.go`, `backend/internal/config`) | listener | start, graceful shutdown | everything |
| API client (`frontend/src/services/api.ts`, `contexts/AuthContext.tsx`) | access token, refresh queue | request, refresh, replay | the backend |
| Live order screen (`frontend/src/features/orders/useLiveOrder.ts`) | the order shown, stream, poll timer | stream, fall back to polling | event stream, `GET /orders/{id}` |
| Cart screens (`contexts/CartContext.tsx`, `CartDrawer`, `cart/page.tsx`, `item/[id]/page.tsx`) | the cart shown, `isLoading`, drawer | add, change, remove, fetch | cart endpoints |
| Checkout screens (`checkout/page.tsx`, `lib/paystack.ts`, `orders/[id]/page.tsx`) | form, payment codes in `sessionStorage`, Paystack's script and popup | place order, open popup, retry payment | checkout endpoint, Paystack |
| Staff screens (`(staff)/staff/page.tsx`, `OrderQueueCard`, `staff/orders/[id]/page.tsx`) | queries over the React Query cache | list, open, advance, cancel | staff endpoints, `GET /orders/{id}` |
| Menu editor (`(admin)/admin/menu/page.tsx`, `admin.service.ts`) | list, expanded row, forms | create, edit, delete, toggle items and sizes | admin endpoints, `GET /items` |
| Sign-in and navigation (`auth/page.tsx`, `RequireAuth`, `ProtectedRoute`, `AuthContext`, the bars) | the user, the page, the router's navigation | sign in, reset, sign out, redirect | auth endpoints |
| Presentation (home, history, reports, stepper, theme) | none that outlives a render | show what one query returns | read endpoints |

Concurrency comes from four places: HTTP handlers run one goroutine per
request over a PostgreSQL pool; a request's context is cancelled when its client
leaves, which fails every later call of its handler; Paystack delivers an event
again until it is answered 200; and the browser overlaps its own requests.
There is no background job: what a handler leaves half done stays half done.

### 1.2 What is hard, and what makes each part correct

* **Checkout across systems.** The order is committed, then Paystack is called,
  then the reference is saved. Each call can fail, the client can leave, the
  process can die. Correct when no order becomes payable whose payment could not
  be recorded, and when an order that can never be paid is cancelled.
* **Webhook.** Duplicated, late, racing staff. Correct when an order is marked
  paid once, only for a charge Paystack verifies at exactly its total, and when
  no 200 makes Paystack forget a payment.
* **Lifecycle and loyalty.** Several transactions write rows about one order.
  Correct when the status follows the graph, the audit trail is that path, and
  debit, refund and earning agree with it, so that no balance goes negative.
* **Checkout transaction.** Read, check, insert, clear under row locks taken in
  some order. Correct when no cart is bought twice, no point is spent twice, no
  key is used twice, nothing deadlocks.
* **Event stream.** Snapshot, subscription, bounded buffers, publication after
  commit. Correct when what is shown catches up with the database and nothing
  leaks.
* **Sessions.** Refresh racing logout and password reset. Correct when a
  revocation is final.
* **API client.** Calls of one page meet an expired token at once. Correct when
  one refresh serves all and no call is left in the queue.
* **Cart screens.** Requests are sent from what was shown and are answered in any
  order. Correct when the screen ends with the server's cart.
* **Payment.** Popup, script and pages fail, are closed or left. Correct when an
  order that is not paid can still be paid and nobody waits for a script that
  will never load.
* **Console.** Lists and orders are cached, polled, refetched and changed by
  others. Correct when a screen ends with what the server has, shows a change its
  user was told of, and sends only steps that were legal where it looked.
* **Guards.** Redirects of guards race clicks, logins and logouts. Correct when
  every visit comes to rest.

`PROJECT.json` lists the hazards at their lines and the properties that cover
them.

## 2. Modules

### Domain
The lifecycle graph and the loyalty arithmetic as operators. Everything else
takes its legality checks and its points from here, as the Go code does.

### OrderStore
The tables as variables, one action per *committed* transaction. `orders[o]`
holds what checkout writes once, `status[o]` the column that changes,
`history[o]` the `order_events` rows, `ledger[o][reason]` what the ledger rows
of that order and reason add up to, `points[u]` the sum the balance query
returns. `Checkout` and `TransitionOrder` compute the reply of the Go function
(`CheckoutReply`, `TransitionReply`) in its order of checks; a reply other than
success changes nothing and is no step. Every write of the transaction is in the
one action: status, event row and ledger row move together.

Abstracted: the text of orders (addresses, names, phone), `order_lines` (a copy
of the cart lines that nothing reads back into a decision; its price is
`subtotal`), `created_at`. `Subtotal` is a constant operator from cart to
pesewas, so menu prices are arbitrary but fixed while the model runs.

### TransitionTx
The inside of `OrderStore!TransitionOrder`. `move[m]` is a call under way: what it
read under the row lock and is about to write. What it writes is seen by nobody
before its commit, so that a call is two steps and a rollback may come between.

| action | code |
|---|---|
| `LockOrder` | `BeginTx`, `SELECT ... FOR UPDATE`, the two checks; waits while another call has the row |
| `Commit` | the status, the event, the ledger rows and the end of the transaction |
| `RollBack` | a statement fails, the request is cancelled, the process dies |
| `OtherTransaction` | the other transactions of OrderStore; saving a reference waits for the row too |

`TransitionsAreAtomic` is the refinement back to OrderStore: a call that decided
on a status which somebody else has changed by its commit would be no step of it.
So every module that takes `TransitionOrder` as one step (Payments, CheckoutTx,
OrderStream, StaffScreens) may.

### OrderPromise
What an order means to its customer: points go into escrow when it is placed and
leave it exactly once, as spent on completion or returned on cancellation. It
knows no carts, fulfilment or tables. `OrderStore!KeepsPromise` is the
refinement; the escrow is mapped to the debit row of an order not yet settled,
the owner to the row's user, the balance to the sum of all ledger rows.

### Payments
`handleCheckout`, `handlePaystackWebhook` and `handleAdminTransition` over the
transactions of OrderStore. A handler is a sequence of steps, one per call that
leaves the process, and anything may happen between two steps.

| action | code |
|---|---|
| `StartCheckout` | `handleCheckout` up to the commit of `store.Checkout` |
| `InitializePayment` / `InitializeFails` | `GetUserByID` and `paystack.Initialize`, both exits |
| `CancelDangling` | `cancelDangling`: the transition under the request's context, error dropped |
| `SaveReference` / `SaveReferenceFails` | `SetPaystackReference`, both exits |
| `Disconnect`, `Restart` | cancelled request context; process restart (requests in work end unanswered) |
| `CustomerPays`, `ReverseCharge` | the environment: what `Verify` will report |
| `ReceiveWebhook` | gate 1 and `GetOrderByReference` |
| `VerifyCharge` / `VerifyFails` | gates 2 and 3; 502 when Paystack is unreachable |
| `MarkPaid` / `MarkPaidFails` | gate 4: transition, read-back, publish, or 500 |
| `AdminTransition` | staff asking for any status but `paid` |

`answer[o]` remembers the last 200 given for an order, `announced[o]` the last
status published. A webhook that is unsigned, of another event or without a
reference leaves before its first call and is no step.

### CheckoutTx
The inside of `OrderStore!Checkout`: every statement of `Store.Checkout` is a
step of a transaction `tx[c]`, with the row and index locks it takes in
`held[c]`, against the statements of the cart requests (each its own
transaction), menu changes and `TransitionOrder`'s ledger rows.

| action | statement | waits for |
|---|---|---|
| `LockCart` | the upsert of `getOrCreateCartID` (it locks the cart's row until the end) | another checkout of the user |
| `ReadCart` | `cartView` and the two checks | - |
| `LockUser`, `ReadBalance` | `SELECT ... FOR UPDATE`, `SUM(delta)`; only when points are redeemed | a lock on the user |
| `InsertOrder` | `INSERT INTO orders` and the rows that go with it | an open insert of the same key |
| `ClearCart`, `Commit`, `Fail` | `DELETE FROM cart_lines`, the end of the transaction | - |
| `FindCart`, `CheckMenu`, `WriteLine` | the statements of `AddCartItem`, `UpdateCartLine`, `RemoveCartLine` | a checkout that holds the cart or has deleted the line |

It shows how far "one step" is justified: two checkouts of one user cannot
overlap from `LockCart` on, so their order is that of their commits and the
balance is read under the same protection (the cart's row already orders the
checkouts of a user; the lock on the user's row keeps transitions out). Where it
is not one step is a finding: an edit that passed `FindCart` before the lock.
`OrderStore` stays faithful to what the tables can then hold, because a lost
edit leaves them as if the edit had been followed by a removal.

### OrderStream
One order's live status. `Subscribe`, `Unsubscribe` and `Publish` are the
broker's methods, atomic because each holds the mutex. A publishing handler is
commit, read-back, publish; a stream's handler is read, subscribe, snapshot,
loop, unsubscribe. `lost[s]` is not in the code: it records why the latest news
did not come to the stream, if it did not: published between the stream's read
and its subscription, dropped by a full channel, overtaken by a newer
publication, never published. These are losses of the server; `ScreenIsCurrent`
and `EndIsSeen` are about what the screen makes of the rest. That the first of
them cannot happen is what a comment in `handleOrderEvents` says, and what
`GapIsCovered` states.

### LiveOrder
`useLiveOrder` over OrderStream: every server action is OrderStream's, joined
with what it does to the screen. `view[s]` is the stage of the hook and the
status it shows, `wire[s]` what the server has written and the browser not yet
handled, `polls[s]` the polls under way with the status each has read. A poll
reads when it is sent and is handled when it arrives, so answers overtake each
other; the timer does not wait for them.

| action | code |
|---|---|
| `Open`, `Loaded`, `LoadFails` | the effect's `init`, up to the choice between stream and polling |
| `Connect`, `StatusEvent`, `StreamError` | `startSSE` and its listeners |
| `Poll`, `PollReply`, `PollFails` | `startPolling`, `stopPolling` |
| `Close` | the effect's cleanup |
| `Write`, `ServerOnly` | `handleOrderEvents` writing to the connection |

A broken connection ends on both sides in one step: a line that dies without a
word is not modelled.

### Sessions
The handlers of `auth_handlers.go`, cut at their database statements, and
`ConsumePasswordReset` with the row locks of its transaction. `request[r]` is a
handler in work: what it has read is what it goes on with, however stale.

| action | code |
|---|---|
| `Register`, `Login` | `handleRegister` or `handleGuestSession`, `handleLogin`, up to the session |
| `IssueSession` | `issueSession` |
| `ReadToken`, `ConsumeToken` | `handleRefresh` before and after `GetRefreshToken` |
| `Logout` | `handleLogout` |
| `RequestReset` | `handlePasswordResetRequest` |
| `LockLink`, `WriteUser`, `Commit` | `ConsumePasswordReset`, statement by statement |
| `BreakDeadlock`, `Fail` | the database fails a statement |
| `ExpireToken`, `ExpireLink` | time passes |

Passwords are numbers: a reset makes the next one. Three fields are not in the
code. `proved` is the password the holder of a session knew, handed on from
session to session; `overtaken` says that a reset committed while one of the
requests that led to the session was under way; `since` is the password a link
was asked for under. With them `ResetEndsSessions` says that the only sessions
which outlive a reset descend from a request that was already running.

### TokenRefresh
The browser over Sessions: the tabs of one browser (`tab[t]`: page, access
token, `isRefreshing`), their API calls (`call[c]`: stage and `_retry`), the
cookie they share, and `purpose[r]`, which joins a request of Sessions to the
tab that waits for its reply. The cookie changes when a reply arrives.

| action | code |
|---|---|
| `LoadPage`, `Restored`, `SignIn`, `SignedIn`, `SignOut`, `SignedOut` | `AuthContext` and `auth.service.ts` |
| `SendCall`, `Succeed`, `RejectForGood` | the interceptors' outer paths |
| `Enqueue`, `Lead`, `Refreshed`, `RefreshRefused` | the refresh queue: `isRefreshing`, `refreshQueue`, `processQueue` |
| `ServerStep` | Sessions handling the request |
| `LoseReply`, `DropReply` | the network; a reply to a page that is gone |

`AuthContext` has one request of its own under way per tab. Tokens are reused
once no request and no cookie holds them (`NewToken`), which keeps the model
finite; `TokensAssumption` says that there is always one. `Untroubled` switches
off everything a user or the network does, so that `cookie_restore` shows a
failure nobody caused.

### CartScreen
`CartContext` with the pages and the drawer that show it, over the server's
cart. `req[r]` is a request: what it asks, where it is (`sent`, handled,
refused), the view the server answered and whether the component that sent it is
still mounted. `shown` is the cart on the screen, `behind` (not in the code) why
it may differ from the server's.

| action | code |
|---|---|
| `VisitMenu`, `VisitCart`, `OpenDrawer`, `CloseDrawer` | the pages; a mounted cart page or drawer fetches |
| `Increase`, `Decrease`, `Remove`, `Add` | the buttons, computed from the quantity that is shown |
| `Handle`, `Lose` | `cart_handlers.go`: written or refused; the connection fails before or after |
| `Reply`, `ReplyFails` | `setCart(answer)`, or `setCart(null)` after a failed fetch |
| `SwitchItem` | an item goes off the menu, or back on it |

### CheckoutScreen
Extends CartScreen by the checkout page, Paystack's script, the popup, the hosted
page and the page of the order. The server is cut down to what the browser can
tell apart; OrderStore and Payments have the rest. `popup[f]` is the attempt of
the checkout page or of the order page, `loader` the module variable that holds
the promise of `loadPaystack`, `script` the tag, `stash` the payment codes in
`sessionStorage`, `retry` what the order page read of them when it mounted.

| action | code |
|---|---|
| `VisitCheckout`, `ToggleRedeem`, `Submit` | `checkout/page.tsx` up to the call |
| `Refuse`, `Place`, `Initialize`, `LoseCall`, `Rejected` | `handleCheckout` as the page sees it; a refusal with a points message drops the redemption |
| `Answered`, `Opened` | the answer: cart fetched, codes kept, popup or hosted page |
| `ScriptLoads`, `ScriptFails` | `loadPaystack` |
| `Succeed`, `Cancel`, `PopupError` | the callbacks of `openPaystackPopup` |
| `Leave`, `Return`, `VisitOrder`, `PayNow` | the hosted page, the page of the order, "Pay now" |
| `Webhook` | the order is paid or cancelled by others |

The backend sends no `access_code`, so with it every popup ends in `PopupError`
and the hosted page; the module follows what `lib/paystack.ts` handles.

### QueryCache, Pages
`QueryCache` is the part of React Query the console's screens rely on, as its
documentation has it: data, `invalid`, `failed` and at most one fetch per query;
mounting joins or starts a fetch, an invalidation replaces the one under way. The
library is not in the repository; this part is external. `Pages` names the
routes.

### StaffScreens
The queue with its card and the page of one order, over QueryCache and the
server's order. `change[b]` is the request of a button, `own`
whether the order belongs to the staff member, `seen` (not in the code) the last
change the mounted page of the order was told of.

| action | code |
|---|---|
| `VisitQueue`, `VisitDetail`, `Focus`, `Interval`, `Refresh` | mounting, `refetchInterval`, the refresh button |
| `Click` | the card, "advance", "cancel": the step after the status on the screen |
| `Transition`, `LoseChange` | `handleAdminTransition`, or a lost connection |
| `Told`, `Done`, `Denied` | `onSuccess` with its invalidations; `onError` |
| `ServeOrder`, `ArriveOrder`, `FailOrder` | the reads |
| `Elsewhere` | webhook, other staff |

### MenuScreens
The menu editor over one item with one size: the list, the row with its toggle,
edit form and sizes, the form for a new item, and what `catalog_handlers.go` and
`catalog.go` do with their requests. `ask` is the set of requests under way.
`Readable` is what `GET /items` answers: with an expired token the endpoint takes
the admin for a visitor and leaves sold-out items out.

### Visits
`RequireAuth`, `ProtectedRoute`, the gate of the staff pages, the redirect of the
sign-in page, navigation bars, forms and signing out. `pending` is the navigation
the router has not finished, `forced` whether a guard asked for it, `cut` (not in
the code) whether another navigation replaced one a guard asked for.

### Console
One tab over the three parts above, with one page and one cache. The parts share
nothing else, so from a page load on a tab is looked at in one of them, its
`desk`.

### MC modules
`MCOrderStore`, `MCPayments`, `MCCheckoutTx`, `MCSessions`, `MCTokenRefresh`,
`MCLiveOrder`, `MCShop` and `MCConsole` give the constants of the runs their
values and define the symmetry sets.

## 3. Runs

| run | question | bounds | result |
|---|---|---|---|
| `store` | Are overlapping transitions as good as one after the other, and do the tables keep lifecycle, trail and points in agreement and keep the promise? | a member with 200 points and a guest, 2 orders, one line of one menu entry, one key, requests for 0, 60 and 150 points, 2 calls of `TransitionOrder` at once | passes |
| `payments` | Do the handlers keep money safe, and is a matching charge recorded in the end? | 1 order, 2 webhook requests at once, 1 restart, every call may fail, fair handlers | passes |
| `dangling` | Is an order whose checkout failed cancelled? | 1 order, 1 webhook request, no database failure | violated (finding) |
| `checkout_tx` | Do the locks keep carts, points and keys from being used twice, and never deadlock? | 2 checkouts, 2 cart requests, 2 users, one key, points for one redemption | passes |
| `checkout_tx_edit` | Does a commit clear exactly what its order bought? | one user | violated (finding) |
| `live_order` | Does the screen lose news the server sent it, does it learn of the end, does it leave a subscription behind? | 2 handlers, 1 screen, 1 poll at a time, wire and channel of capacity 1, everything may fail | passes |
| `stream_gap` | Is a transition between the stream's read of the order and its subscription shown? | 1 handler, 1 screen, channel of capacity 16 as in the code, no failure | violated (finding) |
| `sessions` | Does a session outlive a reset in any other way than through a request that was under way when it committed, does a link work once, do resets get on? | 1 user, 2 requests at once, 2 sessions and 2 links ever issued, every call may fail | passes |
| `token_refresh` | Does one call refresh for all, and does none hang? | 1 tab, 2 calls, 2 server requests, 3 tokens, lost replies, reloads | passes |
| `cookie_restore` | Does the cookie restore the session? | 2 tabs, 2 requests, no failure at all | violated (finding) |
| `shop` | Does the cart come to the screen, can an unpaid order still be paid, does anybody wait for a dead script? | 1 size of an item up to quantity 2, 2 requests at once, 1 order, everything may fail | passes |
| `console` | Do queue, order page and editor end with what the server has, are clicks legal where they were made, do visits settle? | 1 pickup order, 1 click under way, 1 item with one size, 2 editor requests at once, everything may fail | passes |

Why these bounds are enough to meet the hard cases. *Two orders of one user*
let a second redemption meet the first one's debit, its refund and the earning
of a completion; the requests are chosen so that the cap bites (150 of a
subtotal of 120), the surplus is refused (150 of what is left) and 60 fits
beside either. *Two calls* of `TransitionOrder` are the fewest that overlap, on one
order or on both; they are a symmetry set. The *guest* makes the earning rule show. `CartsMatter` stops
following behaviours that go on editing carts after every order id is taken:
no later action on an order reads a cart, and the actions on the orders commute
with these edits, so nothing about orders is lost. *Two webhook requests* are
two deliveries of one event overlapping; a third would only repeat one of the
stages the first two are in. *One order* in `payments`: handlers of different
orders share only the ledger, which `store` covers with two. `MaxQuantity` and
`MaxRestarts` are the only caps.

In `checkout_tx` each request runs once, which also makes the state space
finite: two checkouts are a pair of tabs (one user) or two users sharing a key,
one of the cart requests fills the cart and the other races a checkout or fills
it again. Requests that run once can be exchanged, so they are a symmetry set.
In `live_order` a capacity of 1 in place of 16 makes the overflow happen after one
unread event, and a wire of one event lets the server's channel fill behind a
slow client; two handlers are the fewest whose publications overtake each other.
Handlers and the screen run again and again. One poll at a time: with two, the
older can answer last, which the theorems about the screen cover for any number.

In `sessions` two requests are every pair of handlers at once; a third session
or link would repeat what the second did, since a row once gone never returns.
In `token_refresh` one call leads and one queues, two server requests are the
refresh and one more of the same page or of the page before a reload. The two
tabs of `cookie_restore` need no calls.

In `shop` two requests are the fewest that overtake each other; the two are a
symmetry set. The named bounds are in the comments of the actions: cart requests
overlap only while no checkout has begun (a page that is paying has them one at
a time), the menu changes only before there is an order, and there is one order.
The model goes on after it is paid or cancelled.

In `console` one click under way per tab already meets the webhook, other staff
and the same tab's earlier answers; the invariants about the orders were also
checked with two, and are proved for any number. Two editor requests are a change
that overtakes another; a token expires only while no request is under way, since
a request that is refused for its token is TokenRefresh's subject. Who has the form
for a new item open leaves the row of the other alone. The order is
for pickup; the proofs cover delivery.

Deadlock is checked in every passing run.

The theorems hold for every value of the constants of their modules.

### Fairness
`FairSpec` assumes of the code only that a checkout handler that was started
runs on (its calls have timeouts; nothing in it waits for another request), and
of the environment that Paystack delivers an event again until it is answered
200 and that neither its verify endpoint nor the database fails for ever.
The last two are *strong*: a retry may find the verify call failing any number
of times, and the model's two delivery slots, which the server does not have,
may be taken when a redelivery is due. `CustomerPays`, staff and restarts are
not fair.

`LiveOrder!LiveFairSpec`: publishing handlers run on, a stream's handler reaches
its loop, and the loop takes `ctx.Done()` in the end, since `select` chooses
among ready cases at random. An open screen reads what is written to it, its
timer fires, and polls do not fail for ever.

`Sessions!FairSpec`: the transaction of a reset runs on. Its two waits are
*strong*, since PostgreSQL grants a row lock in the order of the requests for
it, and a deadlock is broken by its detector. `TokenRefresh!BrowserFairSpec`:
handlers end, replies arrive or are lost, the interceptors run. `Succeed` is
strong: an access token lives fifteen minutes, a call seconds, so a call that is
made again and again does not find it expired every time. Loading pages,
signing in or out and making calls are not fair.

`Console!FairSpec`: the router finishes the navigation it has begun, the first
refresh of a page load is answered or fails, the interval of the queue fires
(`refetchInterval`, which fetches only while the tab is visible, since
`staff/page.tsx` does not set `refetchIntervalInBackground`: `QueueCatchesUp` is
about a tab somebody looks at), and a read of the queue that is sent again and again is served and
answered in the end. Nobody has to click, and nothing is assumed of the buttons'
requests.

## 4. Proofs

| module | argument |
|---|---|
| `OrderStoreProofs`, the ledger | `MoneyInv`: types, ledger signs, the shape of rows, ledger against status, balances, totals. A balance is only debited by a redemption `Redemption` granted against that very balance, so it stays non-negative; the ledger equalities need that `CanTransition` leaves no terminal status, which is where the graph enters the argument. |
| `OrderStoreProofs`, the trail | `TrailInv`: the trail ends at the status and each row is an edge. That no order is paid twice does not follow from legality alone; the strengthening `NeverBehind` gives each status a rank and says that no event of the trail is ahead of the status, so that a second `paid` would have to go back. |
| `OrderStoreProofs`, the promise | `StoreKeepsPromise`: initial states map to initial states; one lemma per transaction shows the abstract step it is (or a stutter), using the ledger equalities of `MoneyInv` for the amounts. |
| `OrderStoreProofs`, the overlaps | `CallsHold`: what a call has read is still so, its step is legal from there, and no two calls have one order. It is kept because every other way to change an order's status needs the row. Then a commit is `TransitionOrder` at that moment, `TxSpec => StoreSpec`, and all of the above holds of overlapping calls. |
| `PaymentsProofs` | every handler step is a store transaction or leaves the tables alone, so `Spec => StoreSpec`, and with the refinement above the handlers keep the promise. |
| `PaymentsProofs`, second half | `PathInv`, one invariant per order and one per delivery. A delivery past gate 3 belongs to an order whose charge matched; a charge implies a saved reference and a checkout that reached the customer; an order cancelled by the system has a checkout that never did. |
| `OrderStreamProofs` | `StreamInv`: types, and `Informed`: for a stream that lost nothing, the last event in its channel (or, when it is empty, the status it wrote last) is the order's status, or a handler that will publish that status has committed and not yet published. It is what the screens' proof rests on. |
| `OrderStreamProofs`, second half | `LiveSpec => Spec`: whatever a screen and its client do, the server takes a step of OrderStream or none. On top of it `LiveInv`: a stage that does not listen has hung up and has nothing on its way, and `WireTells`: what was written last and is not handled yet, or else what is shown, is what the server wrote last. With `Informed` below it, a screen that has handled everything shows the status unless the stream lost it. |
| `ConsoleProofs` | `ConsoleInv`: nothing a screen has read, is reading or was told lies ahead of the order in the lifecycle (`Progress`), and a button's request was one step ahead of what its page showed. The server refuses only what is no step from where the order is, so a refused advance means the order has come as far by another way. For a staff member's own change: a read that was under way when it was acknowledged is replaced, and whatever is read afterwards is at least as far. `MenuInv`, for the editor: what the list has or is fetching is the menu (or what an expired token shows of it), unless a change has been handled whose answer is still to come and will fetch it again, or `behind` says why not. `TabInv` is what the types of the orders' part and of the guards need. |
| `CheckoutScreenProofs` | `PayInv`: promise and script go together (`none`/absent, `pending`/loading, `resolved`/fired), somebody waits only while it is pending, and the codes are kept from before the popup comes up until a payment. `CartInv`: the lines of the cart are on the screen, or a request that will bring them is under way, or `behind` names why not. `CartTypes` and `PageTypes`: the flags, among them that a blocked cart has a fetch under way, and that only a mounted page remembers what its visitor did. |
| `CheckoutTxProofs` | `TxInv`: which locks a transaction holds at each stage; that a lock is never held twice; and what this buys. A row an order has sold is gone for good, because its id is not above the counter `lineId` and later rows get larger ones (`SoldIsGone`); so what a checkout read under the cart's lock is unsold until it commits (`Selling`). The points it is to redeem are still there (`Spending`), since no other debit of the user is written without the locks it holds. A key that was inserted stays free for its commit (`KeyIsFree`). `NoDeadlock` follows without more induction: a checkout waits only for its cart, behind one that has it, or for its key, behind one that has inserted its order (`WhoWaits`), so among any open transactions one that is furthest waits for none of the others. |
| `SessionsProofs` | `SessionInv`: `ResetEndsSessions` alone is not inductive, since a request under way will write a session later. The strengthening says of each part why its password is current: a session's holder has proved the password the user has, unless a reset committed in between (`TokenIsSound`); a link was asked for under it (`LinkIsSound`); a request not overtaken saw the password it proved, and a link it has locked is still there (`RequestIsSound`). The action property `LinksWorkOnce` follows from the last two: the commit is the only step that changes a password, and it holds a link which the commit of another reset would have removed. |
| `TokenRefreshProofs` | `BrowserInv`, on top of `SessionInv`, whose lemmas carry the server's part: a tab that says it refreshes has exactly one call that leads and exactly one refresh on its way, and calls are queued only then (`TabIsSound`). The server's part adds that a request about to issue a session holds no token; so requests and cookie leave a token over, by counting. |

Assumptions are the ASSUMEs of the modules: constants have the types the code
gives them, guests open with no points, capacities are positive. Two ask for
finite sets, which runs of a program always have: `CheckoutTx` counts the cart
requests ever made (`EditsAssumption`; the ids of its rows are bounded by them),
and `TokenRefresh` has more refresh tokens than requests at once
(`TokensAssumption`; the code draws 32 random bytes for each and never runs out
of them). Orders, prices, requests, users, deliveries, screens, polls, variants and
clicks under way are arbitrary.

Every invariant, action property and refinement of the passing runs is proved.
Only model-checked are the liveness properties (`ExactChargeSettles`,
`DepartureIsNoticed`, `EndIsSeen`, `ResetsFinish`, `EveryCallSettles`,
`QueueCatchesUp`, `VisitsSettle`: liveness under fairness is out of the prover's
reach) and the statements of the violated runs, which are false.

## 5. Findings

Each of these has a run whose counterexample shows it.

1. **A failed checkout leaves its order behind** (`dangling`). `cancelDangling`
   runs under the request's context: when the client's departure is what made
   `Initialize` fail, the cancellation fails as well and the order dangles with
   its points debited. The same statement ("On any failure, cancel the order so
   it cannot dangle") fails a second way: after a failed `SetPaystackReference`
   nothing is cancelled at all. Such an order cannot be paid (its authorization
   URL never left the server) and keeps its points until staff cancel it.
2. **A cart edit can vanish in a checkout** (`checkout_tx_edit`). An edit that
   looked up its cart before the checkout locked it and changes a line after the
   checkout read it is deleted with the cart, although the order has the old
   quantity.
3. **Two tabs of one browser sign each other out** (`cookie_restore`). Opened
   together they send the same cookie. The second refresh finds its row consumed
   and is answered 401 with the cookie cleared, so its tab shows a signed-out
   page, and the other's new cookie goes when that reply arrives last. The
   comment in `api.ts` promises that the cookie silently restores the session.
4. **A transition is missed in the stream's gap** (`stream_gap`).
   `handleOrderEvents` reads the order (`order_handlers.go:74`) before it
   subscribes (`:92`). What is committed and published in between is neither in
   the snapshot nor in the channel, although the comment at `:90-91` says that the
   subscription comes first "so no transition is missed in the gap". The screen
   stays behind until the next transition, and for ever after the order's last.

Met while modelling, and visible in the modules, but without a run of their own:

* A retried checkout is told `empty_cart`, not the `duplicate_order` of
  `trd.md:114`: the first one cleared the cart, and the cart is looked at before
  the key (`orders.go:100`). No second order is created either way.
* Publications can overtake each other, because they happen after the row lock is
  released (`order_handlers.go:193`, `lost = "overtaken"`), and a full channel
  drops events (`broker.go:79`, `lost = "overflow"`).
* A session can outlive a reset: a login or refresh that passed its check before
  the reset's commit inserts its session afterwards (`auth_handlers.go:200`),
  although `password_reset.go:31` says "a password change ends every session".
  `ResetEndsSessions` excuses exactly these requests and what is refreshed from
  them (`overtaken`).
* A process that dies between the commit of a checkout and the saving of its
  reference leaves an order that nothing looks for (`checkout_handlers.go:93`,
  `Payments!Restart`). It cannot be charged (`ChargeIsFindable`), and keeps its
  points until staff cancel it.
* Staff cannot open a customer's order: the page asks `GET /orders/{id}`, which
  looks the order up among the caller's own (`order_handlers.go:21`), and the PRD
  says "owner or staff" (`prd.md:212`). Every such order is answered 404
  (`StaffScreens!ServeOrder`), so that `OwnChangeIsShown` is about the orders the
  page can open.
* Two refreshes that both read a token's row before either deletes it are both
  given a session (`Sessions!ConsumeToken` does not ask whether the row is still
  there).
* A poll that answers late overwrites a final status after polling has stopped
  (`LiveOrder!PollReply` in stage `finished`). `useLiveOrder` comments "Try to
  refresh token then reconnect once" and polls instead.
* An older answer of a cart request overwrites a newer one (`CartContext.tsx:57`,
  `behind = "overtaken"`).
* The backend never sends `access_code` (`checkout_handlers.go:26-29`), which
  `types/order.types.ts:42` declares and the popup needs, so that customers
  always end on the hosted page.
* "Pay now" is missing on an order page that was mounted before the codes were
  kept: they are read once (`orders/[id]/page.tsx:30-34`).
* The order page of the staff offers to cancel orders being prepared; the server
  refuses (`trd.md:148`).
* Saving the edit form of an item wipes its picture: the form has no field for it
  and the update writes the empty string (`admin/menu/page.tsx:162`,
  `catalog.go:211`).
* An admin whose token has expired is shown a menu without its sold-out items:
  the endpoint does not ask for a token, so nothing refreshes it
  (`admin.service.ts:49-50`, `catalog_handlers.go:15-25`). `ListIsTheMenu` excuses
  these items and says how far the list can be trusted otherwise.
* A click that cuts off a guard's redirect can leave a spinner or an empty page,
  because the guard does not run again (`RequireAuth.tsx:22`); `VisitsSettle`
  excuses it (`cut`). And a restoring that fails after a login by the form signs
  the user out again (`AuthContext.tsx:55`): the visit settles, on the sign-in
  page.

## 6. Not modelled

* **Rate limiter.** One counter per client and window over wall-clock time,
  without interaction; a model would restate it. A fixed window lets twice the
  limit through around its edge.
* **Reports.** Aggregates computed by one SQL statement each; they change
  nothing, and checking them would be checking SQL's `SUM`.
* **Server lifecycle, configuration, seed.** Wiring around `net/http`; a restart
  is an action of Payments. Shutdown waits for handlers, and an open event stream
  ends only when its client leaves, so that shutdown takes its whole timeout
  while a screen is open.
* **Presentation.** Home, history and report pages, the stepper, theme and
  toasts show what one query returns. The timeline of an order in the console is
  a second query over the same rows.
* **Texts.** Names, addresses, descriptions and pictures are left out everywhere;
  validation of requests ends them before any state is read and is "not a step".
  Password hashing, token signing and Paystack's signature are library code.
* **The mock mode** of the frontend is scaffolding.

Categories are part of the menu editor only as what the form for a new item
waits for: no screen changes them.

## 7. What is left

The plan of the first inventory is carried out except for the modules argued
away above, and the safety of the passing runs is proved. What would add most
now:

* theorems that join two modules: that `CheckoutTx` implements the one-step
  `Checkout` of `OrderStore` when no edit overlaps it (the counterexample of
  `checkout_tx_edit` shows that the condition is needed), and that
  `TokenRefresh` takes the steps of `Sessions`, up to its reuse of tokens
  (`ServerInv` so far carries the invariant of `Sessions`, not its steps);
* the bounds behind the liveness properties, for instance that a stream which
  lost nothing always has the action enabled that brings the news;
* a larger model with two tabs over one shop, whose carts are one.
