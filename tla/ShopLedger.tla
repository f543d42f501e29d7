----------------------------- MODULE ShopLedger -----------------------------
(***************************************************************************)
(* The Shop's database as its transactions leave it: the purchase, its     *)
(* delivery, the automatic delivery attempts, the buyer's confirmation,    *)
(* the support ticket, the buyers' points and the product's stock.         *)
(*                                                                         *)
(* One action is one committed transaction of internal/repository/shop_*,  *)
(* together with the triggers and constraints of internal/database/shop_*  *)
(* that fire in it.  A transaction that returns an error commits nothing   *)
(* and is no step.  How the transactions interleave below that level, with *)
(* their row locks and their READ COMMITTED reads, is not modelled.        *)
(*                                                                         *)
(* An order is an idempotency key: a repeated purchase request of a key    *)
(* that has a row returns the row and changes nothing.                     *)
(***************************************************************************)
EXTENDS Integers, FiniteSets

CONSTANTS
    Orders,       \* orders (idempotency keys) of one product, one unit each
    MaxAttempts,  \* bound on delivery attempts of one order (the table allows 100)
    Price,        \* points one unit costs
    StartBalance, \* the buyer's points before any order
    StartStock    \* units in stock before any order

ASSUME LedgerAssumption ==
    /\ MaxAttempts \in Nat \ {0}
    /\ Price \in Nat \ {0}
    /\ StartBalance \in Nat
    /\ StartStock \in Nat

ASSUME FinitelyManyOrders == IsFiniteSet(Orders)

VARIABLES
    purchase,     \* shop_purchases.status, by order
    delivery,     \* shop_deliveries.status, by order
    attempt,      \* shop_delivery_attempts, by order and attempt number
    confirmation, \* shop_order_confirmations.state, by order
    ticket,       \* the order's last shop_order_tickets row
    balance,      \* the buyer's points
    stock         \* shop_products.stock_quantity

vars == <<purchase, delivery, attempt, confirmation, ticket, balance, stock>>

-----------------------------------------------------------------------------
(* The attempt state machine (ShopAttemptTransitions).                     *)

Numbers == 1..MaxAttempts

InFile == {"FILE_STAGED", "AWAITING_RESTART", "RESTART_OBSERVED", "UNSTAGE_REQUIRED"}

\* States in which the attempt may have put an item on the game server.
Exposed == {"FILE_PREPARED"} \cup InFile \cup {"VERIFICATION_REQUIRED"}

\* States after which the order may be tried again.
Retryable == {"ABANDONED", "UNSTAGED"}

AttemptStates ==
    {"NONE", "PLAN_CREATED", "FULFILLED", "FAILED_REVIEW"} \cup Exposed \cup Retryable

Transitions ==
    { <<"PLAN_CREATED", "FILE_PREPARED">>,     <<"PLAN_CREATED", "ABANDONED">>,
      <<"FILE_PREPARED", "FILE_STAGED">>,      <<"FILE_PREPARED", "ABANDONED">>,
      <<"FILE_STAGED", "AWAITING_RESTART">>,   <<"FILE_STAGED", "UNSTAGED">>,
      <<"AWAITING_RESTART", "RESTART_OBSERVED">>, <<"AWAITING_RESTART", "UNSTAGED">>,
      <<"RESTART_OBSERVED", "UNSTAGE_REQUIRED">>,
      <<"UNSTAGE_REQUIRED", "VERIFICATION_REQUIRED">>,
      <<"VERIFICATION_REQUIRED", "FULFILLED">> }
    \cup {<<s, "FAILED_REVIEW">> : s \in InFile \cup {"VERIFICATION_REQUIRED"}}

\* BUYER: the delivery worker's attempts; OBSERVED: the manual path's.
Modes == {"BUYER", "OBSERVED"}
Answers == {"RECEIVED", "AUTO_COMPLETED"}

Attempt == [state : AttemptStates, mode : Modes,
            review : {"NONE", "NOT_SPAWNED", "SPAWNED"},
            answer : {"NONE"} \cup Answers]

NoAttempt == [state |-> "NONE", mode |-> "OBSERVED", review |-> "NONE", answer |-> "NONE"]

TypeOK ==
    /\ purchase \in [Orders -> {"NONE", "PENDING_FULFILLMENT", "FULFILLED", "REFUNDED"}]
    /\ delivery \in [Orders -> {"NONE", "MANUAL_READY", "FULFILLED", "CANCELLED"}]
    /\ attempt \in [Orders -> [Numbers -> Attempt]]
    /\ confirmation \in [Orders -> {"NONE", "AWAITING_BUYER", "ISSUE_REPORTED", "VOID"} \cup Answers]
    /\ ticket \in [Orders -> {"NONE", "OPEN", "RESOLVED"}]
    /\ balance \in Int
    /\ stock \in Int

Init ==
    /\ purchase = [o \in Orders |-> "NONE"]
    /\ delivery = [o \in Orders |-> "NONE"]
    /\ attempt = [o \in Orders |-> [n \in Numbers |-> NoAttempt]]
    /\ confirmation = [o \in Orders |-> "NONE"]
    /\ ticket = [o \in Orders |-> "NONE"]
    /\ balance = StartBalance
    /\ stock = StartStock

-----------------------------------------------------------------------------
(* Rules the tables and triggers share.                                    *)

\* What an automatic attempt needs of its order, at creation and again at
\* PLAN_CREATED -> FILE_PREPARED.
OpenForAttempt(o) ==
    /\ delivery[o] = "MANUAL_READY"
    /\ purchase[o] = "PENDING_FULFILLMENT"

\* An uncertain attempt forbids a refund until a person found that nothing
\* spawned, and a manual fulfilment until a person resolved it at all.
BlocksRefundUnreviewed(a) == a.state \in Exposed \* mutant: a failed attempt never blocks

BlocksRefund(a) ==
    \/ a.state \in Exposed
    \/ a.state = "FAILED_REVIEW" /\ a.review # "NOT_SPAWNED"

BlocksFulfilInFile(a) == \* mutant: only an item in the file blocks
    \/ a.state \in InFile
    \/ a.state = "FAILED_REVIEW" /\ a.review = "NONE"

BlocksFulfil(a) ==
    \/ a.state \in Exposed
    \/ a.state = "FAILED_REVIEW" /\ a.review = "NONE"

\* attemptBlocksClose abandons the planned attempts it counted.  An attempt
\* created after the count is left PLAN_CREATED; it can never be prepared.
Abandon(o, S) ==
    [n \in Numbers |->
        IF n \in S THEN [attempt[o][n] EXCEPT !.state = "ABANDONED"] ELSE attempt[o][n]]

Planned(o) == {n \in Numbers : attempt[o][n].state = "PLAN_CREATED"}

\* shop_order_confirmation_sync, fired by purchase -> FULFILLED.
AskBuyer(o) ==
    confirmation' = [confirmation EXCEPT ![o] = IF @ = "NONE" THEN "AWAITING_BUYER" ELSE @]

-----------------------------------------------------------------------------
(* Purchases.                                                              *)

Purchase(o) ==
    /\ purchase[o] = "NONE"
    /\ stock >= 1
    /\ balance >= Price
    /\ purchase' = [purchase EXCEPT ![o] = "PENDING_FULFILLMENT"]
    /\ delivery' = [delivery EXCEPT ![o] = "MANUAL_READY"]
    /\ balance' = balance - Price
    /\ stock' = stock - 1
    /\ UNCHANGED <<attempt, confirmation, ticket>>

\* Staff delivered the order by hand.
Fulfill(o) ==
    /\ purchase[o] = "PENDING_FULFILLMENT"
    /\ delivery[o] = "MANUAL_READY"
    /\ \A n \in Numbers : ~BlocksFulfil(attempt[o][n])
    /\ \E S \in {{}, Planned(o)} : attempt' = [attempt EXCEPT ![o] = Abandon(o, S)]
    /\ delivery' = [delivery EXCEPT ![o] = "FULFILLED"]
    /\ purchase' = [purchase EXCEPT ![o] = "FULFILLED"]
    /\ AskBuyer(o)
    /\ UNCHANGED <<ticket, balance, stock>>

RestockAlways(o) == stock + 1 \* mutant: a delivered unit is restocked too

\* A delivered unit is not restocked.
Restock(o) == IF purchase[o] = "FULFILLED" THEN stock ELSE stock + 1

\* A delivered order keeps its delivery; an undelivered one is cancelled.
Refund(o) ==
    /\ purchase[o] \in {"PENDING_FULFILLMENT", "FULFILLED"}
    /\ IF purchase[o] = "FULFILLED"
         THEN UNCHANGED <<attempt, delivery>>
         ELSE /\ \A n \in Numbers : ~BlocksRefund(attempt[o][n])
              /\ \E S \in {{}, Planned(o)} : attempt' = [attempt EXCEPT ![o] = Abandon(o, S)]
              /\ delivery' = [delivery EXCEPT ![o] = IF @ = "MANUAL_READY" THEN "CANCELLED" ELSE @]
    /\ stock' = Restock(o)
    /\ balance' = balance + Price
    /\ purchase' = [purchase EXCEPT ![o] = "REFUNDED"]
    /\ confirmation' = [confirmation EXCEPT ![o] = IF @ = "AWAITING_BUYER" THEN "VOID" ELSE @]
    /\ UNCHANGED ticket

-----------------------------------------------------------------------------
(* The attempt ledger.                                                     *)

FollowsHistoryAfterReview(o, n) == \* mutant: an order under review is tried again
    \A m \in 1..(n - 1) : attempt[o][m].state \in Retryable \cup {"FAILED_REVIEW"}

\* The attempt number is the count of earlier attempts plus one, and every
\* earlier attempt spawned nothing.
FollowsHistory(o, n) == \A m \in 1..(n - 1) : attempt[o][m].state \in Retryable

Create(o, n, mode) ==
    /\ OpenForAttempt(o)
    /\ attempt[o][n].state = "NONE"
    /\ FollowsHistory(o, n)
    /\ attempt' = [attempt EXCEPT ![o][n] =
                      [NoAttempt EXCEPT !.state = "PLAN_CREATED", !.mode = mode]]
    /\ UNCHANGED <<purchase, delivery, confirmation, ticket, balance, stock>>

Transition(o, n, to) ==
    /\ to # "FULFILLED"
    /\ <<attempt[o][n].state, to>> \in Transitions
    /\ to = "FILE_PREPARED" => OpenForAttempt(o)
    /\ attempt' = [attempt EXCEPT ![o][n] = [@ EXCEPT !.state = to]]
    /\ UNCHANGED <<purchase, delivery, confirmation, ticket, balance, stock>>

\* What the two fulfilment transactions share: the attempt, its delivery and
\* its purchase are fulfilled together or not at all.
FulfilAll(o, n, answer) ==
    /\ purchase[o] = "PENDING_FULFILLMENT"
    /\ delivery[o] = "MANUAL_READY"
    /\ attempt[o][n].state = "VERIFICATION_REQUIRED"
    /\ attempt' = [attempt EXCEPT ![o][n] = [@ EXCEPT !.state = "FULFILLED", !.answer = answer]]
    /\ delivery' = [delivery EXCEPT ![o] = "FULFILLED"]
    /\ purchase' = [purchase EXCEPT ![o] = "FULFILLED"]
    /\ AskBuyer(o)
    /\ UNCHANGED <<ticket, balance, stock>>

\* The worker's fulfilment, on the answer the confirmation holds.
FulfillAttemptByBuyer(o, n) ==
    /\ attempt[o][n].mode = "BUYER"
    /\ confirmation[o] \in Answers
    /\ FulfilAll(o, n, confirmation[o])

\* The manual path's fulfilment, on what a person saw in game.
FulfillAttempt(o, n) ==
    /\ attempt[o][n].mode = "OBSERVED"
    /\ FulfilAll(o, n, "NONE")

ResolveReviewAgain(o, n, found) == \* mutant: a resolution can be replaced
    /\ attempt[o][n].state = "FAILED_REVIEW"
    /\ attempt' = [attempt EXCEPT ![o][n] = [@ EXCEPT !.review = found]]
    /\ UNCHANGED <<purchase, delivery, confirmation, ticket, balance, stock>>

ResolveReviewUncertain(o, n, found) == \* mutant: UNCERTAIN is stored as a resolution
    /\ attempt[o][n].state = "FAILED_REVIEW"
    /\ attempt[o][n].review = "NONE"
    /\ attempt' = [attempt EXCEPT ![o][n] = [@ EXCEPT !.review = "UNCERTAIN"]]
    /\ UNCHANGED <<purchase, delivery, confirmation, ticket, balance, stock>>

\* A person records, once, what happened to an attempt under review.
ResolveReview(o, n, found) ==
    /\ attempt[o][n].state = "FAILED_REVIEW"
    /\ attempt[o][n].review = "NONE"
    /\ attempt' = [attempt EXCEPT ![o][n] = [@ EXCEPT !.review = found]]
    /\ UNCHANGED <<purchase, delivery, confirmation, ticket, balance, stock>>

-----------------------------------------------------------------------------
(* The buyer's confirmation and the tickets.                               *)

Confirm(o, from, to) ==
    /\ confirmation[o] \in from
    /\ confirmation' = [confirmation EXCEPT ![o] = to]
    /\ UNCHANGED <<purchase, delivery, attempt, balance, stock>>

OpenForAny(o) == \* mutant: a closed order is asked about
    /\ Confirm(o, {"NONE"}, "AWAITING_BUYER")
    /\ UNCHANGED ticket

\* The worker asks the buyer of a delivered, unfulfilled order.
OpenForDelivered(o) ==
    /\ purchase[o] = "PENDING_FULFILLMENT"
    /\ Confirm(o, {"NONE"}, "AWAITING_BUYER")
    /\ UNCHANGED ticket

ConfirmReceived(o) ==
    /\ Confirm(o, {"AWAITING_BUYER"}, "RECEIVED")
    /\ UNCHANGED ticket

\* The sweeper closes every confirmation it finds past its deadline.
AutoCompleteDue(S) ==
    /\ S # {}
    /\ \A o \in S : confirmation[o] = "AWAITING_BUYER"
    /\ confirmation' = [o \in Orders |-> IF o \in S THEN "AUTO_COMPLETED" ELSE confirmation[o]]
    /\ UNCHANGED <<purchase, delivery, attempt, ticket, balance, stock>>

ReportIssueAnswered(o) == \* mutant: an answered buyer can still report
    /\ ticket[o] # "OPEN"
    /\ Confirm(o, {"AWAITING_BUYER", "AUTO_COMPLETED", "RECEIVED"}, "ISSUE_REPORTED")
    /\ ticket' = [ticket EXCEPT ![o] = "OPEN"]

\* One OPEN ticket per order: a second insert aborts the whole report.
ReportIssue(o) ==
    /\ ticket[o] # "OPEN"
    /\ Confirm(o, {"AWAITING_BUYER", "AUTO_COMPLETED"}, "ISSUE_REPORTED")
    /\ ticket' = [ticket EXCEPT ![o] = "OPEN"]

OpenSystemTicket(o) ==
    /\ ticket[o] # "OPEN"
    /\ ticket' = [ticket EXCEPT ![o] = "OPEN"]
    /\ UNCHANGED <<purchase, delivery, attempt, confirmation, balance, stock>>

ResolveTicket(o) ==
    /\ ticket[o] = "OPEN"
    /\ ticket' = [ticket EXCEPT ![o] = "RESOLVED"]
    /\ UNCHANGED <<purchase, delivery, attempt, confirmation, balance, stock>>

-----------------------------------------------------------------------------
(* The attempt ledger is moved by the delivery worker and by the operator's *)
(* manual path; everything else by buyers, staff and the sweeper.           *)

AttemptStep ==
    \E o \in Orders, n \in Numbers :
        \/ \E mode \in Modes : Create(o, n, mode)
        \/ \E to \in AttemptStates : Transition(o, n, to)
        \/ FulfillAttemptByBuyer(o, n)
        \/ FulfillAttempt(o, n)
        \/ \E found \in {"NOT_SPAWNED", "SPAWNED"} : ResolveReview(o, n, found)

OrderStep ==
    \E o \in Orders :
        \/ Purchase(o)
        \/ Fulfill(o)
        \/ Refund(o)
        \/ OpenForDelivered(o)
        \/ ConfirmReceived(o)
        \/ ReportIssue(o)
        \/ OpenSystemTicket(o)
        \/ ResolveTicket(o)

Next ==
    \/ AttemptStep
    \/ OrderStep
    \/ \E S \in SUBSET Orders : AutoCompleteDue(S)

Spec == Init /\ [][Next]_vars

-----------------------------------------------------------------------------
(* Properties.                                                             *)

\* A cancelled order (refunded before delivery) can have no item on the
\* server: none of its attempts is in flight or fulfilled, and one that went
\* to review was found not to have spawned.  The points and the item never
\* both end up with the buyer, whatever order refund, staging, review and
\* fulfilment commit in.
CancelledNeverDelivered ==
    \A o \in Orders : delivery[o] = "CANCELLED" =>
        \A n \in Numbers :
            /\ attempt[o][n].state \in {"NONE", "PLAN_CREATED", "FAILED_REVIEW"} \cup Retryable
            /\ attempt[o][n].state = "FAILED_REVIEW" => attempt[o][n].review = "NOT_SPAWNED"

\* An order leaves the manual queue as delivered in one way only: by hand,
\* with no attempt that might still put an item on the server, or through
\* the one attempt that is fulfilled with it.
DeliveredOnce ==
    \A o \in Orders : delivery[o] = "FULFILLED" =>
        \A n \in Numbers :
            /\ attempt[o][n].state \notin Exposed
            /\ attempt[o][n].state = "FAILED_REVIEW" => attempt[o][n].review # "NONE"

\* At most one attempt of an order is not known to have spawned nothing, and
\* it is the last: an order is never staged again beside or after an attempt
\* that is open, fulfilled or under review.
OneLiveAttempt ==
    \A o \in Orders, m, n \in Numbers :
        m < n /\ attempt[o][n].state # "NONE" => attempt[o][m].state \in Retryable

\* A fulfilled attempt has a fulfilled delivery, was never refunded as
\* undelivered, and a worker's attempt carries the buyer's answer: RECEIVED
\* still stands, AUTO_COMPLETED may have become a reported issue since.
FulfilledOnAnswer ==
    \A o \in Orders, n \in Numbers : attempt[o][n].state = "FULFILLED" =>
        /\ delivery[o] = "FULFILLED"
        /\ purchase[o] \in {"FULFILLED", "REFUNDED"}
        /\ attempt[o][n].mode = "BUYER" =>
              /\ attempt[o][n].answer \in Answers
              /\ \/ confirmation[o] = attempt[o][n].answer
                 \/ attempt[o][n].answer = "AUTO_COMPLETED" /\ confirmation[o] = "ISSUE_REPORTED"

\* No buyer is left being asked about a refunded order, and none whose order
\* was delivered was never asked.
BuyerAsked ==
    \A o \in Orders :
        /\ purchase[o] = "REFUNDED" => confirmation[o] # "AWAITING_BUYER"
        /\ purchase[o] = "FULFILLED" => confirmation[o] \notin {"NONE", "VOID"}

Charged == {o \in Orders : purchase[o] \in {"PENDING_FULFILLMENT", "FULFILLED"}}
Taken == {o \in Orders : delivery[o] \in {"MANUAL_READY", "FULFILLED"}}

\* Points and stock balance: the buyer is out exactly the price of the orders
\* not refunded, the shop exactly the units not cancelled, and neither goes
\* below zero.
BooksBalance ==
    /\ balance = StartBalance - Price * Cardinality(Charged)
    /\ stock = StartStock - Cardinality(Taken)
    /\ balance >= 0
    /\ stock >= 0

\* The order's records agree: an order is open in both tables or in neither,
\* and a confirmation is void only because of a refund.
RecordsAgree ==
    \A o \in Orders :
        /\ purchase[o] = "NONE" <=> delivery[o] = "NONE"
        /\ purchase[o] = "PENDING_FULFILLMENT" <=> delivery[o] = "MANUAL_READY"
        /\ purchase[o] = "FULFILLED" => delivery[o] = "FULFILLED"
        /\ confirmation[o] = "VOID" => purchase[o] = "REFUNDED"

\* The inductive invariant: the safety properties support one another, and
\* need only RecordsAgree besides.
LedgerInv ==
    /\ TypeOK
    /\ RecordsAgree
    /\ OneLiveAttempt
    /\ FulfilledOnAnswer
    /\ CancelledNeverDelivered
    /\ DeliveredOnce
    /\ BuyerAsked

\* Only an attempt that went to review carries a resolution.
ReviewsOfFailed ==
    \A o \in Orders, n \in Numbers :
        attempt[o][n].review # "NONE" => attempt[o][n].state = "FAILED_REVIEW"

\* What is settled stays settled: a delivery that was fulfilled or cancelled,
\* a refund, a fulfilled attempt and a resolved review are never changed.
Settles ==
    \A o \in Orders :
        /\ delivery[o] \in {"FULFILLED", "CANCELLED"} => delivery'[o] = delivery[o]
        /\ purchase[o] = "REFUNDED" => purchase'[o] = "REFUNDED"
        /\ \A n \in Numbers :
              attempt[o][n].state = "FULFILLED" \/ attempt[o][n].review # "NONE"
                => attempt'[o][n] = attempt[o][n]

SettledForGood == [][Settles]_vars
=============================================================================
