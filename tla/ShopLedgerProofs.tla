-------------------------- MODULE ShopLedgerProofs --------------------------
(* Proofs about ShopLedger, for any orders and any bound on attempts.      *)
EXTENDS ShopLedger, FiniteSetTheorems, TLAPS

LEMMA InitInv == Init => LedgerInv
  <1> SUFFICES ASSUME Init PROVE LedgerInv
    OBVIOUS
  <1>1. NoAttempt \in Attempt
    BY DEF NoAttempt, Attempt, AttemptStates, Modes
  <1>2. \A o \in Orders, n \in Numbers : attempt[o][n] = NoAttempt
    BY DEF Init
  <1>3. TypeOK
    BY <1>1, LedgerAssumption DEF Init, TypeOK
  <1>4. OneLiveAttempt
    BY <1>2 DEF OneLiveAttempt, NoAttempt
  <1>5. FulfilledOnAnswer
    BY <1>2 DEF FulfilledOnAnswer, NoAttempt
  <1> QED
    BY <1>3, <1>4, <1>5
    DEF Init, LedgerInv, RecordsAgree, CancelledNeverDelivered, DeliveredOnce, BuyerAsked

\* Replacing one attempt's row changes that row and no other.
LEMMA OneRow ==
  ASSUME attempt \in [Orders -> [Numbers -> Attempt]],
         NEW o \in Orders, NEW n \in Numbers, NEW r \in Attempt,
         attempt' = [attempt EXCEPT ![o][n] = r]
  PROVE  /\ attempt' \in [Orders -> [Numbers -> Attempt]]
         /\ \A p \in Orders, m \in Numbers :
              attempt'[p][m] = IF p = o /\ m = n THEN r ELSE attempt[p][m]
  OBVIOUS

LEMMA RowUpdate ==
  ASSUME NEW a \in Attempt
  PROVE  /\ \A to \in AttemptStates : [a EXCEPT !.state = to] \in Attempt
         /\ \A x \in {"NONE"} \cup Answers :
              [a EXCEPT !.state = "FULFILLED", !.answer = x] \in Attempt
         /\ \A found \in {"NOT_SPAWNED", "SPAWNED"} : [a EXCEPT !.review = found] \in Attempt
         /\ \A mode \in Modes : [NoAttempt EXCEPT !.state = "PLAN_CREATED", !.mode = mode] \in Attempt
  BY DEF Attempt, AttemptStates, NoAttempt, Modes

\* Abandoning attempts of an order leaves rows of the table's type.
LEMMA AbandonRows ==
  ASSUME attempt \in [Orders -> [Numbers -> Attempt]],
         NEW o \in Orders, NEW S \in SUBSET Numbers,
         attempt' = [attempt EXCEPT ![o] = Abandon(o, S)]
  PROVE  attempt' \in [Orders -> [Numbers -> Attempt]]
  <1>1. \A m \in Numbers : [attempt[o][m] EXCEPT !.state = "ABANDONED"] \in Attempt
    BY RowUpdate DEF AttemptStates, Retryable
  <1> QED
    BY <1>1 DEF Abandon

-----------------------------------------------------------------------------
(* Each action keeps the type invariant.                                   *)

LEMMA StepType == TypeOK /\ [Next]_vars => TypeOK'
  <1> SUFFICES ASSUME TypeOK, [Next]_vars PROVE TypeOK'
    OBVIOUS
  <1>1. ASSUME NEW o \in Orders, NEW n \in Numbers, NEW mode \in Modes, Create(o, n, mode)
        PROVE TypeOK'
    BY <1>1, RowUpdate, OneRow DEF Create, TypeOK
  <1>2. ASSUME NEW o \in Orders, NEW n \in Numbers, NEW to \in AttemptStates, Transition(o, n, to)
        PROVE TypeOK'
    <2>0. attempt[o][n] \in Attempt
      BY DEF TypeOK
    <2>1. [attempt[o][n] EXCEPT !.state = to] \in Attempt
      BY <2>0, RowUpdate
    <2>2. attempt' = [attempt EXCEPT ![o][n] = [attempt[o][n] EXCEPT !.state = to]]
      BY <1>2 DEF Transition, TypeOK
    <2> QED
      BY <1>2, <2>1, <2>2, OneRow DEF Transition, TypeOK
  <1>3. ASSUME NEW o \in Orders, NEW n \in Numbers, NEW x \in {"NONE"} \cup Answers, FulfilAll(o, n, x)
        PROVE TypeOK'
    <2>0. attempt[o][n] \in Attempt
      BY DEF TypeOK
    <2>1. [attempt[o][n] EXCEPT !.state = "FULFILLED", !.answer = x] \in Attempt
      BY <2>0, RowUpdate
    <2>2. attempt' = [attempt EXCEPT ![o][n] =
                        [attempt[o][n] EXCEPT !.state = "FULFILLED", !.answer = x]]
      BY <1>3 DEF FulfilAll, TypeOK
    <2>3. attempt' \in [Orders -> [Numbers -> Attempt]]
      BY <2>1, <2>2, OneRow DEF TypeOK
    <2> QED
      BY <1>3, <2>3 DEF FulfilAll, AskBuyer, TypeOK
  <1>4. ASSUME NEW o \in Orders, NEW n \in Numbers, NEW found \in {"NOT_SPAWNED", "SPAWNED"},
               ResolveReview(o, n, found)
        PROVE TypeOK'
    <2>0. attempt[o][n] \in Attempt
      BY DEF TypeOK
    <2>1. [attempt[o][n] EXCEPT !.review = found] \in Attempt
      BY <2>0, RowUpdate
    <2>2. attempt' = [attempt EXCEPT ![o][n] = [attempt[o][n] EXCEPT !.review = found]]
      BY <1>4 DEF ResolveReview, TypeOK
    <2> QED
      BY <1>4, <2>1, <2>2, OneRow DEF ResolveReview, TypeOK
  <1>5. ASSUME NEW o \in Orders, Purchase(o) PROVE TypeOK'
    BY <1>5, LedgerAssumption DEF Purchase, TypeOK
  <1>6. ASSUME NEW o \in Orders, Fulfill(o) PROVE TypeOK'
    <2>1. attempt' \in [Orders -> [Numbers -> Attempt]]
      BY <1>6, AbandonRows DEF Fulfill, Planned, TypeOK
    <2> QED
      BY <1>6, <2>1 DEF Fulfill, AskBuyer, TypeOK
  <1>7. ASSUME NEW o \in Orders, Refund(o) PROVE TypeOK'
    <2>1. attempt' \in [Orders -> [Numbers -> Attempt]]
      BY <1>7, AbandonRows DEF Refund, Planned, TypeOK
    <2>2. delivery' \in [Orders -> {"NONE", "MANUAL_READY", "FULFILLED", "CANCELLED"}]
      BY <1>7 DEF Refund, TypeOK
    <2>3. balance' \in Int /\ stock' \in Int
      BY <1>7, LedgerAssumption DEF Refund, Restock, TypeOK
    <2> QED
      BY <1>7, <2>1, <2>2, <2>3 DEF Refund, TypeOK
  <1>8. ASSUME NEW o \in Orders, OpenForDelivered(o) \/ ConfirmReceived(o) \/ ReportIssue(o)
        PROVE TypeOK'
    BY <1>8 DEF OpenForDelivered, ConfirmReceived, ReportIssue, Confirm, TypeOK, Answers
  <1>9. ASSUME NEW o \in Orders, OpenSystemTicket(o) \/ ResolveTicket(o) PROVE TypeOK'
    BY <1>9 DEF OpenSystemTicket, ResolveTicket, TypeOK
  <1>10. ASSUME NEW S \in SUBSET Orders, AutoCompleteDue(S) PROVE TypeOK'
    BY <1>10 DEF AutoCompleteDue, TypeOK, Answers
  <1>11. CASE UNCHANGED vars
    BY <1>11 DEF vars, TypeOK
  <1>12. ASSUME NEW o \in Orders, NEW n \in Numbers, FulfillAttemptByBuyer(o, n) PROVE TypeOK'
    BY <1>12, <1>3 DEF FulfillAttemptByBuyer
  <1>13. ASSUME NEW o \in Orders, NEW n \in Numbers, FulfillAttempt(o, n) PROVE TypeOK'
    BY <1>13, <1>3 DEF FulfillAttempt
  <1>14. CASE AttemptStep
    BY <1>14, <1>1, <1>2, <1>4, <1>12, <1>13 DEF AttemptStep
  <1>15. CASE OrderStep
    BY <1>15, <1>5, <1>6, <1>7, <1>8, <1>9 DEF OrderStep
  <1> QED
    BY <1>10, <1>11, <1>14, <1>15 DEF Next

-----------------------------------------------------------------------------
(* Actions that change one attempt row and nothing else.                   *)

LEMMA CreateInv ==
  ASSUME LedgerInv, NEW o \in Orders, NEW n \in Numbers, NEW mode \in Modes, Create(o, n, mode)
  PROVE  LedgerInv'
  <1> DEFINE r == [NoAttempt EXCEPT !.state = "PLAN_CREATED", !.mode = mode]
  <1>1. /\ r \in Attempt
        /\ r.state = "PLAN_CREATED"
    BY DEF Attempt, AttemptStates, NoAttempt, Modes
  <1>2. \A p \in Orders, m \in Numbers :
           attempt'[p][m] = IF p = o /\ m = n THEN r ELSE attempt[p][m]
    BY <1>1, OneRow DEF Create, LedgerInv, TypeOK
  <1> HIDE DEF r
  <1>3. TypeOK'
    BY StepType DEF LedgerInv, Next, AttemptStep
  <1>4. \A m \in Numbers : m > n => attempt[o][m].state = "NONE"
    BY DEF Create, LedgerInv, OneLiveAttempt, Retryable
  <1>5. OneLiveAttempt'
    BY <1>1, <1>2, <1>4
    DEF Create, FollowsHistory, LedgerInv, OneLiveAttempt, Retryable, Numbers
  <1>6. FulfilledOnAnswer'
    BY <1>1, <1>2 DEF Create, LedgerInv, FulfilledOnAnswer
  <1>7. CancelledNeverDelivered' /\ DeliveredOnce'
    BY <1>1, <1>2 DEF Create, OpenForAttempt, LedgerInv, CancelledNeverDelivered, DeliveredOnce
  <1> QED
    BY <1>3, <1>5, <1>6, <1>7 DEF Create, LedgerInv, RecordsAgree, BuyerAsked

LEMMA TransitionInv ==
  ASSUME LedgerInv, NEW o \in Orders, NEW n \in Numbers, NEW to \in AttemptStates,
         Transition(o, n, to)
  PROVE  LedgerInv'
  <1> DEFINE a == attempt[o][n]
             r == [a EXCEPT !.state = to]
  <1>0. a \in Attempt
    BY DEF LedgerInv, TypeOK
  <1>1. /\ r \in Attempt
        /\ r.state = to
        /\ r.mode = a.mode /\ r.review = a.review /\ r.answer = a.answer
    BY <1>0, RowUpdate DEF Attempt
  <1>2. \A p \in Orders, m \in Numbers :
           attempt'[p][m] = IF p = o /\ m = n THEN r ELSE attempt[p][m]
    BY <1>1, OneRow DEF Transition, LedgerInv, TypeOK
  <1>3. TypeOK'
    BY StepType DEF LedgerInv, Next, AttemptStep
  <1>4. /\ a.state \in {"PLAN_CREATED"} \cup Exposed
        /\ to \in {"FAILED_REVIEW"} \cup Exposed \cup Retryable
        /\ a.state = "PLAN_CREATED" => to \in {"FILE_PREPARED", "ABANDONED"}
        /\ a.state \notin Retryable
    BY DEF Transition, Transitions, Exposed, InFile, Retryable
  <1>5. to \in Exposed \cup {"FAILED_REVIEW"} => delivery[o] \notin {"CANCELLED", "FULFILLED"}
    <2>1. CASE a.state = "PLAN_CREATED"
      BY <2>1, <1>4 DEF Transition, OpenForAttempt, Exposed, InFile, Retryable
    <2>2. CASE a.state \in Exposed
      BY <2>2 DEF LedgerInv, CancelledNeverDelivered, DeliveredOnce, Exposed, InFile, Retryable
    <2> QED
      BY <1>4, <2>1, <2>2
  <1> HIDE DEF r, a
  <1>6. OneLiveAttempt'
    BY <1>1, <1>2, <1>4 DEF LedgerInv, OneLiveAttempt, a, Exposed, InFile, Retryable, Numbers
  <1>7. FulfilledOnAnswer'
    BY <1>1, <1>2, <1>4 DEF Transition, LedgerInv, FulfilledOnAnswer, Exposed, InFile, Retryable
  <1>8. CancelledNeverDelivered' /\ DeliveredOnce'
    BY <1>1, <1>2, <1>4, <1>5
    DEF Transition, LedgerInv, CancelledNeverDelivered, DeliveredOnce, Exposed, InFile, Retryable
  <1> QED
    BY <1>3, <1>6, <1>7, <1>8 DEF Transition, LedgerInv, RecordsAgree, BuyerAsked

LEMMA ResolveReviewInv ==
  ASSUME LedgerInv, NEW o \in Orders, NEW n \in Numbers, NEW found \in {"NOT_SPAWNED", "SPAWNED"},
         ResolveReview(o, n, found)
  PROVE  LedgerInv'
  <1> DEFINE a == attempt[o][n]
             r == [a EXCEPT !.review = found]
  <1>0. a \in Attempt
    BY DEF LedgerInv, TypeOK
  <1>1. /\ r \in Attempt
        /\ r.state = a.state /\ r.mode = a.mode /\ r.answer = a.answer
        /\ r.review = found
    BY <1>0, RowUpdate DEF Attempt
  <1>2. \A p \in Orders, m \in Numbers :
           attempt'[p][m] = IF p = o /\ m = n THEN r ELSE attempt[p][m]
    BY <1>1, OneRow DEF ResolveReview, LedgerInv, TypeOK
  <1>3. TypeOK'
    BY StepType DEF LedgerInv, Next, AttemptStep
  <1>4. a.state = "FAILED_REVIEW" /\ a.review = "NONE"
    BY DEF ResolveReview
  <1>5. delivery[o] \notin {"CANCELLED", "FULFILLED"}
    BY <1>4 DEF LedgerInv, CancelledNeverDelivered, DeliveredOnce
  <1> HIDE DEF r
  <1>6. OneLiveAttempt'
    BY <1>1, <1>2 DEF LedgerInv, OneLiveAttempt
  <1>7. FulfilledOnAnswer'
    BY <1>1, <1>2, <1>4 DEF ResolveReview, LedgerInv, FulfilledOnAnswer
  <1>8. CancelledNeverDelivered' /\ DeliveredOnce'
    BY <1>1, <1>2, <1>5 DEF ResolveReview, LedgerInv, CancelledNeverDelivered, DeliveredOnce
  <1> QED
    BY <1>3, <1>6, <1>7, <1>8 DEF ResolveReview, LedgerInv, RecordsAgree, BuyerAsked

-----------------------------------------------------------------------------
(* Actions that close an order.                                            *)

\* The two fulfilments: the other attempts of the order spawned nothing,
\* because the fulfilled one is the one live attempt.
LEMMA FulfilAllInv ==
  ASSUME LedgerInv, TypeOK',
         NEW o \in Orders, NEW n \in Numbers, NEW x \in {"NONE"} \cup Answers, FulfilAll(o, n, x),
         attempt[o][n].mode = "BUYER" => x \in Answers /\ x = confirmation[o]
  PROVE  LedgerInv'
  <1> DEFINE a == attempt[o][n]
             r == [a EXCEPT !.state = "FULFILLED", !.answer = x]
  <1>0. a \in Attempt
    BY DEF LedgerInv, TypeOK
  <1>1. /\ r \in Attempt
        /\ r.state = "FULFILLED" /\ r.answer = x
        /\ r.mode = a.mode /\ r.review = a.review
    BY <1>0, RowUpdate DEF Attempt
  <1>2. \A p \in Orders, m \in Numbers :
           attempt'[p][m] = IF p = o /\ m = n THEN r ELSE attempt[p][m]
    BY <1>1, OneRow DEF FulfilAll, LedgerInv, TypeOK
  <1>3. a.state = "VERIFICATION_REQUIRED"
    BY DEF FulfilAll
  <1>4. \A m \in Numbers : m # n => attempt[o][m].state \in {"NONE"} \cup Retryable
    <2> TAKE m \in Numbers
    <2>1. CASE m < n
      BY <2>1, <1>3 DEF LedgerInv, OneLiveAttempt
    <2>2. CASE n < m
      BY <2>2, <1>3 DEF LedgerInv, OneLiveAttempt, Retryable
    <2> QED
      BY <2>1, <2>2 DEF Numbers
  <1>5. /\ \A p \in Orders \ {o} : /\ purchase'[p] = purchase[p]
                                   /\ delivery'[p] = delivery[p]
                                   /\ confirmation'[p] = confirmation[p]
        /\ purchase'[o] = "FULFILLED" /\ delivery'[o] = "FULFILLED"
        /\ confirmation[o] # "NONE" => confirmation'[o] = confirmation[o]
        /\ confirmation[o] = "NONE" => confirmation'[o] = "AWAITING_BUYER"
    BY DEF FulfilAll, AskBuyer, LedgerInv, TypeOK
  <1> HIDE DEF r
  <1>6. RecordsAgree' /\ BuyerAsked'
    BY <1>5 DEF FulfilAll, LedgerInv, RecordsAgree, BuyerAsked
  <1>7. OneLiveAttempt'
    BY <1>1, <1>2, <1>3, <1>4 DEF LedgerInv, OneLiveAttempt, Retryable, Numbers
  <1>8. FulfilledOnAnswer'
    <2> SUFFICES ASSUME NEW p \in Orders, NEW m \in Numbers, attempt'[p][m].state = "FULFILLED"
                 PROVE  /\ delivery'[p] = "FULFILLED"
                        /\ purchase'[p] \in {"FULFILLED", "REFUNDED"}
                        /\ attempt'[p][m].mode = "BUYER" =>
                              /\ attempt'[p][m].answer \in Answers
                              /\ \/ confirmation'[p] = attempt'[p][m].answer
                                 \/ /\ attempt'[p][m].answer = "AUTO_COMPLETED"
                                    /\ confirmation'[p] = "ISSUE_REPORTED"
      BY DEF FulfilledOnAnswer
    <2>1. CASE p # o
      BY <2>1, <1>2, <1>5 DEF LedgerInv, FulfilledOnAnswer
    <2>2. CASE p = o
      BY <2>2, <1>1, <1>2, <1>4, <1>5 DEF Retryable, Answers
    <2> QED
      BY <2>1, <2>2
  <1>9. CancelledNeverDelivered'
    BY <1>1, <1>2, <1>5 DEF LedgerInv, CancelledNeverDelivered
  <1>10. DeliveredOnce'
    BY <1>1, <1>2, <1>4, <1>5 DEF LedgerInv, DeliveredOnce, Exposed, InFile, Retryable
  <1> QED
    BY <1>6, <1>7, <1>8, <1>9, <1>10 DEF LedgerInv

\* What closing an order by hand or by refund does to its attempts.
LEMMA ClosedRows ==
  ASSUME LedgerInv, NEW o \in Orders,
         \/ UNCHANGED attempt
         \/ \E S \in {{}, Planned(o)} : attempt' = [attempt EXCEPT ![o] = Abandon(o, S)]
  PROVE  \A p \in Orders, m \in Numbers :
           \/ attempt'[p][m] = attempt[p][m]
           \/ /\ p = o
              /\ attempt[p][m].state = "PLAN_CREATED"
              /\ attempt'[p][m].state = "ABANDONED"
              /\ attempt'[p][m].review = attempt[p][m].review
  <1>1. CASE UNCHANGED attempt
    BY <1>1
  <1>2. ASSUME NEW S \in {{}, Planned(o)}, attempt' = [attempt EXCEPT ![o] = Abandon(o, S)]
        PROVE  \A p \in Orders, m \in Numbers :
                 \/ attempt'[p][m] = attempt[p][m]
                 \/ /\ p = o
                    /\ attempt[p][m].state = "PLAN_CREATED"
                    /\ attempt'[p][m].state = "ABANDONED"
                    /\ attempt'[p][m].review = attempt[p][m].review
    <2>1. S \subseteq Numbers /\ \A m \in S : attempt[o][m].state = "PLAN_CREATED"
      BY DEF Planned
    <2>2. attempt \in [Orders -> [Numbers -> Attempt]]
      BY DEF LedgerInv, TypeOK
    <2>3. \A p \in Orders, m \in Numbers :
            attempt'[p][m] = IF p = o /\ m \in S
                               THEN [attempt[p][m] EXCEPT !.state = "ABANDONED"]
                               ELSE attempt[p][m]
      BY <1>2, <2>1, <2>2 DEF Abandon
    <2>4. ASSUME NEW p \in Orders, NEW m \in Numbers, p = o, m \in S
          PROVE  /\ attempt[p][m].state = "PLAN_CREATED"
                 /\ attempt'[p][m].state = "ABANDONED"
                 /\ attempt'[p][m].review = attempt[p][m].review
      <3>1. attempt[p][m] \in Attempt
        BY <2>2
      <3>2. attempt'[p][m] = [attempt[p][m] EXCEPT !.state = "ABANDONED"]
        BY <2>3, <2>4
      <3> QED
        BY <2>1, <2>4, <3>1, <3>2 DEF Attempt
    <2>5. ASSUME NEW p \in Orders, NEW m \in Numbers, ~(p = o /\ m \in S)
          PROVE  attempt'[p][m] = attempt[p][m]
      BY <2>3, <2>5
    <2> QED
      BY <2>4, <2>5
  <1> QED
    BY <1>1, <1>2

\* An attempt abandoned before it was prepared leaves at most one live.
LEMMA ClosedRowsKeep ==
  ASSUME LedgerInv,
         \A p \in Orders, m \in Numbers :
           \/ attempt'[p][m] = attempt[p][m]
           \/ /\ attempt[p][m].state = "PLAN_CREATED"
              /\ attempt'[p][m].state = "ABANDONED"
              /\ attempt'[p][m].review = attempt[p][m].review
  PROVE  OneLiveAttempt'
  BY DEF LedgerInv, OneLiveAttempt, Retryable

LEMMA FulfillInv ==
  ASSUME LedgerInv, TypeOK', NEW o \in Orders, Fulfill(o)
  PROVE  LedgerInv'
  <1>1. \A p \in Orders, m \in Numbers :
           \/ attempt'[p][m] = attempt[p][m]
           \/ /\ p = o
              /\ attempt[p][m].state = "PLAN_CREATED"
              /\ attempt'[p][m].state = "ABANDONED"
              /\ attempt'[p][m].review = attempt[p][m].review
    BY ClosedRows DEF Fulfill
  <1>2. /\ \A p \in Orders \ {o} : /\ purchase'[p] = purchase[p]
                                   /\ delivery'[p] = delivery[p]
                                   /\ confirmation'[p] = confirmation[p]
        /\ purchase'[o] = "FULFILLED" /\ delivery'[o] = "FULFILLED"
        /\ confirmation[o] # "NONE" => confirmation'[o] = confirmation[o]
        /\ confirmation[o] = "NONE" => confirmation'[o] = "AWAITING_BUYER"
    BY DEF Fulfill, AskBuyer, LedgerInv, TypeOK
  <1>3. \A m \in Numbers : ~BlocksFulfil(attempt[o][m]) /\ attempt[o][m].state # "FULFILLED"
    BY DEF Fulfill, LedgerInv, FulfilledOnAnswer
  <1>4. RecordsAgree' /\ BuyerAsked'
    BY <1>2 DEF Fulfill, LedgerInv, RecordsAgree, BuyerAsked
  <1>5. OneLiveAttempt'
    BY <1>1, ClosedRowsKeep
  <1>6. FulfilledOnAnswer'
    BY <1>1, <1>2, <1>3 DEF LedgerInv, FulfilledOnAnswer
  <1>7. CancelledNeverDelivered'
    BY <1>1, <1>2 DEF LedgerInv, CancelledNeverDelivered, Retryable
  <1>8. DeliveredOnce'
    BY <1>1, <1>2, <1>3 DEF LedgerInv, DeliveredOnce, BlocksFulfil, Exposed, InFile, Retryable
  <1> QED
    BY <1>4, <1>5, <1>6, <1>7, <1>8 DEF LedgerInv

LEMMA RefundInv ==
  ASSUME LedgerInv, TypeOK', NEW o \in Orders, Refund(o)
  PROVE  LedgerInv'
  <1>1. \A p \in Orders, m \in Numbers :
           \/ attempt'[p][m] = attempt[p][m]
           \/ /\ p = o
              /\ attempt[p][m].state = "PLAN_CREATED"
              /\ attempt'[p][m].state = "ABANDONED"
              /\ attempt'[p][m].review = attempt[p][m].review
    BY ClosedRows DEF Refund
  <1>2. /\ \A p \in Orders \ {o} : /\ purchase'[p] = purchase[p]
                                   /\ delivery'[p] = delivery[p]
                                   /\ confirmation'[p] = confirmation[p]
        /\ purchase'[o] = "REFUNDED"
        /\ confirmation[o] # "AWAITING_BUYER" => confirmation'[o] = confirmation[o]
        /\ confirmation[o] = "AWAITING_BUYER" => confirmation'[o] = "VOID"
    BY DEF Refund, LedgerInv, TypeOK
  <1>3. \/ /\ purchase[o] = "FULFILLED" /\ delivery[o] = "FULFILLED"
           /\ delivery'[o] = "FULFILLED" /\ UNCHANGED attempt
        \/ /\ purchase[o] = "PENDING_FULFILLMENT" /\ delivery[o] = "MANUAL_READY"
           /\ delivery'[o] = "CANCELLED"
           /\ \A m \in Numbers : /\ ~BlocksRefund(attempt[o][m])
                                 /\ attempt[o][m].state # "FULFILLED"
    BY DEF Refund, LedgerInv, TypeOK, RecordsAgree, FulfilledOnAnswer
  <1>4. RecordsAgree' /\ BuyerAsked'
    BY <1>2, <1>3 DEF LedgerInv, RecordsAgree, BuyerAsked
  <1>5. OneLiveAttempt'
    BY <1>1, ClosedRowsKeep
  <1>6. FulfilledOnAnswer'
    <2> SUFFICES ASSUME NEW p \in Orders, NEW m \in Numbers, attempt'[p][m].state = "FULFILLED"
                 PROVE  /\ delivery'[p] = "FULFILLED"
                        /\ purchase'[p] \in {"FULFILLED", "REFUNDED"}
                        /\ attempt'[p][m].mode = "BUYER" =>
                              /\ attempt'[p][m].answer \in Answers
                              /\ \/ confirmation'[p] = attempt'[p][m].answer
                                 \/ /\ attempt'[p][m].answer = "AUTO_COMPLETED"
                                    /\ confirmation'[p] = "ISSUE_REPORTED"
      BY DEF FulfilledOnAnswer
    <2>1. attempt'[p][m] = attempt[p][m]
      BY <1>1
    <2> QED
      BY <2>1, <1>2, <1>3 DEF LedgerInv, FulfilledOnAnswer, Answers
  <1>7. CancelledNeverDelivered'
    <2>1. ASSUME NEW m \in Numbers, ~BlocksRefund(attempt[o][m]), attempt[o][m].state # "FULFILLED"
          PROVE  /\ attempt[o][m].state \in {"NONE", "PLAN_CREATED", "FAILED_REVIEW"} \cup Retryable
                 /\ attempt[o][m].state = "FAILED_REVIEW" => attempt[o][m].review = "NOT_SPAWNED"
      <3>1. attempt[o][m] \in Attempt
        BY DEF LedgerInv, TypeOK
      <3> QED
        BY <2>1, <3>1 DEF BlocksRefund, Attempt, AttemptStates
    <2> QED
      BY <1>1, <1>2, <1>3, <2>1 DEF LedgerInv, CancelledNeverDelivered, Retryable
  <1>8. DeliveredOnce'
    BY <1>1, <1>2, <1>3 DEF LedgerInv, DeliveredOnce, Exposed, InFile
  <1> QED
    BY <1>4, <1>5, <1>6, <1>7, <1>8 DEF LedgerInv

-----------------------------------------------------------------------------
(* Actions that touch no attempt.                                          *)

LEMMA PurchaseInv ==
  ASSUME LedgerInv, TypeOK', NEW o \in Orders, Purchase(o)
  PROVE  LedgerInv'
  <1>1. /\ \A p \in Orders \ {o} : purchase'[p] = purchase[p] /\ delivery'[p] = delivery[p]
        /\ purchase'[o] = "PENDING_FULFILLMENT" /\ delivery'[o] = "MANUAL_READY"
        /\ purchase[o] = "NONE" /\ delivery[o] = "NONE"
        /\ UNCHANGED <<attempt, confirmation>>
    BY DEF Purchase, LedgerInv, TypeOK, RecordsAgree
  <1>2. RecordsAgree' /\ BuyerAsked'
    BY <1>1 DEF LedgerInv, RecordsAgree, BuyerAsked
  <1>3. OneLiveAttempt'
    BY <1>1 DEF LedgerInv, OneLiveAttempt
  <1>4. FulfilledOnAnswer'
    BY <1>1 DEF LedgerInv, FulfilledOnAnswer
  <1>5. CancelledNeverDelivered' /\ DeliveredOnce'
    BY <1>1 DEF LedgerInv, CancelledNeverDelivered, DeliveredOnce
  <1> QED
    BY <1>2, <1>3, <1>4, <1>5 DEF LedgerInv

\* The buyer's answers, the sweeper and the tickets move a confirmation only
\* forward, and never one a fulfilled attempt rests on in another way.
LEMMA AnswerInv ==
  ASSUME LedgerInv, TypeOK', UNCHANGED <<purchase, delivery, attempt>>,
         \A p \in Orders :
           \/ confirmation'[p] = confirmation[p]
           \/ /\ confirmation[p] = "NONE" /\ confirmation'[p] = "AWAITING_BUYER"
              /\ purchase[p] = "PENDING_FULFILLMENT"
           \/ /\ confirmation[p] = "AWAITING_BUYER"
              /\ confirmation'[p] \in {"RECEIVED", "AUTO_COMPLETED", "ISSUE_REPORTED"}
           \/ /\ confirmation[p] = "AUTO_COMPLETED" /\ confirmation'[p] = "ISSUE_REPORTED"
  PROVE  LedgerInv'
  <1>1. RecordsAgree' /\ BuyerAsked'
    BY DEF LedgerInv, RecordsAgree, BuyerAsked
  <1>2. FulfilledOnAnswer'
    BY DEF LedgerInv, FulfilledOnAnswer, Answers
  <1>3. OneLiveAttempt'
    BY DEF LedgerInv, OneLiveAttempt
  <1>4. CancelledNeverDelivered' /\ DeliveredOnce'
    BY DEF LedgerInv, CancelledNeverDelivered, DeliveredOnce
  <1> QED
    BY <1>1, <1>2, <1>3, <1>4 DEF LedgerInv

LEMMA StepInv == LedgerInv /\ [Next]_vars => LedgerInv'
  <1> SUFFICES ASSUME LedgerInv, [Next]_vars PROVE LedgerInv'
    OBVIOUS
  <1>0. TypeOK'
    BY StepType DEF LedgerInv
  <1>1. ASSUME NEW o \in Orders, NEW n \in Numbers, FulfillAttemptByBuyer(o, n) PROVE LedgerInv'
    BY <1>0, <1>1, FulfilAllInv DEF FulfillAttemptByBuyer
  <1>2. ASSUME NEW o \in Orders, NEW n \in Numbers, FulfillAttempt(o, n) PROVE LedgerInv'
    BY <1>0, <1>2, FulfilAllInv DEF FulfillAttempt
  <1>3. CASE AttemptStep
    BY <1>3, <1>1, <1>2, CreateInv, TransitionInv, ResolveReviewInv DEF AttemptStep
  <1>4. ASSUME NEW o \in Orders, OpenForDelivered(o) \/ ConfirmReceived(o) \/ ReportIssue(o)
        PROVE LedgerInv'
    <2>1. UNCHANGED <<purchase, delivery, attempt>>
      BY <1>4 DEF OpenForDelivered, ConfirmReceived, ReportIssue, Confirm
    <2>2. \A p \in Orders :
           \/ confirmation'[p] = confirmation[p]
           \/ /\ confirmation[p] = "NONE" /\ confirmation'[p] = "AWAITING_BUYER"
              /\ purchase[p] = "PENDING_FULFILLMENT"
           \/ /\ confirmation[p] = "AWAITING_BUYER"
              /\ confirmation'[p] \in {"RECEIVED", "AUTO_COMPLETED", "ISSUE_REPORTED"}
           \/ /\ confirmation[p] = "AUTO_COMPLETED" /\ confirmation'[p] = "ISSUE_REPORTED"
      BY <1>4 DEF OpenForDelivered, ConfirmReceived, ReportIssue, Confirm, LedgerInv, TypeOK
    <2> QED
      BY <1>0, <2>1, <2>2, AnswerInv
  <1>5. ASSUME NEW S \in SUBSET Orders, AutoCompleteDue(S) PROVE LedgerInv'
    <2>1. UNCHANGED <<purchase, delivery, attempt>>
      BY <1>5 DEF AutoCompleteDue
    <2>2. \A p \in Orders :
           \/ confirmation'[p] = confirmation[p]
           \/ confirmation[p] = "AWAITING_BUYER" /\ confirmation'[p] = "AUTO_COMPLETED"
      BY <1>5 DEF AutoCompleteDue, LedgerInv, TypeOK
    <2> QED
      BY <1>0, <2>1, <2>2, AnswerInv
  <1>6. ASSUME UNCHANGED <<purchase, delivery, attempt, confirmation>> PROVE LedgerInv'
    BY <1>0, <1>6, AnswerInv
  <1>7. ASSUME NEW o \in Orders, OpenSystemTicket(o) \/ ResolveTicket(o) PROVE LedgerInv'
    BY <1>6, <1>7 DEF OpenSystemTicket, ResolveTicket
  <1>8. CASE OrderStep
    BY <1>0, <1>4, <1>7, <1>8, PurchaseInv, FulfillInv, RefundInv DEF OrderStep
  <1>9. CASE UNCHANGED vars
    BY <1>6, <1>9 DEF vars
  <1> QED
    BY <1>3, <1>5, <1>8, <1>9 DEF Next

-----------------------------------------------------------------------------
(* What a step may do to a row that matters for good.                      *)

LEMMA RowStep ==
  ASSUME TypeOK, [Next]_vars, NEW o \in Orders, NEW n \in Numbers
  PROVE  \/ attempt'[o][n] = attempt[o][n]
         \/ /\ attempt[o][n].state \in {"NONE", "PLAN_CREATED"} \cup Exposed
            /\ attempt'[o][n].review \in {"NONE", attempt[o][n].review}
         \/ /\ attempt[o][n].state = "FAILED_REVIEW" /\ attempt[o][n].review = "NONE"
            /\ attempt'[o][n].state = "FAILED_REVIEW"
  <1> DEFINE Goal ==
         \/ attempt'[o][n] = attempt[o][n]
         \/ /\ attempt[o][n].state \in {"NONE", "PLAN_CREATED"} \cup Exposed
            /\ attempt'[o][n].review \in {"NONE", attempt[o][n].review}
         \/ /\ attempt[o][n].state = "FAILED_REVIEW" /\ attempt[o][n].review = "NONE"
            /\ attempt'[o][n].state = "FAILED_REVIEW"
  <1>0. attempt \in [Orders -> [Numbers -> Attempt]] /\ attempt[o][n] \in Attempt
    BY DEF TypeOK
  <1>1. ASSUME NEW p \in Orders, NEW m \in Numbers, NEW mode \in Modes, Create(p, m, mode)
        PROVE Goal
    <2>1. [NoAttempt EXCEPT !.state = "PLAN_CREATED", !.mode = mode].review = "NONE"
      BY DEF NoAttempt
    <2>2. attempt'[o][n] = IF o = p /\ n = m
                             THEN [NoAttempt EXCEPT !.state = "PLAN_CREATED", !.mode = mode]
                             ELSE attempt[o][n]
      BY <1>0, <1>1 DEF Create
    <2> QED
      BY <1>1, <2>1, <2>2 DEF Create
  <1>2. ASSUME NEW p \in Orders, NEW m \in Numbers, NEW to \in AttemptStates, Transition(p, m, to)
        PROVE Goal
    <2>1. attempt'[o][n] = IF o = p /\ n = m THEN [attempt[o][n] EXCEPT !.state = to]
                                              ELSE attempt[o][n]
      BY <1>0, <1>2 DEF Transition
    <2>2. [attempt[o][n] EXCEPT !.state = to].review = attempt[o][n].review
      BY <1>0 DEF Attempt
    <2>3. attempt[p][m].state \in {"PLAN_CREATED"} \cup Exposed
      BY <1>2 DEF Transition, Transitions, Exposed, InFile
    <2> QED
      BY <2>1, <2>2, <2>3
  <1>3. ASSUME NEW p \in Orders, NEW m \in Numbers, NEW x, FulfilAll(p, m, x) PROVE Goal
    <2>1. attempt'[o][n] = IF o = p /\ n = m
                             THEN [attempt[o][n] EXCEPT !.state = "FULFILLED", !.answer = x]
                             ELSE attempt[o][n]
      BY <1>0, <1>3 DEF FulfilAll
    <2>2. [attempt[o][n] EXCEPT !.state = "FULFILLED", !.answer = x].review = attempt[o][n].review
      BY <1>0 DEF Attempt
    <2> QED
      BY <1>3, <2>1, <2>2 DEF FulfilAll, Exposed
  <1>4. ASSUME NEW p \in Orders, NEW m \in Numbers, NEW found, ResolveReview(p, m, found)
        PROVE Goal
    <2>1. attempt'[o][n] = IF o = p /\ n = m THEN [attempt[o][n] EXCEPT !.review = found]
                                              ELSE attempt[o][n]
      BY <1>0, <1>4 DEF ResolveReview
    <2>2. [attempt[o][n] EXCEPT !.review = found].state = attempt[o][n].state
      BY <1>0 DEF Attempt
    <2> QED
      BY <1>4, <2>1, <2>2 DEF ResolveReview
  <1>5. ASSUME NEW p \in Orders, NEW S \in {{}, Planned(p)},
               attempt' = [attempt EXCEPT ![p] = Abandon(p, S)]
        PROVE Goal
    <2>1. attempt'[o][n] = IF o = p /\ n \in S THEN [attempt[o][n] EXCEPT !.state = "ABANDONED"]
                                               ELSE attempt[o][n]
      BY <1>0, <1>5 DEF Abandon
    <2>2. [attempt[o][n] EXCEPT !.state = "ABANDONED"].review = attempt[o][n].review
      BY <1>0 DEF Attempt
    <2>3. o = p /\ n \in S => attempt[o][n].state = "PLAN_CREATED"
      BY DEF Planned
    <2> QED
      BY <2>1, <2>2, <2>3
  <1>6. CASE AttemptStep
    BY <1>6, <1>1, <1>2, <1>3, <1>4 DEF AttemptStep, FulfillAttempt, FulfillAttemptByBuyer
  <1>7. ASSUME NEW p \in Orders, Fulfill(p) \/ Refund(p) PROVE Goal
    BY <1>5, <1>7 DEF Fulfill, Refund
  <1>8. CASE UNCHANGED attempt
    BY <1>8
  <1>9. CASE OrderStep
    BY <1>7, <1>8, <1>9
    DEF OrderStep, Purchase, OpenForDelivered, ConfirmReceived, ReportIssue, Confirm,
        OpenSystemTicket, ResolveTicket
  <1>10. CASE (\E S \in SUBSET Orders : AutoCompleteDue(S)) \/ UNCHANGED vars
    BY <1>8, <1>10 DEF AutoCompleteDue, vars
  <1> QED
    BY <1>6, <1>9, <1>10 DEF Next

LEMMA ReviewsInv ==
  /\ Init => ReviewsOfFailed
  /\ TypeOK /\ ReviewsOfFailed /\ [Next]_vars => ReviewsOfFailed'
  <1>1. Init => ReviewsOfFailed
    BY DEF Init, ReviewsOfFailed, NoAttempt
  <1>2. ASSUME TypeOK, ReviewsOfFailed, [Next]_vars PROVE ReviewsOfFailed'
    <2> SUFFICES ASSUME NEW o \in Orders, NEW n \in Numbers, attempt'[o][n].review # "NONE"
                 PROVE  attempt'[o][n].state = "FAILED_REVIEW"
      BY DEF ReviewsOfFailed
    <2>1. attempt[o][n].state \in {"NONE", "PLAN_CREATED"} \cup Exposed
            => attempt[o][n].review = "NONE"
      BY <1>2 DEF ReviewsOfFailed, Exposed, InFile
    <2> QED
      BY <1>2, <2>1, RowStep DEF ReviewsOfFailed
  <1> QED
    BY <1>1, <1>2

LEMMA StepSettles == LedgerInv /\ ReviewsOfFailed /\ [Next]_vars => Settles
  <1> SUFFICES ASSUME LedgerInv, ReviewsOfFailed, [Next]_vars, NEW o \in Orders
               PROVE  /\ delivery[o] \in {"FULFILLED", "CANCELLED"} => delivery'[o] = delivery[o]
                      /\ purchase[o] = "REFUNDED" => purchase'[o] = "REFUNDED"
                      /\ \A n \in Numbers :
                            attempt[o][n].state = "FULFILLED" \/ attempt[o][n].review # "NONE"
                              => attempt'[o][n] = attempt[o][n]
    BY DEF Settles
  <1>0. TypeOK
    BY DEF LedgerInv
  <1> DEFINE Closed ==
         /\ delivery[o] \in {"FULFILLED", "CANCELLED"} => delivery'[o] = delivery[o]
         /\ purchase[o] = "REFUNDED" => purchase'[o] = "REFUNDED"
  <1>1. ASSUME NEW p \in Orders, Purchase(p) PROVE Closed
    BY <1>0, <1>1 DEF Purchase, LedgerInv, RecordsAgree, TypeOK
  <1>2. ASSUME NEW p \in Orders, Fulfill(p) PROVE Closed
    BY <1>0, <1>2 DEF Fulfill, TypeOK
  <1>3. ASSUME NEW p \in Orders, Refund(p) PROVE Closed
    BY <1>0, <1>3 DEF Refund, TypeOK
  <1>4. ASSUME NEW p \in Orders, NEW n \in Numbers, NEW x, FulfilAll(p, n, x) PROVE Closed
    BY <1>0, <1>4 DEF FulfilAll, TypeOK
  <1>5. ASSUME UNCHANGED <<purchase, delivery>> PROVE Closed
    BY <1>5
  <1>6. ASSUME AttemptStep PROVE Closed
    BY <1>4, <1>5, <1>6
    DEF AttemptStep, Create, Transition, ResolveReview, FulfillAttempt, FulfillAttemptByBuyer
  <1>7. ASSUME OrderStep PROVE Closed
    BY <1>1, <1>2, <1>3, <1>5, <1>7
    DEF OrderStep, OpenForDelivered, ConfirmReceived, ReportIssue, Confirm, OpenSystemTicket,
        ResolveTicket
  <1>8. ASSUME (\E S \in SUBSET Orders : AutoCompleteDue(S)) \/ UNCHANGED vars PROVE Closed
    BY <1>5, <1>8 DEF AutoCompleteDue, vars
  <1>9. Closed
    BY <1>6, <1>7, <1>8 DEF Next
  <1>10. ASSUME NEW n \in Numbers, attempt[o][n].state = "FULFILLED" \/ attempt[o][n].review # "NONE"
         PROVE  attempt'[o][n] = attempt[o][n]
    <2>1. attempt[o][n].state \notin {"NONE", "PLAN_CREATED"} \cup Exposed
      BY <1>10 DEF ReviewsOfFailed, Exposed, InFile
    <2>2. ~(attempt[o][n].state = "FAILED_REVIEW" /\ attempt[o][n].review = "NONE")
      BY <1>10
    <2> QED
      BY <1>0, <2>1, <2>2, RowStep
  <1> QED
    BY <1>9, <1>10

-----------------------------------------------------------------------------
(* The books.                                                              *)

LEMMA ChargedFinite ==
  /\ IsFiniteSet(Charged) /\ Cardinality(Charged) \in Nat
  /\ IsFiniteSet(Taken) /\ Cardinality(Taken) \in Nat
  <1>1. Charged \subseteq Orders /\ Taken \subseteq Orders
    BY DEF Charged, Taken
  <1> QED
    BY <1>1, FinitelyManyOrders, FS_Subset, FS_CardinalityType

LEMMA BooksInit == Init => BooksBalance
  <1> SUFFICES ASSUME Init PROVE BooksBalance
    OBVIOUS
  <1>1. Charged = {} /\ Taken = {}
    BY DEF Init, Charged, Taken
  <1>2. Cardinality(Charged) = 0 /\ Cardinality(Taken) = 0
    BY <1>1, FS_EmptySet
  <1> QED
    BY <1>2, LedgerAssumption DEF Init, BooksBalance

LEMMA BooksPurchase ==
  ASSUME LedgerInv, BooksBalance, NEW o \in Orders, Purchase(o)
  PROVE  BooksBalance'
  <1>1. /\ o \notin Charged /\ Charged' = Charged \cup {o}
        /\ o \notin Taken /\ Taken' = Taken \cup {o}
    BY DEF Purchase, Charged, Taken, LedgerInv, RecordsAgree, TypeOK
  <1>2. /\ Cardinality(Charged') = Cardinality(Charged) + 1
        /\ Cardinality(Taken') = Cardinality(Taken) + 1
    BY <1>1, ChargedFinite, FS_AddElement
  <1> DEFINE c == Cardinality(Charged)
  <1>3. c \in Nat /\ Price \in Nat /\ Price * (c + 1) = Price * c + Price
    BY ChargedFinite, LedgerAssumption
  <1> QED
    BY <1>2, <1>3, ChargedFinite, LedgerAssumption DEF Purchase, BooksBalance, LedgerInv, TypeOK

LEMMA BooksRefund ==
  ASSUME LedgerInv, BooksBalance, NEW o \in Orders, Refund(o)
  PROVE  BooksBalance'
  <1> DEFINE c == Cardinality(Charged)
  <1>1. o \in Charged /\ Charged' = Charged \ {o}
    BY DEF Refund, Charged, LedgerInv, TypeOK
  <1>2. Cardinality(Charged') = c - 1
    BY <1>1, ChargedFinite, FS_RemoveElement
  <1>3. c \in Nat /\ Price \in Nat /\ Price * (c - 1) = Price * c - Price
    BY ChargedFinite, LedgerAssumption
  <1>4. balance' = balance + Price
    BY DEF Refund
  <1>5. balance' = StartBalance - Price * Cardinality(Charged') /\ balance' >= 0
    BY <1>2, <1>3, <1>4, LedgerAssumption DEF BooksBalance, LedgerInv, TypeOK
  <1>6. CASE purchase[o] = "FULFILLED"
    <2>1. Taken' = Taken /\ stock' = stock
      BY <1>6 DEF Refund, Restock, Taken
    <2> QED
      BY <1>5, <2>1 DEF BooksBalance
  <1>7. CASE purchase[o] = "PENDING_FULFILLMENT"
    <2>1. o \in Taken /\ Taken' = Taken \ {o} /\ stock' = stock + 1
      BY <1>7 DEF Refund, Restock, Taken, LedgerInv, RecordsAgree, TypeOK
    <2>2. Cardinality(Taken') = Cardinality(Taken) - 1
      BY <2>1, ChargedFinite, FS_RemoveElement
    <2> QED
      BY <1>5, <2>1, <2>2, ChargedFinite, LedgerAssumption DEF BooksBalance, LedgerInv, TypeOK
  <1> QED
    BY <1>6, <1>7 DEF Refund

LEMMA BooksSame ==
  ASSUME BooksBalance, UNCHANGED <<balance, stock>>, Charged' = Charged, Taken' = Taken
  PROVE  BooksBalance'
  BY DEF BooksBalance

LEMMA StepBooks == LedgerInv /\ BooksBalance /\ [Next]_vars => BooksBalance'
  <1> SUFFICES ASSUME LedgerInv, BooksBalance, [Next]_vars PROVE BooksBalance'
    OBVIOUS
  <1>1. CASE UNCHANGED <<purchase, delivery, balance, stock>>
    BY <1>1, BooksSame DEF Charged, Taken
  <1>2. ASSUME NEW o \in Orders,
               \/ Fulfill(o)
               \/ \E n \in Numbers, x \in {"NONE"} \cup Answers : FulfilAll(o, n, x)
        PROVE  BooksBalance'
    <2>1. /\ purchase[o] = "PENDING_FULFILLMENT" /\ delivery[o] = "MANUAL_READY"
          /\ purchase' = [purchase EXCEPT ![o] = "FULFILLED"]
          /\ delivery' = [delivery EXCEPT ![o] = "FULFILLED"]
          /\ UNCHANGED <<balance, stock>>
      BY <1>2 DEF Fulfill, FulfilAll
    <2>2. Charged' = Charged /\ Taken' = Taken
      BY <2>1 DEF Charged, Taken, LedgerInv, TypeOK
    <2> QED
      BY <2>1, <2>2, BooksSame
  <1>3. CASE AttemptStep
    BY <1>1, <1>2, <1>3
    DEF AttemptStep, Create, Transition, ResolveReview, FulfillAttempt, FulfillAttemptByBuyer
  <1>4. CASE OrderStep
    BY <1>1, <1>2, <1>4, BooksPurchase, BooksRefund
    DEF OrderStep, OpenForDelivered, ConfirmReceived, ReportIssue, Confirm, OpenSystemTicket,
        ResolveTicket
  <1>5. CASE (\E S \in SUBSET Orders : AutoCompleteDue(S)) \/ UNCHANGED vars
    BY <1>1, <1>5 DEF AutoCompleteDue, vars
  <1> QED
    BY <1>3, <1>4, <1>5 DEF Next

-----------------------------------------------------------------------------
(* The theorems.                                                           *)

\* The ledger's invariant holds in every reachable state: with it the shop's
\* repositories, triggers and constraints agree about every order, for any
\* number of orders and attempts and in any order of their transactions.
THEOREM LedgerSafe == Spec => []LedgerInv
  <1> QED
    BY InitInv, StepInv, PTL DEF Spec

\* Rows keep their columns' domains.
THEOREM TypeCorrect == Spec => []TypeOK
  <1>1. LedgerInv => TypeOK
    BY DEF LedgerInv
  <1> QED
    BY <1>1, LedgerSafe, PTL

\* A refunded, undelivered order has no item on the server.
THEOREM RefundSafe == Spec => []CancelledNeverDelivered
  <1>1. LedgerInv => CancelledNeverDelivered
    BY DEF LedgerInv
  <1> QED
    BY <1>1, LedgerSafe, PTL

\* A delivered order has no attempt that might still deliver it again.
THEOREM DeliverySafe == Spec => []DeliveredOnce
  <1>1. LedgerInv => DeliveredOnce
    BY DEF LedgerInv
  <1> QED
    BY <1>1, LedgerSafe, PTL

\* No two attempts of one order are ever live.
THEOREM AttemptsSafe == Spec => []OneLiveAttempt
  <1>1. LedgerInv => OneLiveAttempt
    BY DEF LedgerInv
  <1> QED
    BY <1>1, LedgerSafe, PTL

\* A worker's attempt is fulfilled on the buyer's answer alone.
THEOREM AnswerSafe == Spec => []FulfilledOnAnswer
  <1>1. LedgerInv => FulfilledOnAnswer
    BY DEF LedgerInv
  <1> QED
    BY <1>1, LedgerSafe, PTL

\* The buyer of an order is asked when it is fulfilled, never once refunded.
THEOREM BuyerAskedSafe == Spec => []BuyerAsked
  <1>1. LedgerInv => BuyerAsked
    BY DEF LedgerInv
  <1> QED
    BY <1>1, LedgerSafe, PTL

\* Only attempts that went to review carry a person's resolution.
THEOREM ReviewsSafe == Spec => []ReviewsOfFailed
  <1> QED
    BY ReviewsInv, TypeCorrect, PTL DEF Spec

\* Closed deliveries, refunds, fulfilled attempts and resolutions are final.
THEOREM Settled == Spec => SettledForGood
  <1>1. LedgerInv /\ ReviewsOfFailed /\ [Next]_vars => [Settles]_vars
    BY StepSettles
  <1> QED
    BY <1>1, LedgerSafe, ReviewsSafe, PTL DEF Spec, SettledForGood

\* No sequence of purchases, fulfilments and refunds of any number of orders
\* makes points or units out of nothing, loses one, or goes below zero.
THEOREM BooksSafe == Spec => []BooksBalance
  <1> QED
    BY BooksInit, StepBooks, LedgerSafe, PTL DEF Spec
=============================================================================
