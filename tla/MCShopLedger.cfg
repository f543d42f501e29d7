\* Two orders, each tried up to twice, of the last unit, by a buyer with
\* points for one and a half.
CONSTANTS
    o1 = o1
    o2 = o2
    Orders = {o1, o2}
    MaxAttempts = 2
    Price = 2
    StartBalance = 3
    StartStock = 1
SPECIFICATION Spec
SYMMETRY Symmetry
INVARIANTS
    CancelledNeverDelivered
    DeliveredOnce
    OneLiveAttempt
    FulfilledOnAnswer
    BuyerAsked
    BooksBalance
PROPERTY SettledForGood
CHECK_DEADLOCK FALSE
