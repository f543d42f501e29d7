\* Two handlers beside the reconcile loop, and three events in any mix: calls,
\* subscriptions that end or connections removed, and mishaps.
CONSTANTS
    i1 = i1
    i2 = i2
    i3 = i3
    h1 = h1
    h2 = h2
    None = None
    Reconciler = Reconciler
    Ids = {i1, i2, i3}
    Handlers = {h1, h2}
    MaxEvents = 3
SPECIFICATION FairSpec
INVARIANT OneFactory
INVARIANT NoOrphan
PROPERTY RunsWhenPaid
PROPERTY StopsWhenPaused
CHECK_DEADLOCK FALSE
