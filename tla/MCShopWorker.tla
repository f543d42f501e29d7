---------------------------- MODULE MCShopWorker ----------------------------
(* Instances of ShopWorker for TLC.                                        *)
EXTENDS ShopWorker, TLC

CONSTANTS o1, o2

\* One order, every fault, nobody resumes: one attempt over two boots, and
\* two attempts over one.
Failing ==
    {[orders |-> {o1}, attempts |-> n, faults |-> TRUE, resumes |-> FALSE, edits |-> FALSE,
      delay |-> 2, time |-> 4, boots |-> 3 - n] : n \in 1..2}

\* One order, every fault, people resume and edit the file.
Touched ==
    {[orders |-> {o1}, attempts |-> 2, faults |-> TRUE, resumes |-> TRUE, edits |-> TRUE,
      delay |-> 0, time |-> 2, boots |-> 1]}

\* Nothing fails and boots are listed at once: one order over two boots, and
\* two orders in one file over one.
Calmly ==
    {[orders |-> {o1}, attempts |-> 1, faults |-> FALSE, resumes |-> FALSE, edits |-> FALSE,
      delay |-> 0, time |-> 4, boots |-> 2],
     [orders |-> Orders, attempts |-> 1, faults |-> FALSE, resumes |-> FALSE, edits |-> FALSE,
      delay |-> 0, time |-> 2, boots |-> 1]}

Every == Failing \cup Touched \cup Calmly

\* A person restores the file and resumes after an uncertain write.
Resumed == {[s EXCEPT !.edits = FALSE] : s \in Touched}
=============================================================================
