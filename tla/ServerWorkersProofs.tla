------------------------ MODULE ServerWorkersProofs ------------------------
(***************************************************************************)
(* For any number of commands, changes, failures and waits that time out:  *)
(* what the map of the manager holds is alive, and what is alive is on the *)
(* map or was told to stop.  So a server has one worker unless somebody    *)
(* gave up waiting for one, and every worker can be stopped.               *)
(***************************************************************************)
EXTENDS ServerWorkers, TLAPS

LEMMA WorkersInit == Init => WorkersInv
<1> SUFFICES ASSUME Init
             PROVE  WorkersInv
  OBVIOUS
<1>1. \A c \in Callers : call[c].waits = "no" /\ call[c].old = None
  BY DEF Init, Fresh
<1>2. call = [c \in Callers |-> call[c]]
  BY DEF Init
<1>3. TypeOK
  BY <1>1, <1>2 DEF Init, TypeOK
<1>4. Owned /\ WaitsForStopped
  BY <1>1 DEF Init, Owned, WaitsForStopped
<1> QED
  BY <1>3, <1>4 DEF WorkersInv

\* Steps that touch neither the map nor a worker, and wait for nothing.
LEMMA CallsKeep ==
    ASSUME WorkersInv, NEW c \in Callers,
           UNCHANGED <<entry, worker, late>>,
           row' \in [active : BOOLEAN, paid : BOOLEAN, linked : BOOLEAN, suspended : BOOLEAN],
           (\E todo : Does(c, todo)) \/ UNCHANGED call
    PROVE  WorkersInv'
  BY WorkersAssumption DEF WorkersInv, TypeOK, Owned, WaitsForStopped, Does, Becomes

\* Reading and writing the row.
LEMMA RowKeeps ==
    ASSUME WorkersInv, NEW c \in Callers,
           Arrive(c) \/ Check(c) \/ Decide(c) \/ Write(c) \/ QueryFails(c)
    PROVE  WorkersInv'
<1>1. UNCHANGED <<entry, worker, late>>
  BY DEF Arrive, Check, Decide, Write, QueryFails
<1>2. \E todo : Does(c, todo)
  BY DEF Arrive, Check, Decide, Write, QueryFails, GoesOn, GivesUp
<1>3. row' \in [active : BOOLEAN, paid : BOOLEAN, linked : BOOLEAN, suspended : BOOLEAN]
  <2>1. CASE UNCHANGED row
    BY <2>1 DEF WorkersInv, TypeOK
  <2>2. CASE \E step \in Writes : row' = Written(step)
    BY <2>2 DEF WorkersInv, TypeOK, Writes, Written
  <2> QED
    BY <2>1, <2>2 DEF Arrive, Check, Decide, Write, QueryFails
<1> QED
  BY <1>1, <1>2, <1>3, CallsKeep

\* A worker is put on the map in place of none, or of one that was waited for
\* in vain.
LEMMA RegisterKeeps ==
    ASSUME WorkersInv, NEW c \in Callers, Register(c), UNCHANGED row,
           late' \in BOOLEAN, late => late',
           entry = None \/ (late' /\ worker[entry].stopping)
    PROVE  WorkersInv'
<1>1. PICK i \in Ids : /\ Reusable(c, i)
                       /\ entry' = i
                       /\ worker' = [worker EXCEPT ![i] = [pc |-> "begin", stopping |-> FALSE]]
  BY DEF Register
<1>2. call' = [call EXCEPT ![c] = [todo |-> Tail(call[c].todo), waits |-> "no", old |-> None]]
  BY DEF Register, GoesOn, Does, Becomes
<1>3. TypeOK'
  BY <1>1, <1>2, WorkersAssumption DEF WorkersInv, TypeOK
<1>4. Owned'
  <2>1. worker'[i].pc = "begin" /\ entry' = i
    BY <1>1 DEF WorkersInv, TypeOK
  <2>2. i # None
    BY WorkersAssumption
  <2>3. ASSUME NEW j \in Ids, worker'[j].pc # "gone", j # i
        PROVE  late' /\ worker'[j].stopping
    <3>1. worker'[j] = worker[j]
      BY <1>1, <2>3 DEF WorkersInv, TypeOK
    <3>2. entry = j \/ (late /\ worker[j].stopping)
      BY <2>3, <3>1 DEF WorkersInv, Owned
    <3> QED
      BY <3>1, <3>2, WorkersAssumption
  <2> QED
    BY <2>1, <2>3 DEF Owned
<1>5. WaitsForStopped'
  <2> SUFFICES ASSUME NEW d \in Callers, call'[d].waits # "no"
               PROVE  worker'[call'[d].old].pc = "gone" \/ worker'[call'[d].old].stopping
    BY DEF WaitsForStopped
  <2>1. d # c /\ call'[d] = call[d]
    BY <1>2 DEF WorkersInv, TypeOK
  <2>2. call[d].old # i /\ call[d].old \in Ids
    BY <1>1, <2>1 DEF Reusable, WorkersInv, TypeOK
  <2>3. worker'[call[d].old] = worker[call[d].old]
    BY <1>1, <2>2 DEF WorkersInv, TypeOK
  <2> QED
    BY <2>1, <2>3 DEF WorkersInv, WaitsForStopped
<1> QED
  BY <1>3, <1>4, <1>5 DEF WorkersInv

LEMMA StartKeeps ==
    ASSUME WorkersInv, NEW c \in Callers, Start(c)
    PROVE  WorkersInv'
<1>1. CASE entry = None /\ Register(c)
  BY <1>1, RegisterKeeps DEF Start, WorkersInv, TypeOK
<1>2. CASE Running /\ GivesUp(c) /\ UNCHANGED <<entry, worker>>
  BY <1>2, CallsKeep DEF Start, GivesUp, WorkersInv, TypeOK
<1>3. CASE entry # None /\ ~Running /\ Waits(c, "start", entry) /\ UNCHANGED <<entry, worker>>
  BY <1>3 DEF Start, Running, Waits, Becomes, WorkersInv, TypeOK, Owned, WaitsForStopped
<1> QED
  BY <1>1, <1>2, <1>3 DEF Start

LEMMA StopKeeps ==
    ASSUME WorkersInv, NEW c \in Callers, Stop(c)
    PROVE  WorkersInv'
<1>1. CASE entry = None
  BY <1>1, CallsKeep DEF Stop, GoesOn, WorkersInv, TypeOK
<1>2. CASE entry # None
  <2>1. /\ worker' = [worker EXCEPT ![entry].stopping = TRUE]
        /\ call' = [call EXCEPT ![c] = [todo |-> call[c].todo, waits |-> "stop", old |-> entry]]
        /\ UNCHANGED <<row, entry, late>>
    BY <1>2 DEF Stop, Waits, Becomes
  <2>2. TypeOK'
    BY <1>2, <2>1 DEF WorkersInv, TypeOK
  <2>3. \A i \in Ids : worker'[i].pc = worker[i].pc /\ (worker[i].stopping => worker'[i].stopping)
    BY <1>2, <2>1 DEF WorkersInv, TypeOK
  <2>4. worker'[entry].stopping
    BY <1>2, <2>1 DEF WorkersInv, TypeOK
  <2>5. Owned'
    BY <1>2, <2>1, <2>3 DEF WorkersInv, TypeOK, Owned
  <2>6. WaitsForStopped'
    BY <1>2, <2>1, <2>3, <2>4 DEF WorkersInv, TypeOK, WaitsForStopped
  <2> QED
    BY <2>2, <2>5, <2>6 DEF WorkersInv
<1> QED
  BY <1>1, <1>2

\* The wait of a Start or a Stop is over.
LEMMA WaitKeeps ==
    ASSUME WorkersInv, NEW c \in Callers, Done(c) \/ TimeOut(c)
    PROVE  WorkersInv'
<1>1. /\ UNCHANGED row
      /\ late' \in BOOLEAN /\ (late => late')
      /\ call[c].waits # "no" /\ call[c].old \in Ids
      /\ worker[call[c].old].pc # "gone" => late' /\ worker[call[c].old].stopping
  BY DEF Done, TimeOut, WorkersInv, TypeOK, WaitsForStopped
<1>2. CASE call[c].waits = "start" /\ Replace(c)
  <2>1. CASE entry \in {None, call[c].old} /\ Register(c)
    <3>1. entry = None \/ (late' /\ worker[entry].stopping)
      BY <1>1, <2>1 DEF WorkersInv, Owned
    <3> QED
      BY <1>1, <2>1, <3>1, RegisterKeeps
  <2>2. CASE GivesUp(c) /\ UNCHANGED <<entry, worker>>
    BY <1>1, <2>2 DEF GivesUp, Does, Becomes, WorkersInv, TypeOK, Owned, WaitsForStopped
  <2> QED
    BY <1>2, <2>1, <2>2 DEF Replace
<1>3. CASE call[c].waits = "stop" /\ GoesOn(c) /\ UNCHANGED <<entry, worker>>
  BY <1>1, <1>3 DEF GoesOn, Does, Becomes, WorkersInv, TypeOK, Owned, WaitsForStopped
<1> QED
  BY <1>2, <1>3 DEF Done, TimeOut, Resume

\* The goroutine of a worker.
LEMMA GoroutineKeeps ==
    ASSUME WorkersInv, NEW i \in Ids, Goroutine(i) \/ Fail(i)
    PROVE  WorkersInv'
<1> USE WorkersAssumption DEF Moves, WorkersInv, TypeOK, Owned, WaitsForStopped
<1>1. CASE Begin(i)
  BY <1>1 DEF Begin
<1>2. CASE Fail(i)
  BY <1>2 DEF Fail
<1>3. CASE Quit(i)
  BY <1>3 DEF Quit
<1>4. CASE Judge(i)
  BY <1>4 DEF Judge
<1>5. CASE Retry(i)
  BY <1>5 DEF Retry
<1>6. CASE Leave(i)
  BY <1>6 DEF Leave
<1> QED
  BY <1>1, <1>2, <1>3, <1>4, <1>5, <1>6 DEF Goroutine

LEMMA WorkersStep == WorkersInv /\ [Next]_vars => WorkersInv'
<1> SUFFICES ASSUME WorkersInv, [Next]_vars
             PROVE  WorkersInv'
  OBVIOUS
<1>1. ASSUME NEW c \in Callers, Arrive(c) \/ Step(c) \/ QueryFails(c) \/ TimeOut(c)
      PROVE  WorkersInv'
  BY <1>1, RowKeeps, StartKeeps, StopKeeps, WaitKeeps DEF Step
<1>2. CASE Tick
  BY <1>2, CallsKeep DEF Tick, WorkersInv, TypeOK, Callers
<1>3. ASSUME NEW i \in Ids, Goroutine(i) \/ Fail(i)
      PROVE  WorkersInv'
  BY <1>3, GoroutineKeeps
<1>4. CASE Pay \/ Change
  <2>1. UNCHANGED <<entry, worker, call, late>>
    BY <1>4 DEF Pay, Change
  <2>2. row' \in [active : BOOLEAN, paid : BOOLEAN, linked : BOOLEAN, suspended : BOOLEAN]
    BY <1>4 DEF Pay, Change, WorkersInv, TypeOK
  <2> QED
    BY <2>1, <2>2, CallsKeep DEF Callers
<1>5. CASE UNCHANGED vars
  BY <1>5 DEF vars, WorkersInv, TypeOK, Owned, WaitsForStopped
<1> QED
  BY <1>1, <1>2, <1>3, <1>4, <1>5 DEF Next

\* The map of the manager and the goroutines agree, at every moment.
THEOREM WorkersInvariant == Spec => []WorkersInv
  BY WorkersInit, WorkersStep, PTL DEF Spec

\* Start and Stop keep two workers of a server apart, whatever the callers do.
THEOREM OneFactoryAlways == Spec => []OneFactory
<1>1. WorkersInv => OneFactory
  BY DEF WorkersInv, Owned, OneFactory
<1> QED
  BY <1>1, WorkersInvariant, PTL

\* Every worker that was not told to stop can be.
THEOREM NoOrphanAlways == Spec => []NoOrphan
<1>1. WorkersInv => NoOrphan
  BY DEF WorkersInv, Owned, NoOrphan
<1> QED
  BY <1>1, WorkersInvariant, PTL
=============================================================================
