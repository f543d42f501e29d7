---------------------------- MODULE LeaderProofs ----------------------------
(***************************************************************************)
(* For any number of processes, crashes and failures: nobody leads without *)
(* the lock unless a connection broke, and then only do two processes ever *)
(* run the singleton workers at once.                                      *)
(***************************************************************************)
EXTENDS Leader, TLAPS

LEMMA LeaderInit == Init => LeaderInv
  BY LeaderAssumption DEF Init, LeaderInv, TypeOK, SeenLead, HoldsTaken, ElectorAt, LoopAt

\* The elector's steps.
LEMMA ElectorKeeps ==
    ASSUME LeaderInv, NEW p \in Processes,
           ElectorStep(p) \/ TryFailed(p) \/ CheckFailed(p)
    PROVE  LeaderInv'
<1> USE LeaderAssumption
        DEF LeaderInv, TypeOK, SeenLead, HoldsTaken, ElectorAt, LoopAt, Go, LoopKept, Become, budget
<1>1. CASE TryAcquire(p)
  BY <1>1 DEF TryAcquire
<1>2. CASE Retry(p)
  BY <1>2 DEF Retry
<1>3. CASE Lead(p)
  BY <1>3 DEF Lead
<1>4. CASE Leave(p)
  BY <1>4 DEF Leave
<1>5. CASE StepDown(p)
  BY <1>5 DEF StepDown
<1>6. CASE Release(p)
  BY <1>6 DEF Release
<1>7. CASE Stopped(p)
  BY <1>7 DEF Stopped
<1>8. CASE TryFailed(p)
  BY <1>8 DEF TryFailed
<1>9. CASE CheckFailed(p)
  BY <1>9 DEF CheckFailed
<1> QED
  BY <1>1, <1>2, <1>3, <1>4, <1>5, <1>6, <1>7, <1>8, <1>9 DEF ElectorStep

\* The worker loop's steps.
LEMMA LoopKeeps ==
    ASSUME LeaderInv, NEW p \in Processes, LoopStep(p) \/ Return(p)
    PROVE  LeaderInv'
<1> USE DEF LeaderInv, TypeOK, SeenLead, HoldsTaken, ElectorAt, LoopAt, election, budget
<1>1. CASE Read(p)
  BY <1>1 DEF Read
<1>2. CASE Wake(p)
  BY <1>2 DEF Wake
<1>3. CASE LoopAgain(p)
  BY <1>3 DEF LoopAgain
<1>4. CASE LoopStopped(p)
  BY <1>4 DEF LoopStopped
<1>5. CASE Return(p)
  BY <1>5 DEF Return
<1> QED
  BY <1>1, <1>2, <1>3, <1>4, <1>5 DEF LoopStep

\* What happens around the processes.
LEMMA WorldKeeps ==
    ASSUME LeaderInv,
           (\E p \in Processes : Shutdown(p) \/ Crash(p)) \/ Drop \/ Break
    PROVE  LeaderInv'
<1> USE LeaderAssumption
        DEF LeaderInv, TypeOK, SeenLead, HoldsTaken, ElectorAt, LoopAt, election, budget
<1>1. ASSUME NEW p \in Processes, Shutdown(p) PROVE LeaderInv'
  BY <1>1 DEF Shutdown
<1>2. ASSUME NEW p \in Processes, Crash(p) PROVE LeaderInv'
  BY <1>2 DEF Crash
<1>3. CASE Drop
  BY <1>3 DEF Drop, Abandoned
<1>4. CASE Break
  BY <1>4 DEF Break
<1> QED
  BY <1>1, <1>2, <1>3, <1>4

LEMMA LeaderStep == LeaderInv /\ [Next]_vars => LeaderInv'
<1> SUFFICES ASSUME LeaderInv, [Next]_vars
             PROVE  LeaderInv'
  OBVIOUS
<1>1. CASE UNCHANGED vars
  BY <1>1 DEF vars, LeaderInv, TypeOK, SeenLead, HoldsTaken
<1>2. CASE Next
  BY <1>2, ElectorKeeps, LoopKeeps, WorldKeeps DEF Next
<1> QED
  BY <1>1, <1>2

\* Elector and worker loop agree, and a lock that was taken is held until
\* leadership is given up or a connection breaks (Run, become,
\* RunWhileLeader).
THEOREM LeaderSafe == Spec => []LeaderInv
<1>1. Init => LeaderInv
  BY LeaderInit
<1>2. LeaderInv /\ [Next]_vars => LeaderInv'
  BY LeaderStep
<1> QED
  BY <1>1, <1>2, PTL DEF Spec

\* Nobody leads without the lock unless a connection broke (Run, hold).
THEOREM LeadsSafe == Spec => []LeadsHolding
<1>1. LeaderInv => LeadsHolding
  BY DEF LeaderInv, SeenLead, HoldsTaken, LeadsHolding
<1> QED
  BY <1>1, LeaderSafe, PTL

\* Two processes run the singleton workers at once only after a connection
\* broke (RunWhileLeader under the advisory lock).
THEOREM WorksSafe == Spec => []OneWorks
<1>1. LeaderInv => OneWorks
  <2> SUFFICES ASSUME LeaderInv, drops = 0,
                      NEW p \in Processes, NEW q \in Processes, Working(p), Working(q)
               PROVE  p = q
    BY DEF OneWorks
  <2>1. ASSUME NEW r \in Processes, Working(r) PROVE holder = r
    <3>1. seen[r] = "live"
      BY <2>1 DEF Working, Cancelled, LeaderInv, TypeOK, SeenLead
    <3>2. elector[r] \in {"holding", "lost", "leaving"}
      BY <3>1 DEF LeaderInv, SeenLead
    <3> QED
      BY <3>2 DEF LeaderInv, TypeOK, HoldsTaken
  <2> QED
    BY <2>1
<1> QED
  BY <1>1, LeaderSafe, PTL
=============================================================================
