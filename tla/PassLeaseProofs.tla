-------------------------- MODULE PassLeaseProofs --------------------------
(***************************************************************************)
(* If the lease is longer than the passes of a whole tick put together, no *)
(* two processes ever work the same installation.                          *)
(***************************************************************************)
EXTENDS PassLease, FiniteSetTheorems, TLAPS

N == Cardinality(Installations)

LongLease == N * PassTime < Lease

SpentOn(T) == (N - Cardinality(T)) * PassTime

\* A pass more is PassTime more; not even all but one reach Lease.
LEMMA SpentMore ==
    ASSUME NEW T \in SUBSET Installations, NEW i \in T
    PROVE  /\ SpentOn(T) \in Nat
           /\ SpentOn(T \ {i}) = SpentOn(T) + PassTime
           /\ LongLease => SpentOn(T) + PassTime < Lease
<1> DEFINE k == Cardinality(T)
           j == N - k
<1>1. IsFiniteSet(T) /\ N \in Nat /\ k \in Nat /\ k <= N
  BY LeaseAssumption, FS_Subset, FS_CardinalityType DEF N
<1>2. Cardinality(T \ {i}) = k - 1
  BY <1>1, FS_RemoveElement
<1>3. k # 0
  BY <1>1, FS_EmptySet
<1>4. j \in Nat /\ N - (k - 1) = j + 1 /\ j + 1 <= N
  BY <1>1, <1>3
<1>5. SpentOn(T) = j * PassTime /\ SpentOn(T \ {i}) = (j + 1) * PassTime
  BY <1>2, <1>4 DEF SpentOn
<1> HIDE DEF j
<1>6. j * PassTime \in Nat /\ (j + 1) * PassTime = j * PassTime + PassTime
  BY <1>4, LeaseAssumption
<1>7. (j + 1) * PassTime <= N * PassTime
  BY <1>1, <1>4, LeaseAssumption
<1>8. N * PassTime \in Nat
  BY <1>1, LeaseAssumption
<1>9. LongLease => j * PassTime + PassTime < Lease
  <2> DEFINE a == (j + 1) * PassTime
             b == N * PassTime
  <2>1. a <= b /\ a \in Nat /\ b \in Nat
    BY <1>6, <1>7, <1>8, LeaseAssumption
  <2>2. LongLease => b < Lease
    BY DEF LongLease
  <2> HIDE DEF a, b
  <2>3. LongLease => a < Lease
    BY <2>1, <2>2, LeaseAssumption
  <2> QED
    BY <1>6, <2>3 DEF a
<1> QED
  BY <1>5, <1>6, <1>9

\* Before any pass nothing is spent; what is spent is never negative.
LEMMA SpentNat ==
    ASSUME NEW T \in SUBSET Installations
    PROVE  SpentOn(T) \in Nat
<1>1. IsFiniteSet(T) /\ N \in Nat /\ Cardinality(T) \in Nat /\ Cardinality(T) <= N
  BY LeaseAssumption, FS_Subset, FS_CardinalityType DEF N
<1>2. N - Cardinality(T) \in Nat
  BY <1>1
<1> QED
  BY <1>2, LeaseAssumption DEF SpentOn

\* The installations the invariant says are leased to a process.
Holds(p, i) == work[p] = i \/ (Upfront /\ i \in todo[p])

\* A lease the invariant speaks of has not run out, so only its owner can
\* take it.
LEMMA StillLeased ==
    ASSUME LongLease, LeaseInv, NEW p \in Processes, NEW i \in Installations, Holds(p, i)
    PROVE  /\ lease[i] = Claimed(p, tickAt[p])
           /\ clock < tickAt[p] + Lease
           /\ \A q \in Processes : \A now \in Nat : now <= clock /\ Free(i, q, now) => q = p
<1>1. /\ tickAt[p] \in Nat /\ since[p] \in Nat /\ clock \in Nat
      /\ todo[p] \in SUBSET Installations /\ i # None
  BY LeaseAssumption DEF LeaseInv, TypeOK
<1>2. lease[i] = Claimed(p, tickAt[p])
  BY DEF LeaseInv, Leased, Holds
<1>3. PICK x \in todo[p] : TRUE
  BY <1>1 DEF LeaseInv, OnTime, Holds
<1>4. SpentOn(todo[p]) \in Nat /\ SpentOn(todo[p]) + PassTime < Lease
  BY <1>1, <1>3, SpentMore
<1>5. clock <= tickAt[p] + SpentOn(todo[p]) + PassTime
  <2>1. CASE work[p] # None
    BY <2>1, <1>1, <1>4, LeaseAssumption DEF LeaseInv, OnTime, Spent, SpentOn, N
  <2>2. CASE work[p] = None
    BY <2>2, <1>1, <1>3, <1>4, LeaseAssumption DEF LeaseInv, OnTime, Spent, SpentOn, N
  <2> QED
    BY <2>1, <2>2
<1>6. clock < tickAt[p] + Lease
  BY <1>1, <1>4, <1>5, LeaseAssumption
<1>7. ASSUME NEW q \in Processes, NEW now \in Nat, now <= clock, Free(i, q, now)
      PROVE  q = p
  <2>1. lease[i].owner = p /\ lease[i].until = tickAt[p] + Lease /\ p # None
    BY <1>2, LeaseAssumption DEF Claimed
  <2>2. ~(lease[i].until <= now)
    BY <1>1, <1>6, <1>7, <2>1, LeaseAssumption
  <2>3. ~(lease[i].until < now)
    BY <1>1, <1>6, <1>7, <2>1, LeaseAssumption
  <2> QED
    BY <1>7, <2>1, <2>2, <2>3 DEF Free
<1> QED
  BY <1>2, <1>6, <1>7

\* Two processes on one installation would hold one lease.
LEMMA InvExcludes == LeaseInv => Exclusive
<1> SUFFICES ASSUME LeaseInv, NEW p \in Processes, NEW q \in Processes,
                    work[p] # None, work[p] = work[q]
             PROVE  p = q
  BY DEF Exclusive
<1>1. work[p] \in Installations
  BY DEF LeaseInv, TypeOK
<1>2. lease[work[p]] = Claimed(p, tickAt[p]) /\ lease[work[p]] = Claimed(q, tickAt[q])
  BY <1>1 DEF LeaseInv, Leased
<1> QED
  BY <1>2 DEF Claimed

-----------------------------------------------------------------------------

LEMMA LeaseInit == Init => LeaseInv
  BY LeaseAssumption DEF Init, LeaseInv, TypeOK, Leased, OnTime, NoLease

LEMMA KeepsStartTick ==
    ASSUME LongLease, LeaseInv, NEW p \in Processes, StartTick(p)
    PROVE  LeaseInv'
<1> DEFINE mine == {i \in Installations : Upfront => Free(i, p, clock)}
<1> USE DEF StartTick
<1>1. TypeOK'
  BY LeaseAssumption DEF LeaseInv, TypeOK, Claimed
<1>2. Leased'
  <2> SUFFICES ASSUME NEW q \in Processes, NEW i \in Installations,
                      work[q] = i \/ (Upfront /\ i \in todo'[q])
               PROVE  lease'[i] = Claimed(q, tickAt'[q])
    BY DEF Leased, Claimed
  <2>1. CASE q = p
    BY <2>1, LeaseAssumption DEF LeaseInv, TypeOK
  <2>2. CASE q # p
    <3>1. Holds(q, i) /\ tickAt'[q] = tickAt[q]
      BY <2>2 DEF LeaseInv, TypeOK, Holds
    <3>2. lease[i] = Claimed(q, tickAt[q]) /\ ~Free(i, p, clock)
      BY <2>2, <3>1, StillLeased DEF LeaseInv, TypeOK
    <3> QED
      BY <3>1, <3>2
  <2> QED
    BY <2>1, <2>2
<1>3. OnTime'
  <2> SUFFICES ASSUME NEW q \in Processes
               PROVE  OnTime!(q)'
    BY DEF OnTime
  <2>1. CASE q = p
    <3>1. todo'[p] = mine /\ tickAt'[p] = clock /\ work'[p] = None /\ clock' = clock
      BY DEF LeaseInv, TypeOK
    <3>2. SpentOn(mine) \in Nat /\ clock \in Nat
      BY SpentNat DEF LeaseInv, TypeOK
    <3>3. Spent(p)' = SpentOn(mine)
      BY <3>1 DEF Spent, SpentOn, N
    <3> QED
      BY <2>1, <3>1, <3>2, <3>3
  <2>2. CASE q # p
    BY <2>2 DEF LeaseInv, TypeOK, OnTime, Spent
  <2> QED
    BY <2>1, <2>2
<1> QED
  BY <1>1, <1>2, <1>3 DEF LeaseInv

LEMMA KeepsStartPass ==
    ASSUME LongLease, LeaseInv, NEW p \in Processes, NEW i \in Installations, StartPass(p, i)
    PROVE  LeaseInv'
<1> USE DEF StartPass
<1>1. TypeOK'
  BY LeaseAssumption DEF LeaseInv, TypeOK, Claimed
<1>2. Leased'
  <2> SUFFICES ASSUME NEW q \in Processes, NEW h \in Installations,
                      work'[q] = h \/ (Upfront /\ h \in todo[q])
               PROVE  lease'[h] = Claimed(q, tickAt[q])
    BY DEF Leased, Claimed
  <2>1. CASE q = p /\ h = i
    BY <2>1 DEF LeaseInv, TypeOK, Leased
  <2>2. CASE ~(q = p /\ h = i)
    <3>1. Holds(q, h)
      BY <2>2, LeaseAssumption DEF LeaseInv, TypeOK, Holds
    <3>2. lease[h] = Claimed(q, tickAt[q])
      BY <3>1, StillLeased
    <3>3. ~Upfront /\ h = i => q = p
      BY <3>1, StillLeased DEF LeaseInv, TypeOK, OnTime
    <3> QED
      BY <2>2, <3>2, <3>3 DEF LeaseInv, TypeOK
  <2> QED
    BY <2>1, <2>2
<1>3. OnTime'
  <2> SUFFICES ASSUME NEW q \in Processes
               PROVE  OnTime!(q)'
    BY DEF OnTime
  <2>1. CASE q = p
    <3>1. work'[p] = i /\ since'[p] = clock /\ i \in todo[p] /\ work[p] = None /\ i # None
      BY LeaseAssumption DEF LeaseInv, TypeOK
    <3> QED
      BY <2>1, <3>1, LeaseAssumption DEF LeaseInv, TypeOK, OnTime, Spent
  <2>2. CASE q # p
    BY <2>2 DEF LeaseInv, TypeOK, OnTime, Spent
  <2> QED
    BY <2>1, <2>2
<1> QED
  BY <1>1, <1>2, <1>3 DEF LeaseInv

LEMMA KeepsSkip ==
    ASSUME LongLease, LeaseInv, NEW p \in Processes, NEW i \in Installations, Skip(p, i)
    PROVE  LeaseInv'
<1> USE DEF Skip
<1>1. TypeOK'
  BY DEF LeaseInv, TypeOK
<1>2. Leased'
  BY DEF LeaseInv, Leased, Claimed
<1>3. OnTime'
  <2> SUFFICES ASSUME NEW q \in Processes
               PROVE  OnTime!(q)'
    BY DEF OnTime
  <2>1. CASE q = p
    <3>1. todo[p] \in SUBSET Installations /\ todo'[p] = todo[p] \ {i} /\ tickAt[p] \in Nat /\ clock \in Nat
      BY DEF LeaseInv, TypeOK
    <3>2. /\ SpentOn(todo[p]) \in Nat
          /\ SpentOn(todo'[p]) = SpentOn(todo[p]) + PassTime
      BY <3>1, SpentMore
    <3>3. clock <= tickAt[p] + SpentOn(todo[p])
      BY DEF LeaseInv, OnTime, Spent, SpentOn, N
    <3>4. clock <= tickAt[p] + SpentOn(todo'[p])
      BY <3>1, <3>2, <3>3, LeaseAssumption
    <3>5. Spent(p)' = SpentOn(todo'[p])
      BY DEF Spent, SpentOn, N
    <3> QED
      BY <2>1, <3>4, <3>5 DEF LeaseInv, OnTime
  <2>2. CASE q # p
    BY <2>2 DEF LeaseInv, TypeOK, OnTime, Spent
  <2> QED
    BY <2>1, <2>2
<1> QED
  BY <1>1, <1>2, <1>3 DEF LeaseInv

LEMMA KeepsEndPass ==
    ASSUME LongLease, LeaseInv, NEW p \in Processes, NEW released \in BOOLEAN, EndPass(p, released)
    PROVE  LeaseInv'
<1> USE DEF EndPass
<1>1. TypeOK'
  BY LeaseAssumption DEF LeaseInv, TypeOK, NoLease
<1>2. Leased'
  <2> SUFFICES ASSUME NEW q \in Processes, NEW h \in Installations,
                      work'[q] = h \/ (Upfront /\ h \in todo'[q])
               PROVE  lease'[h] = Claimed(q, tickAt[q])
    BY DEF Leased, Claimed
  <2>1. Holds(q, h) /\ ~(q = p /\ h = work[p])
    BY LeaseAssumption DEF LeaseInv, TypeOK, Holds
  <2>2. lease[h] = Claimed(q, tickAt[q])
    BY <2>1, StillLeased
  <2>3. lease[h].owner = p => q = p
    BY <2>2 DEF Claimed
  <2> QED
    BY <2>1, <2>2, <2>3 DEF LeaseInv, TypeOK
<1>3. OnTime'
  <2> SUFFICES ASSUME NEW q \in Processes
               PROVE  OnTime!(q)'
    BY DEF OnTime
  <2>1. CASE q = p
    <3> DEFINE i == work[p]
    <3>1. /\ todo[p] \in SUBSET Installations /\ i \in todo[p] /\ todo'[p] = todo[p] \ {i}
          /\ tickAt[p] \in Nat /\ clock \in Nat /\ since[p] \in Nat
      BY DEF LeaseInv, TypeOK, OnTime
    <3>2. /\ SpentOn(todo[p]) \in Nat
          /\ SpentOn(todo'[p]) = SpentOn(todo[p]) + PassTime
      BY <3>1, SpentMore
    <3>3. clock <= since[p] + PassTime /\ since[p] <= tickAt[p] + SpentOn(todo[p])
      BY DEF LeaseInv, OnTime, Spent, SpentOn, N
    <3>4. clock <= tickAt[p] + SpentOn(todo'[p])
      BY <3>1, <3>2, <3>3, LeaseAssumption
    <3>5. Spent(p)' = SpentOn(todo'[p]) /\ work'[p] = None
      BY DEF Spent, SpentOn, N, LeaseInv, TypeOK
    <3> QED
      BY <2>1, <3>4, <3>5 DEF LeaseInv, OnTime
  <2>2. CASE q # p
    BY <2>2 DEF LeaseInv, TypeOK, OnTime, Spent
  <2> QED
    BY <2>1, <2>2
<1> QED
  BY <1>1, <1>2, <1>3 DEF LeaseInv

LEMMA KeepsDie ==
    ASSUME LeaseInv, NEW p \in Processes, Die(p)
    PROVE  LeaseInv'
<1> USE DEF Die
<1>1. TypeOK'
  BY DEF LeaseInv, TypeOK
<1>2. Leased'
  BY LeaseAssumption DEF LeaseInv, TypeOK, Leased, Claimed
<1>3. OnTime'
  BY DEF LeaseInv, TypeOK, OnTime, Spent
<1> QED
  BY <1>1, <1>2, <1>3 DEF LeaseInv

LEMMA KeepsElapse == LeaseInv /\ Elapse => LeaseInv'
<1> SUFFICES ASSUME LeaseInv, Elapse
             PROVE  LeaseInv'
  OBVIOUS
<1> USE DEF Elapse
<1>1. TypeOK'
  BY DEF LeaseInv, TypeOK
<1>2. Leased'
  BY DEF LeaseInv, Leased, Claimed
<1>3. OnTime'
  BY LeaseAssumption DEF LeaseInv, TypeOK, OnTime, Spent
<1> QED
  BY <1>1, <1>2, <1>3 DEF LeaseInv

LEMMA LeaseStep == LongLease /\ LeaseInv /\ [Next]_vars => LeaseInv'
<1> SUFFICES ASSUME LongLease, LeaseInv, [Next]_vars
             PROVE  LeaseInv'
  OBVIOUS
<1>1. ASSUME NEW p \in Processes, StartTick(p) PROVE LeaseInv'
  BY <1>1, KeepsStartTick
<1>2. ASSUME NEW p \in Processes, NEW i \in Installations, StartPass(p, i) \/ Skip(p, i) PROVE LeaseInv'
  BY <1>2, KeepsStartPass, KeepsSkip
<1>3. ASSUME NEW p \in Processes, NEW released \in BOOLEAN, EndPass(p, released) PROVE LeaseInv'
  BY <1>3, KeepsEndPass
<1>4. ASSUME NEW p \in Processes, Die(p) PROVE LeaseInv'
  BY <1>4, KeepsDie
<1>5. CASE Elapse
  BY <1>5, KeepsElapse
<1>6. CASE UNCHANGED vars
  BY <1>6 DEF vars, LeaseInv, TypeOK, Leased, OnTime, Spent, Claimed
<1> QED
  BY <1>1, <1>2, <1>3, <1>4, <1>5, <1>6 DEF Next

\* A worker whose lease is longer than all the passes of a tick together
\* never shares an installation with another process (tick, one and
\* mapRotationOne under ClaimInstallations, Claim and ReleaseLease).
THEOREM LongLeaseExcludes == LongLease => (Spec => []Exclusive)
<1> SUFFICES ASSUME LongLease
             PROVE  Spec => []Exclusive
  OBVIOUS
<1>1. Init => LeaseInv
  BY LeaseInit
<1>2. LeaseInv /\ [Next]_vars => LeaseInv'
  BY LeaseStep
<1>3. LeaseInv => Exclusive
  BY InvExcludes
<1> QED
  BY <1>1, <1>2, <1>3, PTL DEF Spec
=============================================================================
