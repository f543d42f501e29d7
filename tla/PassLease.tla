----------------------------- MODULE PassLease -----------------------------
(***************************************************************************)
(* The database lease under which one bot process at a time works an       *)
(* installation: the Shop delivery worker's (Upfront) and the map rotation *)
(* worker's (~Upfront).                                                    *)
(*                                                                         *)
(* Both visit their installations one after another once per tick, each    *)
(* pass cut off after PassTime, and reckon every lease of a tick from the  *)
(* moment the tick began.  The delivery worker claims all of them at once, *)
(* the rotation worker each just before its pass.                          *)
(*                                                                         *)
(* Processes share one clock; going on to the next installation takes no   *)
(* time of its own.  An idle process may start a tick at any moment.       *)
(***************************************************************************)
EXTENDS Integers, FiniteSets

CONSTANTS
    Processes,     \* bot processes on one database
    Installations,
    Lease,         \* shopWorkerLease, mapRotationLease
    PassTime,      \* the longest a pass takes
    Upfront,       \* whether a tick claims all its installations at once
    MaxTime,       \* bound on the clock
    None

ASSUME LeaseAssumption ==
    /\ IsFiniteSet(Installations)
    /\ Lease \in Nat \ {0} /\ PassTime \in Nat \ {0} /\ MaxTime \in Nat
    /\ Upfront \in BOOLEAN
    /\ None \notin Processes \cup Installations

VARIABLES
    clock,
    lease,  \* lease_owner and lease_until, by installation
    todo,   \* installations a process has yet to finish in its tick
    tickAt, \* when its tick began
    work,   \* the installation it is working, or None
    since   \* when that pass began

vars == <<clock, lease, todo, tickAt, work, since>>

NoLease == [owner |-> None, until |-> 0]

TypeOK ==
    /\ clock \in Nat
    /\ lease \in [Installations -> [owner : Processes \cup {None}, until : Nat]]
    /\ todo \in [Processes -> SUBSET Installations]
    /\ tickAt \in [Processes -> Nat]
    /\ work \in [Processes -> Installations \cup {None}]
    /\ since \in [Processes -> Nat]

Init ==
    /\ clock = 1
    /\ lease = [i \in Installations |-> NoLease]
    /\ todo = [p \in Processes |-> {}]
    /\ tickAt = [p \in Processes |-> 1]
    /\ work = [p \in Processes |-> None]
    /\ since = [p \in Processes |-> 1]

-----------------------------------------------------------------------------

FreeLate(i, p, now) == \* mutant: the pass in progress is not waited for
    \/ lease[i].owner \in {None, p}
    \/ lease[i].until <= now + PassTime

\* A lease that ran out, or is the process's own, can be taken.
Free(i, p, now) ==
    \/ lease[i].owner \in {None, p}
    \/ IF Upfront THEN lease[i].until <= now ELSE lease[i].until < now

Claimed(p, now) == [owner |-> p, until |-> now + Lease]

StartTick(p) ==
    /\ todo[p] = {} /\ work[p] = None
    /\ tickAt' = [tickAt EXCEPT ![p] = clock]
    /\ LET mine == {i \in Installations : Upfront => Free(i, p, clock)}
       IN  /\ todo' = [todo EXCEPT ![p] = mine]
           /\ lease' = [i \in Installations |->
                          IF Upfront /\ i \in mine THEN Claimed(p, clock) ELSE lease[i]]
    /\ UNCHANGED <<clock, work, since>>

\* The next pass: at once under the lease the tick took, or under one that
\* is taken now but still reckoned from the tick.
StartPass(p, i) ==
    /\ work[p] = None /\ i \in todo[p]
    /\ Upfront \/ Free(i, p, tickAt[p])
    /\ lease' = IF Upfront THEN lease ELSE [lease EXCEPT ![i] = Claimed(p, tickAt[p])]
    /\ work' = [work EXCEPT ![p] = i]
    /\ since' = [since EXCEPT ![p] = clock]
    /\ UNCHANGED <<clock, todo, tickAt>>

\* Another process holds the installation, or it is not to be worked now.
Skip(p, i) ==
    /\ ~Upfront
    /\ work[p] = None /\ i \in todo[p]
    /\ todo' = [todo EXCEPT ![p] = @ \ {i}]
    /\ UNCHANGED <<clock, lease, tickAt, work, since>>

\* The pass is over and gives its lease back; that may fail.
EndPass(p, released) ==
    /\ work[p] # None
    /\ todo' = [todo EXCEPT ![p] = @ \ {work[p]}]
    /\ work' = [work EXCEPT ![p] = None]
    /\ lease' = IF released /\ lease[work[p]].owner = p
                  THEN [lease EXCEPT ![work[p]] = NoLease] ELSE lease
    /\ UNCHANGED <<clock, tickAt, since>>

\* The process dies; its leases run out by themselves.
Die(p) ==
    /\ todo[p] # {}
    /\ todo' = [todo EXCEPT ![p] = {}]
    /\ work' = [work EXCEPT ![p] = None]
    /\ UNCHANGED <<clock, lease, tickAt, since>>

Elapse ==
    /\ clock < MaxTime
    /\ \A p \in Processes :
        /\ work[p] = None => todo[p] = {}
        /\ work[p] # None => clock < since[p] + PassTime
    /\ clock' = clock + 1
    /\ UNCHANGED <<lease, todo, tickAt, work, since>>

Next ==
    \/ \E p \in Processes :
        \/ StartTick(p)
        \/ \E i \in Installations : StartPass(p, i) \/ Skip(p, i)
        \/ \E released \in BOOLEAN : EndPass(p, released)
        \/ Die(p)
    \/ Elapse

Spec == Init /\ [][Next]_vars

-----------------------------------------------------------------------------

\* No two processes work the same installation at the same time, whatever
\* passes overran, processes died and releases failed.
Exclusive ==
    \A p, q \in Processes : work[p] # None /\ work[p] = work[q] => p = q

\* How far into its tick a process can be: the passes it has finished.
Spent(p) == (Cardinality(Installations) - Cardinality(todo[p])) * PassTime

\* Every installation a process works, and with Upfront every one it is
\* still to work, is leased to it until Lease after its tick began.
Leased ==
    \A p \in Processes, i \in Installations :
        work[p] = i \/ (Upfront /\ i \in todo[p]) => lease[i] = Claimed(p, tickAt[p])

\* A tick is never further on than the passes it has done account for.
OnTime ==
    \A p \in Processes :
        /\ tickAt[p] <= clock
        /\ work[p] # None =>
              /\ work[p] \in todo[p]
              /\ since[p] <= clock
              /\ clock <= since[p] + PassTime
              /\ since[p] <= tickAt[p] + Spent(p)
        /\ work[p] = None /\ todo[p] # {} => clock <= tickAt[p] + Spent(p)

\* The inductive invariant behind Exclusive, when Lease is longer than the
\* passes of a whole tick.
LeaseInv == TypeOK /\ Leased /\ OnTime
=============================================================================
