------------------------------- MODULE Leader -------------------------------
(***************************************************************************)
(* The election of the process that runs the singleton background workers  *)
(* (internal/leader): Elector.Run and hold, become, the PostgreSQL session *)
(* lock, and one worker loop (RunWhileLeader) in each process.             *)
(*                                                                         *)
(* A session lock belongs to its connection.  The server drops it when the *)
(* connection ends, which the process notices only at its next check.      *)
(* The worker loop keeps the lead context and the change channel it read;  *)
(* become cancels the one and closes the other.                            *)
(***************************************************************************)
EXTENDS Naturals, FiniteSets

CONSTANTS
    Processes,
    None,
    MaxCrashes, \* bound on crashes
    MaxDrops,   \* bound on connections lost while their process runs
    MaxErrors   \* bound on failed attempts to take the lock

ASSUME LeaderAssumption ==
    /\ None \notin Processes
    /\ MaxCrashes \in Nat /\ MaxDrops \in Nat /\ MaxErrors \in Nat

VARIABLES
    holder,  \* the process whose session holds the advisory lock, or None
    stop,    \* whether the process is shutting down (ctx)
    elector, \* where Elector.Run is
    lead,    \* whether leadCtx is set and not cancelled
    loop,    \* where RunWhileLeader is
    seen,    \* the lead context the loop read: nil, live or ended
    changed, \* whether the change channel the loop read was closed since
    crashes, drops, errors

vars == <<holder, stop, elector, lead, loop, seen, changed, crashes, drops, errors>>
budget == <<crashes, drops, errors>>
election == <<holder, elector, lead>>

\* "took": the lock was taken, leadership not yet announced.  "lost" and
\* "leaving": leadership is still announced; "giving" and "closing": it is
\* not, and the lock is released next.
ElectorAt == {"trying", "waiting", "took", "holding", "lost", "leaving", "giving", "closing", "stopped"}
LoopAt == {"read", "changed", "run", "done", "stopped"}

TypeOK ==
    /\ holder \in Processes \cup {None}
    /\ stop \in [Processes -> BOOLEAN]
    /\ elector \in [Processes -> ElectorAt]
    /\ lead \in [Processes -> BOOLEAN]
    /\ loop \in [Processes -> LoopAt]
    /\ seen \in [Processes -> {"nil", "live", "ended"}]
    /\ changed \in [Processes -> BOOLEAN]
    /\ crashes \in Nat /\ drops \in Nat /\ errors \in Nat

Init ==
    /\ holder = None
    /\ stop = [p \in Processes |-> FALSE]
    /\ elector = [p \in Processes |-> "trying"]
    /\ lead = [p \in Processes |-> FALSE]
    /\ loop = [p \in Processes |-> "read"]
    /\ seen = [p \in Processes |-> "nil"]
    /\ changed = [p \in Processes |-> FALSE]
    /\ crashes = 0 /\ drops = 0 /\ errors = 0

-----------------------------------------------------------------------------
(* The elector.                                                            *)

Go(p, from, to) ==
    /\ elector[p] = from
    /\ elector' = [elector EXCEPT ![p] = to]

LoopKept == UNCHANGED <<loop, seen, changed>>

TryAcquire(p) ==
    /\ ~stop[p]
    /\ \/ /\ holder = None
          /\ Go(p, "trying", "took")
          /\ holder' = p
       \/ /\ holder # None
          /\ Go(p, "trying", "waiting")
          /\ UNCHANGED holder
    /\ UNCHANGED <<stop, lead, budget>>
    /\ LoopKept

\* The attempt fails: the connection is closed, and the lock with it if the
\* answer was lost on the way.
TryFailed(p) ==
    /\ ~stop[p]
    /\ errors < MaxErrors
    /\ errors' = errors + 1
    /\ Go(p, "trying", "waiting")
    /\ holder' \in {holder} \cup IF holder = None THEN {p} ELSE {}
    /\ UNCHANGED <<stop, lead, crashes, drops>>
    /\ LoopKept

Retry(p) ==
    /\ ~stop[p]
    /\ Go(p, "waiting", "trying")
    /\ UNCHANGED <<holder, stop, lead, budget>>
    /\ LoopKept

BecomeQuietly(p, leader) == \* mutant: the change channel is not closed
    /\ lead' = [lead EXCEPT ![p] = leader]
    /\ seen' = [seen EXCEPT ![p] = IF ~leader /\ @ = "live" THEN "ended" ELSE @]
    /\ UNCHANGED changed

BecomeUncancelled(p, leader) == \* mutant: the lead context is dropped, not cancelled
    /\ lead' = [lead EXCEPT ![p] = leader]
    /\ changed' = [changed EXCEPT ![p] = TRUE]
    /\ UNCHANGED seen

\* become: the lead context is made or cancelled, the change announced.
Become(p, leader) ==
    /\ lead' = [lead EXCEPT ![p] = leader]
    /\ seen' = [seen EXCEPT ![p] = IF ~leader /\ @ = "live" THEN "ended" ELSE @]
    /\ changed' = [changed EXCEPT ![p] = TRUE]

Lead(p) ==
    /\ Go(p, "took", "holding")
    /\ Become(p, TRUE)
    /\ UNCHANGED <<holder, stop, loop, budget>>

\* The check fails when the session is gone, and may also fail by itself.
CheckFailed(p) ==
    /\ ~stop[p]
    /\ Go(p, "holding", "lost")
    /\ \/ holder # p /\ UNCHANGED errors
       \/ errors < MaxErrors /\ errors' = errors + 1
    /\ UNCHANGED <<holder, stop, lead, crashes, drops>>
    /\ LoopKept

Leave(p) ==
    /\ stop[p]
    /\ Go(p, "holding", "leaving")
    /\ UNCHANGED <<holder, stop, lead, budget>>
    /\ LoopKept

StepDown(p) ==
    /\ Go(p, "lost", "giving") \/ Go(p, "leaving", "closing")
    /\ Become(p, FALSE)
    /\ UNCHANGED <<holder, stop, loop, budget>>

ReleaseFirst(p) == \* mutant: the lock goes before leadership is given up
    /\ Go(p, "lost", "lost") \/ Go(p, "leaving", "leaving")
       \/ Go(p, "giving", "trying") \/ Go(p, "closing", "stopped")
    /\ holder' = IF holder = p THEN None ELSE holder
    /\ UNCHANGED <<stop, lead, budget>>
    /\ LoopKept

\* Unlocking frees the lock; when that fails, the closed connection does,
\* but maybe later.
Release(p) ==
    /\ Go(p, "giving", "trying") \/ Go(p, "closing", "stopped")
    /\ holder' \in {holder} \cup IF holder = p THEN {None} ELSE {}
    /\ UNCHANGED <<stop, lead, budget>>
    /\ LoopKept

Stopped(p) ==
    /\ stop[p]
    /\ Go(p, "trying", "stopped") \/ Go(p, "waiting", "stopped")
    /\ UNCHANGED <<holder, stop, lead, budget>>
    /\ LoopKept

-----------------------------------------------------------------------------
(* The worker loop.                                                        *)

\* The lead context and the change channel are read together, under e.mu.
Read(p) ==
    /\ loop[p] = "read" /\ ~stop[p]
    /\ seen' = [seen EXCEPT ![p] = IF lead[p] THEN "live" ELSE "nil"]
    /\ changed' = [changed EXCEPT ![p] = FALSE]
    /\ loop' = [loop EXCEPT ![p] = IF lead[p] THEN "run" ELSE "changed"]
    /\ UNCHANGED <<election, stop, budget>>

Wake(p) ==
    /\ loop[p] = "changed" /\ changed[p]
    /\ loop' = [loop EXCEPT ![p] = "read"]
    /\ UNCHANGED <<election, stop, seen, changed, budget>>

\* The context the worker was given is cancelled.
Cancelled(p) == stop[p] \/ seen[p] = "ended"

\* The worker returns, because it must or by itself.
Return(p) ==
    /\ loop[p] = "run"
    /\ loop' = [loop EXCEPT ![p] = "done"]
    /\ UNCHANGED <<election, stop, seen, changed, budget>>

LoopAgain(p) ==
    /\ loop[p] = "done" /\ seen[p] = "ended" /\ ~stop[p]
    /\ loop' = [loop EXCEPT ![p] = "read"]
    /\ UNCHANGED <<election, stop, seen, changed, budget>>

LoopStopped(p) ==
    /\ stop[p]
    /\ loop[p] \in {"read", "changed", "done"}
    /\ loop' = [loop EXCEPT ![p] = "stopped"]
    /\ UNCHANGED <<election, stop, seen, changed, budget>>

-----------------------------------------------------------------------------
(* The environment.                                                        *)

Shutdown(p) ==
    /\ ~stop[p]
    /\ \E q \in Processes \ {p} : ~stop[q] \* somebody is left to lead
    /\ stop' = [stop EXCEPT ![p] = TRUE]
    /\ UNCHANGED <<election, loop, seen, changed, budget>>

\* A process that died starts anew; its session is dropped some time later.
Crash(p) ==
    /\ crashes < MaxCrashes
    /\ crashes' = crashes + 1
    /\ elector' = [elector EXCEPT ![p] = "trying"]
    /\ lead' = [lead EXCEPT ![p] = FALSE]
    /\ loop' = [loop EXCEPT ![p] = "read"]
    /\ seen' = [seen EXCEPT ![p] = "nil"]
    /\ changed' = [changed EXCEPT ![p] = FALSE]
    /\ UNCHANGED <<holder, stop, drops, errors>>

\* Nobody is using the session that holds the lock.
Abandoned == holder # None /\ elector[holder] \in {"trying", "waiting", "stopped"}

\* The server ends an abandoned session.
Drop ==
    /\ Abandoned
    /\ holder' = None
    /\ UNCHANGED <<elector, lead, stop, loop, seen, changed, budget>>

\* The connection of a running leader breaks.
Break ==
    /\ holder # None /\ ~Abandoned
    /\ drops < MaxDrops
    /\ drops' = drops + 1
    /\ holder' = None
    /\ UNCHANGED <<elector, lead, stop, loop, seen, changed, crashes, errors>>

-----------------------------------------------------------------------------

ElectorStep(p) ==
    TryAcquire(p) \/ Retry(p) \/ Lead(p) \/ Leave(p) \/ StepDown(p) \/ Release(p) \/ Stopped(p)

LoopStep(p) == Read(p) \/ Wake(p) \/ LoopAgain(p) \/ LoopStopped(p)

Next ==
    \/ \E p \in Processes :
        \/ ElectorStep(p) \/ TryFailed(p) \/ CheckFailed(p)
        \/ LoopStep(p) \/ Return(p)
        \/ Shutdown(p) \/ Crash(p)
    \/ Drop \/ Break

Spec == Init /\ [][Next]_vars

\* Run and RunWhileLeader keep going, a leader whose session is gone finds
\* out, a cancelled worker returns, and the server ends abandoned sessions.
Fairness ==
    /\ \A p \in Processes :
        /\ WF_vars(ElectorStep(p))
        /\ WF_vars(holder # p /\ CheckFailed(p))
        /\ WF_vars(LoopStep(p))
        /\ WF_vars(Cancelled(p) /\ Return(p))
    /\ WF_vars(Drop)

FairSpec == Spec /\ Fairness

-----------------------------------------------------------------------------

\* The worker runs with a live context.
Working(p) == loop[p] = "run" /\ ~Cancelled(p)

\* A process that leads holds the lock, or its connection broke and it has
\* not noticed yet: nobody gives the lock up before leadership.
LeadsHolding ==
    \A p \in Processes : lead[p] => holder = p \/ drops > 0

\* While no connection breaks, one process at a time runs the workers,
\* whatever crashed, shut down, failed or came back meanwhile.
OneWorks ==
    drops = 0 => \A p, q \in Processes : Working(p) /\ Working(q) => p = q

\* The loop's view agrees with the elector's.
SeenLead ==
    \A p \in Processes :
        /\ seen[p] = "live" => lead[p]
        /\ lead[p] => elector[p] \in {"holding", "lost", "leaving"}
        /\ loop[p] = "run" => seen[p] # "nil"
        /\ loop[p] = "changed" /\ ~changed[p] => ~lead[p]

\* Besides, a process that took the lock has it, or its connection broke.
HoldsTaken ==
    \A p \in Processes :
        elector[p] \in {"took", "holding", "lost", "leaving"} => holder = p \/ drops > 0

LeaderInv == TypeOK /\ SeenLead /\ HoldsTaken

\* The singleton workers never stay off: again and again some process leads
\* and has started its worker for that leadership (a worker that returns by
\* itself is not started again under the same one).
WorkersServed ==
    []<>(\E p \in Processes : lead[p] /\ loop[p] \in {"run", "done"} /\ seen[p] = "live")
=============================================================================
