--------------------------- MODULE ServerWorkers ---------------------------
(***************************************************************************)
(* Who runs the log worker of one game server (internal/servers,           *)
(* workermanager.go, and its callers in internal/app and internal/discord):*)
(* at most one goroutine at a time reads the logs of a server, it runs     *)
(* while the server is connected and paid for, and it can always be        *)
(* stopped.                                                                *)
(*                                                                         *)
(* A call of a command, an endpoint or the reconcile loop is a program: a  *)
(* sequence of reads, writes, starts and stops, each a step, with every    *)
(* other call and the worker's own goroutine in between.  Not here: the    *)
(* end of the process (StopAll), and the flag that makes a first worker    *)
(* skip old lines.                                                         *)
(***************************************************************************)
EXTENDS Naturals, Sequences

CONSTANTS
    Ids,         \* worker structs; one is used again when nothing refers to it
    Handlers,    \* goroutines that serve commands and endpoints
    Reconciler,  \* the goroutine of runWorkerReconciler
    None,
    MaxEvents    \* bound on calls of commands and endpoints, subscriptions that
                 \* end, connections removed, workers and queries that fail and
                 \* waits that time out

Callers == Handlers \cup {Reconciler}

ASSUME WorkersAssumption ==
    /\ MaxEvents \in Nat
    /\ None \notin Ids
    /\ Reconciler \notin Handlers

VARIABLES
    row,     \* the server in the database, its installation and subscription
    entry,   \* workers[serverID] of the manager
    worker,  \* the worker structs and where their goroutines are
    call,    \* where each caller is
    used,    \* calls, changes and mishaps so far
    late     \* somebody gave up waiting for a worker to exit

vars == <<row, entry, worker, call, used, late>>

Reads == {"ifActive", "ifAllowed", "ifPaid", "ifLinked"}
Looks == {"ifIdle", "ifRunning"}
Writes == {"activate", "tryActivate", "deactivate", "suspend", "reinstate", "link", "erase"}

\* The steps of each call.  A step that starts with "if" ends the call unless
\* what it looks at holds.
Boot       == <<"ifActive", "start">>
Select     == <<"activate", "ifIdle", "start">>
Choose     == <<"activate", "ifIdle", "ifPaid", "start">>
Disconnect == <<"deactivate", "stop">>
Suspend    == <<"suspend", "stop", "deactivate">>
Reinstate  == <<"reinstate", "tryActivate", "ifIdle", "start">>
Restart    == <<"ifAllowed", "stop", "ifIdle", "start">>
Credential == <<"link", "ifActive", "ifRunning", "stop", "ifPaid", "start">>
Erase      == <<"stop", "erase", "stop">>

Commands == {Select, Choose, Disconnect, Suspend, Reinstate, Restart, Credential, Erase}

\* todo   steps still to take
\* waits  what it waits for: an old worker to be replaced, or one it stopped
\* old    that worker
Fresh(todo) == [todo |-> todo, waits |-> "no", old |-> None]

Init ==
    /\ row = [active |-> TRUE, paid |-> TRUE, linked |-> TRUE, suspended |-> FALSE]
    /\ entry = None
    /\ worker = [i \in Ids |-> [pc |-> "gone", stopping |-> FALSE]]
    /\ call = [c \in Callers |-> Fresh(IF c = Reconciler THEN Boot ELSE <<>>)]
    /\ used = 0
    /\ late = FALSE

\* Something that is bounded happens.
Event == used < MaxEvents /\ used' = used + 1

-----------------------------------------------------------------------------
(* Calls.                                                                  *)

Idle(c) == call[c].todo = <<>>
At(c, step) == ~Idle(c) /\ call[c].waits = "no" /\ Head(call[c].todo) = step
Becomes(c, todo, waits, old) ==
    call' = [call EXCEPT ![c] = [todo |-> todo, waits |-> waits, old |-> old]]
Does(c, todo) == Becomes(c, todo, "no", None)
GoesOn(c) == Does(c, Tail(call[c].todo))
GivesUp(c) == Does(c, <<>>)
Waits(c, for, i) == Becomes(c, call[c].todo, for, i)

\* A command or a request arrives.  The goroutines are all alike, so it does
\* not matter which of the idle ones serves it.
Arrive(c) ==
    /\ c \in Handlers /\ Idle(c)
    /\ c = CHOOSE h \in Handlers : Idle(h)
    /\ Event
    /\ \E program \in Commands : Does(c, program)
    /\ UNCHANGED <<row, entry, worker, late>>

\* The ticker of the reconcile loop: a pass over the active servers.
Tick ==
    /\ Idle(Reconciler)
    /\ row.active
    /\ Does(Reconciler, <<"decide">>)
    /\ UNCHANGED <<row, entry, worker, used, late>>

Running == entry # None /\ ~worker[entry].stopping

Holds(step) ==
    CASE step = "ifActive"  -> row.active
      [] step = "ifAllowed" -> ~row.suspended
      [] step = "ifPaid"    -> row.paid
      [] step = "ifLinked"  -> row.linked
      [] step = "ifIdle"    -> ~Running
      [] step = "ifRunning" -> Running

\* The call reads the row, or asks the manager.
Check(c) ==
    \E step \in Reads \cup Looks :
        /\ At(c, step)
        /\ IF Holds(step) THEN GoesOn(c) ELSE GivesUp(c)
        /\ UNCHANGED <<row, entry, worker, used, late>>

DecideStart(c) == \* mutant: the reconcile loop only starts workers
    /\ At(c, "decide")
    /\ Does(c, IF row.paid THEN <<"ifIdle", "ifLinked", "start">> ELSE <<>>)
    /\ UNCHANGED <<row, entry, worker, used, late>>

DecideStop(c) == \* mutant: it leaves starting them to the commands
    /\ At(c, "decide")
    /\ Does(c, IF row.paid THEN <<>> ELSE <<"ifRunning", "stop">>)
    /\ UNCHANGED <<row, entry, worker, used, late>>

\* The reconcile loop reads the billing state and acts on it.
Decide(c) ==
    /\ At(c, "decide")
    /\ Does(c, IF row.paid THEN <<"ifIdle", "ifLinked", "start">> ELSE <<"ifRunning", "stop">>)
    /\ UNCHANGED <<row, entry, worker, used, late>>

\* A server no organization owns is never paused, and has lost the
\* organization's Nitrado connection.
Written(step) ==
    CASE step \in {"activate", "tryActivate"} -> [row EXCEPT !.active = TRUE]
      [] step = "deactivate" -> [row EXCEPT !.active = FALSE]
      [] step = "suspend"    -> [row EXCEPT !.suspended = TRUE]
      [] step = "reinstate"  -> [row EXCEPT !.suspended = FALSE]
      [] step = "link"       -> [row EXCEPT !.linked = TRUE]
      [] step = "erase"      -> [row EXCEPT !.active = FALSE, !.paid = TRUE, !.linked = FALSE]

\* Suspending what is suspended, or reinstating what is not, is refused.
Write(c) ==
    \E step \in Writes :
        /\ At(c, step)
        /\ IF step \in {"suspend", "reinstate"} /\ Written(step) = row
           THEN GivesUp(c) /\ UNCHANGED row
           ELSE GoesOn(c) /\ row' = Written(step)
        /\ UNCHANGED <<entry, worker, used, late>>

\* A query fails: only a reinstatement goes on without its write.
QueryFails(c) ==
    \E step \in Reads \cup Writes \cup {"decide"} :
        /\ At(c, step)
        /\ Event
        /\ IF step = "tryActivate" THEN GoesOn(c) ELSE GivesUp(c)
        /\ UNCHANGED <<row, entry, worker, late>>

-----------------------------------------------------------------------------
(* The manager.                                                            *)

\* No other caller holds it; the struct c waited for it has just compared.
Reusable(c, i) == worker[i].pc = "gone" /\ \A d \in Callers \ {c} : call[d].old # i

Register(c) ==
    \E i \in Ids :
        /\ i = CHOOSE j \in Ids : Reusable(c, j)
        /\ Reusable(c, i)
        /\ entry' = i
        /\ worker' = [worker EXCEPT ![i] = [pc |-> "begin", stopping |-> FALSE]]
        /\ GoesOn(c)

\* Start: refused when one runs, after a wait when one is still exiting.
Start(c) ==
    /\ At(c, "start")
    /\ \/ /\ entry = None
          /\ Register(c)
       \/ /\ Running
          /\ GivesUp(c)
          /\ UNCHANGED <<entry, worker>>
       \/ /\ entry # None /\ ~Running
          /\ Waits(c, "start", entry)
          /\ UNCHANGED <<entry, worker>>
    /\ UNCHANGED <<row, used, late>>

ReplaceUnseen(c) == Register(c) \* mutant: the map is not looked at again

\* After the wait the map is looked at again: another Start may have won.
Replace(c) ==
    IF entry \in {None, call[c].old} THEN Register(c)
    ELSE GivesUp(c) /\ UNCHANGED <<entry, worker>>

\* StopContext
Stop(c) ==
    /\ At(c, "stop")
    /\ IF entry = None
       THEN GoesOn(c) /\ UNCHANGED worker
       ELSE /\ worker' = [worker EXCEPT ![entry].stopping = TRUE]
            /\ Waits(c, "stop", entry)
    /\ UNCHANGED <<row, entry, used, late>>

Resume(c) ==
    \/ call[c].waits = "start" /\ Replace(c)
    \/ call[c].waits = "stop" /\ GoesOn(c) /\ UNCHANGED <<entry, worker>>

\* waitDone: the goroutine has exited.
Done(c) ==
    /\ call[c].waits # "no" /\ worker[call[c].old].pc = "gone"
    /\ Resume(c)
    /\ UNCHANGED <<row, used, late>>

\* waitDone: the timeout.
TimeOut(c) ==
    /\ call[c].waits # "no" /\ worker[call[c].old].pc # "gone"
    /\ Event
    /\ late' = TRUE
    /\ Resume(c)
    /\ UNCHANGED row

-----------------------------------------------------------------------------
(* The goroutine of a worker.                                              *)

Moves(i, pc) == worker' = [worker EXCEPT ![i].pc = pc]

\* The factory: the billing state, the Nitrado connection, then the worker.
Begin(i) ==
    /\ worker[i].pc = "begin"
    /\ Moves(i, IF row.paid /\ row.linked THEN "run" ELSE "failed")
    /\ UNCHANGED <<row, entry, call, used, late>>

\* An error or a panic.
Fail(i) ==
    /\ worker[i].pc \in {"begin", "run"}
    /\ Event
    /\ Moves(i, "failed")
    /\ UNCHANGED <<row, entry, call, late>>

\* Its context is cancelled: it returns, and is never restarted.
Quit(i) ==
    /\ worker[i].pc \in {"run", "failed", "backoff"} /\ worker[i].stopping
    /\ Moves(i, "leaving")
    /\ UNCHANGED <<row, entry, call, used, late>>

\* The restart gate; without an answer it allows the restart.
Judge(i) ==
    /\ worker[i].pc = "failed" /\ ~worker[i].stopping
    /\ \/ /\ Moves(i, IF row.active /\ row.linked /\ row.paid THEN "backoff" ELSE "leaving")
          /\ UNCHANGED used
       \/ Event /\ Moves(i, "backoff")
    /\ UNCHANGED <<row, entry, call, late>>

\* The backoff is over.
Retry(i) ==
    /\ worker[i].pc = "backoff"
    /\ Moves(i, "begin")
    /\ UNCHANGED <<row, entry, call, used, late>>

LeaveAny(i) == \* mutant: the entry is deleted whoever's it is
    /\ worker[i].pc = "leaving"
    /\ entry' = None
    /\ worker' = [worker EXCEPT ![i] = [pc |-> "gone", stopping |-> FALSE]]
    /\ UNCHANGED <<row, call, used, late>>

\* It takes its own entry off the map and closes done: nobody tells a struct
\* that is off the map from one whose channel is closed.
Leave(i) ==
    /\ worker[i].pc = "leaving"
    /\ entry' = IF entry = i THEN None ELSE entry
    /\ worker' = [worker EXCEPT ![i] = [pc |-> "gone", stopping |-> FALSE]]
    /\ UNCHANGED <<row, call, used, late>>

-----------------------------------------------------------------------------
(* The customer stops paying, pays again, removes the connection.           *)

Pay ==
    /\ ~row.paid
    /\ row' = [row EXCEPT !.paid = TRUE]
    /\ UNCHANGED <<entry, worker, call, used, late>>

Change ==
    /\ Event
    /\ row' \in {[row EXCEPT !.paid = FALSE], [row EXCEPT !.linked = FALSE]} \ {row}
    /\ UNCHANGED <<entry, worker, call, late>>

Step(c) == Check(c) \/ Decide(c) \/ Write(c) \/ Start(c) \/ Stop(c) \/ Done(c)

Goroutine(i) ==
    Begin(i) \/ Quit(i) \/ Judge(i) \/ Retry(i) \/ Leave(i)

Next ==
    \/ \E c \in Callers : Arrive(c) \/ Step(c) \/ QueryFails(c) \/ TimeOut(c)
    \/ Tick
    \/ \E i \in Ids : Goroutine(i) \/ Fail(i)
    \/ Pay \/ Change

Spec == Init /\ [][Next]_vars

\* The reconcile loop ticks, no goroutine stands still, and a worker whose
\* context is cancelled returns.
FairSpec ==
    /\ Spec
    /\ WF_vars(Tick)
    /\ \A c \in Callers : WF_vars(Step(c))
    /\ \A i \in Ids : WF_vars(Goroutine(i))

-----------------------------------------------------------------------------
(* Properties.                                                             *)

TypeOK ==
    /\ row \in [active : BOOLEAN, paid : BOOLEAN, linked : BOOLEAN, suspended : BOOLEAN]
    /\ entry \in Ids \cup {None}
    /\ worker \in [Ids -> [pc : {"gone", "begin", "run", "failed", "backoff", "leaving"},
                           stopping : BOOLEAN]]
    /\ call = [c \in Callers |-> call[c]]
    /\ \A c \in Callers :
        /\ call[c].waits \in {"no", "start", "stop"}
        /\ call[c].old \in Ids \cup {None}
        /\ call[c].waits # "no" => call[c].old # None
    /\ late \in BOOLEAN

\* What is on the map is alive, and what is alive is on the map, unless
\* somebody gave up waiting for it: then it was told to stop.
Owned ==
    /\ entry # None => worker[entry].pc # "gone"
    /\ \A i \in Ids : worker[i].pc # "gone" => entry = i \/ (late /\ worker[i].stopping)

\* Who waits, waits for a worker that was told to stop.
WaitsForStopped ==
    \A c \in Callers : call[c].waits # "no" =>
        worker[call[c].old].pc = "gone" \/ worker[call[c].old].stopping

WorkersInv == TypeOK /\ Owned /\ WaitsForStopped

\* Commands, endpoints, the reconcile loop and the supervisor together never
\* have two workers of a server at once, unless somebody gave up waiting for
\* one to exit.
OneFactory ==
    ~late => \A i, j \in Ids :
        worker[i].pc \in {"begin", "run"} /\ worker[j].pc \in {"begin", "run"} => i = j

\* A worker that is not on the map has been told to stop, whatever timed out:
\* no goroutine runs on where neither a stop nor the shutdown can reach it.
NoOrphan ==
    \A i \in Ids : worker[i].pc \notin {"leaving", "gone"} /\ ~worker[i].stopping => entry = i

\* A server that is connected and paid for is followed in the end, whatever
\* commands raced, failed or timed out.
RunsWhenPaid ==
    <>[](row.active /\ row.paid /\ row.linked)
        => <>[](Running /\ worker[entry].pc = "run")

\* An active server that is no longer paid for is not followed in the end.
StopsWhenPaused ==
    <>[](row.active /\ ~row.paid) => <>[](\A i \in Ids : worker[i].pc # "run")
=============================================================================
