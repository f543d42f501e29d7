----------------------------- MODULE MapSwitch -----------------------------
(***************************************************************************)
(* Changing the map of one installation (internal/app,                     *)
(* map_rotation_worker.go, with mapswitch and charwipe): the two files of  *)
(* a map are written to the server, read back, and put back when that      *)
(* fails; then, if the owner wants fresh characters, the server is         *)
(* stopped, the saved characters are deleted and it is started again.      *)
(*                                                                         *)
(* Every request and every transaction is a step; a process may end        *)
(* between any two.  The row of the switch says how far it got, and the    *)
(* next pass of any process goes on from there.  Which map comes next, and *)
(* when, is decided elsewhere: here a switch may begin at any pass.        *)
(***************************************************************************)
EXTENDS Naturals, FiniteSets

CONSTANTS
    Processes,
    Maps,         \* maps of the rotation
    Loaded,       \* the one that is loaded at first
    Bad,          \* content of a file whose upload broke off
    None,
    MaxAttempts,  \* mapRotationMaxAttempts
    MaxFailures,  \* MapRotationMaxFailures
    MaxSwitches,  \* bound on switches
    MaxMishaps    \* bound on requests and transactions that fail, processes
                  \* that end in the middle, leases that run out in a pass
                  \* and saves of the owner's settings

Files == {"gameplay", "spawns"}

Whole == [Files -> Maps \cup {Bad}]

ASSUME SwitchAssumption ==
    /\ {MaxAttempts, MaxFailures} \subseteq Nat \ {0}
    /\ {MaxSwitches, MaxMishaps} \subseteq Nat
    /\ Bad \notin Maps /\ None \notin Maps \cup Processes \cup {Bad} \cup Whole
    /\ Loaded \in Maps

VARIABLES
    enabled,   \* the owner's switch
    halted,    \* the rotation stopped until the settings are saved
    failures,  \* consecutive_failures
    sw,        \* the newest row of map_rotation_switches
    holder,    \* lease_owner
    file,      \* the two files on the server
    power,     \* the server: up, stopping, down or starting
    stops,     \* requests to stop it sent for each switch
    mem,       \* what each process holds in memory
    used,      \* switches and mishaps so far
    harm       \* what went wrong so far

vars == <<enabled, halted, failures, sw, holder, file, power, stops, mem, used, harm>>

Both(map) == [f \in Files |-> map]

\* backup    the files' content before the first write, or None
\* wipe      how far clearing the characters got
\* alarm     what staff were told to look at, for this switch or an earlier one
NoSwitch == [id |-> 0, status |-> "NONE", map |-> None, attempts |-> 0, backup |-> None,
             wipe |-> "NONE", cleared |-> FALSE, old |-> FALSE, alarm |-> {}]

\* id                 the switch it works on
\* want, live, prior  content wanted, read at first, and backed up
\* todo               files still to be written or put back
\* result, alarm      the outcome so far
\* clear              whether the characters are to be cleared
\* cleared, stopped   whether they were, and whether a stop was requested
Idle == [pc |-> "idle", id |-> 0, want |-> None, live |-> None, prior |-> None, todo |-> {},
         result |-> "NONE", alarm |-> {}, clear |-> FALSE, cleared |-> FALSE, stopped |-> FALSE]

Off == [Idle EXCEPT !.pc = "off"]

Init ==
    /\ enabled = TRUE
    /\ halted = FALSE
    /\ failures = 0
    /\ sw = NoSwitch
    /\ holder = None
    /\ file = Both(Loaded)
    /\ power = "up"
    /\ stops = [n \in 1..MaxSwitches |-> 0]
    /\ mem = [p \in Processes |-> Idle]
    /\ used = [switches |-> 0, mishaps |-> 0]
    /\ harm = {}

row == <<enabled, halted, failures, sw>>
server == <<file, power, stops>>

At(p, pc) == mem[p].pc = pc
Hold(p, m) == mem' = [mem EXCEPT ![p] = m]
Goto(p, pc) == Hold(p, [mem[p] EXCEPT !.pc = pc])

Harm(kinds) ==
    /\ used.mishaps < MaxMishaps
    /\ used' = [used EXCEPT !.mishaps = @ + 1]
    /\ harm' = harm \cup kinds

\* A request or a transaction fails.
Fault == Harm({})

Well == UNCHANGED <<used, harm>>

Pending == sw.status = "PENDING"
Mine(p) == Pending /\ sw.id = mem[p].id
InProgress(wipe) == wipe \in {"STOP_REQUESTED", "DELETED", "START_REQUESTED"}
Closed(wipe) == wipe \in {"DONE", "FAILED"}

-----------------------------------------------------------------------------
(* The lease and the pass.                                                 *)

Claim(p) == holder \in {None, p} /\ holder' = p

\* A lease nobody works under runs out; one of a long tick, during its pass.
Expire ==
    /\ holder # None
    /\ \/ mem[holder].pc \in {"off", "idle"} /\ Well
       \/ /\ mem[holder].pc \notin {"off", "idle"}
          /\ Harm({"overrun"})
    /\ holder' = None
    /\ UNCHANGED <<row, server, mem>>

\* A pass ends; giving the lease back may fail.
Release(p) ==
    /\ At(p, "end")
    /\ Hold(p, Idle)
    /\ \/ holder' = (IF holder = p THEN None ELSE holder) /\ Well
       \/ holder' = holder /\ Fault
    /\ UNCHANGED <<row, server>>

StartPass(p) ==
    /\ At(p, "idle")
    /\ enabled /\ ~halted
    /\ Claim(p)
    /\ Goto(p, "load")
    /\ UNCHANGED <<row, server, used, harm>>

SpentTried == sw.attempts >= MaxAttempts \* mutant: a switch never grows too old

Spent == sw.old \/ sw.attempts >= MaxAttempts

\* What the pass finds: nothing to do, a switch to close or to give up, or
\* one to carry on.
Load(p) ==
    /\ At(p, "load")
    /\ IF ~enabled \/ halted \/ (Pending /\ InProgress(sw.wipe)) THEN Goto(p, "end")
       ELSE IF ~Pending THEN Goto(p, "begin") \/ Goto(p, "end")
       ELSE IF Closed(sw.wipe) THEN Hold(p, [mem[p] EXCEPT !.pc = "finish", !.id = sw.id, !.result = "APPLIED"])
       ELSE IF Spent THEN Hold(p, [mem[p] EXCEPT !.pc = "finish", !.id = sw.id, !.result = "FAILED",
                                                 !.alarm = IF sw.backup # None THEN {"files"} ELSE {}])
       ELSE Goto(p, "begin")
    /\ UNCHANGED <<row, holder, server, used, harm>>

\* BeginSwitch: a new switch, or one more attempt of the one in flight.
BeginSwitch(p, map, clear) ==
    /\ At(p, "begin")
    /\ IF Pending
         THEN /\ sw' = [sw EXCEPT !.attempts = @ + 1]
              /\ Well
         ELSE /\ used.switches < MaxSwitches
              /\ used' = [used EXCEPT !.switches = @ + 1]
              /\ sw' = [NoSwitch EXCEPT !.id = used'.switches, !.status = "PENDING", !.map = map, !.attempts = 1,
                                       !.alarm = sw.alarm]
    /\ Hold(p, [mem[p] EXCEPT !.pc = "read", !.id = sw'.id, !.want = Both(sw'.map), !.prior = sw'.backup,
                              !.clear = clear /\ sw'.wipe = "NONE"])
    /\ UNCHANGED <<enabled, halted, failures, holder, server, harm>>

\* The feature is switched off in between, or the statement fails.
NotAllowed(p) ==
    /\ At(p, "begin")
    /\ Goto(p, "end")
    /\ UNCHANGED <<row, holder, server, used, harm>>

-----------------------------------------------------------------------------
(* Writing the files (mapswitch.Apply).                                    *)

Result(m, result, alarm) ==
    [m EXCEPT !.pc = "finish", !.result = result, !.alarm = alarm, !.todo = {}, !.live = None, !.prior = None]

\* Fresh characters come only after both files are in place.
Applied(m) == [Result(m, "APPLIED", {}) EXCEPT !.pc = IF m.clear THEN "claim" ELSE "finish"]

\* Everything is read and validated before the first write.
ReadFiles(p) ==
    /\ At(p, "read")
    /\ file["gameplay"] # Bad
    /\ LET todo == {f \in Files : file[f] # mem[p].want[f]}
           m == [mem[p] EXCEPT !.live = file, !.todo = todo]
       IN  Hold(p, IF todo = {} THEN Applied(m)
                   ELSE [m EXCEPT !.pc = IF m.prior = None THEN "backup" ELSE "put"])
    /\ UNCHANGED <<row, holder, server, used, harm>>

\* The server cannot be asked, or its cfggameplay.json is not valid.
CannotRead(p) ==
    /\ At(p, "read")
    /\ \/ Harm(IF mem[p].prior # None THEN {"blind"} ELSE {})
       \/ file["gameplay"] = Bad /\ Well
    /\ Hold(p, Result(mem[p], "FAILED", {}))
    /\ UNCHANGED <<row, holder, server>>

SaveSwitchBackup(p) ==
    /\ At(p, "backup")
    /\ \/ /\ Mine(p) /\ sw.backup = None
          /\ sw' = [sw EXCEPT !.backup = mem[p].live]
          /\ Hold(p, [mem[p] EXCEPT !.pc = "put"])
          /\ Well
       \/ /\ IF Mine(p) /\ sw.backup = None THEN Fault ELSE Well
          /\ Hold(p, Result(mem[p], "FAILED", {}))
          /\ UNCHANGED sw
    /\ UNCHANGED <<enabled, halted, failures, holder, server>>

\* cfggameplay.json first.
First(todo) == IF "gameplay" \in todo THEN "gameplay" ELSE "spawns"

\* What is in a file after an upload: it landed, or failed, or broke off.
Upload(f, content) ==
    \/ file' = [file EXCEPT ![f] = content] /\ Well
    \/ UNCHANGED file /\ Fault
    \/ file' = [file EXCEPT ![f] = Bad] /\ Harm({"broken"})

RollBackFirst(m, files) == \* mutant: the spawns are never put back
    [m EXCEPT !.pc = "restore", !.todo = {"gameplay"}, !.result = "ROLLED_BACK",
              !.live = IF m.prior = None THEN m.live ELSE m.prior]

\* The files that may have been written are put back from the backup.
RollBack(m, files) ==
    [m EXCEPT !.pc = "restore", !.todo = files, !.result = "ROLLED_BACK",
              !.live = IF m.prior = None THEN m.live ELSE m.prior]

AfterEach(m, f, outcome) == \* mutant: the last file is not noticed
    IF outcome = "written" THEN [m EXCEPT !.pc = "put", !.todo = @ \ {f}]
    ELSE IF f = "spawns" THEN RollBack(m, Files)
    ELSE RollBack(m, {"gameplay"})

\* How the write of a file ends.
After(m, f, outcome) ==
    IF outcome = "written"
      THEN IF m.todo = {f} THEN Applied(m) ELSE [m EXCEPT !.pc = "put", !.todo = @ \ {f}]
    ELSE IF f = "spawns"
      THEN RollBack(m, IF outcome = "uncertain" THEN Files ELSE {"gameplay"})
    ELSE IF m.prior # None THEN RollBack(m, Files)
    ELSE IF outcome = "uncertain" THEN RollBack(m, {"gameplay"})
    ELSE Result(m, "FAILED", {})

\* The file is read once more, then sent once, if it is still what was read.
Put(p) ==
    /\ At(p, "put")
    /\ LET f == First(mem[p].todo)
       IN  \/ /\ file[f] = mem[p].live[f]
              /\ Upload(f, mem[p].want[f])
              /\ Goto(p, "readback")
           \/ /\ IF file[f] = mem[p].live[f] THEN Fault ELSE Well
              /\ Hold(p, After(mem[p], f, "unchanged"))
              /\ UNCHANGED file
    /\ UNCHANGED <<row, holder, power, stops>>

OutcomeTrusting(m, f, content) == \* mutant: a file that changed was written
    IF content = m.live[f] THEN "unchanged" ELSE "written"

\* A write is judged only by reading the file back.
Outcome(m, f, content) ==
    IF content = m.want[f] THEN "written"
    ELSE IF content = m.live[f] THEN "unchanged" ELSE "uncertain"

ReadBack(p) ==
    /\ At(p, "readback")
    /\ LET f == First(mem[p].todo)
       IN  \/ Hold(p, After(mem[p], f, Outcome(mem[p], f, file[f]))) /\ Well
           \/ Hold(p, After(mem[p], f, "uncertain")) /\ Fault
    /\ UNCHANGED <<row, holder, server>>

\* A file was put back, or could not be.
Restored(m, f, ok) ==
    LET n == [m EXCEPT !.pc = "restore", !.todo = @ \ {f}, !.alarm = IF ok THEN @ ELSE {"files"}]
    IN  IF n.todo # {} THEN n
        ELSE Result(n, IF n.alarm = {} THEN "ROLLED_BACK" ELSE "FAILED", n.alarm)

Restore(p) ==
    /\ At(p, "restore")
    /\ LET f == First(mem[p].todo)
       IN  IF file[f] = mem[p].live[f]
             THEN Hold(p, Restored(mem[p], f, TRUE)) /\ UNCHANGED <<file, used, harm>>
             ELSE Upload(f, mem[p].live[f]) /\ Goto(p, "verify")
    /\ UNCHANGED <<row, holder, power, stops>>

Verify(p) ==
    /\ At(p, "verify")
    /\ LET f == First(mem[p].todo)
       IN  \/ Hold(p, Restored(mem[p], f, file[f] = mem[p].live[f])) /\ Well
           \/ Hold(p, Restored(mem[p], f, FALSE)) /\ Fault
    /\ UNCHANGED <<row, holder, server>>

\* FinishSwitch closes the row once, and the pass goes on to its end.
FinishSwitch(p) ==
    /\ At(p, "finish")
    /\ \/ /\ Mine(p)
          /\ sw' = [sw EXCEPT !.status = mem[p].result, !.alarm = @ \cup mem[p].alarm]
          /\ failures' = IF mem[p].result = "APPLIED" THEN 0 ELSE failures + 1
          /\ halted' = (halted \/ mem[p].alarm # {} \/ failures' >= MaxFailures)
          /\ Well
       \/ /\ IF Mine(p) THEN Fault ELSE Well
          /\ UNCHANGED <<sw, failures, halted>>
    /\ Goto(p, "end")
    /\ UNCHANGED <<enabled, holder, server>>

-----------------------------------------------------------------------------
(* Fresh characters (charwipe).                                            *)

\* The clearing runs under a lease of its own, taken now; without it, or
\* without the file, the server is left running.
ClaimWipe(p) ==
    /\ At(p, "claim")
    /\ \/ Claim(p) /\ Goto(p, "stop") /\ Well
       \/ /\ IF holder \in {None, p} THEN Fault ELSE Well
          /\ UNCHANGED holder /\ Goto(p, "close")
    /\ UNCHANGED <<row, server>>

SetAnyWipeState(p, state) == \* mutant: a second stop is not refused
    Mine(p) /\ sw' = [sw EXCEPT !.wipe = state]

\* A state is stored before its step: the first only once, the others only
\* while a clearing is in progress.
SetWipeState(p, state) ==
    /\ Mine(p)
    /\ IF state = "STOP_REQUESTED" THEN sw.wipe = "NONE" ELSE InProgress(sw.wipe)
    /\ sw' = [sw EXCEPT !.wipe = state,
                        !.cleared = IF state = "DELETED" THEN TRUE
                                    ELSE IF state = "STOP_REQUESTED" THEN FALSE ELSE @]

\* Storing a state may fail; only the first one is needed to go on.
Stored(p, state) ==
    \/ SetWipeState(p, state) /\ Well
    \/ UNCHANGED sw /\ Fault
    \/ UNCHANGED <<sw, used, harm>> /\ ~(Mine(p) /\ InProgress(sw.wipe))

SaveStop(p) ==
    /\ At(p, "stop")
    /\ \/ /\ SetWipeState(p, "STOP_REQUESTED")
          /\ Goto(p, "send") /\ Well
       \/ /\ IF Mine(p) /\ sw.wipe = "NONE" THEN Fault ELSE Well
          /\ UNCHANGED sw /\ Goto(p, "close")
    /\ UNCHANGED <<enabled, halted, failures, holder, server>>

SendStop(p) ==
    /\ At(p, "send")
    /\ stops' = [stops EXCEPT ![mem[p].id] = @ + 1]
    /\ \/ power' = "stopping" /\ Well
       \/ power' = power /\ Fault
    /\ Hold(p, [mem[p] EXCEPT !.pc = "wait", !.stopped = TRUE])
    /\ UNCHANGED <<row, holder, file>>

\* Stopped: the file is deleted and the folder listed again.  A server that
\* does not stop in time keeps its file.
WaitStopped(p) ==
    /\ At(p, "wait")
    /\ \/ /\ power = "down"
          /\ \E gone \in BOOLEAN : Hold(p, [mem[p] EXCEPT !.pc = IF gone THEN "deleted" ELSE "start", !.cleared = gone])
       \/ Goto(p, "start")
    /\ UNCHANGED <<row, holder, server, used, harm>>

SaveDeleted(p) ==
    /\ At(p, "deleted")
    /\ Stored(p, "DELETED")
    /\ Goto(p, "start")
    /\ UNCHANGED <<enabled, halted, failures, holder, server>>

SaveStart(p) ==
    /\ At(p, "start")
    /\ Stored(p, "START_REQUESTED")
    /\ Goto(p, "restart")
    /\ UNCHANGED <<enabled, halted, failures, holder, server>>

\* The request is sent, again and again, while the server is not starting.
Restart(p) ==
    /\ At(p, "restart")
    /\ \/ power' = "starting" /\ Well
       \/ power' = power /\ Fault
    /\ Goto(p, "watch")
    /\ UNCHANGED <<row, holder, file, stops>>

\* Seen starting, not yet, or not in time.
Watch(p) ==
    /\ At(p, "watch")
    /\ \/ power \in {"up", "starting"} /\ Goto(p, "close") /\ Well
       \/ Fault /\ Goto(p, "restart")
       \/ /\ power \in {"stopping", "down"}
          /\ Goto(p, "restart") \/ Hold(p, [mem[p] EXCEPT !.pc = "close", !.alarm = {"down"}])
          /\ Well
    /\ UNCHANGED <<row, holder, server>>

CloseAnyway(m) == "finish" \* mutant: the switch is closed though its outcome is not stored

\* Where a pass goes when CloseWipe failed: a switch whose server was stopped
\* stays for the next tick to look at.
AfterClose(m) == IF m.stopped THEN "end" ELSE "finish"

CloseWipe(p) ==
    /\ At(p, "close")
    /\ LET m == [mem[p] EXCEPT !.pc = "finish", !.result = "APPLIED", !.alarm = {}]
       IN  \/ /\ Mine(p) /\ ~Closed(sw.wipe)
              /\ sw' = [sw EXCEPT !.wipe = IF mem[p].cleared /\ mem[p].alarm = {} THEN "DONE" ELSE "FAILED",
                                  !.cleared = mem[p].cleared, !.alarm = @ \cup mem[p].alarm]
              /\ halted' = (halted \/ mem[p].alarm # {})
              /\ Hold(p, m)
              /\ Well
           \/ /\ IF Mine(p) /\ ~Closed(sw.wipe) THEN Fault ELSE Well
              /\ Hold(p, [m EXCEPT !.pc = AfterClose(mem[p])])
              /\ UNCHANGED <<sw, halted>>
    /\ UNCHANGED <<enabled, failures, holder, server>>

WipesWithoutStart == \* mutant: a start that was requested is taken for done
    Pending /\ sw.wipe \in {"STOP_REQUESTED", "DELETED"}

WipesInProgress == Pending /\ InProgress(sw.wipe)

\* The tick first looks for a clearing that was interrupted, whatever the
\* owner switched off since.
RecoverWipe(p) ==
    /\ At(p, "idle")
    /\ WipesInProgress
    /\ Claim(p)
    /\ Goto(p, "recover")
    /\ UNCHANGED <<row, server, used, harm>>

\* Nothing is stopped or deleted again: the server is started, unless it is
\* seen starting; if nobody can be asked for too long, a person must look.
Resume(p) ==
    /\ At(p, "recover")
    /\ LET m == [mem[p] EXCEPT !.id = sw.id, !.cleared = sw.cleared, !.stopped = TRUE]
       IN  \/ ~WipesInProgress /\ Goto(p, "end") /\ Well
           \/ /\ WipesInProgress
              /\ \/ /\ IF sw.wipe = "START_REQUESTED" /\ power \in {"up", "starting"}
                         THEN Hold(p, [m EXCEPT !.pc = "close"])
                         ELSE Hold(p, [m EXCEPT !.pc = "start"])
                    /\ Well
                 \/ /\ Fault
                    /\ Goto(p, "end") \/ Hold(p, [m EXCEPT !.pc = "close", !.alarm = {"down"}])
    /\ UNCHANGED <<row, holder, server>>

-----------------------------------------------------------------------------
(* Time, the server, the owner and the processes.                          *)

\* Half an hour after it began a switch is no longer carried on.
GrowOld ==
    /\ Pending /\ ~sw.old
    /\ sw' = [sw EXCEPT !.old = TRUE]
    /\ UNCHANGED <<enabled, halted, failures, holder, server, mem, used, harm>>

Server ==
    /\ \/ power = "stopping" /\ power' = "down"
       \/ power = "starting" /\ power' = "up"
    /\ UNCHANGED <<row, holder, file, stops, mem, used, harm>>

\* The owner saves the settings, which clears a halt.
Save(on) ==
    /\ enabled' = on
    /\ halted' = FALSE
    /\ failures' = 0
    /\ Harm({})
    /\ UNCHANGED <<sw, holder, server, mem>>

Crash(p) ==
    /\ mem[p].pc \notin {"off", "idle"}
    /\ Fault
    /\ Hold(p, Off)
    /\ UNCHANGED <<row, holder, server>>

Start(p) ==
    /\ At(p, "off")
    /\ Hold(p, Idle)
    /\ UNCHANGED <<row, holder, server, used, harm>>

Step(p) ==
    \/ Load(p) \/ NotAllowed(p)
    \/ \E map \in Maps, clear \in BOOLEAN : BeginSwitch(p, map, clear)
    \/ ReadFiles(p) \/ CannotRead(p) \/ SaveSwitchBackup(p)
    \/ Put(p) \/ ReadBack(p) \/ Restore(p) \/ Verify(p) \/ FinishSwitch(p)
    \/ ClaimWipe(p) \/ SaveStop(p) \/ SendStop(p) \/ WaitStopped(p) \/ SaveDeleted(p)
    \/ SaveStart(p) \/ Restart(p) \/ Watch(p) \/ CloseWipe(p) \/ Resume(p)
    \/ Release(p)

Next ==
    \/ \E p \in Processes : StartPass(p) \/ RecoverWipe(p) \/ Step(p) \/ Crash(p) \/ Start(p)
    \/ Expire \/ GrowOld \/ Server
    \/ \E on \in BOOLEAN : Save(on)

Spec == Init /\ [][Next]_vars

\* A process that ended is started again; its ticks and their steps go on,
\* time passes, and the server stops and starts as it was told.
Fairness ==
    /\ \A p \in Processes :
        /\ WF_vars(Start(p)) /\ WF_vars(Step(p))
        /\ SF_vars(StartPass(p)) /\ SF_vars(RecoverWipe(p))
    /\ WF_vars(Expire) /\ WF_vars(GrowOld) /\ WF_vars(Server)

FairSpec == Spec /\ Fairness

-----------------------------------------------------------------------------
(* Properties.                                                             *)

Content == Whole \cup {None}

Results == {"NONE", "APPLIED", "FAILED", "ROLLED_BACK"}

Alarms == SUBSET {"files", "down"}

Writing == {"put", "readback"}
Restoring == {"restore", "verify"}
Wiping == {"send", "wait", "deleted", "start", "restart", "watch"}

\* A process that writes has a file to write and what to write in it, and one
\* that finishes has a result.
Memory ==
    {m \in [pc : {"off", "idle", "load", "begin", "read", "backup", "finish", "claim", "stop", "close",
                  "recover", "end"} \cup Writing \cup Restoring \cup Wiping,
            id : 0..MaxSwitches, want : Content, live : Content, prior : Content, todo : SUBSET Files,
            result : Results, alarm : Alarms, clear : BOOLEAN, cleared : BOOLEAN, stopped : BOOLEAN] :
        /\ m.pc \in {"read", "backup"} \cup Writing => m.want \in Whole
        /\ m.pc \in {"backup"} \cup Writing \cup Restoring => m.live \in Whole
        /\ m.pc \in {"backup"} \cup Writing \cup Restoring => m.todo # {}
        /\ m.pc = "finish" => m.result # "NONE"}

TypeOK ==
    /\ enabled \in BOOLEAN /\ halted \in BOOLEAN /\ failures \in Nat
    /\ sw \in [id : 0..MaxSwitches, status : Results \cup {"PENDING"}, map : Maps \cup {None},
               attempts : Nat, backup : Content,
               wipe : {"NONE", "STOP_REQUESTED", "DELETED", "START_REQUESTED", "DONE", "FAILED"},
               cleared : BOOLEAN, old : BOOLEAN, alarm : Alarms]
    /\ Pending => sw.map \in Maps
    /\ holder \in Processes \cup {None}
    /\ file \in Whole
    /\ power \in {"up", "stopping", "down", "starting"}
    /\ stops \in [1..MaxSwitches -> Nat]
    /\ mem \in [Processes -> Memory]
    /\ used \in [switches : 0..MaxSwitches, mishaps : Nat]
    /\ harm \subseteq {"overrun", "blind", "broken"}

\* The server would boot with files of two maps, or a broken one.
Mixed == \A map \in Maps : file # Both(map)

\* When no switch is in flight the two files are of one map, or staff were
\* told to look, whatever failed, crashed or was saved in between.  Retries
\* that could not read the server are excepted, and broken uploads.
FilesAgree ==
    harm = {} =>
        (Mixed => Pending \/ "files" \in sw.alarm)

\* A server is stopped at most once for a switch, by whichever processes.
StoppedOnce == \A n \in DOMAIN stops : stops[n] <= 1

\* A server Champion stopped is known to be down: the switch says so, or a
\* process is about to start it, or staff were told.
DownTracked ==
    "overrun" \notin harm =>
        (power \in {"stopping", "down"} => WipesInProgress \/ "down" \in sw.alarm)

\* A switch is recorded as applied only when both files are in place.
AppliedInPlace ==
    [][Pending /\ sw'.status = "APPLIED" /\ "overrun" \notin harm => file = Both(sw.map)]_vars

\* A server Champion stopped comes up again, or staff are told.
ServerUpAgain == []<>(power = "up" \/ "down" \in sw.alarm \/ "overrun" \in harm)

\* A switch in flight ends, unless the owner or a halt stops the rotation.
SwitchEnds == []<>(~Pending \/ ~enabled \/ halted)
=============================================================================
