-------------------------- MODULE MapSwitchProofs --------------------------
(***************************************************************************)
(* Proofs about MapSwitch, for any number of processes, maps, switches,    *)
(* attempts and mishaps.                                                   *)
(*                                                                         *)
(* TypeCorrect and StopsSafe need no lease: StopsCounted says that no stop *)
(* was sent for a switch whose wipe was not begun, and that one process at *)
(* most is about to send one.  The others rest on the lease.  Leased says  *)
(* that only its holder works, so a process may trust what it remembers;   *)
(* Orderly and Faithful say what that is, at each point of a pass.         *)
(***************************************************************************)
EXTENDS MapSwitch, TLAPS

Works(p) == mem[p].pc \notin {"off", "idle"}

\* No stop was sent for a switch that is not there yet or whose wipe was not
\* begun.
StopsOf(n) ==
    /\ stops[n] <= 1
    /\ n > sw.id \/ (n = sw.id /\ sw.wipe = "NONE") => stops[n] = 0

\* Who is about to send a stop is the only one, and it is the first one.
StopReady(p) ==
    /\ mem[p].id <= sw.id
    /\ At(p, "send") =>
        /\ mem[p].id >= 1 /\ stops[mem[p].id] = 0
        /\ mem[p].id = sw.id => sw.wipe # "NONE"
        /\ \A q \in Processes : At(q, "send") /\ mem[q].id = mem[p].id => q = p

StopsCounted ==
    /\ sw.id = used.switches
    /\ Pending => sw.id >= 1
    /\ \A n \in DOMAIN stops : StopsOf(n)
    /\ \A p \in Processes : StopReady(p)

\* Whoever works has the lease, unless a lease ran out during a pass.
Leased == "overrun" \notin harm => \A p \in Processes : Works(p) => holder = p

\* Who is past the start of a pass works on the switch in flight, and who has
\* not come to the wipe of it finds that wipe not begun.
OwnSwitch(p) ==
    /\ mem[p].pc \notin {"off", "idle", "load", "begin", "recover", "end"} => Mine(p)
    /\ mem[p].pc \in {"begin", "read", "backup", "claim", "stop"} \cup Writing \cup Restoring /\ Pending
        => sw.wipe = "NONE"

\* A stop is sent only after it was stored, and what a pass knows of the
\* server when it closes the wipe or the switch is so.
ServerKnown(p) ==
    /\ At(p, "send") => InProgress(sw.wipe)
    /\ mem[p].pc \in Wiping \ {"send"} => mem[p].stopped
    /\ At(p, "finish") => ~InProgress(sw.wipe)
    /\ At(p, "close") /\ InProgress(sw.wipe) =>
        mem[p].stopped /\ (power \in {"up", "starting"} \/ "down" \in mem[p].alarm)

\* Which of the wanted files are in place.
InPlace(p) ==
    /\ mem[p].pc \in {"read", "backup"} \cup Writing => mem[p].want = Both(sw.map)
    /\ mem[p].pc \in {"backup"} \cup Writing => \A f \in Files \ mem[p].todo : file[f] = mem[p].want[f]
    /\ mem[p].pc \in {"claim", "stop", "close"} \cup Wiping => file = Both(sw.map)
    /\ At(p, "finish") /\ mem[p].result = "APPLIED" => file = Both(sw.map)

WipedInPlace == Pending /\ sw.wipe # "NONE" => file = Both(sw.map)

DownKnown == power \in {"stopping", "down"} => WipesInProgress \/ "down" \in sw.alarm

Sound(p) == OwnSwitch(p) /\ ServerKnown(p) /\ InPlace(p)

Orderly ==
    "overrun" \notin harm =>
        WipedInPlace /\ DownKnown /\ \A p \in Processes : Sound(p)

\* The backup of the switch in flight is of one map, and every file has the
\* backup's content or the wanted one.
BackedUp ==
    /\ ~Pending \/ sw.backup = None => ~Mixed
    /\ Pending /\ sw.backup # None =>
        /\ \E map \in Maps : sw.backup = Both(map)
        /\ \A f \in Files : file[f] \in {sw.backup[f], sw.map}

\* What a pass read, and what it still has to write, is as it was.
ReadsTrue(p) ==
    LET m == mem[p]
    IN  /\ m.pc \in {"read", "backup"} => m.prior = sw.backup
        /\ m.pc = "backup" => m.live = file /\ m.prior = None
        /\ m.pc \in Writing =>
            /\ sw.backup = (IF m.prior = None THEN m.live ELSE m.prior)
            /\ \A f \in m.todo : m.live[f] = sw.backup[f]
            /\ \A f \in m.todo : file[f] = m.live[f] \/ (m.pc = "readback" /\ f = First(m.todo))
            /\ "gameplay" \in m.todo => file["spawns"] = m.live["spawns"]
        /\ m.pc \in Restoring =>
            /\ sw.backup = m.live
            /\ "files" \notin m.alarm => \A f \in Files \ m.todo : file[f] = m.live[f]
        /\ m.pc = "finish" => "files" \in m.alarm \/ ~Mixed

Faithful ==
    harm = {} /\ "files" \notin sw.alarm =>
        BackedUp /\ \A p \in Processes : ReadsTrue(p)

SwitchInv == TypeOK /\ StopsCounted /\ Leased /\ Orderly /\ Faithful

-----------------------------------------------------------------------------
(* Types.                                                                  *)

\* The first state is typed.
LEMMA TypeInit == Init => TypeOK
<1> SUFFICES ASSUME Init
             PROVE  TypeOK
  OBVIOUS
<1>1. Idle \in Memory
  BY SwitchAssumption DEF Idle, Memory, Content, Results, Alarms, Writing, Restoring, Wiping
<1>2. file \in Whole
  BY SwitchAssumption DEF Init, Both, Whole
<1>3. sw \in [id : 0..MaxSwitches, status : Results \cup {"PENDING"}, map : Maps \cup {None},
              attempts : Nat, backup : Content,
              wipe : {"NONE", "STOP_REQUESTED", "DELETED", "START_REQUESTED", "DONE", "FAILED"},
              cleared : BOOLEAN, old : BOOLEAN, alarm : Alarms]
  BY SwitchAssumption DEF Init, NoSwitch, Content, Results, Alarms
<1>4. ~Pending
  BY DEF Init, NoSwitch, Pending
<1>5. /\ mem \in [Processes -> Memory]
      /\ stops \in [1..MaxSwitches -> Nat]
      /\ used \in [switches : 0..MaxSwitches, mishaps : Nat]
  BY <1>1, SwitchAssumption DEF Init
<1> QED
  BY <1>2, <1>3, <1>4, <1>5 DEF Init, TypeOK

\* A step of a process that leaves it a typed memory.
LEMMA HoldsType ==
    ASSUME TypeOK, NEW p \in Processes, NEW m \in Memory, Hold(p, m)
    PROVE  mem' \in [Processes -> Memory]
  BY DEF TypeOK, Hold

\* Steps that only move a process on, to a point where nothing is asked of its memory.
LEMMA GotoType ==
    ASSUME TypeOK, NEW p \in Processes,
           NEW pc \in {"idle", "load", "begin", "claim", "stop", "close", "recover", "end"} \cup Wiping
    PROVE  [mem[p] EXCEPT !.pc = pc] \in Memory
<1>1. mem[p] \in Memory
  BY DEF TypeOK
<1> QED
  BY <1>1 DEF Memory, Writing, Restoring, Wiping

\* What a pass finds is typed.
LEMMA LoadType ==
    ASSUME TypeOK, NEW p \in Processes, Load(p)
    PROVE  TypeOK'
<1>1. mem[p] \in Memory
  BY DEF TypeOK
<1>2. sw.id \in 0..MaxSwitches
  BY DEF TypeOK
<1>3. \A result \in {"APPLIED", "FAILED"}, alarm \in Alarms :
         [mem[p] EXCEPT !.pc = "finish", !.id = sw.id, !.result = result, !.alarm = alarm] \in Memory
  <2> SUFFICES ASSUME NEW result \in {"APPLIED", "FAILED"}, NEW alarm \in Alarms
               PROVE  [mem[p] EXCEPT !.pc = "finish", !.id = sw.id, !.result = result, !.alarm = alarm]
                        \in Memory
    OBVIOUS
  <2> QED
    BY <1>1, <1>2 DEF Memory, Results, Writing, Restoring, Wiping
<1>4. [mem[p] EXCEPT !.pc = "finish", !.id = sw.id, !.result = "APPLIED"] \in Memory
  BY <1>1, <1>2 DEF Memory, Results, Writing, Restoring, Wiping
<1>5. \E m \in Memory : Hold(p, m)
  BY <1>3, <1>4, GotoType DEF Load, Goto, Alarms
<1> QED
  BY <1>5, HoldsType DEF Load, TypeOK, row, server, Pending

\* A switch that begins, or goes on, is typed.
LEMMA BeginType ==
    ASSUME TypeOK, NEW p \in Processes, NEW map \in Maps, NEW clear \in BOOLEAN, BeginSwitch(p, map, clear)
    PROVE  TypeOK'
<1>1. mem[p] \in Memory
  BY DEF TypeOK
<1>2. /\ sw' \in [id : 0..MaxSwitches, status : Results \cup {"PENDING"}, map : Maps \cup {None},
                  attempts : Nat, backup : Content,
                  wipe : {"NONE", "STOP_REQUESTED", "DELETED", "START_REQUESTED", "DONE", "FAILED"},
                  cleared : BOOLEAN, old : BOOLEAN, alarm : Alarms]
      /\ sw'.map \in Maps
      /\ used' \in [switches : 0..MaxSwitches, mishaps : Nat]
  <2>1. CASE Pending
    BY <2>1 DEF BeginSwitch, TypeOK, Pending, Well
  <2>2. CASE ~Pending
    <3>1. used'.switches \in 0..MaxSwitches /\ used' \in [switches : 0..MaxSwitches, mishaps : Nat]
      BY <2>2, SwitchAssumption DEF BeginSwitch, TypeOK
    <3>2. sw.alarm \in Alarms /\ None \in Content
      BY DEF TypeOK, Content
    <3>3. sw' = [id |-> used'.switches, status |-> "PENDING", map |-> map, attempts |-> 1, backup |-> None,
                 wipe |-> "NONE", cleared |-> FALSE, old |-> FALSE, alarm |-> sw.alarm]
      BY <2>2 DEF BeginSwitch, NoSwitch
    <3> QED
      BY <3>1, <3>2, <3>3
  <2> QED
    BY <2>1, <2>2
<1>3. Both(sw'.map) \in Whole
  BY <1>2 DEF Both, Whole
<1>4. \E m \in Memory : Hold(p, m)
  <2>1. \A id \in 0..MaxSwitches, want \in Whole, prior \in Content, b \in BOOLEAN :
           [mem[p] EXCEPT !.pc = "read", !.id = id, !.want = want, !.prior = prior, !.clear = b] \in Memory
    <3> SUFFICES ASSUME NEW id \in 0..MaxSwitches, NEW want \in Whole, NEW prior \in Content,
                        NEW b \in BOOLEAN
                 PROVE  [mem[p] EXCEPT !.pc = "read", !.id = id, !.want = want, !.prior = prior, !.clear = b]
                          \in Memory
      OBVIOUS
    <3> QED
      <4>1. want \in Content
        BY DEF Content
      <4> QED
        BY <1>1, <4>1 DEF Memory, Writing, Restoring, Wiping
  <2>2. (clear /\ sw'.wipe = "NONE") \in BOOLEAN
    OBVIOUS
  <2> QED
    BY <1>2, <1>3, <2>1, <2>2, Zenon DEF BeginSwitch
<1>5. mem' \in [Processes -> Memory]
  BY <1>4, HoldsType
<1> QED
  BY <1>2, <1>5 DEF BeginSwitch, TypeOK, server

\* How a pass ends.
LEMMA ResultType ==
    ASSUME NEW m \in Memory, NEW result \in {"APPLIED", "FAILED", "ROLLED_BACK"}, NEW alarm \in Alarms
    PROVE  /\ Result(m, result, alarm) \in Memory
           /\ [Result(m, result, alarm) EXCEPT !.pc = "claim"] \in Memory
<1>1. None \in Content /\ {} \in SUBSET Files
  BY DEF Content
<1>2. Result(m, result, alarm) \in Memory
  BY <1>1 DEF Result, Memory, Results, Writing, Restoring, Wiping
<1>3. [Result(m, result, alarm) EXCEPT !.pc = "claim"] \in Memory
  BY <1>2 DEF Memory, Writing, Restoring, Wiping
<1> QED
  BY <1>2, <1>3

\* A pass that wrote both files.
LEMMA AppliedType ==
    ASSUME NEW m \in Memory
    PROVE  Applied(m) \in Memory
<1>1. CASE m.clear
  BY <1>1, ResultType DEF Applied, Alarms
<1>2. CASE ~m.clear
  <2>1. Applied(m) = [Result(m, "APPLIED", {}) EXCEPT !.pc = "finish"]
    BY <1>2 DEF Applied
  <2>2. @ = Result(m, "APPLIED", {})
    BY DEF Result, Memory
  <2> QED
    <3>1. Result(m, "APPLIED", {}) \in Memory
      BY ResultType DEF Alarms
    <3> QED
      BY <2>1, <2>2, <3>1, Zenon
<1> QED
  BY <1>1, <1>2

\* A pass that puts files back has files to put back.
LEMMA RollBackType ==
    ASSUME NEW m \in Memory, m.pc \in Writing, NEW files \in SUBSET Files, files # {}
    PROVE  RollBack(m, files) \in Memory
  BY ZenonT(40) DEF RollBack, Memory, Results, Content, Writing, Restoring, Wiping

\* The file to write is one of those still to be written.
LEMMA FirstType ==
    ASSUME NEW todo \in SUBSET Files, todo # {}
    PROVE  First(todo) \in todo
  BY DEF First, Files

\* How the write of a file ends.
LEMMA AfterType ==
    ASSUME NEW m \in Memory, m.pc \in Writing, NEW outcome \in {"written", "unchanged", "uncertain"}
    PROVE  After(m, First(m.todo), outcome) \in Memory
<1> DEFINE f == First(m.todo)
<1>1. m.todo \in SUBSET Files /\ f \in m.todo
  BY FirstType DEF Memory
<1>2. CASE outcome = "written"
  <2>1. CASE m.todo = {f}
    BY <1>2, <2>1, AppliedType DEF After
  <2>2. CASE m.todo # {f}
    <3>1. [m EXCEPT !.pc = "put", !.todo = @ \ {f}] \in Memory
      BY <1>1, <2>2 DEF Memory, Writing, Restoring, Wiping
    <3> QED
      BY <1>2, <2>2, <3>1 DEF After
  <2> QED
    BY <2>1, <2>2
<1>3. CASE outcome # "written"
  <2>1. /\ RollBack(m, Files) \in Memory
        /\ RollBack(m, {"gameplay"}) \in Memory
    BY RollBackType DEF Files
  <2>2. Result(m, "FAILED", {}) \in Memory
    BY ResultType DEF Alarms
  <2> QED
    BY <1>3, <2>1, <2>2 DEF After
<1> QED
  BY <1>2, <1>3

\* How putting a file back ends.
LEMMA RestoredType ==
    ASSUME NEW m \in Memory, m.pc \in Restoring, NEW ok \in BOOLEAN
    PROVE  Restored(m, First(m.todo), ok) \in Memory
<1> DEFINE n == [m EXCEPT !.pc = "restore", !.todo = @ \ {First(m.todo)}, !.alarm = IF ok THEN @ ELSE {"files"}]
<1>1. n.todo # {} => n \in Memory
  BY DEF Memory, Alarms, Writing, Restoring, Wiping
<1>2. \A result \in {"ROLLED_BACK", "FAILED"} : Result(n, result, n.alarm) \in Memory
  <2> SUFFICES ASSUME NEW result \in {"ROLLED_BACK", "FAILED"}
               PROVE  Result(n, result, n.alarm) \in Memory
    OBVIOUS
  <2>1. None \in Content /\ {} \in SUBSET Files /\ n.alarm \in Alarms
    BY DEF Content, Memory, Alarms
  <2>2. Result(n, result, n.alarm)
         = [m EXCEPT !.pc = "finish", !.todo = {}, !.live = None, !.prior = None, !.result = result,
                     !.alarm = n.alarm]
    BY DEF Result, Memory
  <2>3. [m EXCEPT !.pc = "finish", !.todo = {}, !.live = None, !.prior = None, !.result = result,
                  !.alarm = n.alarm] \in Memory
    BY <2>1 DEF Memory, Results, Writing, Restoring, Wiping
  <2> QED
    BY <2>2, <2>3
<1> QED
  BY <1>1, <1>2 DEF Restored

\* What uploads leave in a file is one map's or broken.
LEMMA UploadType ==
    ASSUME TypeOK, NEW f \in Files, NEW content \in Maps \cup {Bad}, Upload(f, content)
    PROVE  /\ file' \in Whole
           /\ used' \in [switches : 0..MaxSwitches, mishaps : Nat]
           /\ harm' \subseteq {"overrun", "blind", "broken"}
  BY DEF Upload, TypeOK, Well, Fault, Harm, Whole

\* Mishaps are counted.
LEMMA MishapType ==
    ASSUME TypeOK, Well \/ Fault \/ Harm({"overrun"}) \/ Harm({"blind"}) \/ Harm({})
    PROVE  /\ used' \in [switches : 0..MaxSwitches, mishaps : Nat]
           /\ harm' \subseteq {"overrun", "blind", "broken"}
  BY DEF TypeOK, Well, Fault, Harm

\* The steps that write the files.
LEMMA WriteType ==
    ASSUME TypeOK, NEW p \in Processes,
           ReadFiles(p) \/ CannotRead(p) \/ SaveSwitchBackup(p) \/ Put(p) \/ ReadBack(p)
           \/ Restore(p) \/ Verify(p)
    PROVE  TypeOK'
<1> DEFINE f == First(mem[p].todo)
<1>1. mem[p] \in Memory
  BY DEF TypeOK
<1>2. mem[p].pc \in Writing \cup Restoring => f \in Files /\ mem[p].live[f] \in Maps \cup {Bad}
  BY <1>1, FirstType DEF Memory, Whole
<1>3. mem[p].pc \in Writing => mem[p].want[f] \in Maps \cup {Bad}
  BY <1>1, FirstType DEF Memory, Whole
<1>4. CASE ReadFiles(p)
  <2>1. file \in Content
    BY DEF TypeOK, Content
  <2>2. mem[p].want \in Whole /\ file \in Whole
    BY <1>1, <1>4 DEF ReadFiles, At, Memory, TypeOK
  <2>3. \A todo \in SUBSET Files, pc \in {"backup", "put"} : todo # {} =>
            [[mem[p] EXCEPT !.live = file, !.todo = todo] EXCEPT !.pc = pc] \in Memory
    BY <1>1, <2>1, <2>2 DEF Memory, Writing, Restoring, Wiping
  <2>4. [mem[p] EXCEPT !.live = file, !.todo = {}] \in Memory
    BY <1>1, <1>4, <2>1 DEF ReadFiles, At, Memory, Writing, Restoring, Wiping
  <2>5. \E m \in Memory : Hold(p, m)
    BY <1>4, <2>3, <2>4, AppliedType DEF ReadFiles
  <2> QED
    BY <1>4, <2>5, HoldsType DEF ReadFiles, TypeOK, row, server, Pending
<1>5. CASE CannotRead(p)
  <2>1. \E m \in Memory : Hold(p, m)
    BY <1>1, <1>5, ResultType DEF CannotRead, Alarms
  <2>2. Well \/ Harm({"blind"}) \/ Harm({})
    BY <1>5 DEF CannotRead
  <2> QED
    BY <1>5, <2>1, <2>2, HoldsType, MishapType DEF CannotRead, TypeOK, row, server, Pending
<1>6. CASE SaveSwitchBackup(p)
  <2>1. /\ [mem[p] EXCEPT !.pc = "put"] \in Memory
        /\ mem[p].live \in Content
    BY <1>1, <1>6 DEF SaveSwitchBackup, At, Memory, Writing, Restoring, Wiping
  <2>2. mem' \in [Processes -> Memory]
    BY <1>1, <1>6, <2>1, ResultType, HoldsType DEF SaveSwitchBackup, Alarms
  <2>3. sw' = sw \/ sw' = [sw EXCEPT !.backup = mem[p].live]
    BY <1>6 DEF SaveSwitchBackup
  <2>4. Well \/ Fault
    BY <1>6 DEF SaveSwitchBackup
  <2> QED
    BY <1>6, <2>1, <2>2, <2>3, <2>4, MishapType DEF SaveSwitchBackup, TypeOK, server, Pending
<1>7. CASE Put(p)
  <2>1. mem[p].pc \in Writing
    BY <1>7 DEF Put, At, Writing
  <2>2. [mem[p] EXCEPT !.pc = "readback"] \in Memory
    BY <1>1, <2>1 DEF Memory, Writing, Restoring, Wiping
  <2>3. mem' \in [Processes -> Memory]
    BY <1>1, <1>7, <2>1, <2>2, HoldsType, AfterType DEF Put, Goto
  <2>4. file' \in Whole /\ used' \in [switches : 0..MaxSwitches, mishaps : Nat]
        /\ harm' \subseteq {"overrun", "blind", "broken"}
    BY <1>2, <1>3, <1>7, <2>1, UploadType, MishapType DEF Put, TypeOK
  <2> QED
    BY <1>7, <2>3, <2>4 DEF Put, TypeOK, row, Pending
<1>8. CASE ReadBack(p)
  <2>1. mem[p].pc \in Writing
    BY <1>8 DEF ReadBack, At, Writing
  <2>2. Outcome(mem[p], f, file[f]) \in {"written", "unchanged", "uncertain"}
    BY DEF Outcome
  <2>3. mem' \in [Processes -> Memory]
    BY <1>1, <1>8, <2>1, <2>2, HoldsType, AfterType DEF ReadBack
  <2> QED
    BY <1>8, <2>3, MishapType DEF ReadBack, TypeOK, row, server, Pending
<1>9. CASE Restore(p)
  <2>1. mem[p].pc \in Restoring
    BY <1>9 DEF Restore, At, Restoring
  <2>2. [mem[p] EXCEPT !.pc = "verify"] \in Memory
    BY <1>1, <2>1 DEF Memory, Writing, Restoring, Wiping
  <2>3. mem' \in [Processes -> Memory]
    BY <1>1, <1>9, <2>1, <2>2, HoldsType, RestoredType DEF Restore, Goto
  <2>4. file' \in Whole /\ used' \in [switches : 0..MaxSwitches, mishaps : Nat]
        /\ harm' \subseteq {"overrun", "blind", "broken"}
    BY <1>2, <1>9, <2>1, UploadType DEF Restore, TypeOK
  <2> QED
    BY <1>9, <2>3, <2>4 DEF Restore, TypeOK, row, Pending
<1>10. CASE Verify(p)
  <2>1. mem[p].pc \in Restoring
    BY <1>10 DEF Verify, At, Restoring
  <2>2. mem' \in [Processes -> Memory]
    BY <1>1, <1>10, <2>1, HoldsType, RestoredType DEF Verify
  <2>3. Well \/ Fault
    BY <1>10 DEF Verify
  <2> QED
    BY <1>10, <2>2, <2>3, MishapType DEF Verify, TypeOK, row, server, Pending
<1> QED
  BY <1>4, <1>5, <1>6, <1>7, <1>8, <1>9, <1>10

\* The steps around the wipe, and the end of a pass.
LEMMA WipeType ==
    ASSUME TypeOK, NEW p \in Processes,
           ClaimWipe(p) \/ SaveStop(p) \/ SendStop(p) \/ WaitStopped(p) \/ SaveDeleted(p) \/ SaveStart(p)
           \/ Restart(p) \/ Watch(p) \/ CloseWipe(p) \/ Resume(p) \/ FinishSwitch(p) \/ Release(p)
    PROVE  TypeOK'
<1> DEFINE Wipes == {"NONE", "STOP_REQUESTED", "DELETED", "START_REQUESTED", "DONE", "FAILED"}
<1>1. mem[p] \in Memory
  BY DEF TypeOK
<1>2. CASE ClaimWipe(p)
  <2>1. Well \/ Fault
    BY <1>2 DEF ClaimWipe
  <2>2. mem' \in [Processes -> Memory]
    BY <1>2, GotoType, HoldsType DEF ClaimWipe, Goto, Wiping
  <2> QED
    BY <1>2, <2>1, <2>2, MishapType DEF ClaimWipe, Claim, TypeOK, row, server, Pending
<1>3. CASE SaveStop(p)
  <2>1. Well \/ Fault
    BY <1>3 DEF SaveStop
  <2>2. mem' \in [Processes -> Memory]
    BY <1>3, GotoType, HoldsType DEF SaveStop, Goto, Wiping
  <2>3. sw' = sw \/ sw' = [sw EXCEPT !.wipe = "STOP_REQUESTED", !.cleared = FALSE]
    BY <1>3 DEF SaveStop, SetWipeState
  <2> QED
    BY <1>3, <2>1, <2>2, <2>3, MishapType, ZenonT(40) DEF SaveStop, TypeOK, server, Pending
<1>4. CASE SendStop(p)
  <2>1. Well \/ Fault
    BY <1>4 DEF SendStop
  <2>2. [mem[p] EXCEPT !.pc = "wait", !.stopped = TRUE] \in Memory
    BY <1>1 DEF Memory, Writing, Restoring, Wiping
  <2>3. mem' \in [Processes -> Memory]
    BY <1>4, <2>2, HoldsType DEF SendStop
  <2>4. stops' \in [1..MaxSwitches -> Nat]
    <3>1. stops \in [1..MaxSwitches -> Nat] /\ stops' = [stops EXCEPT ![mem[p].id] = stops[mem[p].id] + 1]
      BY <1>4 DEF SendStop, TypeOK
    <3>2. \A n \in 1..MaxSwitches : stops[n] + 1 \in Nat
      BY <3>1
    <3> QED
      BY <3>1, <3>2
  <2> QED
    BY <1>4, <2>1, <2>3, <2>4, MishapType DEF SendStop, TypeOK, row, Pending
<1>5. CASE WaitStopped(p)
  <2>1. \A pc \in {"deleted", "start"}, gone \in BOOLEAN :
           [mem[p] EXCEPT !.pc = pc, !.cleared = gone] \in Memory
    BY <1>1 DEF Memory, Writing, Restoring, Wiping
  <2>2. mem' \in [Processes -> Memory]
    BY <1>5, <2>1, GotoType, HoldsType DEF WaitStopped, Goto, Wiping
  <2> QED
    BY <1>5, <2>2, ZenonT(40) DEF WaitStopped, TypeOK, row, server, Pending
<1>6. ASSUME NEW state \in {"DELETED", "START_REQUESTED"}, Stored(p, state)
      PROVE  /\ sw' = sw \/ \E cleared \in BOOLEAN : sw' = [sw EXCEPT !.wipe = state, !.cleared = cleared]
             /\ Well \/ Fault
  BY <1>6 DEF Stored, SetWipeState, TypeOK, Well
<1>7. CASE SaveDeleted(p) \/ SaveStart(p)
  <2>1. PICK state \in {"DELETED", "START_REQUESTED"} : Stored(p, state)
    BY <1>7 DEF SaveDeleted, SaveStart
  <2>2. mem' \in [Processes -> Memory]
    BY <1>7, GotoType, HoldsType DEF SaveDeleted, SaveStart, Goto, Wiping
  <2> QED
    <3>1. /\ sw' = sw \/ \E cleared \in BOOLEAN : sw' = [sw EXCEPT !.wipe = state, !.cleared = cleared]
          /\ Well \/ Fault
      BY <1>6, <2>1
    <3>2. /\ sw' \in [id : 0..MaxSwitches, status : Results \cup {"PENDING"}, map : Maps \cup {None},
                      attempts : Nat, backup : Content, wipe : Wipes,
                      cleared : BOOLEAN, old : BOOLEAN, alarm : Alarms]
          /\ Pending' => sw'.map \in Maps
      BY <3>1 DEF TypeOK, Pending
    <3> QED
      BY <1>7, <2>2, <3>1, <3>2, MishapType DEF SaveDeleted, SaveStart, TypeOK, server
<1>8. CASE Restart(p)
  <2>1. Well \/ Fault
    BY <1>8 DEF Restart
  <2>2. mem' \in [Processes -> Memory]
    BY <1>8, GotoType, HoldsType DEF Restart, Goto, Wiping
  <2> QED
    BY <1>8, <2>1, <2>2, MishapType DEF Restart, TypeOK, row, Pending
<1>9. CASE Watch(p)
  <2>1. Well \/ Fault
    BY <1>9 DEF Watch
  <2>2. [mem[p] EXCEPT !.pc = "close", !.alarm = {"down"}] \in Memory
    BY <1>1 DEF Memory, Alarms, Writing, Restoring, Wiping
  <2>3. mem' \in [Processes -> Memory]
    BY <1>9, <2>2, GotoType, HoldsType DEF Watch, Goto, Wiping
  <2> QED
    BY <1>9, <2>1, <2>3, MishapType DEF Watch, TypeOK, row, server, Pending
<1>10. CASE CloseWipe(p)
  <2>1. Well \/ Fault
    BY <1>10 DEF CloseWipe
  <2>2. \A pc \in {"finish", "end"} :
           [[mem[p] EXCEPT !.pc = "finish", !.result = "APPLIED", !.alarm = {}] EXCEPT !.pc = pc] \in Memory
    BY <1>1 DEF Memory, Results, Alarms, Writing, Restoring, Wiping
  <2>3. [mem[p] EXCEPT !.pc = "finish", !.result = "APPLIED", !.alarm = {}] \in Memory
    BY <1>1 DEF Memory, Results, Alarms, Writing, Restoring, Wiping
  <2>4. mem' \in [Processes -> Memory]
    BY <1>10, <2>2, <2>3, HoldsType DEF CloseWipe, AfterClose
  <2>5. sw' = sw \/ \E wipe \in {"DONE", "FAILED"} :
           sw' = [sw EXCEPT !.wipe = wipe, !.cleared = mem[p].cleared, !.alarm = @ \cup mem[p].alarm]
    BY <1>10 DEF CloseWipe
  <2>6. mem[p].cleared \in BOOLEAN /\ sw.alarm \cup mem[p].alarm \in Alarms
    BY <1>1 DEF Memory, TypeOK, Alarms
  <2>7. halted' \in BOOLEAN
    BY <1>10 DEF CloseWipe, TypeOK
  <2> QED
    <3>1. /\ sw' \in [id : 0..MaxSwitches, status : Results \cup {"PENDING"}, map : Maps \cup {None},
                      attempts : Nat, backup : Content, wipe : Wipes,
                      cleared : BOOLEAN, old : BOOLEAN, alarm : Alarms]
          /\ Pending' => sw'.map \in Maps
      BY <2>5, <2>6, ZenonT(40) DEF TypeOK, Pending
    <3> QED
      BY <1>10, <2>1, <2>4, <2>7, <3>1, MishapType DEF CloseWipe, TypeOK, server
<1>11. CASE Resume(p)
  <2>1. Well \/ Fault
    BY <1>11 DEF Resume
  <2>2. sw.id \in 0..MaxSwitches /\ sw.cleared \in BOOLEAN
    BY DEF TypeOK
  <2> DEFINE m == [mem[p] EXCEPT !.id = sw.id, !.cleared = sw.cleared, !.stopped = TRUE]
  <2>3. \A pc \in {"close", "start"} : [m EXCEPT !.pc = pc] \in Memory
    BY <1>1, <2>2 DEF Memory, Writing, Restoring, Wiping
  <2>4. [m EXCEPT !.pc = "close", !.alarm = {"down"}] \in Memory
    BY <1>1, <2>2 DEF Memory, Alarms, Writing, Restoring, Wiping
  <2>5. mem' \in [Processes -> Memory]
    BY <1>11, <2>3, <2>4, GotoType, HoldsType DEF Resume, Goto
  <2> QED
    BY <1>11, <2>1, <2>5, MishapType DEF Resume, TypeOK, row, server, Pending
<1>12. CASE FinishSwitch(p)
  <2>1. Well \/ Fault
    BY <1>12 DEF FinishSwitch
  <2>2. mem' \in [Processes -> Memory]
    BY <1>12, GotoType, HoldsType DEF FinishSwitch, Goto
  <2>3. mem[p].result \in Results /\ mem[p].result # "PENDING" /\ sw.alarm \cup mem[p].alarm \in Alarms
    BY <1>1 DEF Memory, TypeOK, Alarms, Results
  <2>4. sw' = sw \/ sw' = [sw EXCEPT !.status = mem[p].result, !.alarm = @ \cup mem[p].alarm]
    BY <1>12 DEF FinishSwitch
  <2>5. failures' \in Nat
    BY <1>12 DEF FinishSwitch, TypeOK
  <2>6. halted' \in BOOLEAN
    <3>1. halted \in BOOLEAN
      BY DEF TypeOK
    <3>2. (halted \/ mem[p].alarm # {} \/ failures' >= MaxFailures) \in BOOLEAN
      OBVIOUS
    <3> QED
      BY <1>12, <3>1, <3>2, Zenon DEF FinishSwitch
  <2> QED
    BY <1>12, <2>1, <2>2, <2>3, <2>4, <2>5, <2>6, MishapType, ZenonT(40) DEF FinishSwitch, TypeOK, server, Pending
<1>13. CASE Release(p)
  <2>1. Well \/ Fault
    BY <1>13 DEF Release
  <2>2. Idle \in Memory
    BY SwitchAssumption DEF Idle, Memory, Content, Results, Alarms, Writing, Restoring, Wiping
  <2> QED
    BY <1>13, <2>1, <2>2, HoldsType, MishapType DEF Release, TypeOK, row, server, Pending
<1> QED
  BY <1>2, <1>3, <1>4, <1>5, <1>7, <1>8, <1>9, <1>10, <1>11, <1>12, <1>13

\* Every step keeps the types.
LEMMA TypeNext ==
    ASSUME TypeOK, [Next]_vars
    PROVE  TypeOK'
<1> USE DEF TypeOK
<1>1. ASSUME NEW p \in Processes, StartPass(p) \/ RecoverWipe(p)
      PROVE  TypeOK'
  BY <1>1, HoldsType, GotoType DEF StartPass, RecoverWipe, Goto, Claim, row, server, Pending
<1>2. ASSUME NEW p \in Processes, Step(p)
      PROVE  TypeOK'
  <2>1. CASE NotAllowed(p)
    <3>1. [mem[p] EXCEPT !.pc = "end"] \in Memory
      BY GotoType
    <3> QED
      BY <2>1, <3>1, HoldsType DEF NotAllowed, Goto, row, server, Pending
  <2> QED
    BY <1>2, <2>1, LoadType, BeginType, WriteType, WipeType DEF Step
<1>3. ASSUME NEW p \in Processes, Crash(p) \/ Start(p)
      PROVE  TypeOK'
  <2>1. Idle \in Memory
    BY SwitchAssumption DEF Idle, Memory, Content, Results, Alarms, Writing, Restoring, Wiping
  <2>3. Off \in Memory
    BY <2>1 DEF Off, Memory, Writing, Restoring, Wiping
  <2>2. Well \/ Fault
    BY <1>3 DEF Crash, Start, Well
  <2> QED
    BY <1>3, <2>1, <2>2, <2>3, HoldsType, MishapType DEF Crash, Start, row, server, Pending
<1>4. CASE Expire
  <2>1. Well \/ Harm({"overrun"})
    BY <1>4 DEF Expire
  <2> QED
    BY <1>4, <2>1, MishapType DEF Expire, row, server, Pending
<1>5. CASE GrowOld \/ Server
  BY <1>5 DEF GrowOld, Server, row, server, Pending
<1>6. ASSUME NEW on \in BOOLEAN, Save(on)
      PROVE  TypeOK'
  BY <1>6, MishapType, ZenonT(40) DEF Save, server, Pending
<1>7. CASE UNCHANGED vars
  BY <1>7 DEF vars, Pending
<1> QED
  BY <1>1, <1>2, <1>3, <1>4, <1>5, <1>6, <1>7 DEF Next

\* The variables have their types, whatever fails.
THEOREM TypeCorrect == Spec => []TypeOK
  BY TypeInit, TypeNext, PTL DEF Spec

-----------------------------------------------------------------------------
(* Steps that neither begin a switch nor stop the server.                  *)

\* Where writing and putting back a file leads.
LEMMA AfterMoves ==
    ASSUME NEW m \in Memory, NEW f, NEW outcome
    PROVE  /\ After(m, f, outcome).pc \in {"put", "restore", "finish", "claim"}
           /\ After(m, f, outcome).id = m.id
<1>1. /\ Applied(m).pc \in {"finish", "claim"} /\ Applied(m).id = m.id
      /\ Result(m, "FAILED", {}).pc = "finish" /\ Result(m, "FAILED", {}).id = m.id
  BY DEF Applied, Result, Memory
<1>2. \A files : RollBack(m, files).pc = "restore" /\ RollBack(m, files).id = m.id
  BY DEF RollBack, Memory
<1>3. [m EXCEPT !.pc = "put", !.todo = @ \ {f}].pc = "put" /\ [m EXCEPT !.pc = "put", !.todo = @ \ {f}].id = m.id
  BY DEF Memory
<1> QED
  BY <1>1, <1>2, <1>3 DEF After

\* Where putting a file back leads.
LEMMA RestoredMoves ==
    ASSUME NEW m \in Memory, NEW f, NEW ok \in BOOLEAN
    PROVE  /\ Restored(m, f, ok).pc \in {"restore", "finish"}
           /\ Restored(m, f, ok).id = m.id
  BY DEF Restored, Result, Memory

\* Steps that neither begin a switch nor stop the server.
LEMMA QuietSteps ==
    ASSUME TypeOK, NEW p \in Processes,
           \/ StartPass(p) \/ RecoverWipe(p) \/ Crash(p) \/ Start(p)
           \/ Load(p) \/ NotAllowed(p) \/ ReadFiles(p) \/ CannotRead(p) \/ SaveSwitchBackup(p)
           \/ Put(p) \/ ReadBack(p) \/ Restore(p) \/ Verify(p) \/ FinishSwitch(p) \/ ClaimWipe(p)
           \/ WaitStopped(p) \/ SaveDeleted(p) \/ SaveStart(p) \/ Restart(p) \/ Watch(p)
           \/ CloseWipe(p) \/ Resume(p) \/ Release(p)
    PROVE  /\ sw'.id = sw.id /\ used'.switches = used.switches /\ stops' = stops
           /\ sw'.wipe = "NONE" => sw.wipe = "NONE"
           /\ Pending' => Pending
           /\ mem'[p].pc # "send" /\ mem'[p].id \in {mem[p].id, sw.id, 0}
           /\ \A q \in Processes \ {p} : mem'[q] = mem[q]
<1>1. mem[p] \in Memory /\ mem \in [Processes -> Memory]
  BY DEF TypeOK
<1>2. ASSUME NEW m, Hold(p, m)
      PROVE  mem'[p] = m /\ \A q \in Processes \ {p} : mem'[q] = mem[q]
  BY <1>1, <1>2 DEF Hold
<1>3. used \in [switches : 0..MaxSwitches, mishaps : Nat]
  BY DEF TypeOK
<1>4. Well \/ Fault \/ Harm({"blind"}) \/ (\E f, c : Upload(f, c)) => used'.switches = used.switches
  BY <1>3 DEF Well, Fault, Harm, Upload
<1>5. CASE StartPass(p) \/ RecoverWipe(p) \/ NotAllowed(p)
  BY <1>1, <1>5 DEF StartPass, RecoverWipe, NotAllowed, Goto, Hold, row, server, Memory, Pending
<1>6. CASE Crash(p) \/ Start(p) \/ Release(p)
  <2>1. Well \/ Fault
    BY <1>6 DEF Crash, Start, Release, Well
  <2>2. mem'[p] \in {Idle, Off} /\ \A q \in Processes \ {p} : mem'[q] = mem[q]
    BY <1>2, <1>6 DEF Crash, Start, Release
  <2>3. Idle.pc = "idle" /\ Idle.id = 0 /\ Off.pc = "off" /\ Off.id = 0
    BY DEF Idle, Off
  <2> QED
    BY <1>4, <1>6, <2>1, <2>2, <2>3 DEF Crash, Start, Release, row, server, Pending
<1>7. CASE Load(p)
  <2>1. \/ \E pc \in {"end", "begin"} : Goto(p, pc)
        \/ \E result, alarm : Hold(p, [mem[p] EXCEPT !.pc = "finish", !.id = sw.id, !.result = result,
                                                     !.alarm = alarm])
        \/ Hold(p, [mem[p] EXCEPT !.pc = "finish", !.id = sw.id, !.result = "APPLIED"])
    BY <1>7 DEF Load
  <2>2. mem'[p].pc # "send" /\ mem'[p].id \in {mem[p].id, sw.id} /\ \A q \in Processes \ {p} : mem'[q] = mem[q]
    <3>1. ASSUME NEW pc \in {"end", "begin"}, Goto(p, pc)
          PROVE  mem'[p].pc = pc /\ mem'[p].id = mem[p].id
      BY <1>1, <3>1 DEF Goto, Hold, Memory
    <3>2. ASSUME NEW result, NEW alarm,
                 Hold(p, [mem[p] EXCEPT !.pc = "finish", !.id = sw.id, !.result = result, !.alarm = alarm])
          PROVE  mem'[p].pc = "finish" /\ mem'[p].id = sw.id
      BY <1>1, <3>2 DEF Hold, Memory
    <3>3. CASE Hold(p, [mem[p] EXCEPT !.pc = "finish", !.id = sw.id, !.result = "APPLIED"])
      BY <1>1, <3>3 DEF Hold, Memory
    <3>4. \A q \in Processes \ {p} : mem'[q] = mem[q]
      BY <1>2, <1>7 DEF Load, Goto
    <3> QED
      BY <2>1, <3>1, <3>2, <3>3, <3>4
  <2> QED
    BY <1>7, <2>2 DEF Load, row, server, Pending
<1>8. CASE ReadFiles(p)
  <2>1. /\ Applied(mem[p]).pc \in {"finish", "claim"} /\ Applied(mem[p]).id = mem[p].id
    BY <1>1 DEF Applied, Result, Memory
  <2>2. \A todo, pc : [[mem[p] EXCEPT !.live = file, !.todo = todo] EXCEPT !.pc = pc].pc = pc
        /\ [[mem[p] EXCEPT !.live = file, !.todo = todo] EXCEPT !.pc = pc].id = mem[p].id
    BY <1>1 DEF Memory
  <2>3. /\ Applied([mem[p] EXCEPT !.live = file, !.todo = {}]).pc \in {"finish", "claim"}
        /\ Applied([mem[p] EXCEPT !.live = file, !.todo = {}]).id = mem[p].id
    BY <1>1 DEF Applied, Result, Memory
  <2> DEFINE todo == {f \in Files : file[f] # mem[p].want[f]}
  <2>5. \/ Hold(p, Applied([mem[p] EXCEPT !.live = file, !.todo = todo])) /\ todo = {}
        \/ \E pc \in {"backup", "put"} : Hold(p, [[mem[p] EXCEPT !.live = file, !.todo = todo] EXCEPT !.pc = pc])
    BY <1>8 DEF ReadFiles
  <2> HIDE DEF todo
  <2>4. mem'[p].pc # "send" /\ mem'[p].id = mem[p].id /\ \A q \in Processes \ {p} : mem'[q] = mem[q]
    <3>1. CASE Hold(p, Applied([mem[p] EXCEPT !.live = file, !.todo = todo])) /\ todo = {}
      BY <1>2, <2>3, <3>1
    <3>2. ASSUME NEW pc \in {"backup", "put"},
                 Hold(p, [[mem[p] EXCEPT !.live = file, !.todo = todo] EXCEPT !.pc = pc])
          PROVE  /\ mem'[p].pc # "send" /\ mem'[p].id = mem[p].id
                 /\ \A q \in Processes \ {p} : mem'[q] = mem[q]
      BY <1>1, <3>2 DEF Hold, Memory
    <3> QED
      BY <2>5, <3>1, <3>2
  <2> QED
    BY <1>8, <2>4 DEF ReadFiles, row, server, Pending
<1>9. CASE CannotRead(p) \/ SaveSwitchBackup(p)
  <2>1. Result(mem[p], "FAILED", {}).pc = "finish" /\ Result(mem[p], "FAILED", {}).id = mem[p].id
    BY <1>1 DEF Result, Memory
  <2>2. Well \/ Fault \/ Harm({"blind"})
    BY <1>9 DEF CannotRead, SaveSwitchBackup, Fault
  <2>3. [mem[p] EXCEPT !.pc = "put"].pc = "put" /\ [mem[p] EXCEPT !.pc = "put"].id = mem[p].id
    BY <1>1 DEF Memory
  <2>4. mem'[p].pc # "send" /\ mem'[p].id = mem[p].id /\ \A q \in Processes \ {p} : mem'[q] = mem[q]
    BY <1>2, <1>9, <2>1, <2>3 DEF CannotRead, SaveSwitchBackup
  <2>5. sw' = sw \/ sw' = [sw EXCEPT !.backup = mem[p].live]
    BY <1>9 DEF CannotRead, SaveSwitchBackup, row
  <2> QED
    BY <1>4, <1>9, <2>2, <2>4, <2>5 DEF CannotRead, SaveSwitchBackup, row, server, Pending, TypeOK
<1>10. CASE Put(p) \/ ReadBack(p)
  <2>1. \E m : Hold(p, m) /\ m.pc \in {"put", "readback", "restore", "finish", "claim"} /\ m.id = mem[p].id
    <3>1. [mem[p] EXCEPT !.pc = "readback"].pc = "readback" /\ [mem[p] EXCEPT !.pc = "readback"].id = mem[p].id
      BY <1>1 DEF Memory
    <3>2. \/ Hold(p, [mem[p] EXCEPT !.pc = "readback"])
          \/ \E f, outcome : Hold(p, After(mem[p], f, outcome))
      BY <1>10 DEF Put, ReadBack, Goto
    <3> QED
      <4>1. ASSUME NEW f, NEW outcome, Hold(p, After(mem[p], f, outcome))
            PROVE  \E m : Hold(p, m) /\ m.pc \in {"put", "readback", "restore", "finish", "claim"} /\ m.id = mem[p].id
        BY <1>1, <4>1, AfterMoves
      <4> QED
        BY <3>1, <3>2, <4>1
  <2>2. Well \/ Fault \/ \E f, c : Upload(f, c)
    BY <1>10 DEF Put, ReadBack
  <2>3. used'.switches = used.switches
    BY <1>4, <2>2
  <2>4. mem'[p].pc # "send" /\ mem'[p].id = mem[p].id /\ \A q \in Processes \ {p} : mem'[q] = mem[q]
    BY <1>2, <2>1
  <2> QED
    BY <1>10, <2>3, <2>4 DEF Put, ReadBack, row, server, Pending
<1>11. CASE Restore(p) \/ Verify(p)
  <2>1. \E m : Hold(p, m) /\ m.pc \in {"restore", "verify", "finish"} /\ m.id = mem[p].id
    <3>1. [mem[p] EXCEPT !.pc = "verify"].pc = "verify" /\ [mem[p] EXCEPT !.pc = "verify"].id = mem[p].id
      BY <1>1 DEF Memory
    <3>2. \/ Hold(p, [mem[p] EXCEPT !.pc = "verify"])
          \/ \E f : \E ok \in BOOLEAN : Hold(p, Restored(mem[p], f, ok))
      BY <1>11 DEF Restore, Verify, Goto
    <3>3. ASSUME NEW f, NEW ok \in BOOLEAN, Hold(p, Restored(mem[p], f, ok))
          PROVE  \E m : Hold(p, m) /\ m.pc \in {"restore", "verify", "finish"} /\ m.id = mem[p].id
      BY <1>1, <3>3, RestoredMoves
    <3> QED
      BY <3>1, <3>2, <3>3
  <2>2. Well \/ Fault \/ \E f, c : Upload(f, c)
    BY <1>11 DEF Restore, Verify, Well
  <2>3. used'.switches = used.switches
    BY <1>4, <2>2
  <2>4. mem'[p].pc # "send" /\ mem'[p].id = mem[p].id /\ \A q \in Processes \ {p} : mem'[q] = mem[q]
    BY <1>2, <2>1
  <2> QED
    BY <1>11, <2>3, <2>4 DEF Restore, Verify, row, server, Pending
<1>12. CASE FinishSwitch(p)
  <2>1. Well \/ Fault
    BY <1>12 DEF FinishSwitch
  <2>2. mem[p].result # "PENDING"
    BY <1>1 DEF Memory, Results
  <2>3. sw' = sw \/ sw' = [sw EXCEPT !.status = mem[p].result, !.alarm = @ \cup mem[p].alarm]
    BY <1>12 DEF FinishSwitch
  <2> QED
    BY <1>1, <1>4, <1>12, <2>1, <2>2, <2>3 DEF FinishSwitch, Goto, Hold, server, Pending, TypeOK, Memory
<1>13. CASE ClaimWipe(p) \/ Restart(p) \/ Watch(p)
  <2>1. Well \/ Fault
    BY <1>13 DEF ClaimWipe, Restart, Watch
  <2>2. \E pc \in {"stop", "close", "watch", "restart"} :
           Goto(p, pc) \/ Hold(p, [mem[p] EXCEPT !.pc = pc, !.alarm = {"down"}])
    BY <1>13 DEF ClaimWipe, Restart, Watch
  <2>3. mem'[p].pc # "send" /\ mem'[p].id = mem[p].id /\ \A q \in Processes \ {p} : mem'[q] = mem[q]
    BY <1>1, <2>2, ZenonT(40) DEF Goto, Hold, Memory
  <2> QED
    BY <1>4, <1>13, <2>1, <2>3 DEF ClaimWipe, Restart, Watch, row, server, Pending
<1>14. CASE WaitStopped(p)
  <2>1. \/ Goto(p, "start")
        \/ \E pc \in {"deleted", "start"}, gone \in BOOLEAN : Hold(p, [mem[p] EXCEPT !.pc = pc, !.cleared = gone])
    BY <1>14 DEF WaitStopped
  <2>2. mem'[p].pc # "send" /\ mem'[p].id = mem[p].id /\ \A q \in Processes \ {p} : mem'[q] = mem[q]
    <3>1. /\ [mem[p] EXCEPT !.pc = "start"].pc = "start"
          /\ [mem[p] EXCEPT !.pc = "start"].id = mem[p].id
      BY <1>1 DEF Memory
    <3>2. CASE Goto(p, "start")
      BY <1>2, <3>1, <3>2 DEF Goto
    <3>3. ASSUME NEW pc \in {"deleted", "start"}, NEW gone \in BOOLEAN,
                 Hold(p, [mem[p] EXCEPT !.pc = pc, !.cleared = gone])
          PROVE  /\ mem'[p].pc # "send" /\ mem'[p].id = mem[p].id
                 /\ \A q \in Processes \ {p} : mem'[q] = mem[q]
      <4>1. /\ [mem[p] EXCEPT !.pc = pc, !.cleared = gone].pc # "send"
            /\ [mem[p] EXCEPT !.pc = pc, !.cleared = gone].id = mem[p].id
        BY <1>1 DEF Memory
      <4> QED
        BY <1>2, <3>3, <4>1
    <3> QED
      BY <2>1, <3>2, <3>3
  <2> QED
    BY <1>14, <2>2 DEF WaitStopped, row, server, Pending
<1>15. CASE SaveDeleted(p) \/ SaveStart(p)
  <2>1. PICK state \in {"DELETED", "START_REQUESTED"} : Stored(p, state)
    BY <1>15 DEF SaveDeleted, SaveStart
  <2>2. Well \/ Fault
    BY <2>1 DEF Stored, Well
  <2>3. sw' = sw \/ \E cleared : sw' = [sw EXCEPT !.wipe = state, !.cleared = cleared]
    BY <2>1 DEF Stored, SetWipeState
  <2>4. sw'.id = sw.id /\ (sw'.wipe = "NONE" => sw.wipe = "NONE") /\ (Pending' => Pending)
    BY <2>3 DEF Pending, TypeOK
  <2>5. mem'[p].pc # "send" /\ mem'[p].id = mem[p].id /\ \A q \in Processes \ {p} : mem'[q] = mem[q]
    BY <1>1, <1>15 DEF SaveDeleted, SaveStart, Goto, Hold, Memory
  <2> QED
    BY <1>4, <1>15, <2>2, <2>4, <2>5 DEF SaveDeleted, SaveStart, server
<1>16. CASE CloseWipe(p)
  <2>1. Well \/ Fault
    BY <1>16 DEF CloseWipe
  <2>2. sw' = sw \/ \E wipe \in {"DONE", "FAILED"} :
           sw' = [sw EXCEPT !.wipe = wipe, !.cleared = mem[p].cleared, !.alarm = @ \cup mem[p].alarm]
    BY <1>16 DEF CloseWipe
  <2>3. sw'.id = sw.id /\ (sw'.wipe = "NONE" => sw.wipe = "NONE") /\ (Pending' => Pending)
    BY <2>2 DEF Pending, TypeOK
  <2> DEFINE m == [mem[p] EXCEPT !.pc = "finish", !.result = "APPLIED", !.alarm = {}]
  <2>4. \A pc : [m EXCEPT !.pc = pc].pc = pc /\ [m EXCEPT !.pc = pc].id = mem[p].id
    BY <1>1 DEF Memory
  <2>5. m.pc = "finish" /\ m.id = mem[p].id
    BY <1>1 DEF Memory
  <2>6. mem'[p].pc # "send" /\ mem'[p].id = mem[p].id /\ \A q \in Processes \ {p} : mem'[q] = mem[q]
    <3>1. Hold(p, m) \/ \E pc \in {"end", "finish"} : Hold(p, [m EXCEPT !.pc = pc])
      BY <1>16 DEF CloseWipe, AfterClose
    <3> HIDE DEF m
    <3> QED
      BY <1>2, <2>4, <2>5, <3>1
  <2> QED
    BY <1>4, <1>16, <2>1, <2>3, <2>6 DEF CloseWipe, server
<1>17. CASE Resume(p)
  <2>1. Well \/ Fault
    BY <1>17 DEF Resume
  <2> DEFINE m == [mem[p] EXCEPT !.id = sw.id, !.cleared = sw.cleared, !.stopped = TRUE]
  <2>2. \A pc : [m EXCEPT !.pc = pc].pc = pc /\ [m EXCEPT !.pc = pc].id = sw.id
    BY <1>1 DEF Memory
  <2>3. [m EXCEPT !.pc = "close", !.alarm = {"down"}].pc = "close"
        /\ [m EXCEPT !.pc = "close", !.alarm = {"down"}].id = sw.id
    BY <1>1 DEF Memory
  <2>4. [mem[p] EXCEPT !.pc = "end"].pc = "end" /\ [mem[p] EXCEPT !.pc = "end"].id = mem[p].id
    BY <1>1 DEF Memory
  <2>5. mem'[p].pc # "send" /\ mem'[p].id \in {mem[p].id, sw.id} /\ \A q \in Processes \ {p} : mem'[q] = mem[q]
    <3>1. \/ \E pc \in {"close", "start"} : Hold(p, [m EXCEPT !.pc = pc])
          \/ Hold(p, [m EXCEPT !.pc = "close", !.alarm = {"down"}])
          \/ Hold(p, [mem[p] EXCEPT !.pc = "end"])
      BY <1>17 DEF Resume, Goto
    <3> HIDE DEF m
    <3> QED
      <4>1. ASSUME NEW pc \in {"close", "start"}, Hold(p, [m EXCEPT !.pc = pc])
            PROVE  /\ mem'[p].pc # "send" /\ mem'[p].id = sw.id
                   /\ \A q \in Processes \ {p} : mem'[q] = mem[q]
        BY <1>2, <2>2, <4>1
      <4>2. CASE Hold(p, [m EXCEPT !.pc = "close", !.alarm = {"down"}])
        BY <1>2, <2>3, <4>2
      <4>3. CASE Hold(p, [mem[p] EXCEPT !.pc = "end"])
        BY <1>2, <2>4, <4>3
      <4> QED
        BY <3>1, <4>1, <4>2, <4>3
  <2> QED
    BY <1>4, <1>17, <2>1, <2>5 DEF Resume, row, server, Pending
<1> QED
  BY <1>5, <1>6, <1>7, <1>8, <1>9, <1>10, <1>11, <1>12, <1>13, <1>14, <1>15, <1>16, <1>17

-----------------------------------------------------------------------------
(* A server is stopped at most once for a switch.                          *)

\* No stop was sent at first.
LEMMA StopsInit == Init => StopsCounted
  BY SwitchAssumption DEF Init, StopsCounted, StopsOf, StopReady, NoSwitch, Pending, At, Idle

\* Steps after which every process is where it was, or nowhere near a stop.
LEMMA QuietKeeps ==
    ASSUME TypeOK, StopsCounted,
           sw'.id = sw.id, used'.switches = used.switches, stops' = stops,
           sw'.wipe = "NONE" => sw.wipe = "NONE", Pending' => Pending,
           \A q \in Processes : mem'[q] = mem[q] \/ (mem'[q].pc # "send" /\ mem'[q].id \in {mem[q].id, sw.id, 0})
    PROVE  StopsCounted'
<1>1. sw.id \in Nat
  BY DEF TypeOK
<1>2. sw'.id = used'.switches /\ (Pending' => sw'.id >= 1)
  BY DEF StopsCounted, StopsOf, StopReady
<1>3. \A n \in DOMAIN stops' : StopsOf(n)'
  BY DEF StopsCounted, StopsOf, StopReady
<1>4. ASSUME NEW q \in Processes
      PROVE  StopReady(q)'
  BY <1>1 DEF StopsCounted, StopsOf, StopReady, At
<1> QED
  BY <1>2, <1>3, <1>4 DEF StopsCounted

\* A switch that begins has no stop yet.
LEMMA BeginStops ==
    ASSUME TypeOK, StopsCounted, NEW p \in Processes, NEW map \in Maps, NEW clear \in BOOLEAN,
           BeginSwitch(p, map, clear)
    PROVE  StopsCounted'
<1>1. mem[p] \in Memory /\ mem \in [Processes -> Memory] /\ sw.id \in Nat
  BY DEF TypeOK
<1>2. /\ mem'[p].pc = "read" /\ mem'[p].id = sw'.id
      /\ \A q \in Processes \ {p} : mem'[q] = mem[q]
  BY <1>1 DEF BeginSwitch, Hold, Memory
<1>3. CASE Pending
  <2>1. sw'.id = sw.id /\ sw'.wipe = sw.wipe /\ used' = used /\ stops' = stops
    BY <1>3 DEF BeginSwitch, TypeOK, Well, server
  <2> QED
    BY <1>1, <1>2, <1>3, <2>1, QuietKeeps
<1>4. CASE ~Pending
  <2>1. /\ sw'.id = used'.switches /\ used'.switches = used.switches + 1 /\ stops' = stops
        /\ sw'.id = sw.id + 1
    <3>1. used'.switches = used.switches + 1 /\ stops' = stops
      BY <1>4 DEF BeginSwitch, TypeOK, server
    <3>2. sw' = [id |-> used'.switches, status |-> "PENDING", map |-> map, attempts |-> 1, backup |-> None,
                 wipe |-> "NONE", cleared |-> FALSE, old |-> FALSE, alarm |-> sw.alarm]
      BY <1>4 DEF BeginSwitch, NoSwitch
    <3> QED
      BY <3>1, <3>2 DEF StopsCounted
  <2>2. \A q \in Processes : mem[q].id \in Nat
    BY <1>1 DEF Memory
  <2>3. \A n \in DOMAIN stops' : StopsOf(n)'
    BY <1>1, <2>1 DEF StopsCounted, StopsOf, StopReady, TypeOK
  <2>4. ASSUME NEW q \in Processes
        PROVE  StopReady(q)'
    BY <1>1, <1>2, <2>1, <2>2 DEF StopsCounted, StopsOf, StopReady, At
  <2>5. sw'.id = used'.switches /\ sw'.id >= 1
    BY <1>1, <2>1
  <2> QED
    BY <2>3, <2>4, <2>5 DEF StopsCounted
<1> QED
  BY <1>3, <1>4

\* One process stores that it will send the stop.
LEMMA SaveStops ==
    ASSUME TypeOK, StopsCounted, NEW p \in Processes, SaveStop(p)
    PROVE  StopsCounted'
<1>1. mem[p] \in Memory /\ mem \in [Processes -> Memory] /\ sw.id \in Nat
  BY DEF TypeOK
<1>2. /\ mem'[p].id = mem[p].id
      /\ \A q \in Processes \ {p} : mem'[q] = mem[q]
  BY <1>1 DEF SaveStop, Goto, Hold, Memory
<1>3. used'.switches = used.switches /\ stops' = stops
  BY DEF SaveStop, Well, Fault, Harm, TypeOK, server
<1>4. CASE SetWipeState(p, "STOP_REQUESTED") /\ Goto(p, "send")
  <2>1. /\ sw'.id = sw.id /\ sw'.wipe = "STOP_REQUESTED" /\ Pending' /\ Pending
        /\ sw.wipe = "NONE" /\ mem[p].id = sw.id
    BY <1>4 DEF SetWipeState, Mine, Pending, TypeOK
  <2>2. mem'[p].pc = "send"
    BY <1>1, <1>4 DEF Goto, Hold, Memory
  <2>3. sw.id \in DOMAIN stops /\ stops[sw.id] = 0
    BY <2>1 DEF StopsCounted, StopsOf, StopReady, TypeOK
  <2>4. \A n \in DOMAIN stops' : StopsOf(n)'
    BY <1>3, <2>1 DEF StopsCounted, StopsOf, StopReady
  <2>5. ASSUME NEW q \in Processes
        PROVE  StopReady(q)'
    BY <1>1, <1>2, <1>3, <2>1, <2>2, <2>3 DEF StopsCounted, StopsOf, StopReady, At
  <2>6. sw'.id = used'.switches /\ sw'.id >= 1
    BY <1>3, <2>1 DEF StopsCounted, StopsOf, StopReady
  <2> QED
    BY <2>4, <2>5, <2>6 DEF StopsCounted
<1>5. CASE UNCHANGED sw /\ Goto(p, "close")
  <2>1. mem'[p].pc = "close"
    BY <1>1, <1>5 DEF Goto, Hold, Memory
  <2> QED
    BY <1>2, <1>3, <1>5, <2>1, QuietKeeps DEF Pending
<1> QED
  BY <1>4, <1>5 DEF SaveStop

\* The stop is sent, once.
LEMMA SendStops ==
    ASSUME TypeOK, StopsCounted, NEW p \in Processes, SendStop(p)
    PROVE  StopsCounted'
<1>1. mem[p] \in Memory /\ mem \in [Processes -> Memory] /\ sw.id \in Nat
  BY DEF TypeOK
<1>2. /\ mem'[p].id = mem[p].id /\ mem'[p].pc = "wait" /\ mem[p].pc = "send"
      /\ \A q \in Processes \ {p} : mem'[q] = mem[q]
  BY <1>1 DEF SendStop, At, Hold, Memory
<1>3. used'.switches = used.switches /\ sw' = sw
  BY DEF SendStop, Well, Fault, Harm, TypeOK, row
<1>4. /\ mem[p].id >= 1 /\ mem[p].id <= sw.id /\ stops[mem[p].id] = 0
      /\ mem[p].id = sw.id => sw.wipe # "NONE"
      /\ mem[p].id \in DOMAIN stops
  BY <1>1, <1>2 DEF StopsCounted, StopsOf, StopReady, At, TypeOK, Memory
<1>5. /\ DOMAIN stops' = DOMAIN stops
      /\ \A n \in DOMAIN stops : stops'[n] = IF n = mem[p].id THEN 1 ELSE stops[n]
  BY <1>4 DEF SendStop, TypeOK
<1>6. \A n \in DOMAIN stops' : StopsOf(n)'
  BY <1>1, <1>3, <1>4, <1>5 DEF StopsCounted, StopsOf, StopReady, TypeOK
<1>7. ASSUME NEW q \in Processes
      PROVE  StopReady(q)'
  <2>1. mem'[q].id <= sw'.id
    BY <1>2, <1>3 DEF StopsCounted, StopsOf, StopReady
  <2>2. CASE mem'[q].pc = "send"
    <3>1. q # p /\ mem'[q] = mem[q]
      BY <1>2, <2>2
    <3>2. mem[q].id # mem[p].id
      BY <1>2, <2>2, <3>1 DEF StopsCounted, StopsOf, StopReady, At
    <3>3. mem[q].id \in DOMAIN stops
      BY <1>1, <2>2, <3>1 DEF StopsCounted, StopsOf, StopReady, At, TypeOK, Memory
    <3> QED
      BY <1>2, <1>3, <1>5, <2>1, <2>2, <3>1, <3>2, <3>3 DEF StopsCounted, StopsOf, StopReady, At
  <2> QED
    BY <2>1, <2>2 DEF StopReady, At
<1>8. sw'.id = used'.switches /\ (Pending' => sw'.id >= 1)
  BY <1>3 DEF StopsCounted, StopsOf, StopReady, Pending
<1> QED
  BY <1>6, <1>7, <1>8 DEF StopsCounted

\* Every step keeps the count of stops.
LEMMA StopsNext ==
    ASSUME TypeOK, StopsCounted, [Next]_vars
    PROVE  StopsCounted'
<1>1. ASSUME NEW p \in Processes, StartPass(p) \/ RecoverWipe(p) \/ Step(p) \/ Crash(p) \/ Start(p)
      PROVE  StopsCounted'
  <2>1. CASE SaveStop(p) \/ SendStop(p) \/ \E map \in Maps, clear \in BOOLEAN : BeginSwitch(p, map, clear)
    BY <2>1, SaveStops, SendStops, BeginStops
  <2>2. CASE ~(SaveStop(p) \/ SendStop(p) \/ \E map \in Maps, clear \in BOOLEAN : BeginSwitch(p, map, clear))
    <3>1. /\ sw'.id = sw.id /\ used'.switches = used.switches /\ stops' = stops
          /\ sw'.wipe = "NONE" => sw.wipe = "NONE"
          /\ Pending' => Pending
          /\ mem'[p].pc # "send" /\ mem'[p].id \in {mem[p].id, sw.id, 0}
          /\ \A q \in Processes \ {p} : mem'[q] = mem[q]
      BY <1>1, <2>2, QuietSteps DEF Step
    <3> QED
      BY <3>1, QuietKeeps
  <2> QED
    BY <2>1, <2>2
<1>2. CASE Expire \/ GrowOld \/ Server \/ (\E on \in BOOLEAN : Save(on)) \/ UNCHANGED vars
  <2>1. /\ sw'.id = sw.id /\ sw'.wipe = sw.wipe /\ (Pending' => Pending)
        /\ used'.switches = used.switches /\ stops' = stops /\ mem' = mem
    BY <1>2 DEF Expire, GrowOld, Server, Save, vars, row, server, Well, Harm, TypeOK, Pending
  <2> QED
    BY <2>1, QuietKeeps
<1> QED
  BY <1>1, <1>2 DEF Next

\* A server is stopped at most once for a switch.
THEOREM StopsSafe == Spec => []StoppedOnce
<1>1. TypeOK /\ StopsCounted /\ [Next]_vars => TypeOK' /\ StopsCounted'
  BY TypeNext, StopsNext
<1>2. StopsCounted => StoppedOnce
  BY DEF StopsCounted, StopsOf, StoppedOnce
<1> QED
  BY <1>1, <1>2, TypeInit, StopsInit, PTL DEF Spec

-----------------------------------------------------------------------------
(* The lease.                                                              *)

\* Nobody works at first.
LEMMA LeasedInit == Init => Leased
  BY DEF Init, Leased, Works, Idle

\* What went wrong stays recorded.
LEMMA HarmGrows ==
    ASSUME TypeOK, [Next]_vars
    PROVE  harm \subseteq harm'
<1>1. ASSUME NEW p \in Processes, StartPass(p) \/ RecoverWipe(p) \/ Step(p) \/ Crash(p) \/ Start(p)
      PROVE  harm' = harm \/ \E kinds : Harm(kinds)
  <2>1. CASE Step(p)
    <3>1. CASE Put(p) \/ Restore(p)
      BY <3>1 DEF Put, Restore, Upload, Well, Fault
    <3>2. CASE ~(Put(p) \/ Restore(p))
      BY <2>1, <3>2 DEF Step, Load, NotAllowed, BeginSwitch, ReadFiles, CannotRead, SaveSwitchBackup, ReadBack,
           Verify, FinishSwitch, ClaimWipe, SaveStop, SendStop, WaitStopped, SaveDeleted, SaveStart, Stored, Restart,
           Watch, CloseWipe, Resume, Release, Well, Fault
    <3> QED
      BY <3>1, <3>2
  <2>2. CASE StartPass(p) \/ RecoverWipe(p) \/ Crash(p) \/ Start(p)
    BY <2>2 DEF StartPass, RecoverWipe, Crash, Start, Fault
  <2> QED
    BY <1>1, <2>1, <2>2
<1>2. CASE Expire \/ GrowOld \/ Server \/ (\E on \in BOOLEAN : Save(on)) \/ UNCHANGED vars
  BY <1>2 DEF Expire, GrowOld, Server, Save, vars, Well, Harm
<1> QED
  BY <1>1, <1>2 DEF Next, Harm

\* What a step of p does to the lease.
LEMMA LeaseMoves ==
    ASSUME TypeOK, NEW p \in Processes, StartPass(p) \/ RecoverWipe(p) \/ Step(p) \/ Crash(p) \/ Start(p)
    PROVE  /\ \A q \in Processes \ {p} : mem'[q] = mem[q]
           /\ \/ holder' = holder /\ (Works(p) \/ ~Works(p)')
              \/ holder \in {None, p} /\ holder' = p
              \/ holder = p /\ ~Works(p)'
<1>1. mem[p] \in Memory /\ mem \in [Processes -> Memory]
  BY DEF TypeOK
<1>2. CASE StartPass(p) \/ RecoverWipe(p)
  BY <1>1, <1>2 DEF StartPass, RecoverWipe, Claim, Goto, Hold
<1>3. CASE Crash(p) \/ Start(p)
  BY <1>1, <1>3 DEF Crash, Start, Hold, Works, Idle, Off
<1>4. CASE Release(p)
  BY <1>1, <1>4 DEF Release, Hold, Works, Idle
<1>5. CASE ClaimWipe(p)
  BY <1>1, <1>5 DEF ClaimWipe, Claim, Goto, Hold, Works, At
<1>6. CASE Step(p) /\ ~Release(p) /\ ~ClaimWipe(p)
  <2>1. \A q \in Processes \ {p} : mem'[q] = mem[q]
    <3>1. CASE SaveStop(p) \/ SendStop(p) \/ \E map \in Maps, clear \in BOOLEAN : BeginSwitch(p, map, clear)
      BY <1>1, <3>1 DEF SaveStop, SendStop, BeginSwitch, Goto, Hold
    <3>2. CASE ~(SaveStop(p) \/ SendStop(p) \/ \E map \in Maps, clear \in BOOLEAN : BeginSwitch(p, map, clear))
      BY <1>6, <3>2, QuietSteps DEF Step
    <3> QED
      BY <3>1, <3>2
  <2>2. holder' = holder /\ Works(p)
    <3>1. CASE Put(p) \/ ReadBack(p) \/ Restore(p) \/ Verify(p) \/ ReadFiles(p) \/ CannotRead(p)
               \/ SaveSwitchBackup(p)
      BY <3>1 DEF Put, ReadBack, Restore, Verify, ReadFiles, CannotRead, SaveSwitchBackup, Works, At
    <3>2. CASE Load(p) \/ NotAllowed(p) \/ FinishSwitch(p)
               \/ \E map \in Maps, clear \in BOOLEAN : BeginSwitch(p, map, clear)
      BY <3>2 DEF Load, NotAllowed, FinishSwitch, BeginSwitch, Works, At
    <3>3. CASE SaveStop(p) \/ SendStop(p) \/ WaitStopped(p) \/ SaveDeleted(p) \/ SaveStart(p) \/ Restart(p)
               \/ Watch(p) \/ CloseWipe(p) \/ Resume(p)
      BY <3>3 DEF SaveStop, SendStop, WaitStopped, SaveDeleted, SaveStart, Restart, Watch, CloseWipe, Resume,
           Works, At, row
    <3> QED
      BY <1>6, <3>1, <3>2, <3>3 DEF Step
  <2> QED
    BY <2>1, <2>2
<1> QED
  BY <1>2, <1>3, <1>4, <1>5, <1>6

\* Whoever works has the lease, unless it ran out under someone.
LEMMA LeasedNext ==
    ASSUME TypeOK, Leased, [Next]_vars
    PROVE  Leased'
<1> SUFFICES ASSUME "overrun" \notin harm'
             PROVE  \A q \in Processes : Works(q)' => holder' = q
  BY DEF Leased
<1>1. \A q \in Processes : Works(q) => holder = q
  BY HarmGrows DEF Leased
<1>2. None \notin Processes
  BY SwitchAssumption
<1>3. ASSUME NEW p \in Processes, StartPass(p) \/ RecoverWipe(p) \/ Step(p) \/ Crash(p) \/ Start(p)
      PROVE  \A q \in Processes : Works(q)' => holder' = q
  <2>1. \A q \in Processes \ {p} : mem'[q] = mem[q]
    BY <1>3, LeaseMoves
  <2>2. \A q \in Processes \ {p} : Works(q)' <=> Works(q)
    BY <2>1 DEF Works
  <2>3. \/ holder' = holder /\ (Works(p) \/ ~Works(p)')
        \/ holder \in {None, p} /\ holder' = p
        \/ holder = p /\ ~Works(p)'
    BY <1>3, LeaseMoves
  <2> QED
    BY <1>1, <1>2, <2>2, <2>3
<1>4. CASE Expire
  <2>1. ~Works(holder)
    BY <1>4 DEF Expire, Harm, Works
  <2> QED
    BY <1>1, <1>4, <2>1 DEF Expire, Works
<1>5. CASE GrowOld \/ Server \/ (\E on \in BOOLEAN : Save(on)) \/ UNCHANGED vars
  BY <1>1, <1>5 DEF GrowOld, Server, Save, vars, row, server, Works
<1> QED
  BY <1>3, <1>4, <1>5 DEF Next

-----------------------------------------------------------------------------
(* What a process knows of the switch and of the server.                   *)

\* No process knows anything at first.
LEMMA OrderlyInit == Init => Orderly
  BY DEF Init, Orderly, WipedInPlace, DownKnown, Sound, OwnSwitch, ServerKnown, InPlace, Pending, NoSwitch,
     Idle, At, Writing, Restoring, Wiping

\* A process that is idle or off, or at either end of a pass, knows nothing yet.
LEMMA RestsSound ==
    ASSUME NEW p \in Processes, mem[p].pc \in {"off", "idle", "load", "recover", "end"}
    PROVE  Sound(p)
  BY DEF Sound, OwnSwitch, ServerKnown, InPlace, At, Writing, Restoring, Wiping

\* Passes that begin, and steps that change nothing but the process.
LEMMA StartSound ==
    ASSUME TypeOK, WipedInPlace, DownKnown, NEW p \in Processes,
           StartPass(p) \/ RecoverWipe(p) \/ NotAllowed(p) \/ Crash(p) \/ Start(p) \/ Release(p)
    PROVE  WipedInPlace' /\ DownKnown' /\ Sound(p)'
<1>1. mem[p] \in Memory /\ mem \in [Processes -> Memory]
  BY DEF TypeOK
<1>2. mem'[p].pc \in {"off", "idle", "load", "recover", "end"}
  BY <1>1 DEF StartPass, RecoverWipe, NotAllowed, Crash, Start, Release, Goto, Hold, Memory, Idle, Off
<1>3. Sound(p)'
  BY <1>2 DEF Sound, OwnSwitch, ServerKnown, InPlace, At, Writing, Restoring, Wiping
<1>4. UNCHANGED <<row, server>>
  BY DEF StartPass, RecoverWipe, NotAllowed, Crash, Start, Release
<1> QED
  BY <1>3, <1>4 DEF row, server, WipedInPlace, DownKnown, Pending, WipesInProgress

\* A pass that closes a switch, or carries one on.
LEMMA LoadSound ==
    ASSUME TypeOK, WipedInPlace, DownKnown, NEW p \in Processes, Load(p)
    PROVE  WipedInPlace' /\ DownKnown' /\ Sound(p)'
<1>1. mem[p] \in Memory /\ mem \in [Processes -> Memory]
  BY DEF TypeOK
<1>2. UNCHANGED <<row, server>>
  BY DEF Load
<1>3. CASE Goto(p, "end")
  <2>1. mem'[p].pc = "end"
    BY <1>1, <1>3 DEF Goto, Hold, Memory
  <2> QED
    BY <1>2, <2>1 DEF row, server, WipedInPlace, DownKnown, Pending, WipesInProgress,
       Sound, OwnSwitch, ServerKnown, InPlace, At, Writing, Restoring, Wiping
<1>4. CASE Goto(p, "begin") /\ (Pending => sw.wipe = "NONE")
  <2>1. mem'[p].pc = "begin"
    BY <1>1, <1>4 DEF Goto, Hold, Memory
  <2> QED
    BY <1>2, <1>4, <2>1 DEF row, server, WipedInPlace, DownKnown, Pending, WipesInProgress,
       Sound, OwnSwitch, ServerKnown, InPlace, At, Writing, Restoring, Wiping
<1>5. CASE /\ Pending /\ ~InProgress(sw.wipe)
           /\ mem'[p].pc = "finish" /\ mem'[p].id = sw.id
           /\ mem'[p].result = "APPLIED" => Closed(sw.wipe)
  BY <1>2, <1>5 DEF row, server, WipedInPlace, DownKnown, Pending, WipesInProgress, Mine, Closed,
     Sound, OwnSwitch, ServerKnown, InPlace, At, Writing, Restoring, Wiping
<1>6. CASE Hold(p, [mem[p] EXCEPT !.pc = "finish", !.id = sw.id, !.result = "APPLIED"])
           /\ Pending /\ ~InProgress(sw.wipe) /\ Closed(sw.wipe)
  <2>1. mem'[p].pc = "finish" /\ mem'[p].id = sw.id
    BY <1>1, <1>6 DEF Hold, Memory
  <2> QED
    BY <1>5, <1>6, <2>1
<1>7. ASSUME NEW alarm,
             Hold(p, [mem[p] EXCEPT !.pc = "finish", !.id = sw.id, !.result = "FAILED", !.alarm = alarm]),
             Pending, ~InProgress(sw.wipe)
      PROVE  WipedInPlace' /\ DownKnown' /\ Sound(p)'
  <2>1. mem'[p].pc = "finish" /\ mem'[p].id = sw.id /\ mem'[p].result = "FAILED"
    BY <1>1, <1>7 DEF Hold, Memory
  <2> QED
    BY <1>5, <1>7, <2>1
<1>8. Pending /\ ~InProgress(sw.wipe) /\ ~Closed(sw.wipe) => sw.wipe = "NONE"
  BY DEF TypeOK, InProgress, Closed
<1>9. CASE ~enabled \/ halted \/ (Pending /\ InProgress(sw.wipe)) \/ ~Pending
  BY <1>3, <1>4, <1>9 DEF Load
<1>10. CASE ~(~enabled \/ halted \/ (Pending /\ InProgress(sw.wipe)) \/ ~Pending)
  <2>1. \/ Closed(sw.wipe) /\ Hold(p, [mem[p] EXCEPT !.pc = "finish", !.id = sw.id, !.result = "APPLIED"])
        \/ \E alarm : Hold(p, [mem[p] EXCEPT !.pc = "finish", !.id = sw.id, !.result = "FAILED", !.alarm = alarm])
        \/ ~Closed(sw.wipe) /\ Goto(p, "begin")
    BY <1>10 DEF Load
  <2> QED
    BY <1>4, <1>6, <1>7, <1>8, <1>10, <2>1
<1> QED
  BY <1>9, <1>10

\* A switch begins only when no server is down.
LEMMA BeginSound ==
    ASSUME TypeOK, WipedInPlace, DownKnown, NEW p \in Processes, Sound(p),
           NEW map \in Maps, NEW clear \in BOOLEAN, BeginSwitch(p, map, clear)
    PROVE  WipedInPlace' /\ DownKnown' /\ Sound(p)'
<1>1. mem[p] \in Memory /\ mem \in [Processes -> Memory] /\ mem[p].pc = "begin"
  BY DEF TypeOK, BeginSwitch, At
<1>2. mem'[p].pc = "read" /\ mem'[p].id = sw'.id /\ mem'[p].want = Both(sw'.map)
  BY <1>1 DEF BeginSwitch, Hold, Memory
<1>3. Pending' /\ sw'.wipe = "NONE" /\ (Pending \/ sw'.alarm = sw.alarm) /\ (Pending => sw'.alarm = sw.alarm)
  <2>1. CASE Pending
    <3>1. sw.wipe = "NONE"
      BY <1>1, <2>1 DEF Sound, OwnSwitch
    <3>2. sw' = [sw EXCEPT !.attempts = @ + 1]
      BY <2>1 DEF BeginSwitch
    <3> QED
      BY <2>1, <3>1, <3>2 DEF Pending, TypeOK
  <2>2. CASE ~Pending
    <3>1. sw' = [id |-> used'.switches, status |-> "PENDING", map |-> map, attempts |-> 1, backup |-> None,
                 wipe |-> "NONE", cleared |-> FALSE, old |-> FALSE, alarm |-> sw.alarm]
      BY <2>2 DEF BeginSwitch, NoSwitch
    <3> QED
      BY <2>2, <3>1 DEF Pending
  <2> QED
    BY <2>1, <2>2
<1>4. ~WipesInProgress
  BY <1>1 DEF Sound, OwnSwitch, WipesInProgress, InProgress
<1>5. UNCHANGED server
  BY DEF BeginSwitch
<1> QED
  BY <1>2, <1>3, <1>4, <1>5 DEF server, WipedInPlace, DownKnown, WipesInProgress, Mine, InProgress,
     Sound, OwnSwitch, ServerKnown, InPlace, At, Writing, Restoring, Wiping

\* A step within the writing of the files, before the wipe of the switch.
LEMMA WritesOn ==
    ASSUME NEW p \in Processes, Mine(p), sw.wipe = "NONE", DownKnown,
           sw'.id = sw.id, sw'.status = sw.status, sw'.wipe = "NONE", sw'.map = sw.map, sw'.alarm = sw.alarm,
           power' = power, mem'[p].id = mem[p].id,
           mem'[p].pc \in {"finish", "claim"} \cup Writing \cup Restoring,
           mem'[p].pc \in Writing =>
               mem'[p].want = Both(sw.map) /\ \A f \in Files \ mem'[p].todo : file'[f] = mem'[p].want[f],
           mem'[p].pc = "claim" \/ (mem'[p].pc = "finish" /\ mem'[p].result = "APPLIED") => file' = Both(sw.map)
    PROVE  WipedInPlace' /\ DownKnown' /\ Sound(p)'
  BY DEF WipedInPlace, DownKnown, WipesInProgress, InProgress, Mine, Pending, Both,
     Sound, OwnSwitch, ServerKnown, InPlace, At, Writing, Restoring, Wiping

\* What a pass remembers once it ends.
LEMMA ResultIs ==
    ASSUME NEW m \in Memory, NEW result, NEW alarm
    PROVE  /\ Result(m, result, alarm).pc = "finish" /\ Result(m, result, alarm).id = m.id
           /\ Result(m, result, alarm).result = result /\ Result(m, result, alarm).alarm = alarm
  BY DEF Result, Memory

\* What it remembers once both files are written.
LEMMA AppliedIs ==
    ASSUME NEW m \in Memory
    PROVE  /\ Applied(m).pc \in {"finish", "claim"} /\ Applied(m).id = m.id
           /\ Applied(m).result = "APPLIED" /\ Applied(m).alarm = {}
  BY DEF Applied, Result, Memory

\* What it remembers as it puts files back.
LEMMA RollBackIs ==
    ASSUME NEW m \in Memory, NEW files
    PROVE  /\ RollBack(m, files).pc = "restore" /\ RollBack(m, files).id = m.id
           /\ RollBack(m, files).todo = files /\ RollBack(m, files).alarm = m.alarm
           /\ RollBack(m, files).live = IF m.prior = None THEN m.live ELSE m.prior
  BY DEF RollBack, Memory

\* Where the write of a file leads when it did not fail, and when it did.
LEMMA AfterIs ==
    ASSUME NEW m \in Memory, NEW f \in Files, NEW outcome
    PROVE  /\ outcome = "written" =>
                \/ m.todo = {f} /\ After(m, f, outcome) = Applied(m)
                \/ After(m, f, outcome) = [m EXCEPT !.pc = "put", !.todo = @ \ {f}]
           /\ outcome # "written" =>
                /\ After(m, f, outcome).id = m.id
                /\ \/ After(m, f, outcome).pc = "restore"
                   \/ After(m, f, outcome).pc = "finish" /\ After(m, f, outcome).result = "FAILED"
<1>1. \A files : RollBack(m, files).pc = "restore" /\ RollBack(m, files).id = m.id
  BY RollBackIs
<1>2. Result(m, "FAILED", {}).pc = "finish" /\ Result(m, "FAILED", {}).id = m.id
      /\ Result(m, "FAILED", {}).result = "FAILED"
  BY ResultIs
<1>3. CASE outcome = "written"
  BY <1>3 DEF After
<1>4. CASE outcome # "written"
  <2>1. \/ \E files : After(m, f, outcome) = RollBack(m, files)
        \/ After(m, f, outcome) = Result(m, "FAILED", {})
    BY <1>4 DEF After
  <2> QED
    BY <1>1, <1>2, <1>4, <2>1
<1> QED
  BY <1>3, <1>4

\* Putting back never ends as applied.
LEMMA RestoredIs ==
    ASSUME NEW m \in Memory, NEW f, NEW ok \in BOOLEAN
    PROVE  /\ Restored(m, f, ok).id = m.id
           /\ \/ Restored(m, f, ok).pc = "restore"
              \/ Restored(m, f, ok).pc = "finish" /\ Restored(m, f, ok).result # "APPLIED"
  BY DEF Restored, Result, Memory

\* Both files have what is wanted.
LEMMA BothInPlace ==
    ASSUME TypeOK, NEW map, \A f \in Files : file[f] = map
    PROVE  file = Both(map)
  BY DEF TypeOK, Whole, Both

\* Writing the files: those no longer to be written are in place.
LEMMA WriteSound ==
    ASSUME TypeOK, DownKnown, NEW p \in Processes, Sound(p),
           ReadFiles(p) \/ CannotRead(p) \/ SaveSwitchBackup(p) \/ Put(p) \/ ReadBack(p)
           \/ Restore(p) \/ Verify(p)
    PROVE  WipedInPlace' /\ DownKnown' /\ Sound(p)'
<1> DEFINE f == First(mem[p].todo)
<1>1. mem[p] \in Memory /\ mem \in [Processes -> Memory]
  BY DEF TypeOK
<1>2. mem[p].pc \in {"read", "backup"} \cup Writing \cup Restoring
  BY DEF ReadFiles, CannotRead, SaveSwitchBackup, Put, ReadBack, Restore, Verify, At, Writing, Restoring
<1>3. Mine(p) /\ sw.wipe = "NONE"
  BY <1>2 DEF Sound, OwnSwitch, Mine, Writing, Restoring
<1>4. mem[p].pc \in {"read", "backup"} \cup Writing => mem[p].want = Both(sw.map)
  BY DEF Sound, InPlace
<1>5. mem[p].pc \in {"backup"} \cup Writing => \A g \in Files \ mem[p].todo : file[g] = mem[p].want[g]
  BY DEF Sound, InPlace
<1>6. mem[p].pc \in Writing \cup Restoring => f \in Files /\ f \in mem[p].todo /\ mem[p].todo \in SUBSET Files
  BY <1>1, FirstType DEF Memory
<1>7. power' = power /\ sw'.id = sw.id /\ sw'.status = sw.status /\ sw'.wipe = "NONE" /\ sw'.map = sw.map
      /\ sw'.alarm = sw.alarm
  <2>1. sw' = sw \/ sw' = [sw EXCEPT !.backup = mem[p].live]
    BY DEF ReadFiles, CannotRead, SaveSwitchBackup, Put, ReadBack, Restore, Verify, row
  <2>2. power' = power
    BY DEF ReadFiles, CannotRead, SaveSwitchBackup, Put, ReadBack, Restore, Verify, server
  <2> QED
    BY <1>3, <2>1, <2>2 DEF TypeOK
<1>8. CASE ReadFiles(p)
  <2> DEFINE todo == {g \in Files : file[g] # mem[p].want[g]}
             m == [mem[p] EXCEPT !.live = file, !.todo = todo]
  <2>1. file' = file /\ mem[p].want = Both(sw.map)
    BY <1>4, <1>8 DEF ReadFiles, server, At
  <2>2. CASE todo = {}
    <3>1. Hold(p, Applied(m))
      BY <1>8, <2>2 DEF ReadFiles
    <3>2. m \in Memory /\ m.id = mem[p].id
      BY <1>1, <1>8, <2>2, ZenonT(40) DEF ReadFiles, At, Memory, TypeOK, Content, Writing, Restoring, Wiping
    <3>3. mem'[p] = Applied(m)
      BY <1>1, <3>1 DEF Hold
    <3>4. mem'[p].pc \in {"finish", "claim"} /\ mem'[p].id = mem[p].id
      BY <3>2, <3>3, AppliedIs
    <3>5. file = Both(sw.map)
      BY <2>1, <2>2, BothInPlace DEF Both
    <3> QED
      BY <1>3, <1>7, <2>1, <3>4, <3>5, WritesOn DEF Writing, Restoring
  <2>3. CASE todo # {}
    <3>1. mem' = [mem EXCEPT ![p] = [m EXCEPT !.pc = IF m.prior = None THEN "backup" ELSE "put"]]
      BY <1>8, <2>3 DEF ReadFiles, Hold
    <3>2. /\ mem'[p].pc \in {"backup", "put"} /\ mem'[p].id = mem[p].id /\ mem'[p].want = mem[p].want
          /\ mem'[p].todo = todo
      BY <1>1, <3>1 DEF Memory
    <3>3. \A g \in Files \ todo : file'[g] = mem'[p].want[g]
      BY <2>1, <3>2
    <3> HIDE DEF m, todo
    <3>4. CASE mem'[p].pc = "put"
      BY <1>3, <1>7, <2>1, <3>2, <3>3, <3>4, WritesOn DEF Writing
    <3>5. CASE mem'[p].pc = "backup"
      BY <1>3, <1>4, <1>7, <1>8, <2>1, <3>2, <3>3, <3>5
         DEF ReadFiles, WipedInPlace, DownKnown, WipesInProgress, InProgress, Mine, Pending,
         Sound, OwnSwitch, ServerKnown, InPlace, At, Writing, Restoring, Wiping
    <3> QED
      BY <3>2, <3>4, <3>5
  <2> QED
    BY <2>2, <2>3
<1>9. CASE CannotRead(p) \/ (SaveSwitchBackup(p) /\ Hold(p, Result(mem[p], "FAILED", {})))
  <2>1. mem'[p] = Result(mem[p], "FAILED", {})
    BY <1>1, <1>9 DEF CannotRead, Hold
  <2>2. mem'[p].pc = "finish" /\ mem'[p].id = mem[p].id /\ mem'[p].result = "FAILED"
    BY <1>1, <2>1, ResultIs
  <2> QED
    BY <1>3, <1>7, <2>2, WritesOn DEF Writing, Restoring
<1>10. CASE SaveSwitchBackup(p) /\ Hold(p, [mem[p] EXCEPT !.pc = "put"])
  <2>1. mem'[p].pc = "put" /\ mem'[p].id = mem[p].id /\ mem'[p].want = mem[p].want /\ mem'[p].todo = mem[p].todo
    BY <1>1, <1>10 DEF Hold, Memory
  <2>2. file' = file /\ mem[p].pc = "backup"
    BY <1>10 DEF SaveSwitchBackup, server, At
  <2> QED
    BY <1>3, <1>4, <1>5, <1>7, <2>1, <2>2, WritesOn DEF Writing, Restoring
<1>11. CASE Put(p) \/ ReadBack(p)
  <2>1. mem[p].pc \in Writing
    BY <1>11 DEF Put, ReadBack, At, Writing
  <2>2. ASSUME NEW outcome \in {"written", "unchanged", "uncertain"}, Hold(p, After(mem[p], f, outcome)),
               file' = file, outcome = "written" => file[f] = mem[p].want[f]
        PROVE  WipedInPlace' /\ DownKnown' /\ Sound(p)'
    <3>0. f \in Files
      BY <1>6, <2>1
    <3>1. mem'[p] = After(mem[p], f, outcome)
      BY <1>1, <2>2 DEF Hold
    <3> HIDE DEF f
    <3> DEFINE n == After(mem[p], f, outcome)
    <3>4. /\ outcome = "written" =>
               \/ mem[p].todo = {f} /\ n = Applied(mem[p])
               \/ n = [mem[p] EXCEPT !.pc = "put", !.todo = @ \ {f}]
          /\ outcome # "written" =>
               /\ n.id = mem[p].id
               /\ n.pc = "restore" \/ (n.pc = "finish" /\ n.result = "FAILED")
      BY <1>1, <3>0, AfterIs, ZenonT(30)
    <3> HIDE DEF n
    <3>2. CASE outcome # "written"
      <4>1. /\ mem'[p].id = mem[p].id
            /\ mem'[p].pc = "restore" \/ (mem'[p].pc = "finish" /\ mem'[p].result = "FAILED")
        BY <3>1, <3>2, <3>4 DEF n
      <4> QED
        BY <1>3, <1>7, <4>1, WritesOn DEF Writing, Restoring
    <3>3. CASE outcome = "written"
      <4>1. CASE mem[p].todo = {f} /\ mem'[p] = Applied(mem[p])
        <5>1. mem'[p].pc \in {"finish", "claim"} /\ mem'[p].id = mem[p].id
          BY <1>1, <4>1, AppliedIs
        <5>2. \A g \in Files : file[g] = sw.map
          BY <1>4, <1>5, <2>1, <2>2, <3>3, <4>1 DEF Both
        <5> QED
          BY <1>3, <1>7, <2>2, <5>1, <5>2, BothInPlace, WritesOn DEF Writing, Restoring
      <4>2. CASE mem'[p] = [mem[p] EXCEPT !.pc = "put", !.todo = @ \ {f}]
        <5>1. /\ mem'[p].pc = "put" /\ mem'[p].id = mem[p].id /\ mem'[p].want = mem[p].want
              /\ mem'[p].todo = mem[p].todo \ {f}
          BY <1>1, <4>2 DEF Memory
        <5>2. \A g \in Files \ mem'[p].todo : file'[g] = mem'[p].want[g]
          BY <1>5, <2>1, <2>2, <3>3, <5>1
        <5> QED
          BY <1>3, <1>4, <1>7, <2>1, <5>1, <5>2, WritesOn DEF Writing, Restoring
      <4> QED
        BY <3>1, <3>3, <3>4, <4>1, <4>2, Zenon DEF n
    <3> QED
      BY <3>2, <3>3
  <2>3. CASE Upload(f, mem[p].want[f]) /\ Goto(p, "readback")
    <3>1. /\ mem'[p].pc = "readback" /\ mem'[p].id = mem[p].id /\ mem'[p].want = mem[p].want
          /\ mem'[p].todo = mem[p].todo
      BY <1>1, <2>3 DEF Goto, Hold, Memory
    <3>2. \A g \in Files \ {f} : file'[g] = file[g]
      BY <2>3 DEF Upload, TypeOK, Whole
    <3> QED
      BY <1>3, <1>4, <1>5, <1>6, <1>7, <2>1, <3>1, <3>2, WritesOn DEF Writing, Restoring
  <2>4. \/ Upload(f, mem[p].want[f]) /\ Goto(p, "readback")
        \/ Hold(p, After(mem[p], f, "unchanged")) /\ file' = file
        \/ Hold(p, After(mem[p], f, "uncertain")) /\ file' = file
        \/ Hold(p, After(mem[p], f, Outcome(mem[p], f, file[f]))) /\ file' = file
    BY <1>11 DEF Put, ReadBack, server
  <2>5. /\ Outcome(mem[p], f, file[f]) \in {"written", "unchanged", "uncertain"}
        /\ Outcome(mem[p], f, file[f]) = "written" => file[f] = mem[p].want[f]
    BY DEF Outcome
  <2> HIDE DEF f
  <2> QED
    BY <2>2, <2>3, <2>4, <2>5
<1>12. CASE Restore(p) \/ Verify(p)
  <2>1. \/ Goto(p, "verify")
        \/ \E ok \in BOOLEAN : Hold(p, Restored(mem[p], f, ok))
    BY <1>12 DEF Restore, Verify
  <2>2. CASE Goto(p, "verify")
    <3>1. mem'[p].pc = "verify" /\ mem'[p].id = mem[p].id
      BY <1>1, <2>2 DEF Goto, Hold, Memory
    <3> QED
      BY <1>3, <1>7, <3>1, WritesOn DEF Writing, Restoring
  <2>3. ASSUME NEW ok \in BOOLEAN, Hold(p, Restored(mem[p], f, ok))
        PROVE  WipedInPlace' /\ DownKnown' /\ Sound(p)'
    <3>1. mem'[p] = Restored(mem[p], f, ok)
      BY <1>1, <2>3 DEF Hold
    <3>2. /\ mem'[p].id = mem[p].id
          /\ mem'[p].pc = "restore" \/ (mem'[p].pc = "finish" /\ mem'[p].result # "APPLIED")
      BY <1>1, <3>1, RestoredIs
    <3> QED
      BY <1>3, <1>7, <3>2, WritesOn DEF Writing, Restoring
  <2> QED
    BY <2>1, <2>2, <2>3
<1> QED
  BY <1>8, <1>9, <1>10, <1>11, <1>12 DEF SaveSwitchBackup

\* A switch is closed only when its wipe is.
LEMMA FinishSound ==
    ASSUME TypeOK, WipedInPlace, DownKnown, NEW p \in Processes, Sound(p), FinishSwitch(p)
    PROVE  WipedInPlace' /\ DownKnown' /\ Sound(p)'
<1>1. mem[p] \in Memory /\ mem \in [Processes -> Memory]
  BY DEF TypeOK
<1>2. mem'[p].pc = "end"
  BY <1>1 DEF FinishSwitch, Goto, Hold, Memory
<1>3. Sound(p)'
  BY <1>2 DEF Sound, OwnSwitch, ServerKnown, InPlace, At, Writing, Restoring, Wiping
<1>4. ~WipesInProgress /\ server' = server
  BY DEF FinishSwitch, Sound, ServerKnown, WipesInProgress
<1>5. sw' = sw \/ sw' = [sw EXCEPT !.status = mem[p].result, !.alarm = @ \cup mem[p].alarm]
  BY DEF FinishSwitch
<1>6. mem[p].result # "PENDING"
  BY <1>1 DEF Memory, Results
<1>7. /\ sw'.wipe = sw.wipe /\ sw'.map = sw.map /\ (Pending' => Pending)
      /\ "down" \in sw.alarm => "down" \in sw'.alarm
  BY <1>5, <1>6, ZenonT(40) DEF TypeOK, Pending
<1> QED
  BY <1>3, <1>4, <1>7 DEF server, WipedInPlace, DownKnown, WipesInProgress

\* Up to the point where the stop is stored.
LEMMA ClaimSound ==
    ASSUME TypeOK, WipedInPlace, DownKnown, NEW p \in Processes, Sound(p), ClaimWipe(p) \/ SaveStop(p)
    PROVE  WipedInPlace' /\ DownKnown' /\ Sound(p)'
<1>1. mem[p] \in Memory /\ mem \in [Processes -> Memory]
  BY DEF TypeOK
<1>2. Mine(p) /\ sw.wipe = "NONE" /\ file = Both(sw.map)
  BY DEF ClaimWipe, SaveStop, At, Sound, OwnSwitch, InPlace, Mine
<1>3. server' = server
  BY DEF ClaimWipe, SaveStop
<1>4. ASSUME NEW pc \in {"stop", "close"}, Goto(p, pc), sw' = sw
      PROVE  WipedInPlace' /\ DownKnown' /\ Sound(p)'
  <2>1. mem'[p].pc = pc /\ mem'[p].id = mem[p].id
    BY <1>1, <1>4 DEF Goto, Hold, Memory
  <2> QED
    BY <1>2, <1>3, <1>4, <2>1 DEF server, WipedInPlace, DownKnown, WipesInProgress, InProgress, Mine, Pending,
       Sound, OwnSwitch, ServerKnown, InPlace, At, Writing, Restoring, Wiping
<1>5. CASE SetWipeState(p, "STOP_REQUESTED") /\ Goto(p, "send")
  <2>1. mem'[p].pc = "send" /\ mem'[p].id = mem[p].id
    BY <1>1, <1>5 DEF Goto, Hold, Memory
  <2>2. /\ sw'.wipe = "STOP_REQUESTED" /\ sw'.map = sw.map /\ sw'.id = sw.id /\ Pending'
        /\ sw'.alarm = sw.alarm
    BY <1>2, <1>5 DEF SetWipeState, TypeOK, Mine, Pending
  <2> QED
    BY <1>2, <1>3, <2>1, <2>2 DEF server, WipedInPlace, DownKnown, WipesInProgress, InProgress, Mine,
       Sound, OwnSwitch, ServerKnown, InPlace, At, Writing, Restoring, Wiping
<1>6. \/ \E pc \in {"stop", "close"} : Goto(p, pc) /\ sw' = sw
      \/ SetWipeState(p, "STOP_REQUESTED") /\ Goto(p, "send")
  BY DEF ClaimWipe, SaveStop, row
<1> QED
  BY <1>4, <1>5, <1>6

\* From the stop to the start, the switch says what is going on.
LEMMA WipeSound ==
    ASSUME TypeOK, WipedInPlace, DownKnown, NEW p \in Processes, Sound(p),
           SendStop(p) \/ WaitStopped(p) \/ SaveDeleted(p) \/ SaveStart(p) \/ Restart(p) \/ Watch(p)
    PROVE  WipedInPlace' /\ DownKnown' /\ Sound(p)'
<1>1. mem[p] \in Memory /\ mem \in [Processes -> Memory]
  BY DEF TypeOK
<1>2. Mine(p) /\ file = Both(sw.map) /\ mem[p].pc \in Wiping
  BY DEF SendStop, WaitStopped, SaveDeleted, SaveStart, Restart, Watch, At, Sound, OwnSwitch, InPlace, Wiping, Mine
<1>3. file' = file
  BY DEF SendStop, WaitStopped, SaveDeleted, SaveStart, Restart, Watch, server
<1>4. \/ sw' = sw
      \/ /\ InProgress(sw.wipe) /\ InProgress(sw'.wipe) /\ power' = power
         /\ sw'.id = sw.id /\ sw'.map = sw.map /\ sw'.status = sw.status /\ sw'.alarm = sw.alarm
  <2>1. CASE SaveDeleted(p) \/ SaveStart(p)
    <3>1. PICK state \in {"DELETED", "START_REQUESTED"} : Stored(p, state)
      BY <2>1 DEF SaveDeleted, SaveStart
    <3>2. \/ sw' = sw
          \/ InProgress(sw.wipe) /\ \E cleared : sw' = [sw EXCEPT !.wipe = state, !.cleared = cleared]
      BY <3>1 DEF Stored, SetWipeState
    <3>3. power' = power
      BY <2>1 DEF SaveDeleted, SaveStart, server
    <3> QED
      BY <3>2, <3>3 DEF TypeOK, InProgress
  <2>2. CASE SendStop(p) \/ WaitStopped(p) \/ Restart(p) \/ Watch(p)
    BY <2>2 DEF SendStop, WaitStopped, Restart, Watch, row
  <2> QED
    BY <2>1, <2>2
<1>5. /\ mem'[p].id = mem[p].id /\ mem'[p].stopped
      /\ \/ mem'[p].pc \in Wiping \ {"send"}
         \/ /\ mem'[p].pc = "close" /\ power' = power
            /\ power \in {"up", "starting"} \/ "down" \in mem'[p].alarm
  <2>1. mem[p].pc # "send" => mem[p].stopped
    BY <1>2 DEF Sound, ServerKnown
  <2>2. CASE SendStop(p)
    BY <1>1, <2>2 DEF SendStop, Hold, Memory, Wiping
  <2>3. CASE WaitStopped(p)
    <3>1. \/ Goto(p, "start")
          \/ \E pc \in {"deleted", "start"}, gone \in BOOLEAN : Hold(p, [mem[p] EXCEPT !.pc = pc, !.cleared = gone])
      BY <2>3 DEF WaitStopped
    <3>2. mem[p].stopped
      BY <2>1, <2>3 DEF WaitStopped, At
    <3>3. ASSUME NEW pc \in {"deleted", "start"}, NEW gone \in BOOLEAN,
                 Hold(p, [mem[p] EXCEPT !.pc = pc, !.cleared = gone])
          PROVE  mem'[p].pc = pc /\ mem'[p].id = mem[p].id /\ mem'[p].stopped = mem[p].stopped
      BY <1>1, <3>3 DEF Hold, Memory
    <3>4. CASE Goto(p, "start")
      BY <1>1, <3>2, <3>4 DEF Goto, Hold, Memory, Wiping
    <3> QED
      BY <3>1, <3>2, <3>3, <3>4 DEF Wiping
  <2>4. CASE SaveDeleted(p) \/ SaveStart(p) \/ Restart(p)
    <3>1. mem[p].stopped
      BY <2>1, <2>4 DEF SaveDeleted, SaveStart, Restart, At
    <3>2. PICK pc \in {"start", "restart", "watch"} : Goto(p, pc)
      BY <2>4 DEF SaveDeleted, SaveStart, Restart
    <3> QED
      BY <1>1, <3>1, <3>2 DEF Goto, Hold, Memory, Wiping
  <2>5. CASE Watch(p)
    <3>1. mem[p].stopped
      BY <2>1, <2>5 DEF Watch, At
    <3>2. power' = power
      BY <2>5 DEF Watch, server
    <3>3. CASE Goto(p, "restart")
      BY <1>1, <3>1, <3>3 DEF Goto, Hold, Memory, Wiping
    <3>4. CASE power \in {"up", "starting"} /\ Goto(p, "close")
      BY <1>1, <3>1, <3>2, <3>4 DEF Goto, Hold, Memory
    <3>5. CASE Hold(p, [mem[p] EXCEPT !.pc = "close", !.alarm = {"down"}])
      BY <1>1, <3>1, <3>2, <3>5 DEF Hold, Memory
    <3> QED
      BY <2>5, <3>3, <3>4, <3>5 DEF Watch
  <2> QED
    BY <2>2, <2>3, <2>4, <2>5
<1>6. DownKnown'
  <2>1. CASE SendStop(p)
    <3>1. InProgress(sw.wipe) /\ sw' = sw
      BY <2>1 DEF Sound, ServerKnown, SendStop, row
    <3> QED
      BY <1>2, <3>1 DEF DownKnown, WipesInProgress, Mine, Pending
  <2>2. CASE ~SendStop(p)
    <3>1. power' = power \/ power' = "starting"
      BY <2>2 DEF WaitStopped, SaveDeleted, SaveStart, Restart, Watch, server
    <3> QED
      BY <1>2, <1>4, <3>1 DEF DownKnown, WipesInProgress, Mine, Pending
  <2> QED
    BY <2>1, <2>2
<1> QED
  BY <1>2, <1>3, <1>4, <1>5, <1>6 DEF WipedInPlace, Mine, Pending,
     Sound, OwnSwitch, ServerKnown, InPlace, At, Writing, Restoring, Wiping

\* A wipe is closed when the server is seen up, or staff are told.
LEMMA CloseSound ==
    ASSUME TypeOK, WipedInPlace, DownKnown, NEW p \in Processes, Sound(p), CloseWipe(p)
    PROVE  WipedInPlace' /\ DownKnown' /\ Sound(p)'
<1> DEFINE m == [mem[p] EXCEPT !.pc = "finish", !.result = "APPLIED", !.alarm = {}]
<1>1. mem[p] \in Memory /\ mem \in [Processes -> Memory]
  BY DEF TypeOK
<1>2. Mine(p) /\ file = Both(sw.map) /\ server' = server
  BY DEF CloseWipe, At, Sound, OwnSwitch, InPlace, Mine
<1>3. InProgress(sw.wipe) => mem[p].stopped /\ (power \in {"up", "starting"} \/ "down" \in mem[p].alarm)
  BY DEF CloseWipe, Sound, ServerKnown
<1>4. CASE /\ \E wipe \in {"DONE", "FAILED"} :
               sw' = [sw EXCEPT !.wipe = wipe, !.cleared = mem[p].cleared, !.alarm = @ \cup mem[p].alarm]
           /\ Hold(p, m)
  <2>1. mem'[p].pc = "finish" /\ mem'[p].id = mem[p].id
    BY <1>1, <1>4 DEF Hold, Memory
  <2>2. /\ sw'.wipe \in {"DONE", "FAILED"} /\ sw'.id = sw.id /\ sw'.status = sw.status /\ sw'.map = sw.map
        /\ sw'.alarm = sw.alarm \cup mem[p].alarm
    BY <1>4 DEF TypeOK
  <2> HIDE DEF m
  <2>3. DownKnown'
    BY <1>2, <1>3, <2>2 DEF server, DownKnown, WipesInProgress, Pending
  <2> QED
    BY <1>2, <2>1, <2>2, <2>3 DEF server, WipedInPlace, InProgress, Mine, Pending,
       Sound, OwnSwitch, ServerKnown, InPlace, At, Writing, Restoring, Wiping
<1>5. CASE sw' = sw /\ Hold(p, [m EXCEPT !.pc = AfterClose(mem[p])])
  <2>1. mem'[p].pc = AfterClose(mem[p]) /\ mem'[p].id = mem[p].id
    BY <1>1, <1>5 DEF Hold, Memory
  <2>2. mem'[p].pc = "end" \/ (mem'[p].pc = "finish" /\ ~InProgress(sw.wipe))
    BY <1>3, <2>1 DEF AfterClose
  <2> HIDE DEF m
  <2> QED
    BY <1>2, <1>5, <2>1, <2>2 DEF server, DownKnown, WipesInProgress, WipedInPlace, Mine, Pending,
       Sound, OwnSwitch, ServerKnown, InPlace, At, Writing, Restoring, Wiping
<1> QED
  BY <1>4, <1>5 DEF CloseWipe

\* A wipe that was interrupted is carried on.
LEMMA ResumeSound ==
    ASSUME TypeOK, WipedInPlace, DownKnown, NEW p \in Processes, Sound(p), Resume(p)
    PROVE  WipedInPlace' /\ DownKnown' /\ Sound(p)'
<1> DEFINE m == [mem[p] EXCEPT !.id = sw.id, !.cleared = sw.cleared, !.stopped = TRUE]
<1>1. mem[p] \in Memory /\ mem \in [Processes -> Memory]
  BY DEF TypeOK
<1>2. UNCHANGED <<row, server>>
  BY DEF Resume
<1>3. CASE Goto(p, "end")
  <2>1. mem'[p].pc = "end"
    BY <1>1, <1>3 DEF Goto, Hold, Memory
  <2> QED
    BY <1>2, <2>1 DEF row, server, WipedInPlace, DownKnown, Pending, WipesInProgress,
       Sound, OwnSwitch, ServerKnown, InPlace, At, Writing, Restoring, Wiping
<1>4. CASE WipesInProgress /\ mem'[p].id = sw.id /\ mem'[p].stopped
           /\ \/ mem'[p].pc = "start"
              \/ mem'[p].pc = "close" /\ (power \in {"up", "starting"} \/ "down" \in mem'[p].alarm)
  <2>1. Pending /\ sw.wipe # "NONE" /\ InProgress(sw.wipe)
    BY <1>4 DEF WipesInProgress, InProgress
  <2> QED
    BY <1>2, <1>4, <2>1 DEF row, server, WipedInPlace, DownKnown, Pending, WipesInProgress, Mine,
       Sound, OwnSwitch, ServerKnown, InPlace, At, Writing, Restoring, Wiping
<1>5. ASSUME NEW pc \in {"close", "start"}, Hold(p, [m EXCEPT !.pc = pc])
      PROVE  mem'[p].pc = pc /\ mem'[p].id = sw.id /\ mem'[p].stopped
  BY <1>1, <1>5 DEF Hold, Memory
<1>6. CASE Hold(p, [m EXCEPT !.pc = "close", !.alarm = {"down"}])
  <2>1. mem'[p].pc = "close" /\ mem'[p].id = sw.id /\ mem'[p].stopped /\ "down" \in mem'[p].alarm
    BY <1>1, <1>6 DEF Hold, Memory
  <2> HIDE DEF m
  <2> QED
    BY <1>3, <1>4, <1>6, <2>1 DEF Resume, m
<1>7. \/ Goto(p, "end")
      \/ /\ WipesInProgress
         /\ \/ power \in {"up", "starting"} /\ Hold(p, [m EXCEPT !.pc = "close"])
            \/ Hold(p, [m EXCEPT !.pc = "start"])
            \/ Hold(p, [m EXCEPT !.pc = "close", !.alarm = {"down"}])
  BY DEF Resume
<1> HIDE DEF m
<1> QED
  BY <1>3, <1>4, <1>5, <1>6, <1>7

\* Only who works takes a step of a pass.
LEMMA StepsWork ==
    ASSUME NEW p \in Processes, Step(p)
    PROVE  Works(p)
  BY DEF Step, Load, NotAllowed, BeginSwitch, ReadFiles, CannotRead, SaveSwitchBackup, Put, ReadBack,
     Restore, Verify, FinishSwitch, ClaimWipe, SaveStop, SendStop, WaitStopped, SaveDeleted, SaveStart,
     Restart, Watch, CloseWipe, Resume, Release, Works, At

\* What the others know is not disturbed as long as one process works.
LEMMA OrderlyNext ==
    ASSUME TypeOK, Leased, Orderly, [Next]_vars
    PROVE  Orderly'
<1> SUFFICES ASSUME "overrun" \notin harm'
             PROVE  WipedInPlace' /\ DownKnown' /\ \A q \in Processes : Sound(q)'
  BY DEF Orderly
<1>1. /\ WipedInPlace /\ DownKnown /\ \A q \in Processes : Sound(q)
      /\ \A q \in Processes : Works(q) => holder = q
  BY HarmGrows DEF Orderly, Leased
<1>2. ASSUME NEW p \in Processes, StartPass(p) \/ RecoverWipe(p) \/ Step(p) \/ Crash(p) \/ Start(p)
      PROVE  WipedInPlace' /\ DownKnown' /\ \A q \in Processes : Sound(q)'
  <2>1. WipedInPlace' /\ DownKnown' /\ Sound(p)'
    BY <1>1, <1>2, StartSound, LoadSound, BeginSound, WriteSound, FinishSound, ClaimSound, WipeSound, CloseSound,
       ResumeSound DEF Step
  <2>2. /\ \A q \in Processes \ {p} : mem'[q] = mem[q]
        /\ \/ holder' = holder /\ (Works(p) \/ ~Works(p)')
           \/ holder \in {None, p} /\ holder' = p
           \/ holder = p /\ ~Works(p)'
    BY <1>2, LeaseMoves
  <2>3. ASSUME NEW q \in Processes \ {p}
        PROVE  Sound(q)'
    <3>1. CASE Works(p) \/ holder \in {None, p}
      <4>1. ~Works(q)
        BY <1>1, <3>1, SwitchAssumption
      <4>2. mem'[q].pc \in {"off", "idle"}
        BY <2>2, <4>1 DEF Works
      <4> QED
        BY <4>2 DEF Sound, OwnSwitch, ServerKnown, InPlace, At, Writing, Restoring, Wiping
    <3>2. CASE ~Works(p) /\ holder \notin {None, p}
      <4>1. CASE Start(p)
        <5>1. UNCHANGED <<row, server>> /\ mem'[q] = mem[q]
          BY <2>2, <4>1 DEF Start
        <5>2. Sound(q)
          BY <1>1
        <5> QED
          BY <5>1, <5>2 DEF row, server, Sound, OwnSwitch, ServerKnown, InPlace, At, Mine, Pending
      <4>2. CASE StartPass(p) \/ RecoverWipe(p) \/ Crash(p)
        BY <3>2, <4>2 DEF StartPass, RecoverWipe, Claim, Crash, Works
      <4>3. CASE Step(p)
        BY <3>2, <4>3, StepsWork
      <4> QED
        BY <1>2, <4>1, <4>2, <4>3
    <3> QED
      BY <3>1, <3>2
  <2> QED
    BY <2>1, <2>3
<1>3. CASE Expire \/ GrowOld \/ (\E on \in BOOLEAN : Save(on)) \/ UNCHANGED vars
  <2>1. /\ sw'.id = sw.id /\ sw'.status = sw.status /\ sw'.wipe = sw.wipe /\ sw'.map = sw.map
        /\ sw'.alarm = sw.alarm /\ mem' = mem /\ server' = server
    BY <1>3 DEF Expire, GrowOld, Save, vars, row, server, TypeOK
  <2> QED
    BY <1>1, <2>1 DEF server, WipedInPlace, DownKnown, WipesInProgress, Pending, Mine,
       Sound, OwnSwitch, ServerKnown, InPlace, At
<1>4. CASE Server
  <2>1. sw' = sw /\ mem' = mem /\ file' = file
    BY <1>4 DEF Server, row
  <2>2. power \in {"up", "starting"} => power' \in {"up", "starting"}
    BY <1>4 DEF Server
  <2>3. power' \in {"stopping", "down"} => power \in {"stopping", "down"}
    BY <1>4 DEF Server
  <2> QED
    BY <1>1, <2>1, <2>2, <2>3 DEF WipedInPlace, DownKnown, WipesInProgress, Pending, Mine,
       Sound, OwnSwitch, ServerKnown, InPlace, At
<1> QED
  BY <1>2, <1>3, <1>4 DEF Next

-----------------------------------------------------------------------------
(* What a process knows of the files.                                      *)

\* At first both files are of the map that is loaded.
LEMMA FaithfulInit == Init => Faithful
<1> SUFFICES ASSUME Init
             PROVE  Faithful
  OBVIOUS
<1>1. ~Mixed
  BY SwitchAssumption DEF Init, Mixed
<1>2. ~Pending
  BY DEF Init, NoSwitch, Pending
<1>3. \A p \in Processes : mem[p].pc = "idle"
  BY DEF Init, Idle
<1> QED
  BY <1>1, <1>2, <1>3 DEF Faithful, BackedUp, ReadsTrue, Writing, Restoring

\* Files that are all in place, or all back, are of one map.
LEMMA OneMap ==
    ASSUME NEW map \in Maps, file = Both(map)
    PROVE  ~Mixed
  BY DEF Mixed

\* Files that are all as they were backed up are of one map.
LEMMA BackIsOneMap ==
    ASSUME TypeOK, BackedUp, Pending, sw.backup # None, \A f \in Files : file[f] = sw.backup[f]
    PROVE  ~Mixed
<1>1. PICK map \in Maps : sw.backup = Both(map)
  BY DEF BackedUp
<1>2. \A f \in Files : file[f] = map
  BY <1>1 DEF Both
<1> QED
  BY <1>2, BothInPlace, OneMap

\* Nothing that was written or backed up changes.
LEMMA BackKeeps ==
    ASSUME BackedUp, sw'.status = sw.status, sw'.backup = sw.backup, sw'.map = sw.map, file' = file
    PROVE  BackedUp'
  BY DEF BackedUp, Pending, Mixed

\* A file gets the content of the backup or of the map that is wanted.
LEMMA BackUploads ==
    ASSUME TypeOK, BackedUp, Pending, sw' = sw, sw.backup # None, NEW f \in Files,
           file' = file \/ file' = [file EXCEPT ![f] = sw.backup[f]] \/ file' = [file EXCEPT ![f] = sw.map]
    PROVE  BackedUp'
<1>1. \A g \in Files : file'[g] \in {file[g], sw.backup[g], sw.map}
  BY DEF TypeOK, Whole
<1> QED
  BY <1>1 DEF BackedUp, Pending

\* A pass where it has neither read nor written anything.
LEMMA BlankTrue ==
    ASSUME NEW p \in Processes,
           mem'[p].pc \notin {"read", "backup", "finish"} \cup Writing \cup Restoring
    PROVE  ReadsTrue(p)'
  BY DEF ReadsTrue, Writing, Restoring

\* A pass that ends tells staff, or leaves one map.
LEMMA FinishTrue ==
    ASSUME NEW p \in Processes, mem'[p].pc = "finish", "files" \in mem'[p].alarm \/ ~Mixed'
    PROVE  ReadsTrue(p)'
  BY DEF ReadsTrue, Writing, Restoring

\* Passes that begin or end touch no file.
LEMMA StartTrue ==
    ASSUME TypeOK, BackedUp, NEW p \in Processes,
           StartPass(p) \/ RecoverWipe(p) \/ NotAllowed(p) \/ Crash(p) \/ Start(p) \/ Release(p)
    PROVE  BackedUp' /\ ReadsTrue(p)'
<1>1. mem[p] \in Memory /\ mem \in [Processes -> Memory]
  BY DEF TypeOK
<1>2. mem'[p].pc \in {"off", "idle", "load", "recover", "end"}
  BY <1>1 DEF StartPass, RecoverWipe, NotAllowed, Crash, Start, Release, Goto, Hold, Memory, Idle, Off
<1>3. UNCHANGED <<row, server>>
  BY DEF StartPass, RecoverWipe, NotAllowed, Crash, Start, Release
<1> QED
  BY <1>2, <1>3, BackKeeps, BlankTrue DEF row, server, Writing, Restoring

\* What a pass finds, it gives up only with the alarm.
LEMMA LoadTrue ==
    ASSUME TypeOK, BackedUp, WipedInPlace, NEW p \in Processes, Load(p)
    PROVE  BackedUp' /\ ReadsTrue(p)'
<1>1. mem[p] \in Memory /\ mem \in [Processes -> Memory]
  BY DEF TypeOK
<1>2. UNCHANGED <<row, server>>
  BY DEF Load
<1>3. BackedUp' /\ (Mixed' => Mixed)
  BY <1>2, BackKeeps DEF row, server, Mixed
<1>4. ASSUME NEW pc \in {"end", "begin"}, Goto(p, pc)
      PROVE  ReadsTrue(p)'
  <2>1. mem'[p].pc = pc
    BY <1>1, <1>4 DEF Goto, Hold, Memory
  <2> QED
    BY <2>1, BlankTrue DEF Writing, Restoring
<1>5. CASE Hold(p, [mem[p] EXCEPT !.pc = "finish", !.id = sw.id, !.result = "APPLIED"])
           /\ Pending /\ Closed(sw.wipe)
  <2>1. mem'[p].pc = "finish"
    BY <1>1, <1>5 DEF Hold, Memory
  <2>2. ~Mixed
    BY <1>5, OneMap DEF WipedInPlace, Closed, TypeOK
  <2> QED
    BY <1>3, <2>1, <2>2, FinishTrue
<1>6. CASE Hold(p, [mem[p] EXCEPT !.pc = "finish", !.id = sw.id, !.result = "FAILED",
                                  !.alarm = IF sw.backup # None THEN {"files"} ELSE {}])
  <2>1. mem'[p].pc = "finish" /\ mem'[p].alarm = IF sw.backup # None THEN {"files"} ELSE {}
    BY <1>1, <1>6 DEF Hold, Memory
  <2>2. sw.backup = None => ~Mixed
    BY DEF BackedUp
  <2> QED
    BY <1>3, <2>1, <2>2, FinishTrue
<1> QED
  BY <1>3, <1>4, <1>5, <1>6 DEF Load

\* A new switch begins when the files are of one map.
LEMMA BeginTrue ==
    ASSUME TypeOK, BackedUp, NEW p \in Processes, NEW map \in Maps, NEW clear \in BOOLEAN,
           BeginSwitch(p, map, clear)
    PROVE  BackedUp' /\ ReadsTrue(p)'
<1>1. mem[p] \in Memory /\ mem \in [Processes -> Memory]
  BY DEF TypeOK
<1>2. mem'[p].pc = "read" /\ mem'[p].prior = sw'.backup
  BY <1>1 DEF BeginSwitch, Hold, Memory
<1>3. ReadsTrue(p)'
  BY <1>2 DEF ReadsTrue, Writing, Restoring
<1>4. file' = file
  BY DEF BeginSwitch, server
<1>5. CASE Pending
  <2>1. sw'.status = sw.status /\ sw'.backup = sw.backup /\ sw'.map = sw.map
    BY <1>5 DEF BeginSwitch, TypeOK
  <2> QED
    BY <1>3, <1>4, <2>1, BackKeeps
<1>6. CASE ~Pending
  <2>1. sw' = [id |-> used'.switches, status |-> "PENDING", map |-> map, attempts |-> 1, backup |-> None,
               wipe |-> "NONE", cleared |-> FALSE, old |-> FALSE, alarm |-> sw.alarm]
    BY <1>6 DEF BeginSwitch, NoSwitch
  <2>2. sw'.backup = None
    BY <2>1
  <2> QED
    BY <1>3, <1>4, <1>6, <2>2 DEF BackedUp, Mixed
<1> QED
  BY <1>5, <1>6

\* Nothing goes wrong in a step after which nothing has.
LEMMA Unharmed ==
    ASSUME TypeOK, NEW kinds, Harm(kinds), harm' = {}
    PROVE  kinds = {}
  BY DEF Harm

\* Reading finds the backup or the wanted content in every file.
LEMMA ReadTrue ==
    ASSUME TypeOK, BackedUp, harm' = {}, NEW p \in Processes, Sound(p), ReadsTrue(p),
           ReadFiles(p) \/ CannotRead(p)
    PROVE  BackedUp' /\ ReadsTrue(p)'
<1>1. mem[p] \in Memory /\ mem \in [Processes -> Memory] /\ mem[p].pc = "read"
  BY DEF TypeOK, ReadFiles, CannotRead, At
<1>2. UNCHANGED <<row, server>>
  BY DEF ReadFiles, CannotRead
<1>3. BackedUp' /\ (Mixed' => Mixed)
  BY <1>2, BackKeeps DEF row, server, Mixed
<1>4. /\ mem[p].prior = sw.backup /\ mem[p].want = Both(sw.map) /\ Pending /\ sw.map \in Maps
  BY <1>1 DEF ReadsTrue, Sound, InPlace, OwnSwitch, Mine, TypeOK
<1>5. CASE ReadFiles(p)
  <2> DEFINE todo == {g \in Files : file[g] # mem[p].want[g]}
             m == [mem[p] EXCEPT !.live = file, !.todo = todo]
  <2>1. CASE todo = {}
    <3>1. file = Both(sw.map)
      BY <1>4, <2>1, BothInPlace DEF Both
    <3>2. Hold(p, Applied(m)) /\ m \in Memory
      BY <1>1, <1>5, <2>1, ZenonT(40) DEF ReadFiles, Memory, TypeOK, Content, Writing, Restoring, Wiping
    <3>3. mem'[p] = Applied(m)
      BY <1>1, <3>2 DEF Hold
    <3>4. mem'[p].pc \in {"finish", "claim"}
      BY <3>2, <3>3, AppliedIs
    <3>5. ~Mixed
      BY <1>4, <3>1, OneMap
    <3> QED
      BY <1>3, <3>4, <3>5, FinishTrue, BlankTrue DEF Writing, Restoring
  <2>2. CASE todo # {}
    <3>1. mem' = [mem EXCEPT ![p] = [m EXCEPT !.pc = IF m.prior = None THEN "backup" ELSE "put"]]
      BY <1>5, <2>2 DEF ReadFiles, Hold
    <3>2. /\ mem'[p].pc = IF mem[p].prior = None THEN "backup" ELSE "put"
          /\ mem'[p].prior = mem[p].prior /\ mem'[p].live = file /\ mem'[p].todo = todo
      BY <1>1, <3>1 DEF Memory
    <3>3. \A g \in todo : g \in Files /\ file[g] # sw.map
      BY <1>4 DEF Both
    <3>4. sw.backup # None => \A g \in todo : file[g] = sw.backup[g]
      BY <1>4, <3>3 DEF BackedUp
    <3>5. sw' = sw /\ file' = file
      BY <1>2 DEF row, server
    <3> HIDE DEF m, todo
    <3> QED
      BY <1>3, <1>4, <3>2, <3>4, <3>5 DEF ReadsTrue, Writing, Restoring
  <2> QED
    BY <2>1, <2>2
<1>6. CASE CannotRead(p)
  <2>1. mem'[p] = Result(mem[p], "FAILED", {})
    BY <1>1, <1>6 DEF CannotRead, Hold
  <2>2. mem'[p].pc = "finish"
    BY <1>1, <2>1, ResultIs
  <2>3. ~Mixed
    <3>1. CASE mem[p].prior = None
      BY <1>4, <3>1 DEF BackedUp
    <3>2. CASE mem[p].prior # None
      <4>1. file["gameplay"] = Bad
        <5>1. ~Harm({"blind"})
          BY Unharmed
        <5> QED
          BY <1>6, <3>2, <5>1 DEF CannotRead
      <4>2. PICK map \in Maps : sw.backup = Both(map)
        BY <1>4, <3>2 DEF BackedUp
      <4>3. file["gameplay"] \in {map, sw.map}
        BY <1>4, <3>2, <4>2 DEF BackedUp, Both, Files
      <4> QED
        BY <1>4, <4>1, <4>3, SwitchAssumption
    <3> QED
      BY <3>1, <3>2
  <2> QED
    BY <1>3, <2>2, <2>3, FinishTrue
<1> QED
  BY <1>5, <1>6

\* The backup is what is on the server.
LEMMA BackupTrue ==
    ASSUME TypeOK, BackedUp, NEW p \in Processes, Sound(p), ReadsTrue(p), SaveSwitchBackup(p)
    PROVE  BackedUp' /\ ReadsTrue(p)'
<1>1. mem[p] \in Memory /\ mem \in [Processes -> Memory] /\ mem[p].pc = "backup"
  BY DEF TypeOK, SaveSwitchBackup, At
<1>2. mem[p].prior = sw.backup /\ mem[p].prior = None /\ mem[p].live = file
  BY <1>1 DEF ReadsTrue
<1>3. file' = file /\ Pending
  BY <1>1 DEF SaveSwitchBackup, server, Sound, OwnSwitch, Mine
<1>4. ~Mixed
  BY <1>2 DEF BackedUp
<1>5. CASE sw' = sw /\ Hold(p, Result(mem[p], "FAILED", {}))
  <2>1. mem'[p] = Result(mem[p], "FAILED", {})
    BY <1>1, <1>5 DEF Hold
  <2>2. mem'[p].pc = "finish"
    BY <1>1, <2>1, ResultIs
  <2> QED
    BY <1>3, <1>4, <1>5, <2>2, BackKeeps, FinishTrue DEF Mixed
<1>6. CASE sw' = [sw EXCEPT !.backup = mem[p].live] /\ Hold(p, [mem[p] EXCEPT !.pc = "put"])
  <2>1. sw'.backup = file /\ sw'.map = sw.map
    BY <1>2, <1>6 DEF TypeOK
  <2>2. /\ mem'[p].pc = "put" /\ mem'[p].live = file /\ mem'[p].prior = None /\ mem'[p].todo = mem[p].todo
    BY <1>1, <1>2, <1>6 DEF Hold, Memory
  <2>3. BackedUp'
    <3>1. PICK map \in Maps : file = Both(map)
      BY <1>4 DEF Mixed
    <3>2. \A f \in Files : file[f] = sw'.backup[f]
      BY <2>1
    <3> QED
      BY <1>3, <1>4, <2>1, <3>1, <3>2 DEF BackedUp, Mixed
  <2>4. ReadsTrue(p)'
    BY <1>3, <2>1, <2>2 DEF ReadsTrue, Writing, Restoring
  <2> QED
    BY <2>3, <2>4
<1> QED
  BY <1>5, <1>6 DEF SaveSwitchBackup

\* Both files are as they were before the first write.
LEMMA PutBackTrue ==
    ASSUME TypeOK, BackedUp, Pending, sw' = sw, file' = file, NEW p \in Processes, mem[p] \in Memory,
           mem[p].pc \in Writing, sw.backup = (IF mem[p].prior = None THEN mem[p].live ELSE mem[p].prior),
           NEW files \in {Files, {"gameplay"}}, mem'[p] = RollBack(mem[p], files),
           files = {"gameplay"} => file["spawns"] = sw.backup["spawns"]
    PROVE  ReadsTrue(p)'
<1>1. mem'[p].pc = "restore" /\ mem'[p].todo = files /\ mem'[p].live = sw.backup
  BY RollBackIs
<1>2. \A f \in Files \ files : file'[f] = sw.backup[f]
  BY DEF Files
<1> QED
  BY <1>1, <1>2 DEF ReadsTrue, Writing, Restoring

\* What is known of the files while one is written.
LEMMA WritingKnows ==
    ASSUME TypeOK, NEW p \in Processes, Sound(p), ReadsTrue(p), mem[p].pc \in Writing
    PROVE  /\ Pending /\ sw.map \in Maps /\ mem[p].want = Both(sw.map)
           /\ First(mem[p].todo) \in Files /\ First(mem[p].todo) \in mem[p].todo
           /\ sw.backup = (IF mem[p].prior = None THEN mem[p].live ELSE mem[p].prior)
           /\ \A g \in mem[p].todo : mem[p].live[g] = sw.backup[g]
           /\ \A g \in mem[p].todo \ {First(mem[p].todo)} : file[g] = mem[p].live[g]
           /\ "gameplay" \in mem[p].todo => file["spawns"] = mem[p].live["spawns"]
           /\ sw.backup # None
<1>1. mem[p] \in Memory
  BY DEF TypeOK
<1>2. /\ Pending /\ sw.map \in Maps /\ mem[p].want = Both(sw.map)
      /\ sw.backup = (IF mem[p].prior = None THEN mem[p].live ELSE mem[p].prior)
  BY DEF Sound, OwnSwitch, InPlace, ReadsTrue, Mine, TypeOK, Writing, Restoring
<1>3. First(mem[p].todo) \in Files /\ First(mem[p].todo) \in mem[p].todo
  BY <1>1, FirstType DEF Memory
<1>4. /\ \A g \in mem[p].todo : mem[p].live[g] = sw.backup[g]
      /\ \A g \in mem[p].todo \ {First(mem[p].todo)} : file[g] = mem[p].live[g]
      /\ "gameplay" \in mem[p].todo => file["spawns"] = mem[p].live["spawns"]
  BY DEF ReadsTrue, Writing, Restoring
<1>5. sw.backup # None
  BY <1>1, <1>2, SwitchAssumption DEF Memory
<1> QED
  BY <1>2, <1>3, <1>4, <1>5

\* A write that failed, or may have, is put back.
LEMMA FailTrue ==
    ASSUME TypeOK, BackedUp, sw' = sw, file' = file, NEW p \in Processes, Sound(p), ReadsTrue(p),
           mem[p].pc \in Writing, NEW outcome \in {"unchanged", "uncertain"},
           outcome = "unchanged" =>
               file[First(mem[p].todo)] = mem[p].live[First(mem[p].todo)],
           Hold(p, After(mem[p], First(mem[p].todo), outcome))
    PROVE  BackedUp' /\ ReadsTrue(p)'
<1> DEFINE f == First(mem[p].todo)
           m == mem[p]
<1>1. m \in Memory /\ mem \in [Processes -> Memory]
  BY DEF TypeOK
<1>2. /\ Pending /\ f \in Files /\ f \in m.todo /\ m.todo \in SUBSET Files
      /\ sw.backup = (IF m.prior = None THEN m.live ELSE m.prior)
      /\ \A g \in m.todo : m.live[g] = sw.backup[g]
      /\ \A g \in m.todo \ {f} : file[g] = m.live[g]
      /\ "gameplay" \in m.todo => file["spawns"] = m.live["spawns"]
      /\ sw.backup # None
  BY <1>1, WritingKnows DEF Memory
<1>3. BackedUp'
  BY BackKeeps
<1>4. mem'[p] = After(m, f, outcome)
  BY <1>1 DEF Hold
<1>5. outcome = "unchanged" => file[f] = m.live[f]
  OBVIOUS
<1>6. f = "gameplay" \/ f = "spawns"
  BY <1>2 DEF Files
<1>7. CASE f = "spawns" /\ outcome = "uncertain"
  <2>1. mem'[p] = RollBack(m, Files)
    BY <1>4, <1>7 DEF After
  <2>2. Files # {"gameplay"}
    BY DEF Files
  <2> QED
    BY <1>1, <1>2, <1>3, <2>1, <2>2, PutBackTrue
<1>8. CASE f = "spawns" /\ outcome = "unchanged"
  <2>1. mem'[p] = RollBack(m, {"gameplay"})
    BY <1>4, <1>8 DEF After
  <2>2. file["spawns"] = sw.backup["spawns"]
    BY <1>2, <1>5, <1>8
  <2> QED
    BY <1>1, <1>2, <1>3, <2>1, <2>2, PutBackTrue
<1>9. CASE f = "gameplay" /\ m.prior # None
  <2>1. mem'[p] = RollBack(m, Files)
    BY <1>4, <1>9 DEF After
  <2>2. Files # {"gameplay"}
    BY DEF Files
  <2> QED
    BY <1>1, <1>2, <1>3, <2>1, <2>2, PutBackTrue
<1>10. CASE f = "gameplay" /\ m.prior = None /\ outcome = "uncertain"
  <2>1. mem'[p] = RollBack(m, {"gameplay"})
    BY <1>4, <1>10 DEF After
  <2>2. file["spawns"] = sw.backup["spawns"]
    BY <1>2, <1>10
  <2> QED
    BY <1>1, <1>2, <1>3, <2>1, <2>2, PutBackTrue
<1>11. CASE f = "gameplay" /\ m.prior = None /\ outcome = "unchanged"
  <2>1. mem'[p] = Result(m, "FAILED", {})
    BY <1>4, <1>11 DEF After
  <2>2. mem'[p].pc = "finish"
    BY <1>1, <2>1, ResultIs
  <2>3. \A g \in Files : file[g] = sw.backup[g]
    BY <1>2, <1>5, <1>11 DEF Files
  <2>4. ~Mixed'
    BY <1>2, <2>3, BackIsOneMap DEF Mixed
  <2> QED
    BY <1>3, <2>2, <2>4, FinishTrue
<1> HIDE DEF f, m
<1> QED
  BY <1>6, <1>7, <1>8, <1>9, <1>10, <1>11

\* The upload of a file.
LEMMA PutTrue ==
    ASSUME TypeOK, BackedUp, harm' = {}, NEW p \in Processes, Sound(p), ReadsTrue(p), Put(p)
    PROVE  BackedUp' /\ ReadsTrue(p)'
<1> DEFINE f == First(mem[p].todo)
<1>1. mem[p] \in Memory /\ mem \in [Processes -> Memory] /\ mem[p].pc = "put"
  BY DEF TypeOK, Put, At
<1>2. /\ Pending /\ f \in Files /\ f \in mem[p].todo
      /\ sw.backup = (IF mem[p].prior = None THEN mem[p].live ELSE mem[p].prior)
      /\ mem[p].want = Both(sw.map)
      /\ \A g \in mem[p].todo : mem[p].live[g] = sw.backup[g]
      /\ \A g \in mem[p].todo \ {f} : file[g] = mem[p].live[g]
      /\ "gameplay" \in mem[p].todo => file["spawns"] = mem[p].live["spawns"]
      /\ sw.backup # None
  BY <1>1, WritingKnows DEF Writing
<1>3. file[f] = mem[p].live[f]
  BY <1>1, <1>2 DEF ReadsTrue, Writing
<1>4. sw' = sw
  BY DEF Put, row
<1>5. CASE Upload(f, mem[p].want[f]) /\ Goto(p, "readback")
  <2>1. file' = [file EXCEPT ![f] = sw.map] \/ file' = file
    <3>1. ~Harm({"broken"})
      BY Unharmed
    <3>2. mem[p].want[f] = sw.map
      BY <1>2 DEF Both
    <3> QED
      BY <1>5, <3>1, <3>2 DEF Upload
  <2>2. BackedUp'
    BY <1>2, <1>4, <2>1, BackUploads
  <2>3. /\ mem'[p].pc = "readback" /\ mem'[p].live = mem[p].live /\ mem'[p].prior = mem[p].prior
        /\ mem'[p].todo = mem[p].todo
    BY <1>1, <1>5 DEF Goto, Hold, Memory
  <2>4. \A g \in Files \ {f} : file'[g] = file[g]
    BY <2>1 DEF TypeOK, Whole
  <2>5. "gameplay" \in mem[p].todo => f = "gameplay" /\ "spawns" \in Files
    BY DEF First, Files
  <2>6. mem[p].todo \in SUBSET Files
    BY <1>1 DEF Memory
  <2>7. ReadsTrue(p)'
    <3> HIDE DEF f
    <3>1. /\ \A g \in mem[p].todo : file'[g] = mem[p].live[g] \/ g = f
          /\ "gameplay" \in mem[p].todo => file'["spawns"] = mem[p].live["spawns"]
      BY <1>2, <2>4, <2>5, <2>6
    <3> QED
      BY <1>2, <1>4, <2>3, <3>1 DEF ReadsTrue, Writing, Restoring, f
  <2> QED
    BY <2>2, <2>7
<1>6. CASE Hold(p, After(mem[p], f, "unchanged")) /\ file' = file
  BY <1>1, <1>3, <1>4, <1>6, FailTrue DEF Writing
<1> QED
  BY <1>5, <1>6 DEF Put

\* A write that is judged by reading the file back.
LEMMA ReadBackTrue ==
    ASSUME TypeOK, BackedUp, NEW p \in Processes, Sound(p), ReadsTrue(p), ReadBack(p)
    PROVE  BackedUp' /\ ReadsTrue(p)'
<1> DEFINE f == First(mem[p].todo)
<1>1. mem[p] \in Memory /\ mem \in [Processes -> Memory] /\ mem[p].pc = "readback"
  BY DEF TypeOK, ReadBack, At
<1>2. /\ Pending /\ sw.map \in Maps /\ f \in Files /\ f \in mem[p].todo
      /\ sw.backup = (IF mem[p].prior = None THEN mem[p].live ELSE mem[p].prior)
      /\ mem[p].want = Both(sw.map)
      /\ \A g \in mem[p].todo : mem[p].live[g] = sw.backup[g]
      /\ \A g \in mem[p].todo \ {f} : file[g] = mem[p].live[g]
  BY <1>1, WritingKnows DEF Writing
<1>3. sw' = sw /\ file' = file
  BY DEF ReadBack, row, server
<1>4. BackedUp' /\ (Mixed' => Mixed)
  BY <1>3, BackKeeps DEF Mixed
<1>5. CASE Hold(p, After(mem[p], f, "written")) /\ file[f] = mem[p].want[f]
  <2>1. mem'[p] = After(mem[p], f, "written")
    BY <1>1, <1>5 DEF Hold
  <2>2. CASE mem[p].todo = {f}
    <3>1. mem'[p] = Applied(mem[p])
      BY <2>1, <2>2 DEF After
    <3>2. mem'[p].pc \in {"finish", "claim"}
      BY <1>1, <3>1, AppliedIs
    <3>3. \A g \in Files \ mem[p].todo : file[g] = mem[p].want[g]
      BY <1>1 DEF Sound, InPlace, Writing
    <3>4. \A g \in Files : file[g] = sw.map
      BY <1>2, <1>5, <2>2, <3>3 DEF Both
    <3>5. ~Mixed
      BY <1>2, <3>4, BothInPlace, OneMap
    <3> QED
      BY <1>4, <3>2, <3>5, FinishTrue, BlankTrue DEF Writing, Restoring
  <2>3. CASE mem[p].todo # {f}
    <3>1. mem'[p] = [mem[p] EXCEPT !.pc = "put", !.todo = @ \ {f}]
      BY <2>1, <2>3 DEF After
    <3>2. /\ mem'[p].pc = "put" /\ mem'[p].live = mem[p].live /\ mem'[p].prior = mem[p].prior
          /\ mem'[p].todo = mem[p].todo \ {f}
      BY <1>1, <3>1 DEF Memory
    <3>3. "gameplay" \notin mem[p].todo \ {f}
      BY DEF First
    <3> HIDE DEF f
    <3> QED
      BY <1>2, <1>3, <1>4, <3>2, <3>3 DEF ReadsTrue, Writing, Restoring
  <2> QED
    BY <2>2, <2>3
<1>6. CASE \E outcome \in {"unchanged", "uncertain"} :
               /\ Hold(p, After(mem[p], f, outcome))
               /\ outcome = "unchanged" => file[f] = mem[p].live[f]
  BY <1>1, <1>3, <1>6, FailTrue DEF Writing
<1>7. \/ Hold(p, After(mem[p], f, Outcome(mem[p], f, file[f])))
      \/ Hold(p, After(mem[p], f, "uncertain"))
  BY DEF ReadBack
<1>8. CASE Outcome(mem[p], f, file[f]) = "written"
  <2>1. file[f] = mem[p].want[f]
    BY <1>8 DEF Outcome
  <2> HIDE DEF f
  <2> QED
    BY <1>5, <1>6, <1>7, <1>8, <2>1
<1>9. CASE Outcome(mem[p], f, file[f]) # "written"
  <2>1. \/ Outcome(mem[p], f, file[f]) = "uncertain"
        \/ Outcome(mem[p], f, file[f]) = "unchanged" /\ file[f] = mem[p].live[f]
    BY <1>9 DEF Outcome
  <2> HIDE DEF f
  <2> QED
    BY <1>6, <1>7, <2>1
<1> QED
  BY <1>8, <1>9

\* A file is put back, or staff are told.
LEMMA RestoreTrue ==
    ASSUME TypeOK, BackedUp, harm' = {}, NEW p \in Processes, Sound(p), ReadsTrue(p), Restore(p) \/ Verify(p)
    PROVE  BackedUp' /\ ReadsTrue(p)'
<1> DEFINE f == First(mem[p].todo)
<1>1. mem[p] \in Memory /\ mem \in [Processes -> Memory] /\ mem[p].pc \in Restoring
  BY DEF TypeOK, Restore, Verify, At, Restoring
<1>2. f \in Files /\ f \in mem[p].todo /\ mem[p].todo \in SUBSET Files
  BY <1>1, FirstType DEF Memory
<1>3. /\ Pending /\ sw.backup = mem[p].live /\ sw.backup # None
      /\ "files" \notin mem[p].alarm => \A g \in Files \ mem[p].todo : file[g] = mem[p].live[g]
  <2>1. Pending
    BY <1>1 DEF Sound, OwnSwitch, Mine, Restoring
  <2>2. /\ sw.backup = mem[p].live
        /\ "files" \notin mem[p].alarm => \A g \in Files \ mem[p].todo : file[g] = mem[p].live[g]
    BY <1>1 DEF ReadsTrue, Writing, Restoring
  <2>3. mem[p].live # None
    BY <1>1, SwitchAssumption DEF Memory
  <2> QED
    BY <2>1, <2>2, <2>3
<1>4. sw' = sw
  BY DEF Restore, Verify, row
<1>5. CASE Upload(f, mem[p].live[f]) /\ Goto(p, "verify")
  <2>1. file' = [file EXCEPT ![f] = sw.backup[f]] \/ file' = file
    <3>1. ~Harm({"broken"})
      BY Unharmed
    <3> QED
      BY <1>3, <1>5, <3>1 DEF Upload
  <2>2. BackedUp'
    BY <1>2, <1>3, <1>4, <2>1, BackUploads
  <2>3. /\ mem'[p].pc = "verify" /\ mem'[p].live = mem[p].live /\ mem'[p].todo = mem[p].todo
        /\ mem'[p].alarm = mem[p].alarm
    BY <1>1, <1>5 DEF Goto, Hold, Memory
  <2>4. \A g \in Files \ {f} : file'[g] = file[g]
    BY <2>1 DEF TypeOK, Whole
  <2> HIDE DEF f
  <2>5. ReadsTrue(p)'
    BY <1>2, <1>3, <1>4, <2>3, <2>4 DEF ReadsTrue, Writing, Restoring
  <2> QED
    BY <2>2, <2>5
<1>6. ASSUME NEW ok \in BOOLEAN, Hold(p, Restored(mem[p], f, ok)), file' = file, ok => file[f] = mem[p].live[f]
      PROVE  BackedUp' /\ ReadsTrue(p)'
  <2> DEFINE n == [mem[p] EXCEPT !.pc = "restore", !.todo = @ \ {f}, !.alarm = IF ok THEN @ ELSE {"files"}]
  <2>1. BackedUp' /\ (Mixed' => Mixed)
    BY <1>4, <1>6, BackKeeps DEF Mixed
  <2>2. /\ n.pc = "restore" /\ n.live = mem[p].live /\ n.todo = mem[p].todo \ {f}
        /\ n.alarm = IF ok THEN mem[p].alarm ELSE {"files"}
    BY <1>1 DEF Memory
  <2>3. mem'[p] = Restored(mem[p], f, ok)
    BY <1>1, <1>6 DEF Hold
  <2>4. "files" \notin n.alarm => \A g \in Files \ n.todo : file[g] = mem[p].live[g]
    BY <1>2, <1>3, <1>6, <2>2
  <2>5. CASE n.todo # {}
    <3>1. mem'[p] = n
      BY <2>3, <2>5 DEF Restored
    <3> HIDE DEF n
    <3> QED
      BY <1>3, <1>4, <1>6, <2>1, <2>2, <2>4, <3>1 DEF ReadsTrue, Writing, Restoring
  <2>6. CASE n.todo = {}
    <3>1. mem'[p].pc = "finish" /\ mem'[p].alarm = n.alarm
      BY <1>1, <2>3, <2>6 DEF Restored, Result, Memory
    <3>2. "files" \in n.alarm \/ ~Mixed
      BY <1>3, <2>4, <2>6, BackIsOneMap
    <3> HIDE DEF n
    <3> QED
      BY <2>1, <3>1, <3>2, FinishTrue
  <2> QED
    BY <2>5, <2>6
<1>7. \/ Upload(f, mem[p].live[f]) /\ Goto(p, "verify")
      \/ \E ok \in BOOLEAN : /\ Hold(p, Restored(mem[p], f, ok)) /\ file' = file
                             /\ ok => file[f] = mem[p].live[f]
  BY DEF Restore, Verify, server
<1> HIDE DEF f
<1> QED
  BY <1>5, <1>6, <1>7

\* A switch is closed with files of one map, or with the alarm.
LEMMA ClosingTrue ==
    ASSUME TypeOK, BackedUp, "files" \notin sw'.alarm, NEW p \in Processes, Sound(p), ReadsTrue(p), FinishSwitch(p)
    PROVE  BackedUp' /\ ReadsTrue(p)'
<1>1. mem[p] \in Memory /\ mem \in [Processes -> Memory] /\ mem[p].pc = "finish"
  BY DEF TypeOK, FinishSwitch, At
<1>2. mem'[p].pc = "end"
  BY <1>1 DEF FinishSwitch, Goto, Hold, Memory
<1>3. ReadsTrue(p)'
  BY <1>2, BlankTrue DEF Writing, Restoring
<1>4. file' = file
  BY DEF FinishSwitch, server
<1>5. CASE sw' = sw
  BY <1>3, <1>4, <1>5, BackKeeps
<1>6. CASE sw' = [sw EXCEPT !.status = mem[p].result, !.alarm = @ \cup mem[p].alarm]
  <2>1. sw'.status = mem[p].result /\ sw'.alarm = sw.alarm \cup mem[p].alarm
    BY <1>6 DEF TypeOK
  <2>2. mem[p].result # "PENDING"
    BY <1>1 DEF Memory, Results
  <2>3. ~Mixed
    BY <1>1, <2>1 DEF ReadsTrue
  <2> QED
    BY <1>3, <1>4, <2>1, <2>2, <2>3 DEF BackedUp, Pending, Mixed
<1> QED
  BY <1>5, <1>6 DEF FinishSwitch

\* Stopping and starting the server leave the files alone.
LEMMA WipeTrue ==
    ASSUME TypeOK, BackedUp, NEW p \in Processes, Sound(p),
           \/ ClaimWipe(p) \/ SaveStop(p) \/ SendStop(p) \/ WaitStopped(p) \/ SaveDeleted(p) \/ SaveStart(p)
           \/ Restart(p) \/ Watch(p) \/ CloseWipe(p) \/ Resume(p)
    PROVE  BackedUp' /\ ReadsTrue(p)'
<1>1. mem[p] \in Memory /\ mem \in [Processes -> Memory]
  BY DEF TypeOK
<1>2. file' = file
  BY DEF ClaimWipe, SaveStop, SendStop, WaitStopped, SaveDeleted, SaveStart, Restart, Watch, CloseWipe, Resume, server
<1>3. sw'.status = sw.status /\ sw'.backup = sw.backup /\ sw'.map = sw.map
  <2>1. CASE SaveStop(p)
    BY <2>1 DEF SaveStop, SetWipeState, TypeOK
  <2>2. CASE SaveDeleted(p) \/ SaveStart(p)
    <3>1. PICK state \in {"DELETED", "START_REQUESTED"} : Stored(p, state)
      BY <2>2 DEF SaveDeleted, SaveStart
    <3>2. sw' = sw \/ \E cleared : sw' = [sw EXCEPT !.wipe = state, !.cleared = cleared]
      BY <3>1 DEF Stored, SetWipeState
    <3> QED
      BY <3>2 DEF TypeOK
  <2>3. CASE CloseWipe(p)
    <3>1. sw' = sw \/ \E wipe \in {"DONE", "FAILED"} :
             sw' = [sw EXCEPT !.wipe = wipe, !.cleared = mem[p].cleared, !.alarm = @ \cup mem[p].alarm]
      BY <2>3 DEF CloseWipe
    <3> QED
      BY <3>1 DEF TypeOK
  <2>4. CASE ClaimWipe(p) \/ SendStop(p) \/ WaitStopped(p) \/ Restart(p) \/ Watch(p) \/ Resume(p)
    BY <2>4 DEF ClaimWipe, SendStop, WaitStopped, Restart, Watch, Resume, row
  <2> QED
    BY <2>1, <2>2, <2>3, <2>4
<1>4. BackedUp' /\ (Mixed' => Mixed)
  BY <1>2, <1>3, BackKeeps DEF Mixed
<1>5. CASE CloseWipe(p)
  <2>1. Pending /\ file = Both(sw.map)
    BY <1>5 DEF CloseWipe, At, Sound, OwnSwitch, InPlace, Mine
  <2>2. ~Mixed
    BY <2>1, OneMap DEF TypeOK
  <2>3. mem'[p].pc \in {"finish", "end"}
    <3> DEFINE m == [mem[p] EXCEPT !.pc = "finish", !.result = "APPLIED", !.alarm = {}]
    <3>1. Hold(p, m) \/ Hold(p, [m EXCEPT !.pc = AfterClose(mem[p])])
      BY <1>5 DEF CloseWipe
    <3>2. mem'[p] = m \/ mem'[p] = [m EXCEPT !.pc = AfterClose(mem[p])]
      BY <1>1, <3>1 DEF Hold
    <3>3. m.pc = "finish" /\ \A pc : [m EXCEPT !.pc = pc].pc = pc
      BY <1>1 DEF Memory
    <3> HIDE DEF m
    <3> QED
      BY <3>2, <3>3 DEF AfterClose
  <2> QED
    BY <1>4, <2>2, <2>3, FinishTrue, BlankTrue DEF Writing, Restoring
<1>6. CASE ClaimWipe(p) \/ SaveStop(p) \/ SaveDeleted(p) \/ SaveStart(p) \/ Restart(p)
  <2>1. PICK pc \in {"stop", "send", "close", "start", "restart", "watch"} : Goto(p, pc)
    BY <1>6 DEF ClaimWipe, SaveStop, SaveDeleted, SaveStart, Restart
  <2>2. mem'[p].pc = pc
    BY <1>1, <2>1 DEF Goto, Hold, Memory
  <2> QED
    BY <1>4, <2>2, BlankTrue DEF Writing, Restoring
<1>7. CASE SendStop(p)
  <2>1. mem'[p].pc = "wait"
    BY <1>1, <1>7 DEF SendStop, Hold, Memory
  <2> QED
    BY <1>4, <2>1, BlankTrue DEF Writing, Restoring
<1>8. CASE WaitStopped(p)
  <2>1. \/ Goto(p, "start")
        \/ \E pc \in {"deleted", "start"}, gone \in BOOLEAN : Hold(p, [mem[p] EXCEPT !.pc = pc, !.cleared = gone])
    BY <1>8 DEF WaitStopped
  <2>2. ASSUME NEW pc \in {"deleted", "start"}, NEW gone \in BOOLEAN,
               Goto(p, "start") \/ Hold(p, [mem[p] EXCEPT !.pc = pc, !.cleared = gone])
        PROVE  mem'[p].pc \in {"deleted", "start"}
    BY <1>1, <2>2 DEF Goto, Hold, Memory
  <2> QED
    BY <1>4, <2>1, <2>2, BlankTrue DEF Writing, Restoring
<1>9. CASE Watch(p)
  <2>1. \/ \E pc \in {"close", "restart"} : Goto(p, pc)
        \/ Hold(p, [mem[p] EXCEPT !.pc = "close", !.alarm = {"down"}])
    BY <1>9 DEF Watch
  <2>2. mem'[p].pc \in {"close", "restart"}
    BY <1>1, <2>1, ZenonT(40) DEF Goto, Hold, Memory
  <2> QED
    BY <1>4, <2>2, BlankTrue DEF Writing, Restoring
<1>10. CASE Resume(p)
  <2> DEFINE m == [mem[p] EXCEPT !.id = sw.id, !.cleared = sw.cleared, !.stopped = TRUE]
  <2>1. \/ Goto(p, "end")
        \/ \E pc \in {"close", "start"} : Hold(p, [m EXCEPT !.pc = pc])
        \/ Hold(p, [m EXCEPT !.pc = "close", !.alarm = {"down"}])
    BY <1>10 DEF Resume
  <2>2. ASSUME NEW pc \in {"close", "start"},
               \/ Goto(p, "end") \/ Hold(p, [m EXCEPT !.pc = pc])
               \/ Hold(p, [m EXCEPT !.pc = "close", !.alarm = {"down"}])
        PROVE  mem'[p].pc \in {"end", "close", "start"}
    BY <1>1, <2>2, ZenonT(40) DEF Goto, Hold, Memory
  <2> HIDE DEF m
  <2> QED
    BY <1>4, <2>1, <2>2, BlankTrue DEF Writing, Restoring
<1> QED
  BY <1>5, <1>6, <1>7, <1>8, <1>9, <1>10

\* What was noted stays noted.
LEMMA AlarmGrows ==
    ASSUME TypeOK, [Next]_vars
    PROVE  "files" \in sw.alarm => "files" \in sw'.alarm
<1>1. ASSUME NEW p \in Processes, StartPass(p) \/ RecoverWipe(p) \/ Step(p) \/ Crash(p) \/ Start(p)
      PROVE  sw.alarm \subseteq sw'.alarm
  <2>1. CASE \E map \in Maps, clear \in BOOLEAN : BeginSwitch(p, map, clear)
    <3>1. PICK map \in Maps, clear \in BOOLEAN : BeginSwitch(p, map, clear)
      BY <2>1
    <3>2. CASE Pending
      BY <3>1, <3>2 DEF BeginSwitch, TypeOK
    <3>3. CASE ~Pending
      <4>1. sw' = [id |-> used'.switches, status |-> "PENDING", map |-> map, attempts |-> 1, backup |-> None,
                   wipe |-> "NONE", cleared |-> FALSE, old |-> FALSE, alarm |-> sw.alarm]
        BY <3>1, <3>3 DEF BeginSwitch, NoSwitch
      <4> QED
        BY <4>1
    <3> QED
      BY <3>2, <3>3
  <2>2. CASE SaveSwitchBackup(p) \/ SaveStop(p)
    BY <2>2 DEF SaveSwitchBackup, SaveStop, SetWipeState, TypeOK
  <2>3. CASE SaveDeleted(p) \/ SaveStart(p)
    <3>1. PICK state \in {"DELETED", "START_REQUESTED"} : Stored(p, state)
      BY <2>3 DEF SaveDeleted, SaveStart
    <3>2. sw' = sw \/ \E cleared : sw' = [sw EXCEPT !.wipe = state, !.cleared = cleared]
      BY <3>1 DEF Stored, SetWipeState
    <3> QED
      BY <3>2 DEF TypeOK
  <2>4. CASE CloseWipe(p)
    <3>1. sw' = sw \/ \E wipe \in {"DONE", "FAILED"} :
             sw' = [sw EXCEPT !.wipe = wipe, !.cleared = mem[p].cleared, !.alarm = @ \cup mem[p].alarm]
      BY <2>4 DEF CloseWipe
    <3>2. sw'.alarm = sw.alarm \/ sw'.alarm = sw.alarm \cup mem[p].alarm
      BY <3>1 DEF TypeOK
    <3> QED
      BY <3>2
  <2>5. CASE FinishSwitch(p)
    <3>1. sw' = sw \/ sw' = [sw EXCEPT !.status = mem[p].result, !.alarm = @ \cup mem[p].alarm]
      BY <2>5 DEF FinishSwitch
    <3>2. sw'.alarm = sw.alarm \/ sw'.alarm = sw.alarm \cup mem[p].alarm
      BY <3>1 DEF TypeOK
    <3> QED
      BY <3>2
  <2>6. CASE \/ StartPass(p) \/ RecoverWipe(p) \/ Crash(p) \/ Start(p) \/ Load(p) \/ NotAllowed(p) \/ ReadFiles(p)
             \/ CannotRead(p) \/ Put(p) \/ ReadBack(p) \/ Restore(p) \/ Verify(p) \/ ClaimWipe(p) \/ SendStop(p)
             \/ WaitStopped(p) \/ Restart(p) \/ Watch(p) \/ Resume(p) \/ Release(p)
    BY <2>6 DEF StartPass, RecoverWipe, Crash, Start, Load, NotAllowed, ReadFiles, CannotRead, Put, ReadBack, Restore,
       Verify, ClaimWipe, SendStop, WaitStopped, Restart, Watch, Resume, Release, row
  <2> QED
    BY <1>1, <2>1, <2>2, <2>3, <2>4, <2>5, <2>6 DEF Step
<1>2. CASE Expire \/ GrowOld \/ Server \/ (\E on \in BOOLEAN : Save(on)) \/ UNCHANGED vars
  BY <1>2 DEF Expire, GrowOld, Server, Save, vars, row, TypeOK
<1> QED
  BY <1>1, <1>2 DEF Next

\* Every step keeps what is known of the files.
LEMMA FaithfulNext ==
    ASSUME TypeOK, Leased, Orderly, Faithful, [Next]_vars
    PROVE  Faithful'
<1> SUFFICES ASSUME harm' = {}, "files" \notin sw'.alarm
             PROVE  BackedUp' /\ \A q \in Processes : ReadsTrue(q)'
  BY DEF Faithful
<1>1. harm = {} /\ "files" \notin sw.alarm
  BY HarmGrows, AlarmGrows
<1>2. /\ BackedUp /\ WipedInPlace
      /\ \A q \in Processes : Sound(q) /\ ReadsTrue(q)
      /\ \A q \in Processes : Works(q) => holder = q
  BY <1>1 DEF Faithful, Orderly, Leased
<1>3. ASSUME NEW p \in Processes, StartPass(p) \/ RecoverWipe(p) \/ Step(p) \/ Crash(p) \/ Start(p)
      PROVE  BackedUp' /\ \A q \in Processes : ReadsTrue(q)'
  <2>1. BackedUp' /\ ReadsTrue(p)'
    <3>1. CASE StartPass(p) \/ RecoverWipe(p) \/ Crash(p) \/ Start(p)
      BY <1>2, <3>1, StartTrue
    <3>2. CASE Step(p)
      BY <1>2, <3>2, StartTrue, LoadTrue, BeginTrue, ReadTrue, BackupTrue, PutTrue, ReadBackTrue, RestoreTrue,
         ClosingTrue, WipeTrue DEF Step
    <3> QED
      BY <1>3, <3>1, <3>2
  <2>2. /\ \A q \in Processes \ {p} : mem'[q] = mem[q]
        /\ \/ holder' = holder /\ (Works(p) \/ ~Works(p)')
           \/ holder \in {None, p} /\ holder' = p
           \/ holder = p /\ ~Works(p)'
    BY <1>3, LeaseMoves
  <2>3. ASSUME NEW q \in Processes \ {p}
        PROVE  ReadsTrue(q)'
    <3>1. CASE ~Works(q)
      <4>1. mem'[q].pc \in {"off", "idle"}
        BY <2>2, <3>1 DEF Works
      <4> QED
        BY <4>1, BlankTrue DEF Writing, Restoring
    <3>2. CASE Works(q)
      <4>1. ~Works(p) /\ holder \notin {None, p}
        BY <1>2, <3>2, SwitchAssumption
      <4>2. Start(p)
        <5>1. ~Step(p)
          BY <4>1, StepsWork
        <5>2. ~StartPass(p) /\ ~RecoverWipe(p) /\ ~Crash(p)
          BY <4>1 DEF StartPass, RecoverWipe, Claim, Crash, Works
        <5> QED
          BY <1>3, <5>1, <5>2
      <4>3. UNCHANGED <<row, server>> /\ mem'[q] = mem[q]
        BY <2>2, <4>2 DEF Start
      <4>4. ReadsTrue(q)
        BY <1>2
      <4> QED
        BY <4>3, <4>4 DEF row, server, ReadsTrue, Mixed
    <3> QED
      BY <3>1, <3>2
  <2> QED
    BY <2>1, <2>3
<1>4. CASE Expire \/ GrowOld \/ Server \/ (\E on \in BOOLEAN : Save(on)) \/ UNCHANGED vars
  <2>1. /\ sw'.status = sw.status /\ sw'.backup = sw.backup /\ sw'.map = sw.map
        /\ mem' = mem /\ file' = file
    BY <1>4 DEF Expire, GrowOld, Server, Save, vars, row, server, TypeOK
  <2>2. BackedUp'
    BY <1>2, <2>1, BackKeeps
  <2> QED
    BY <1>2, <2>1, <2>2 DEF ReadsTrue, Mixed
<1> QED
  BY <1>3, <1>4 DEF Next
-----------------------------------------------------------------------------
(* The invariant of the whole, and what follows from it.                   *)

\* SwitchInv holds at first, and every step keeps it.
LEMMA Invariant == Spec => []SwitchInv
<1>1. Init => SwitchInv
  BY TypeInit, StopsInit, LeasedInit, OrderlyInit, FaithfulInit DEF SwitchInv
<1>2. SwitchInv /\ [Next]_vars => SwitchInv'
  BY TypeNext, StopsNext, LeasedNext, OrderlyNext, FaithfulNext DEF SwitchInv
<1> QED
  BY <1>1, <1>2, PTL DEF Spec

\* A server Champion stopped is known to be down: the switch says so, or a
\* process is about to start it, or staff were told.
THEOREM DownSafe == Spec => []DownTracked
<1>1. SwitchInv => DownTracked
  BY DEF SwitchInv, Orderly, DownKnown, DownTracked
<1> QED
  BY <1>1, Invariant, PTL

\* When no switch is in flight the two files are of one map, or staff were
\* told, whatever failed, crashed or was saved in between.
THEOREM FilesSafe == Spec => []FilesAgree
<1>1. SwitchInv => FilesAgree
  BY DEF SwitchInv, Faithful, BackedUp, FilesAgree
<1> QED
  BY <1>1, Invariant, PTL

\* A switch is recorded as applied only when both files are in place.
THEOREM AppliedSafe == Spec => AppliedInPlace
<1>1. ASSUME TypeOK, Orderly, [Next]_vars, Pending, sw'.status = "APPLIED", "overrun" \notin harm
      PROVE  file = Both(sw.map)
  <2>1. PICK p \in Processes : FinishSwitch(p) /\ Mine(p) /\ mem[p].result = "APPLIED"
    <3>1. ASSUME NEW p \in Processes, StartPass(p) \/ RecoverWipe(p) \/ Step(p) \/ Crash(p) \/ Start(p)
          PROVE  FinishSwitch(p) /\ Mine(p) /\ mem[p].result = "APPLIED"
      <4>1. CASE FinishSwitch(p)
        BY <1>1, <4>1 DEF FinishSwitch, Pending, TypeOK
      <4>2. CASE Step(p) /\ ~FinishSwitch(p)
        <5>1. sw'.status \in {"PENDING", sw.status}
          <6>1. CASE \E map \in Maps, clear \in BOOLEAN : BeginSwitch(p, map, clear)
            BY <1>1, <6>1 DEF BeginSwitch, TypeOK
          <6>2. CASE SaveSwitchBackup(p) \/ SaveStop(p) \/ CloseWipe(p) \/ SaveDeleted(p) \/ SaveStart(p)
            <7>1. CASE SaveSwitchBackup(p)
              BY <1>1, <7>1 DEF SaveSwitchBackup, TypeOK
            <7>2. CASE SaveStop(p)
              BY <1>1, <7>2 DEF SaveStop, SetWipeState, TypeOK
            <7>3. CASE SaveDeleted(p) \/ SaveStart(p)
              <8>1. PICK state \in {"DELETED", "START_REQUESTED"} : Stored(p, state)
                BY <7>3 DEF SaveDeleted, SaveStart
              <8>2. sw' = sw \/ \E cleared : sw' = [sw EXCEPT !.wipe = state, !.cleared = cleared]
                BY <8>1 DEF Stored, SetWipeState
              <8> QED
                BY <1>1, <8>2 DEF TypeOK
            <7>4. CASE CloseWipe(p)
              <8>1. sw' = sw \/ \E wipe \in {"DONE", "FAILED"} :
                       sw' = [sw EXCEPT !.wipe = wipe, !.cleared = mem[p].cleared, !.alarm = @ \cup mem[p].alarm]
                BY <7>4 DEF CloseWipe
              <8> QED
                BY <1>1, <8>1 DEF TypeOK
            <7> QED
              BY <6>2, <7>1, <7>2, <7>3, <7>4
          <6>3. CASE ~(\/ \E map \in Maps, clear \in BOOLEAN : BeginSwitch(p, map, clear)
                       \/ SaveSwitchBackup(p) \/ SaveStop(p) \/ CloseWipe(p) \/ SaveDeleted(p) \/ SaveStart(p))
            BY <4>2, <6>3 DEF Step, Load, NotAllowed, ReadFiles, CannotRead, Put, ReadBack, Restore, Verify,
               ClaimWipe, SendStop, WaitStopped, Restart, Watch, Resume, Release, row
          <6> QED
            BY <6>1, <6>2, <6>3
        <5> QED
          BY <1>1, <5>1 DEF Pending
      <4>3. CASE StartPass(p) \/ RecoverWipe(p) \/ Crash(p) \/ Start(p)
        BY <1>1, <4>3 DEF StartPass, RecoverWipe, Crash, Start, row, Pending
      <4> QED
        BY <3>1, <4>1, <4>2, <4>3
    <3>2. CASE Expire \/ GrowOld \/ Server \/ (\E on \in BOOLEAN : Save(on)) \/ UNCHANGED vars
      BY <1>1, <3>2 DEF Expire, GrowOld, Server, Save, vars, row, Pending, TypeOK
    <3> QED
      BY <1>1, <3>1, <3>2 DEF Next
  <2>2. InPlace(p)
    BY <1>1 DEF Orderly, Sound
  <2> QED
    BY <2>1, <2>2 DEF InPlace, FinishSwitch
<1>2. SwitchInv /\ [Next]_vars
        => [Pending /\ sw'.status = "APPLIED" /\ "overrun" \notin harm => file = Both(sw.map)]_vars
  BY <1>1 DEF SwitchInv
<1> QED
  BY <1>2, Invariant, PTL DEF Spec, AppliedInPlace
=============================================================================
