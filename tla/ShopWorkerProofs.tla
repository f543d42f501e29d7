--------------------------- MODULE ShopWorkerProofs ---------------------------
(***************************************************************************)
(* Proofs about ShopWorker, for any orders, attempts, settings and clock:  *)
(* whatever fails, stops or races, as far as each property says.           *)
(***************************************************************************)
EXTENDS ShopWorker, ShopLedgerProofs

-----------------------------------------------------------------------------
(* The inductive invariant.  Live attempts are those that may have put an  *)
(* item on the server; an order has at most one.                           *)

Prepared == InState({"FILE_PREPARED"})
Live(id) == StateOf(id) \notin {"NONE"} \cup Retryable
Checked == {"RESTART_OBSERVED", "UNSTAGE_REQUIRED", "VERIFICATION_REQUIRED"}

\* The clock and the boots.
Clocked ==
    /\ \A b \in 1..Len(boots) : boots[b].start <= now
    /\ \A o \in Orders : spawned[o] < Len(boots)

\* A pass that asks, asks about attempts that wait for their buyers.
Asking == pass.pc = "ask" => pass.todo \subseteq InState({"VERIFICATION_REQUIRED"})

\* Past recovery no write is unresolved.
Outstanding == pass.pc \in {"abandon", "decide", "plan", "begin"} => Unresolved = "NONE"

\* What holds whatever fails and whoever edits the file.
Orderly == Clocked /\ Asking /\ Outstanding

\* Orders nobody bought have no records, and a reported issue has its ticket.
Recorded ==
    \A o \in Orders :
        /\ purchase[o] = "NONE" =>
              confirmation[o] = "NONE" /\ \A n \in Numbers : attempt[o][n].state = "NONE"
        /\ confirmation[o] = "ISSUE_REPORTED" => ticket[o] # "NONE"

\* A review has its ticket, or the pass will open it next.
Ticketed ==
    /\ pass.pc = "idle" => pass.ticket = {}
    /\ \A o, q \in pass.ticket : o = q
    /\ ~setting.faults =>
          \A id \in Ids : StateOf(id) = "FAILED_REVIEW" => ticket[id[1]] # "NONE" \/ id[1] \in pass.ticket

\* File, journal and ledger: with no write in the journal the file is what
\* the ledger says; during one it is as before, as planned, or broken, and
\* the ledger follows only a write that landed.
WriteKept ==
    /\ ~journal.resolved
    /\ journal.outcome = "NONE" => file = Staged
    /\ journal.outcome # "NONE" =>
          /\ file \in {Garbage, journal.before, journal.payload}
          /\ file # journal.payload => Staged = journal.before
          /\ journal.ids # {}
          /\ journal.kind = "STAGE" =>
                /\ journal.payload = journal.before \cup journal.ids
                /\ journal.ids \cap journal.before = {}
                /\ file = journal.payload =>
                      /\ journal.before \subseteq Staged /\ Staged \subseteq journal.payload
                      /\ journal.payload \ Staged \subseteq Prepared
          /\ journal.kind = "UNSTAGE" =>
                /\ journal.payload = journal.before \ journal.ids
                /\ journal.ids \subseteq journal.before
                /\ file = journal.payload =>
                      journal.payload \subseteq Staged /\ Staged \subseteq journal.before

Writing == {"verify", "upload", "readback", "after", "settle"}

\* What the running pass knows of file, journal and ledger at each point.
PassTrue ==
    /\ pass.pc \in {"ask", "abandon"} => pass.ids = {}
    /\ pass.pc \in {"decide", "plan", "begin"} => pass.file = Staged
    /\ pass.pc = "decide" => pass.ids \subseteq Staged /\ pass.todo \subseteq Staged
    /\ pass.pc = "plan" => pass.ids \subseteq Prepared
    /\ pass.pc = "begin" =>
          /\ pass.ids # {}
          /\ pass.ids \subseteq IF pass.kind = "STAGE" THEN Prepared ELSE Staged
    /\ pass.pc \in Writing => journal.outcome = "STARTED" /\ pass.kind = journal.kind
    /\ pass.pc \in {"verify", "upload", "readback"} =>
          /\ Staged = journal.before
          /\ pass.ids = journal.ids
          /\ journal.kind = "STAGE" => pass.ids \subseteq Prepared
    /\ pass.pc \in {"verify", "upload"} => file = journal.before /\ journal.at = now
    /\ pass.pc = "after" /\ pass.outcome = "NOT_WRITTEN" => file = journal.before
    /\ pass.pc = "after" /\ pass.outcome = "WRITTEN_VERIFIED" =>
          /\ file = journal.payload
          /\ journal.kind = "STAGE" => pass.ids = journal.payload \ Staged
          /\ journal.kind = "UNSTAGE" => pass.ids = Staged \ journal.payload
    /\ pass.pc = "after" => pass.outcome # "NONE"
    /\ pass.pc = "settle" => pass.outcome = "UNCERTAIN"
    /\ pass.pc # "pause"

\* When an attempt came into the file, and the last boot listed then.
Since(id) == IF id \in Staged THEN evidence[id].at ELSE journal.at
BootOf(id) == IF id \in Staged THEN evidence[id].boot ELSE journal.boot

\* In the file, for all the ledger and the file tell.
Put(id) == id \in Staged \/ (id \in Prepared /\ file # Garbage /\ id \in file)

\* An item that spawned has an attempt that is answerable for it.
SpawnedLive ==
    \A o \in Orders : spawned[o] > 0 =>
        \E n \in Numbers :
            /\ Live(<<o, n>>) /\ StateOf(<<o, n>>) # "PLAN_CREATED"
            /\ StateOf(<<o, n>>) = "FILE_PREPARED" => file = Garbage \/ <<o, n>> \in file

\* A review that found nothing spawned is right.
ReviewsTrue == \A id \in Ids : attempt[id[1]][id[2]].review = "NOT_SPAWNED" => spawned[id[1]] = 0

\* A good boot since the file was written spawned what is in it.
BootsSpawned ==
    \A id \in Ids : file # Garbage /\ id \in file =>
        \A b \in 1..Len(boots) : boots[b].good /\ boots[b].start > Since(id) => spawned[id[1]] > 0

\* An attempt whose restart was observed spawned, if that boot was good.
CheckedSpawned ==
    \A id \in InState(Checked) :
        /\ evidence[id].observed \in 1..Len(boots)
        /\ boots[evidence[id].observed].good => spawned[id[1]] > 0

\* It spawned at most once for each boot since.
SpawnCount == \A id \in Ids : Put(id) => spawned[id[1]] <= Len(boots) - BootOf(id)

\* What the boots put on the server.
SpawnKept == SpawnedLive /\ ReviewsTrue /\ BootsSpawned /\ CheckedSpawned /\ SpawnCount

\* When nothing fails, every boot is listed and every write is finished.
NothingFails ==
    /\ listed = Len(boots)
    /\ file # Garbage /\ pass.outcome # "UNCERTAIN"
    /\ journal.outcome # "NONE" => pass.pc \in Writing

\* Then what a pass removes for good was in the file for one boot,
RemovedOnce ==
    /\ \/ pass.pc = "decide"
       \/ pass.pc \in {"begin", "verify", "upload", "readback"} /\ pass.kind = "UNSTAGE"
       => \A id \in pass.ids \ pass.failing : evidence[id].boot + 1 = pass.listed
    /\ pass.pc = "after" /\ pass.kind = "UNSTAGE" /\ pass.outcome = "WRITTEN_VERIFIED" =>
          \A id \in pass.ids \ pass.failing : spawned[id[1]] <= 1

\* and what it delivered spawned once.
DeliveredClean == \A id \in InState({"VERIFICATION_REQUIRED", "FULFILLED"}) : spawned[id[1]] <= 1

OnceCounted == NothingFails /\ RemovedOnce /\ DeliveredClean

WorkerInv ==
    /\ WTypeOK
    /\ LedgerInv
    /\ ReviewsOfFailed
    /\ Orderly
    /\ Recorded
    /\ Ticketed
    /\ Untouched => WriteKept /\ PassTrue /\ SpawnKept
    /\ AskedSpawned
    /\ Calm => OnceCounted

-----------------------------------------------------------------------------
(* The worker and the people move the ledger only by its transactions.     *)

LEMMA MoveIsTransition ==
  ASSUME NEW id \in Ids, NEW to \in AttemptStates, Move(id, to)
  PROVE  Next
  <1>1. id[1] \in Orders /\ id[2] \in Numbers
    BY DEF Ids
  <1> QED
    BY <1>1 DEF Move, Next, AttemptStep

LEMMA StateNames ==
  /\ {"FAILED_REVIEW", "ABANDONED", "FILE_PREPARED", "FILE_STAGED", "AWAITING_RESTART",
      "RESTART_OBSERVED", "UNSTAGE_REQUIRED", "VERIFICATION_REQUIRED"} \subseteq AttemptStates
  /\ "BUYER" \in Modes
  BY DEF AttemptStates, Exposed, InFile, Retryable, Modes

LEMMA FailIsTransition ==
  ASSUME NEW id \in Ids, Fail(id)
  PROVE  Next
  BY MoveIsTransition, StateNames DEF Fail

LEMMA AskOnLedger ==
  ASSUME WTypeOK, NEW id \in Ids, AskDeliver(id) \/ AskFulfil(id) \/ AskIssue(id) \/ AskWait(id)
  PROVE  Next \/ UNCHANGED vars
  <1>1. id[1] \in Orders /\ id[2] \in Numbers
    BY DEF Ids
  <1>2. CASE AskDeliver(id)
    <2>1. OpenForDelivered(id[1]) => Next
      BY <1>1 DEF Next, OrderStep
    <2> QED
      BY <1>2, <2>1, FailIsTransition DEF AskDeliver
  <1>3. CASE AskFulfil(id)
    BY <1>1, <1>3 DEF AskFulfil, Next, AttemptStep
  <1>4. CASE AskIssue(id)
    BY <1>4, MoveIsTransition, StateNames DEF AskIssue
  <1>5. CASE AskWait(id)
    BY <1>5 DEF AskWait
  <1> QED
    BY <1>2, <1>3, <1>4, <1>5

LEMMA PassOnLedger ==
  ASSUME WTypeOK, PassStep
  PROVE  Next \/ UNCHANGED vars
  <1>1. CASE OpenTicket
    <2>1. PICK o \in pass.ticket : OpenSystemTicket(o) \/ UNCHANGED vars
      BY <1>1 DEF OpenTicket
    <2>2. o \in Orders
      BY DEF WTypeOK, Pass
    <2> QED
      BY <2>1, <2>2 DEF Next, OrderStep
  <1>2. ASSUME NEW id \in Ids, AbandonUnwritten(id) PROVE Next \/ UNCHANGED vars
    BY <1>2, MoveIsTransition, StateNames DEF AbandonUnwritten
  <1>3. ASSUME NEW id \in Ids, DecideWait(id) \/ DecideUnclear(id) \/ DecideClean(id)
        PROVE  Next \/ UNCHANGED vars
    BY <1>3, MoveIsTransition, StateNames DEF DecideWait, DecideUnclear, DecideClean
  <1>4. ASSUME NEW o \in Orders, PlanCreate(o) PROVE Next \/ UNCHANGED vars
    BY <1>4, StateNames DEF PlanCreate, Next, AttemptStep
  <1>5. ASSUME NEW id \in Ids, PlanPrepare(id) PROVE Next \/ UNCHANGED vars
    BY <1>5, MoveIsTransition, StateNames DEF PlanPrepare
  <1>6. ASSUME NEW id \in Ids, AfterStage(id) PROVE Next \/ UNCHANGED vars
    BY <1>6, MoveIsTransition, StateNames DEF AfterStage
  <1>7. ASSUME NEW id \in Ids, AfterUnstage(id) PROVE Next \/ UNCHANGED vars
    BY <1>7, MoveIsTransition, FailIsTransition, StateNames DEF AfterUnstage
  <1>8. CASE \/ StartPass \/ LookUncertain \/ LookNothing \/ LookForeign \/ LookClean
             \/ RecoverLanded \/ RecoverUnchanged \/ RecoverOdd \/ PauseOdd
             \/ CheckFile \/ DecideWrite \/ PlanDone
             \/ BeginWrite \/ Verify \/ Upload \/ ReadBack \/ AfterUncertain \/ Settle
    BY <1>8 DEF StartPass, LookUncertain, LookNothing, LookForeign, LookClean, Look,
       RecoverLanded, RecoverUnchanged, RecoverOdd, PauseOdd, CheckFile, DecideWrite, PlanDone,
       BeginWrite, Verify, Upload, ReadBack, AfterUncertain, Settle
  <1> QED
    BY <1>1, <1>2, <1>3, <1>4, <1>5, <1>6, <1>7, <1>8, AskOnLedger DEF PassStep

LEMMA PeopleOnLedger ==
  ASSUME WTypeOK, People
  PROVE  Next
  <1>1. setting.orders \subseteq Orders
    BY WorkerAssumption DEF WTypeOK, Setting
  <1>2. PICK o \in setting.orders :
           \/ Purchase(o) \/ Fulfill(o) \/ Refund(o)
           \/ ConfirmReceived(o) \/ AutoCompleteDue({o}) \/ ReportIssue(o)
           \/ ResolveTicket(o)
           \/ \E n \in Numbers : ResolveReview(o, n, Truth(o))
    BY DEF People
  <1>3. Truth(o) \in {"NOT_SPAWNED", "SPAWNED"}
    BY DEF Truth
  <1> QED
    BY <1>1, <1>2, <1>3 DEF Next, AttemptStep, OrderStep

LEMMA StepOnLedger == WTypeOK /\ [WNext]_wvars => [Next]_vars
  <1> SUFFICES ASSUME WTypeOK, WNext PROVE Next \/ UNCHANGED vars
    BY DEF wvars
  <1>1. CASE PassStep
    BY <1>1, PassOnLedger
  <1>2. CASE People
    BY <1>2, PeopleOnLedger
  <1>3. CASE Stop \/ (\E good \in BOOLEAN : Boot(good)) \/ List \/ Tick \/ Resume \/ Repair \/ Edit
    BY <1>3 DEF Stop, Boot, List, Tick, Resume, Repair, Edit
  <1> QED
    BY <1>1, <1>2, <1>3 DEF WNext

-----------------------------------------------------------------------------
(* The type invariant.  The ledger's part is ShopLedger's; each step keeps *)
(* the types of the rest.                                                  *)

\* The types of everything but the ledger.
Typed ==
    /\ setting \in Settings
    /\ file = Garbage \/ file \subseteq Ids
    /\ boots \in Seq([start : Int, good : BOOLEAN]) /\ Len(boots) \in 1..(setting.boots + 1)
    /\ listed \in 1..Len(boots)
    /\ now \in 0..setting.time
    /\ evidence \in [Ids -> [at : 0..setting.time, boot : 0..Len(boots), observed : 0..Len(boots)]]
    /\ paused \in BOOLEAN
    /\ journal \in Journal
    /\ pass \in Pass

LEMMA SettingType ==
  ASSUME Typed
  PROVE  /\ setting \in Setting
         /\ setting.time \in Nat /\ setting.boots \in Nat /\ setting.delay \in Nat
         /\ setting.orders \subseteq Orders /\ setting.attempts \in Numbers
         /\ setting.faults \in BOOLEAN /\ setting.resumes \in BOOLEAN /\ setting.edits \in BOOLEAN
  BY WorkerAssumption DEF Typed, Setting

LEMMA StagedType == Staged \subseteq Ids /\ \A S : InState(S) \subseteq Ids
  BY DEF Staged, InState

LEMMA NoPassType ==
  ASSUME Typed
  PROVE  NoPass \in Pass /\ NoPass.pc = "idle" /\ NoPass.ticket = {}
  <1>1. 0 \in 0..Len(boots)
    BY DEF Typed
  <1> QED
    BY <1>1 DEF NoPass, Pass

\* Steps that only replace the pass.
LEMMA PassTyped ==
  ASSUME Typed, pass' \in Pass, UNCHANGED <<server, evidence, journal, setting>>, paused' \in BOOLEAN
  PROVE  Typed'
  <1>1. Pass' = Pass /\ Journal' = Journal
    BY DEF Pass, Journal, server, Ids
  <1> QED
    BY <1>1 DEF Typed, server, Ids

\* Steps that replace the pass or the journal.
LEMMA StoreTyped ==
  ASSUME Typed, pass' \in Pass, journal' \in Journal, UNCHANGED <<server, evidence, setting>>, paused' \in BOOLEAN
  PROVE  Typed'
  <1>1. Pass' = Pass /\ Journal' = Journal
    BY DEF Pass, Journal, server, Ids
  <1> QED
    BY <1>1 DEF Typed, server, Ids

LEMMA DoneType ==
  ASSUME Typed, NEW id \in Ids
  PROVE  /\ Done(id) \in Pass
         /\ [Done(id) EXCEPT !.ids = @ \ {id}, !.ticket = {id[1]}] \in Pass
         /\ [Done(id) EXCEPT !.ids = @ \cup {id}] \in Pass
         /\ [Done(id) EXCEPT !.ids = @ \cup {id}, !.failing = @ \cup {id}] \in Pass
         /\ [pass EXCEPT !.ids = @ \ {id}] \in Pass
  <1>1. id[1] \in Orders
    BY DEF Ids
  <1>2. pass \in Pass
    BY DEF Typed
  <1> QED
    BY <1>1, <1>2 DEF Done, Pass

LEMMA AskTyped ==
  ASSUME Typed, UNCHANGED setting,
         NEW id \in Ids, AskDeliver(id) \/ AskFulfil(id) \/ AskIssue(id) \/ AskWait(id)
  PROVE  Typed'
  <1>1. pass' \in Pass
    BY DoneType DEF AskDeliver, AskFulfil, AskIssue, AskWait, Fail
  <1> QED
    BY <1>1, PassTyped DEF AskDeliver, AskFulfil, AskIssue, AskWait, store, Typed

LEMMA LookTyped ==
  ASSUME Typed, UNCHANGED setting,
         \/ StartPass \/ LookUncertain \/ LookNothing \/ LookForeign \/ LookClean
         \/ RecoverLanded \/ RecoverUnchanged \/ RecoverOdd \/ PauseOdd
  PROVE  Typed'
  <1>1. pass \in Pass /\ journal \in Journal /\ listed \in 0..Len(boots)
    BY DEF Typed
  <1>2. ASSUME NEW C, C \in Chosen, AbandonNext(C), file # Garbage PROVE pass' \in Pass
    <2>1. C \subseteq Orders
      BY <1>2 DEF Chosen, Candidates
    <2>2. file \subseteq Ids
      BY <1>2 DEF Typed
    <2> QED
      BY <1>1, <1>2, <2>1, <2>2, StagedType DEF AbandonNext, Pass
  <1>3. CASE StartPass
    <2>1. pass' \in Pass
      BY <1>3, NoPassType, StagedType DEF StartPass, Pass
    <2> QED
      BY <1>3, <2>1, PassTyped DEF StartPass, store, Typed
  <1>4. CASE LookUncertain \/ LookNothing \/ LookForeign \/ PauseOdd
    BY <1>4, NoPassType, PassTyped DEF LookUncertain, LookNothing, LookForeign, Look, PauseOdd, PauseNow, store, Typed
  <1>5. CASE LookClean
    BY <1>2, <1>5, PassTyped DEF LookClean, Look, Typed
  <1>6. CASE RecoverLanded
    <2> DEFINE ids == journal.ids \cap
                        IF journal.kind = "STAGE" THEN InState({"FILE_PREPARED"}) ELSE Staged
    <2>1. ids \subseteq Ids /\ RecoverFailing(ids) \subseteq Ids
      BY StagedType DEF RecoverFailing
    <2>2. pass' = [pass EXCEPT !.pc = "after", !.kind = journal.kind, !.ids = ids,
                               !.failing = IF journal.kind = "STAGE" THEN {} ELSE RecoverFailing(ids),
                               !.outcome = "WRITTEN_VERIFIED"]
      BY <1>6 DEF RecoverLanded
    <2> HIDE DEF ids
    <2>3. journal.kind \in {"STAGE", "UNSTAGE"}
      BY <1>1 DEF Journal
    <2>4. pass' \in Pass
      BY <1>1, <2>1, <2>2, <2>3 DEF Pass
    <2> QED
      BY <1>6, <2>4, PassTyped DEF RecoverLanded, Look, Typed
  <1>7. CASE RecoverUnchanged
    <2>1. file # Garbage
      BY <1>1, <1>7, WorkerAssumption DEF RecoverUnchanged, Journal, Ids
    <2>2. file \subseteq Ids /\ {} \subseteq Orders
      BY <2>1 DEF Typed
    <2>3. pass' \in Pass
      BY <1>1, <1>7, <2>2, StagedType DEF RecoverUnchanged, AbandonNext, Pass
    <2>4. NoWrite \in Journal
      BY SettingType DEF NoWrite, Journal, Typed
    <2> QED
      BY <1>7, <2>3, <2>4, StoreTyped DEF RecoverUnchanged, Look, Typed
  <1>8. CASE RecoverOdd
    <2>1. pass' \in Pass /\ journal' \in Journal
      BY <1>1, <1>8 DEF RecoverOdd, Pass, Journal
    <2> QED
      BY <1>8, <2>1, StoreTyped DEF RecoverOdd, Look, Typed
  <1> QED
    BY <1>3, <1>4, <1>5, <1>6, <1>7, <1>8

LEMMA DecideTyped ==
  ASSUME Typed, UNCHANGED setting,
         \/ OpenTicket \/ CheckFile \/ DecideWrite \/ PlanDone
         \/ \E id \in Ids : AbandonUnwritten(id) \/ DecideWait(id) \/ DecideUnclear(id) \/ PlanPrepare(id)
         \/ \E o \in Orders : PlanCreate(o)
  PROVE  Typed'
  <1>1. pass \in Pass
    BY DEF Typed
  <1>2. CASE OpenTicket
    <2>1. pass' \in Pass
      BY <1>1, <1>2 DEF OpenTicket, Pass
    <2> QED
      BY <1>2, <2>1, PassTyped DEF OpenTicket, store, Typed
  <1>3. CASE CheckFile \/ DecideWrite \/ PlanDone
    <2>1. [pass EXCEPT !.pc = "decide", !.todo = Staged] \in Pass
      BY <1>1, StagedType DEF Pass
    <2>2. [pass EXCEPT !.pc = "plan"] \in Pass
      BY <1>1 DEF Pass
    <2>3. \A kind \in {"STAGE", "UNSTAGE"} : [pass EXCEPT !.pc = "begin", !.kind = kind] \in Pass
      BY <1>1 DEF Pass
    <2>4. \/ pass' \in {NoPass, [pass EXCEPT !.pc = "decide", !.todo = Staged], [pass EXCEPT !.pc = "plan"]}
          \/ \E kind \in {"STAGE", "UNSTAGE"} : pass' = [pass EXCEPT !.pc = "begin", !.kind = kind]
      BY <1>3 DEF CheckFile, DecideWrite, PlanDone, PauseNow
    <2>5. pass' \in Pass
      BY <2>1, <2>2, <2>3, <2>4, NoPassType
    <2> QED
      BY <1>3, <2>5, PassTyped DEF CheckFile, DecideWrite, PlanDone, PauseNow, store, Typed
  <1>4. ASSUME NEW id \in Ids, AbandonUnwritten(id) \/ DecideWait(id) \/ DecideUnclear(id) \/ PlanPrepare(id)
        PROVE  Typed'
    <2>1. pass' \in Pass
      BY <1>4, NoPassType, DoneType DEF AbandonUnwritten, DecideWait, DecideUnclear, PlanPrepare
    <2> QED
      BY <1>4, <2>1, PassTyped DEF AbandonUnwritten, DecideWait, DecideUnclear, PlanPrepare, store, Typed
  <1>5. ASSUME NEW o \in Orders, PlanCreate(o) PROVE Typed'
    <2>1. \A n \in Numbers : <<o, n>> \in Ids
      BY DEF Ids
    <2>2. /\ [pass EXCEPT !.cand = @ \ {o}] \in Pass
          /\ \A n \in Numbers : [pass EXCEPT !.cand = @ \ {o}, !.todo = {<<o, n>>}] \in Pass
      BY <1>1, <2>1 DEF Pass
    <2>3. pass' \in Pass
      BY <1>5, <2>2 DEF PlanCreate
    <2> QED
      BY <1>5, <2>3, PassTyped DEF PlanCreate, store, Typed
  <1> QED
    BY <1>2, <1>3, <1>4, <1>5

LEMMA DecideCleanTyped ==
  ASSUME Typed, UNCHANGED setting, NEW id \in Ids, DecideClean(id)
  PROVE  Typed'
  <1>1. pass \in Pass /\ pass.listed \in 0..Len(boots) /\ Len(boots) \in Nat
    BY DEF Typed, Pass
  <1>2. pass' \in Pass
    BY <1>1, DoneType DEF DecideClean
  <1>3. evidence[id] \in [at : 0..setting.time, boot : 0..Len(boots), observed : 0..Len(boots)]
    BY DEF Typed
  <1>4. evidence[id].boot + 1 \in 0..Len(boots)
    BY <1>1, <1>3 DEF DecideClean, Newer
  <1>5. evidence' \in [Ids -> [at : 0..setting.time, boot : 0..Len(boots), observed : 0..Len(boots)]]
    <2>1. CASE evidence' = evidence
      BY <2>1 DEF Typed
    <2>2. CASE evidence' = [evidence EXCEPT ![id].observed = evidence[id].boot + 1]
      BY <1>3, <1>4, <2>2 DEF Typed
    <2> QED
      BY <2>1, <2>2 DEF DecideClean
  <1>6. Pass' = Pass /\ Journal' = Journal
    BY DEF DecideClean, Pass, Journal, server, Ids
  <1> QED
    BY <1>2, <1>5, <1>6 DEF DecideClean, server, Typed, Ids

LEMMA WriteTyped ==
  ASSUME Typed, UNCHANGED setting,
         BeginWrite \/ Verify \/ Upload \/ ReadBack \/ AfterUncertain \/ Settle \/ Stop
  PROVE  Typed'
  <1>1. pass \in Pass /\ journal \in Journal
    BY DEF Typed
  <1>2. CASE BeginWrite
    <2>1. pass' \in Pass
      BY <1>1, <1>2 DEF BeginWrite, Pass
    <2>2. journal' \in Journal
      <3> DEFINE payload == IF pass.kind = "STAGE" THEN Staged \cup pass.ids ELSE Staged \ pass.ids
      <3>1. payload \in SUBSET Ids
        BY <1>1, StagedType DEF Pass
      <3>2. journal' = [outcome |-> "STARTED", kind |-> pass.kind, ids |-> pass.ids,
                        before |-> pass.file, payload |-> payload,
                        boot |-> pass.listed, at |-> now, resolved |-> FALSE]
        BY <1>2 DEF BeginWrite
      <3> HIDE DEF payload
      <3>3. now \in 0..setting.time
        BY DEF Typed
      <3> QED
        BY <1>1, <3>1, <3>2, <3>3 DEF Pass, Journal
    <2> QED
      BY <1>2, <2>1, <2>2, StoreTyped DEF BeginWrite, Typed
  <1>3. CASE Verify \/ ReadBack \/ AfterUncertain
    <2>1. \A outcome \in {"WRITTEN_VERIFIED", "NOT_WRITTEN", "UNCERTAIN"}, new \in {{}, pass.ids} :
             [pass EXCEPT !.pc = "after", !.outcome = outcome, !.failing = @ \cup new] \in Pass
      BY <1>1 DEF Pass
    <2>2. \A seen : RestartDuring(seen) \in {{}, pass.ids}
      BY DEF RestartDuring
    <2>3. ReadBack => pass' \in Pass
      BY <2>1, <2>2 DEF ReadBack
    <2>4. Verify => pass' \in Pass
      BY <1>1 DEF Verify, Pass
    <2>5. AfterUncertain => pass' \in Pass
      BY <1>1 DEF AfterUncertain, Pass
    <2> QED
      BY <1>3, <2>3, <2>4, <2>5, PassTyped DEF Verify, ReadBack, AfterUncertain, store, Typed
  <1>4. CASE Upload
    <2>1. pass' \in Pass /\ Pass' = Pass /\ Journal' = Journal
      BY <1>1, <1>4 DEF Upload, Pass, Journal, store, Ids
    <2>2. file' = Garbage \/ file' \subseteq Ids
      BY <1>1, <1>4 DEF Upload, Journal, Typed
    <2> QED
      BY <1>4, <2>1, <2>2 DEF Upload, store, Typed, Ids
  <1>5. CASE Settle
    <2>1. NoWrite \in Journal
      BY SettingType DEF NoWrite, Journal, Typed
    <2>2. journal' \in Journal
      BY <1>1, <1>5, <2>1 DEF Settle, Journal
    <2> QED
      BY <1>5, <2>2, NoPassType, StoreTyped DEF Settle, Typed
  <1>6. CASE Stop
    BY <1>6, NoPassType, PassTyped DEF Stop, store, Typed
  <1> QED
    BY <1>2, <1>3, <1>4, <1>5, <1>6

LEMMA AfterTyped ==
  ASSUME Typed, UNCHANGED setting, NEW id \in Ids, AfterStage(id) \/ AfterUnstage(id)
  PROVE  Typed'
  <1>1. pass' \in Pass
    BY DoneType DEF AfterStage, AfterUnstage, Fail
  <1>2. journal.at \in 0..setting.time /\ journal.boot \in 0..Len(boots) /\ 0 \in 0..Len(boots)
    BY DEF Typed, Journal
  <1>3. evidence' \in [Ids -> [at : 0..setting.time, boot : 0..Len(boots), observed : 0..Len(boots)]]
    BY <1>2 DEF AfterStage, AfterUnstage, store, Typed
  <1>4. Pass' = Pass /\ Journal' = Journal
    BY DEF AfterStage, AfterUnstage, Pass, Journal, server, Ids
  <1> QED
    BY <1>1, <1>3, <1>4 DEF AfterStage, AfterUnstage, server, store, Typed, Ids

\* A boot leaves one more boot; what was true of the earlier ones stays so.
LEMMA BootAdds ==
  ASSUME Typed, NEW good \in BOOLEAN, Boot(good)
  PROVE  /\ boots' \in Seq([start : Int, good : BOOLEAN])
         /\ Len(boots') = Len(boots) + 1
         /\ \A b \in 1..Len(boots) : boots'[b] = boots[b]
         /\ boots'[Len(boots')] = [start |-> now, good |-> good]
  <1>1. [start |-> now, good |-> good] \in [start : Int, good : BOOLEAN]
    BY SettingType DEF Typed
  <1>2. boots \in Seq([start : Int, good : BOOLEAN])
    BY DEF Typed
  <1> QED
    BY <1>1, <1>2 DEF Boot

LEMMA ServerTyped ==
  ASSUME Typed, UNCHANGED setting, (\E good \in BOOLEAN : Boot(good)) \/ List \/ Tick
  PROVE  Typed'
  <1>1. CASE \E good \in BOOLEAN : Boot(good)
    <2>1. PICK good \in BOOLEAN : Boot(good)
      BY <1>1
    <2>2. /\ boots' \in Seq([start : Int, good : BOOLEAN])
          /\ Len(boots') = Len(boots) + 1
      BY <2>1, BootAdds
    <2>3. Len(boots) \in Nat /\ Len(boots) <= setting.boots /\ setting.boots \in Nat
      BY <2>1, SettingType DEF Boot, Typed
    <2>4. 0..Len(boots) \subseteq 0..Len(boots')
      BY <2>2, <2>3
    <2>5. listed' \in 1..Len(boots')
      BY <2>1, <2>2, <2>3 DEF Boot, Typed
    <2>6. pass' \in Pass'
      BY <2>1, <2>4 DEF Boot, Typed, Pass, Ids
    <2>7. journal' \in Journal'
      BY <2>1, <2>4 DEF Boot, Typed, Journal, store, Ids
    <2>8. evidence' \in [Ids -> [at : 0..setting.time, boot : 0..Len(boots'), observed : 0..Len(boots')]]
      BY <2>1, <2>4 DEF Boot, Typed, store
    <2> QED
      BY <2>1, <2>2, <2>3, <2>5, <2>6, <2>7, <2>8 DEF Boot, Typed, store, Ids
  <1>2. CASE List \/ Tick
    <2>1. Pass' = Pass /\ Journal' = Journal
      BY <1>2 DEF List, Tick, Pass, Journal, Ids
    <2>2. listed' \in 1..Len(boots) /\ now' \in 0..setting.time
      <3>1. Len(boots) \in Nat /\ listed \in 1..Len(boots) /\ now \in 0..setting.time /\ setting.time \in Nat
        BY SettingType DEF Typed
      <3>2. List => listed' \in 1..Len(boots) /\ now' = now
        BY <3>1 DEF List
      <3>3. Tick => now' \in 0..setting.time /\ listed' = listed
        BY <3>1 DEF Tick
      <3> QED
        BY <1>2, <3>1, <3>2, <3>3
    <2>3. CASE List
      <3>1. UNCHANGED <<file, boots, now, evidence, journal, paused, pass, setting>>
        BY <2>3 DEF List, store
      <3> QED
        BY <2>1, <2>2, <3>1 DEF Typed, Ids
    <2>4. CASE Tick
      BY <2>1, <2>2, <2>4 DEF Tick, store, Typed, Ids
    <2> QED
      BY <1>2, <2>3, <2>4
  <1> QED
    BY <1>1, <1>2

LEMMA PersonTyped ==
  ASSUME Typed, UNCHANGED setting, Resume \/ Repair \/ Edit \/ People
  PROVE  Typed'
  <1>1. CASE Resume
    <2>1. journal' \in Journal
      BY <1>1 DEF Resume, Typed, Journal
    <2> QED
      BY <1>1, <2>1, StoreTyped DEF Resume, Typed
  <1>2. CASE Repair \/ Edit
    <2>1. setting.orders \subseteq Orders /\ 1..setting.attempts \subseteq Numbers
      BY SettingType, LedgerAssumption DEF Numbers
    <2>2. \A id \in setting.orders \X (1..setting.attempts) : {id} \subseteq Ids
      BY <2>1 DEF Ids
    <2>3. file' = Garbage \/ file' \subseteq Ids
      BY <1>2, <2>2, StagedType DEF Repair, Edit
    <2>4. Pass' = Pass /\ Journal' = Journal
      BY <1>2 DEF Repair, Edit, Pass, Journal, Ids
    <2> QED
      BY <1>2, <2>3, <2>4 DEF Repair, Edit, store, Typed, Ids
  <1>3. CASE People
    BY <1>3, PassTyped DEF People, store, Typed
  <1> QED
    BY <1>1, <1>2, <1>3

LEMMA StepTyped == Typed /\ [WNext]_wvars => Typed'
  <1> SUFFICES ASSUME Typed, [WNext]_wvars PROVE Typed'
    OBVIOUS
  <1>1. CASE UNCHANGED wvars
    BY <1>1, PassTyped DEF wvars, store, Typed
  <1>2. CASE WNext
    <2>1. UNCHANGED setting
      BY <1>2 DEF WNext
    <2> QED
      BY <1>2, <2>1, AskTyped, LookTyped, DecideTyped, DecideCleanTyped, WriteTyped, AfterTyped,
         ServerTyped, PersonTyped DEF WNext, PassStep
  <1> QED
    BY <1>1, <1>2

-----------------------------------------------------------------------------
(* What each kind of transaction does to the states of the attempts.       *)

StateAfter(id) == attempt'[id[1]][id[2]].state
ReviewOf(id) == attempt[id[1]][id[2]].review
ReviewAfter(id) == attempt'[id[1]][id[2]].review

LEMMA IdParts ==
  /\ \A id \in Ids : id[1] \in Orders /\ id[2] \in Numbers /\ id = <<id[1], id[2]>>
  /\ \A o \in Orders, n \in Numbers : <<o, n>> \in Ids
  BY DEF Ids

\* A move changes the state of one attempt.
LEMMA MoveRows ==
  ASSUME TypeOK, NEW id \in Ids, NEW to \in AttemptStates, Move(id, to)
  PROVE  /\ \A j \in Ids : StateAfter(j) = (IF j = id THEN to ELSE StateOf(j)) /\ ReviewAfter(j) = ReviewOf(j)
         /\ <<StateOf(id), to>> \in Transitions
         /\ to = "FILE_PREPARED" => OpenForAttempt(id[1])
         /\ UNCHANGED <<purchase, delivery, confirmation, ticket>>
  <1>1. id[1] \in Orders /\ id[2] \in Numbers
    BY IdParts
  <1>2. attempt[id[1]][id[2]] \in Attempt
    BY <1>1 DEF TypeOK
  <1>3. [attempt[id[1]][id[2]] EXCEPT !.state = to] \in Attempt
    BY <1>2, RowUpdate
  <1>4. \A p \in Orders, m \in Numbers :
           attempt'[p][m] = IF p = id[1] /\ m = id[2] THEN [attempt[id[1]][id[2]] EXCEPT !.state = to]
                                                      ELSE attempt[p][m]
    BY <1>1, <1>3, OneRow DEF Move, Transition, TypeOK
  <1>5. /\ [attempt[id[1]][id[2]] EXCEPT !.state = to].state = to
        /\ [attempt[id[1]][id[2]] EXCEPT !.state = to].review = attempt[id[1]][id[2]].review
    BY <1>2 DEF Attempt
  <1>6. \A j \in Ids : j[1] \in Orders /\ j[2] \in Numbers /\ (j = id <=> j[1] = id[1] /\ j[2] = id[2])
    BY IdParts
  <1>7. \A j \in Ids : StateAfter(j) = (IF j = id THEN to ELSE StateOf(j)) /\ ReviewAfter(j) = ReviewOf(j)
    BY <1>4, <1>5, <1>6 DEF StateAfter, ReviewAfter, ReviewOf, StateOf
  <1> QED
    BY <1>7 DEF StateOf, Move, Transition

LEMMA CreateRows ==
  ASSUME TypeOK, NEW o \in Orders, NEW n \in Numbers, Create(o, n, "BUYER")
  PROVE  /\ \A j \in Ids : j # <<o, n>> => StateAfter(j) = StateOf(j) /\ ReviewAfter(j) = ReviewOf(j)
         /\ StateOf(<<o, n>>) = "NONE" /\ StateAfter(<<o, n>>) = "PLAN_CREATED"
         /\ ReviewAfter(<<o, n>>) = "NONE"
         /\ OpenForAttempt(o)
         /\ UNCHANGED <<purchase, delivery, confirmation, ticket>>
  <1> DEFINE r == [NoAttempt EXCEPT !.state = "PLAN_CREATED", !.mode = "BUYER"]
  <1>1. r \in Attempt
    BY DEF NoAttempt, Attempt, AttemptStates, Modes
  <1>2. r.state = "PLAN_CREATED" /\ r.review = "NONE"
    BY DEF NoAttempt
  <1>3. \A p \in Orders, m \in Numbers : attempt'[p][m] = IF p = o /\ m = n THEN r ELSE attempt[p][m]
    BY <1>1, OneRow DEF Create, TypeOK
  <1> HIDE DEF r
  <1>4. \A j \in Ids : j[1] \in Orders /\ j[2] \in Numbers /\ (j = <<o, n>> <=> j[1] = o /\ j[2] = n)
    BY IdParts
  <1>5. \A j \in Ids : j # <<o, n>> => StateAfter(j) = StateOf(j) /\ ReviewAfter(j) = ReviewOf(j)
    BY <1>3, <1>4 DEF StateAfter, ReviewAfter, ReviewOf, StateOf
  <1>6. StateAfter(<<o, n>>) = "PLAN_CREATED" /\ ReviewAfter(<<o, n>>) = "NONE"
    BY <1>2, <1>3 DEF StateAfter, ReviewAfter
  <1> QED
    BY <1>5, <1>6 DEF StateOf, Create

LEMMA FulfilRows ==
  ASSUME TypeOK, NEW id \in Ids, FulfillAttemptByBuyer(id[1], id[2])
  PROVE  /\ \A j \in Ids : StateAfter(j) = (IF j = id THEN "FULFILLED" ELSE StateOf(j))
                           /\ ReviewAfter(j) = ReviewOf(j)
         /\ StateOf(id) = "VERIFICATION_REQUIRED"
         /\ delivery[id[1]] = "MANUAL_READY" /\ purchase[id[1]] = "PENDING_FULFILLMENT"
         /\ delivery' = [delivery EXCEPT ![id[1]] = "FULFILLED"]
         /\ purchase' = [purchase EXCEPT ![id[1]] = "FULFILLED"]
         /\ confirmation[id[1]] \in Answers /\ confirmation' = confirmation /\ ticket' = ticket
  <1> DEFINE a == attempt[id[1]][id[2]]
             x == confirmation[id[1]]
             r == [a EXCEPT !.state = "FULFILLED", !.answer = x]
  <1>1. id[1] \in Orders /\ id[2] \in Numbers
    BY IdParts
  <1>2. a \in Attempt /\ x \in Answers
    BY <1>1 DEF TypeOK, FulfillAttemptByBuyer
  <1>3. r \in Attempt
    BY <1>2, RowUpdate
  <1>4. r.state = "FULFILLED" /\ r.review = a.review
    BY <1>2 DEF Attempt
  <1>5. \A p \in Orders, m \in Numbers : attempt'[p][m] = IF p = id[1] /\ m = id[2] THEN r ELSE attempt[p][m]
    <2>1. attempt' = [attempt EXCEPT ![id[1]][id[2]] = r]
      BY <1>1 DEF FulfillAttemptByBuyer, FulfilAll, TypeOK
    <2> QED
      BY <1>1, <1>3, <2>1, OneRow DEF TypeOK
  <1>6. confirmation' = confirmation
    BY <1>1, <1>2 DEF FulfillAttemptByBuyer, FulfilAll, AskBuyer, TypeOK, Answers
  <1> HIDE DEF r
  <1>7. \A j \in Ids : j[1] \in Orders /\ j[2] \in Numbers /\ (j = id <=> j[1] = id[1] /\ j[2] = id[2])
    BY IdParts
  <1> QED
    BY <1>2, <1>4, <1>5, <1>6, <1>7
    DEF StateAfter, ReviewAfter, ReviewOf, StateOf, FulfillAttemptByBuyer, FulfilAll

\* Buyers, staff and the sweeper only abandon planned attempts.
QuietRow(id) ==
    \/ StateAfter(id) = StateOf(id)
    \/ StateOf(id) = "PLAN_CREATED" /\ StateAfter(id) = "ABANDONED"

LEMMA AbandonQuiet ==
  ASSUME TypeOK, NEW o \in Orders, NEW S \in {{}, Planned(o)}, attempt' = [attempt EXCEPT ![o] = Abandon(o, S)]
  PROVE  \A id \in Ids : QuietRow(id) /\ ReviewAfter(id) = ReviewOf(id)
  <1> SUFFICES ASSUME NEW id \in Ids PROVE QuietRow(id) /\ ReviewAfter(id) = ReviewOf(id)
    OBVIOUS
  <1>1. id[1] \in Orders /\ id[2] \in Numbers
    BY IdParts
  <1>2. CASE id[1] # o
    <2>1. attempt'[id[1]] = attempt[id[1]]
      BY <1>1, <1>2 DEF TypeOK
    <2> QED
      BY <2>1 DEF QuietRow, StateAfter, StateOf, ReviewAfter, ReviewOf
  <1>3. CASE id[1] = o
    <2>1. attempt'[o] = Abandon(o, S) /\ attempt[o][id[2]] \in Attempt
      BY <1>1 DEF TypeOK
    <2>2. attempt'[o][id[2]] = IF id[2] \in S THEN [attempt[o][id[2]] EXCEPT !.state = "ABANDONED"]
                                              ELSE attempt[o][id[2]]
      BY <1>1, <2>1 DEF Abandon
    <2>3. id[2] \in S => attempt[o][id[2]].state = "PLAN_CREATED"
      BY DEF Planned
    <2>4. /\ [attempt[o][id[2]] EXCEPT !.state = "ABANDONED"].state = "ABANDONED"
          /\ [attempt[o][id[2]] EXCEPT !.state = "ABANDONED"].review = attempt[o][id[2]].review
      BY <2>1 DEF Attempt
    <2> QED
      BY <1>3, <2>2, <2>3, <2>4 DEF QuietRow, StateAfter, StateOf, ReviewAfter, ReviewOf
  <1> QED
    BY <1>2, <1>3

LEMMA SameQuiet ==
  ASSUME attempt' = attempt
  PROVE  \A id \in Ids : QuietRow(id) /\ StateAfter(id) = StateOf(id) /\ ReviewAfter(id) = ReviewOf(id)
  BY DEF QuietRow, StateAfter, StateOf, ReviewAfter, ReviewOf

LEMMA ResolveQuiet ==
  ASSUME TypeOK, NEW o \in Orders, NEW n \in Numbers, ResolveReview(o, n, Truth(o))
  PROVE  \A id \in Ids :
            /\ QuietRow(id)
            /\ ReviewAfter(id) = ReviewOf(id) \/ (id[1] = o /\ ReviewAfter(id) = Truth(o))
  <1> DEFINE r == [attempt[o][n] EXCEPT !.review = Truth(o)]
  <1>1. attempt[o][n] \in Attempt /\ Truth(o) \in {"NOT_SPAWNED", "SPAWNED"}
    BY DEF TypeOK, Truth
  <1>2. r \in Attempt
    BY <1>1, RowUpdate
  <1>3. r.state = attempt[o][n].state /\ r.review = Truth(o)
    BY <1>1 DEF Attempt
  <1>4. \A p \in Orders, m \in Numbers : attempt'[p][m] = IF p = o /\ m = n THEN r ELSE attempt[p][m]
    BY <1>2, OneRow DEF ResolveReview, TypeOK
  <1> HIDE DEF r
  <1> QED
    BY <1>3, <1>4, IdParts DEF QuietRow, StateAfter, StateOf, ReviewAfter, ReviewOf

LEMMA PeopleQuiet ==
  ASSUME WTypeOK, People
  PROVE  /\ \A id \in Ids : QuietRow(id)
         /\ \A id \in Ids : ReviewAfter(id) = ReviewOf(id) \/ ReviewAfter(id) = Truth(id[1])
  <1>0. TypeOK /\ setting.orders \subseteq Orders
    BY WorkerAssumption DEF WTypeOK, Setting
  <1>1. PICK o \in setting.orders :
           \/ Purchase(o) \/ Fulfill(o) \/ Refund(o)
           \/ ConfirmReceived(o) \/ AutoCompleteDue({o}) \/ ReportIssue(o)
           \/ ResolveTicket(o)
           \/ \E n \in Numbers : ResolveReview(o, n, Truth(o))
    BY DEF People
  <1>2. CASE Fulfill(o)
    BY <1>0, <1>2, AbandonQuiet DEF Fulfill
  <1>3. CASE Refund(o)
    BY <1>0, <1>3, AbandonQuiet, SameQuiet DEF Refund
  <1>4. CASE \E n \in Numbers : ResolveReview(o, n, Truth(o))
    BY <1>0, <1>4, ResolveQuiet
  <1>5. CASE Purchase(o) \/ ConfirmReceived(o) \/ AutoCompleteDue({o}) \/ ReportIssue(o) \/ ResolveTicket(o)
    <2>1. attempt' = attempt
      BY <1>5 DEF Purchase, ConfirmReceived, AutoCompleteDue, ReportIssue, ResolveTicket, Confirm
    <2> QED
      BY <2>1, SameQuiet
  <1> QED
    BY <1>1, <1>2, <1>3, <1>4, <1>5

LEMMA ServiceQuiet ==
  ASSUME NEW o \in Orders, OpenForDelivered(o) \/ OpenSystemTicket(o) \/ UNCHANGED vars
  PROVE  /\ attempt' = attempt
         /\ \A id \in Ids : QuietRow(id) /\ StateAfter(id) = StateOf(id) /\ ReviewAfter(id) = ReviewOf(id)
  BY SameQuiet DEF OpenForDelivered, OpenSystemTicket, Confirm, vars

\* Such a step leaves the attempts in any other state where they are.
LEMMA QuietSets ==
  ASSUME \A id \in Ids : QuietRow(id), NEW S, "PLAN_CREATED" \notin S, "ABANDONED" \notin S
  PROVE  InState(S)' = InState(S)
  BY DEF QuietRow, InState, StateAfter, StateOf

-----------------------------------------------------------------------------
(* What each step leaves alone.                                            *)

LEMMA WorkerFrame ==
  ASSUME PassStep \/ Stop
  PROVE  /\ UNCHANGED <<boots, listed, now, spawned>>
         /\ Upload \/ file' = file
         /\ (\E id \in Ids : DecideClean(id) \/ AfterStage(id)) \/ evidence' = evidence
         /\ RecoverUnchanged \/ RecoverOdd \/ BeginWrite \/ Settle \/ journal' = journal
  <1>1. CASE \/ StartPass \/ OpenTicket \/ Stop
             \/ \E id \in Ids : AskDeliver(id) \/ AskFulfil(id) \/ AskIssue(id) \/ AskWait(id)
    BY <1>1 DEF StartPass, OpenTicket, Stop, AskDeliver, AskFulfil, AskIssue, AskWait, server, store
  <1>2. CASE \/ LookUncertain \/ LookNothing \/ LookForeign \/ LookClean
             \/ RecoverLanded \/ RecoverUnchanged \/ RecoverOdd \/ PauseOdd
    BY <1>2 DEF LookUncertain, LookNothing, LookForeign, LookClean, Look, RecoverLanded, RecoverUnchanged,
       RecoverOdd, PauseOdd, server, store
  <1>3. CASE \/ \E id \in Ids : AbandonUnwritten(id)
             \/ CheckFile
             \/ \E id \in Ids : DecideWait(id) \/ DecideUnclear(id) \/ DecideClean(id)
             \/ DecideWrite
             \/ \E o \in Orders : PlanCreate(o)
             \/ \E id \in Ids : PlanPrepare(id)
             \/ PlanDone
    BY <1>3 DEF AbandonUnwritten, CheckFile, DecideWait, DecideUnclear, DecideClean, DecideWrite,
       PlanCreate, PlanPrepare, PlanDone, server, store
  <1>4. CASE \/ BeginWrite \/ Verify \/ Upload \/ ReadBack \/ AfterUncertain \/ Settle
             \/ \E id \in Ids : AfterStage(id) \/ AfterUnstage(id)
    BY <1>4 DEF BeginWrite, Verify, Upload, ReadBack, AfterUncertain, Settle, AfterStage, AfterUnstage,
       server, store
  <1> QED
    BY <1>1, <1>2, <1>3, <1>4 DEF PassStep

LEMMA OtherFrame ==
  ASSUME (\E good \in BOOLEAN : Boot(good)) \/ List \/ Tick \/ Resume \/ Repair \/ Edit \/ People
  PROVE  pass' = pass /\ evidence' = evidence /\ (Resume \/ journal' = journal) /\ (People \/ UNCHANGED vars)
  BY DEF Boot, List, Tick, Resume, Repair, Edit, People, store

-----------------------------------------------------------------------------
(* Orderly.                                                                *)

LEMMA InitOrderly == WInit => Orderly
  <1> SUFFICES ASSUME WInit PROVE Orderly
    OBVIOUS
  <1>1. Len(boots) = 1 /\ boots[1] = [start |-> -Quiet, good |-> TRUE]
    BY DEF WInit
  <1>2. -Quiet <= 0
    BY WorkerAssumption
  <1> QED
    BY <1>1, <1>2 DEF WInit, Orderly, Clocked, Asking, Outstanding, NoPass

LEMMA MovedSets ==
  ASSUME TypeOK, NEW id \in Ids, NEW to \in AttemptStates, Move(id, to), NEW S
  PROVE  InState(S)' = IF to \in S THEN InState(S) \cup {id} ELSE InState(S) \ {id}
  BY MoveRows DEF InState, StateAfter, StateOf

\* The fields of a pass that a step replaces in part.
LEMMA DoneFields ==
  ASSUME pass \in Pass, NEW id
  PROVE  /\ Done(id).pc = pass.pc /\ Done(id).todo = pass.todo \ {id} /\ Done(id).ids = pass.ids
         /\ Done(id).failing = pass.failing /\ Done(id).cand = pass.cand /\ Done(id).kind = pass.kind
         /\ Done(id).file = pass.file /\ Done(id).listed = pass.listed
         /\ Done(id).outcome = pass.outcome /\ Done(id).ticket = pass.ticket
  BY DEF Done, Pass

LEMMA Elements ==
  ASSUME NEW T, NEW s \in Seq(T)
  PROVE  \A b \in 1..Len(s) : s[b] \in T
  OBVIOUS

LEMMA BootType ==
  ASSUME Typed
  PROVE  /\ Len(boots) \in Nat /\ now \in Nat
         /\ \A b \in 1..Len(boots) : boots[b].start \in Int /\ boots[b].good \in BOOLEAN
  <1>1. boots \in Seq([start : Int, good : BOOLEAN])
    BY DEF Typed
  <1>2. \A b \in 1..Len(boots) : boots[b] \in [start : Int, good : BOOLEAN]
    BY <1>1, Elements
  <1>3. now \in Nat
    BY SettingType DEF Typed
  <1> QED
    BY <1>1, <1>2, <1>3

LEMMA StepClocked ==
  ASSUME WTypeOK, Clocked, WNext
  PROVE  Clocked'
  <1>0. Typed /\ now \in Nat /\ Len(boots) \in Nat
    BY SettingType DEF WTypeOK, Typed
  <1>1. CASE PassStep \/ Stop
    BY <1>1, WorkerFrame DEF Clocked
  <1>2. ASSUME NEW good \in BOOLEAN, Boot(good) PROVE Clocked'
    <2>1. \A o \in Orders : spawned'[o] \in {spawned[o], spawned[o] + 1} /\ spawned[o] \in Nat
      BY <1>2, SettingType, <1>0 DEF Boot, WTypeOK
    <2>2. /\ Len(boots') = Len(boots) + 1
          /\ \A b \in 1..Len(boots) : boots'[b] = boots[b]
          /\ boots'[Len(boots')] = [start |-> now, good |-> good]
          /\ now' = now
      BY <1>0, <1>2, BootAdds DEF Boot
    <2>3. \A b \in 1..Len(boots') : boots'[b].start <= now'
      <3> TAKE b \in 1..Len(boots')
      <3>1. b \in 1..Len(boots) \/ b = Len(boots')
        BY <1>0, <2>2
      <3> QED
        BY <1>0, <2>2, <3>1 DEF Clocked
    <2>4. \A o \in Orders : spawned'[o] < Len(boots')
      BY <1>0, <2>1, <2>2 DEF Clocked
    <2> QED
      BY <2>3, <2>4 DEF Clocked
  <1>3. CASE Tick
    <2>1. \A b \in 1..Len(boots) : boots[b].start \in Int
      BY <1>0, BootType
    <2> QED
      BY <1>0, <1>3, <2>1 DEF Tick, Clocked
  <1>4. CASE List \/ Resume \/ Repair \/ Edit \/ People
    BY <1>4 DEF List, Resume, Repair, Edit, People, server, Clocked
  <1> QED
    BY <1>1, <1>2, <1>3, <1>4 DEF WNext

LEMMA StepAsking ==
  ASSUME WTypeOK, Asking, WNext
  PROVE  Asking'
  <1>0. TypeOK /\ Typed /\ pass \in Pass
    BY DEF WTypeOK, Typed
  <1>1. ASSUME NEW id \in Ids, AskDeliver(id) PROVE Asking'
    <2>1. pass.pc = "ask" /\ pass.todo \subseteq InState({"VERIFICATION_REQUIRED"})
      BY <1>1 DEF AskDeliver, At, Asking
    <2>2. CASE Fail(id)
      <3>1. InState({"VERIFICATION_REQUIRED"})' = InState({"VERIFICATION_REQUIRED"}) \ {id}
        BY <1>0, <2>2, MovedSets, StateNames DEF Fail
      <3>2. pass'.todo = pass.todo \ {id}
        BY <1>0, <2>2 DEF Fail, Done, Pass
      <3> QED
        BY <2>1, <3>1, <3>2 DEF Asking
    <2>3. CASE (OpenForDelivered(id[1]) \/ UNCHANGED vars) /\ pass' = Done(id)
      <3>1. InState({"VERIFICATION_REQUIRED"})' = InState({"VERIFICATION_REQUIRED"})
        BY <2>3, ServiceQuiet, IdParts, QuietSets
      <3>2. pass'.todo = pass.todo \ {id}
        BY <1>0, <2>3 DEF Done, Pass
      <3> QED
        BY <2>1, <3>1, <3>2 DEF Asking
    <2> QED
      BY <1>1, <2>2, <2>3 DEF AskDeliver
  <1>2. ASSUME NEW id \in Ids, AskFulfil(id) PROVE Asking'
    <2>1. InState({"VERIFICATION_REQUIRED"})' = InState({"VERIFICATION_REQUIRED"}) \ {id}
      BY <1>0, <1>2, FulfilRows DEF AskFulfil, InState, StateAfter, StateOf
    <2>2. pass'.todo = pass.todo \ {id} /\ pass.pc = "ask"
      BY <1>0, <1>2 DEF AskFulfil, At, Done, Pass
    <2> QED
      BY <2>1, <2>2 DEF Asking
  <1>3. ASSUME NEW id \in Ids, AskIssue(id) PROVE Asking'
    <2>1. InState({"VERIFICATION_REQUIRED"})' = InState({"VERIFICATION_REQUIRED"}) \ {id}
      BY <1>0, <1>3, MovedSets, StateNames DEF AskIssue
    <2>2. pass'.todo = pass.todo \ {id} /\ pass.pc = "ask"
      BY <1>0, <1>3 DEF AskIssue, At, Done, Pass
    <2> QED
      BY <2>1, <2>2 DEF Asking
  <1>4. ASSUME NEW id \in Ids, AskWait(id) PROVE Asking'
    <2>1. InState({"VERIFICATION_REQUIRED"})' = InState({"VERIFICATION_REQUIRED"})
      BY <1>4 DEF AskWait, vars, InState, StateOf
    <2>2. pass'.todo = pass.todo \ {id} /\ pass.pc = "ask"
      BY <1>0, <1>4 DEF AskWait, At, Done, Pass
    <2> QED
      BY <2>1, <2>2 DEF Asking
  <1>5. CASE OpenTicket
    <2>1. PICK o \in pass.ticket : OpenSystemTicket(o) \/ UNCHANGED vars
      BY <1>5 DEF OpenTicket
    <2>2. o \in Orders
      BY <1>0 DEF Pass
    <2>3. InState({"VERIFICATION_REQUIRED"})' = InState({"VERIFICATION_REQUIRED"})
      BY <2>1, <2>2, ServiceQuiet, QuietSets
    <2>4. pass'.todo = pass.todo /\ pass'.pc = pass.pc
      BY <1>0, <1>5 DEF OpenTicket, Pass
    <2> QED
      BY <2>3, <2>4 DEF Asking
  <1>6. CASE StartPass
    <2>1. pass'.todo = InState({"VERIFICATION_REQUIRED"}) /\ attempt' = attempt
      BY <1>6 DEF StartPass, NoPass, vars
    <2> QED
      BY <2>1 DEF Asking, InState, StateOf
  <1>7. CASE LookUncertain \/ LookNothing \/ LookForeign \/ PauseOdd \/ Stop \/ Settle
    BY <1>7 DEF LookUncertain, LookNothing, LookForeign, Look, PauseOdd, PauseNow, Stop, Settle, NoPass, Asking
  <1>8. CASE LookClean \/ RecoverUnchanged \/ RecoverLanded \/ RecoverOdd
    BY <1>0, <1>8 DEF LookClean, RecoverUnchanged, RecoverLanded, RecoverOdd, AbandonNext, Pass, Asking
  <1>9. CASE \/ \E id \in Ids : AbandonUnwritten(id)
             \/ CheckFile
             \/ \E id \in Ids : DecideWait(id) \/ DecideUnclear(id) \/ DecideClean(id)
    <2>1. CASE \E id \in Ids : AbandonUnwritten(id)
      <3>1. PICK id \in Ids : AbandonUnwritten(id)
        BY <2>1
      <3>2. pass' = NoPass \/ pass' = Done(id)
        BY <3>1 DEF AbandonUnwritten
      <3>3. pass'.pc \in {"idle", "abandon"}
        BY <1>0, <3>1, <3>2, DoneFields, NoPassType DEF AbandonUnwritten, At
      <3> QED
        BY <3>3 DEF Asking
    <2>2. CASE CheckFile
      <3>1. [pass EXCEPT !.pc = "decide", !.todo = Staged].pc = "decide"
        BY <1>0 DEF Pass
      <3> QED
        BY <1>0, <2>2, <3>1, NoPassType DEF CheckFile, PauseNow, Asking
    <2>3. CASE \E id \in Ids : DecideWait(id) \/ DecideUnclear(id) \/ DecideClean(id)
      BY <1>0, <2>3 DEF DecideWait, DecideUnclear, DecideClean, At, Done, Pass, Asking
    <2> QED
      BY <1>9, <2>1, <2>2, <2>3
  <1>10. CASE DecideWrite \/ (\E o \in Orders : PlanCreate(o)) \/ (\E id \in Ids : PlanPrepare(id)) \/ PlanDone
    <2>1. CASE DecideWrite \/ PlanDone
      <3>1. \A pc \in {"begin", "plan"}, kind \in {"STAGE", "UNSTAGE"} :
               /\ [pass EXCEPT !.pc = pc].pc # "ask"
               /\ [pass EXCEPT !.pc = pc, !.kind = kind].pc # "ask"
        BY <1>0 DEF Pass
      <3> QED
        BY <1>0, <2>1, <3>1, NoPassType DEF DecideWrite, PlanDone, Asking
    <2>2. CASE \E o \in Orders : PlanCreate(o)
      BY <1>0, <2>2 DEF PlanCreate, At, Pass, Asking
    <2>3. CASE \E id \in Ids : PlanPrepare(id)
      BY <1>0, <2>3 DEF PlanPrepare, At, Done, Pass, Asking
    <2> QED
      BY <1>10, <2>1, <2>2, <2>3
  <1>11. CASE BeginWrite \/ Verify \/ Upload \/ ReadBack \/ AfterUncertain
    BY <1>0, <1>11 DEF BeginWrite, Verify, Upload, ReadBack, AfterUncertain, Pass, Asking
  <1>12. ASSUME NEW id \in Ids, AfterStage(id) \/ AfterUnstage(id) PROVE Asking'
    BY <1>0, <1>12 DEF AfterStage, AfterUnstage, Fail, At, Done, Pass, Asking
  <1>13. CASE (\E good \in BOOLEAN : Boot(good)) \/ List \/ Tick \/ Resume \/ Repair \/ Edit \/ People
    <2>1. InState({"VERIFICATION_REQUIRED"})' = InState({"VERIFICATION_REQUIRED"})
      <3>1. CASE People
        BY <3>1, PeopleQuiet, QuietSets
      <3>2. CASE UNCHANGED vars
        BY <3>2 DEF vars, InState, StateOf
      <3> QED
        BY <1>13, <3>1, <3>2, OtherFrame
    <2> QED
      BY <1>13, <2>1, OtherFrame DEF Asking
  <1> QED
    BY <1>1, <1>2, <1>3, <1>4, <1>5, <1>6, <1>7, <1>8, <1>9, <1>10, <1>11, <1>12, <1>13 DEF WNext, PassStep

LEMMA StepOutstanding ==
  ASSUME WTypeOK, Outstanding, WNext
  PROVE  Outstanding'
  <1>0. pass \in Pass /\ journal \in Journal
    BY DEF WTypeOK
  <1> DEFINE Clear == {"abandon", "decide", "plan", "begin"}
  <1>1. CASE LookClean
    BY <1>1 DEF LookClean, Look, Unresolved, Outstanding
  <1>2. CASE RecoverUnchanged
    BY <1>2 DEF RecoverUnchanged, NoWrite, Unresolved, Outstanding
  <1>3. CASE \/ \E id \in Ids : AbandonUnwritten(id)
             \/ CheckFile
             \/ \E id \in Ids : DecideWait(id) \/ DecideUnclear(id) \/ DecideClean(id)
    <2>1. pass.pc \in Clear /\ journal' = journal
      BY <1>3 DEF AbandonUnwritten, CheckFile, DecideWait, DecideUnclear, DecideClean, At, store
    <2> QED
      BY <2>1 DEF Outstanding, Unresolved
  <1>4. CASE DecideWrite \/ (\E o \in Orders : PlanCreate(o)) \/ (\E id \in Ids : PlanPrepare(id)) \/ PlanDone
    <2>1. pass.pc \in Clear /\ journal' = journal
      BY <1>4 DEF DecideWrite, PlanCreate, PlanPrepare, PlanDone, At, store
    <2> QED
      BY <2>1 DEF Outstanding, Unresolved
  <1>5. CASE \/ StartPass \/ LookUncertain \/ LookNothing \/ LookForeign \/ RecoverLanded \/ RecoverOdd \/ PauseOdd
    <2>0. /\ NoPass.pc = "idle"
          /\ \A S : [NoPass EXCEPT !.pc = "ask", !.todo = S].pc = "ask"
      BY DEF NoPass
    <2>1. StartPass \/ LookUncertain \/ LookNothing \/ LookForeign \/ PauseOdd => pass'.pc \notin Clear
      BY <2>0 DEF StartPass, LookUncertain, LookNothing, LookForeign, PauseOdd, PauseNow
    <2>2. RecoverLanded \/ RecoverOdd => pass'.pc \notin Clear
      BY <1>0 DEF RecoverLanded, RecoverOdd, Pass
    <2> QED
      BY <1>5, <2>1, <2>2 DEF Outstanding
  <1>6. ASSUME NEW id \in Ids, AskDeliver(id) \/ AskFulfil(id) \/ AskIssue(id) \/ AskWait(id) PROVE Outstanding'
    <2>1. pass'.pc = "ask"
      BY <1>0, <1>6 DEF AskDeliver, AskFulfil, AskIssue, AskWait, Fail, Done, At, Pass
    <2> QED
      BY <2>1 DEF Outstanding
  <1>7. CASE OpenTicket
    <2>1. pass'.pc = pass.pc /\ journal' = journal
      BY <1>0, <1>7 DEF OpenTicket, Pass, store
    <2> QED
      BY <2>1 DEF Outstanding, Unresolved
  <1>8. CASE BeginWrite \/ Verify \/ Upload \/ ReadBack \/ AfterUncertain \/ Settle \/ Stop
    <2>1. Settle \/ Stop => pass'.pc \notin Clear
      BY DEF Settle, Stop, NoPass
    <2>2. BeginWrite \/ Upload \/ AfterUncertain => pass'.pc \notin Clear
      BY <1>0 DEF BeginWrite, Upload, AfterUncertain, Pass
    <2>3. Verify => pass'.pc \notin Clear
      <3>1. /\ [pass EXCEPT !.pc = "upload"].pc = "upload"
            /\ [pass EXCEPT !.pc = "after", !.outcome = "NOT_WRITTEN"].pc = "after"
        BY <1>0 DEF Pass
      <3> QED
        BY <3>1 DEF Verify
    <2>4. ReadBack => pass'.pc \notin Clear
      <3>1. \A x, f : [pass EXCEPT !.pc = "after", !.outcome = x, !.failing = f].pc = "after"
        BY <1>0 DEF Pass
      <3> QED
        BY <3>1 DEF ReadBack
    <2> QED
      BY <1>8, <2>1, <2>2, <2>3, <2>4 DEF Outstanding
  <1>9. ASSUME NEW id \in Ids, AfterStage(id) \/ AfterUnstage(id) PROVE Outstanding'
    <2>1. pass'.pc = "after"
      BY <1>0, <1>9 DEF AfterStage, AfterUnstage, Fail, Done, At, Pass
    <2> QED
      BY <2>1 DEF Outstanding
  <1>10. CASE Resume
    <2>1. pass' = pass /\ journal' = [journal EXCEPT !.resolved = journal.outcome # "NONE"]
      BY <1>10 DEF Resume
    <2>2. journal'.outcome = journal.outcome /\ (journal'.resolved <=> journal.outcome # "NONE")
      BY <1>0, <2>1 DEF Journal
    <2> QED
      BY <2>1, <2>2 DEF Outstanding, Unresolved
  <1>11. CASE (\E good \in BOOLEAN : Boot(good)) \/ List \/ Tick \/ Repair \/ Edit \/ People
    <2>1. journal' = journal /\ pass' = pass
      BY <1>11 DEF Boot, List, Tick, Repair, Edit, People, store
    <2> QED
      BY <2>1 DEF Outstanding, Unresolved
  <1> QED
    BY <1>1, <1>2, <1>3, <1>4, <1>5, <1>6, <1>7, <1>8, <1>9, <1>10, <1>11 DEF WNext, PassStep

-----------------------------------------------------------------------------
(* Recorded: a fact of the ledger alone.                                   *)

LEMMA InitRecorded == Init => Recorded
  BY DEF Init, Recorded, NoAttempt

LEMMA UnboughtRow ==
  ASSUME LedgerInv, [Next]_vars, NEW o \in Orders, NEW n \in Numbers,
         purchase[o] = "NONE", attempt[o][n].state = "NONE"
  PROVE  attempt'[o][n].state = "NONE"
  <1>0. attempt \in [Orders -> [Numbers -> Attempt]] /\ delivery[o] = "NONE"
    BY DEF LedgerInv, TypeOK, RecordsAgree
  <1>1. ASSUME NEW p \in Orders, NEW m \in Numbers, NEW mode \in Modes, Create(p, m, mode)
        PROVE  attempt'[o][n] = attempt[o][n]
    <2>1. p # o
      BY <1>0, <1>1 DEF Create, OpenForAttempt
    <2> QED
      BY <1>0, <1>1, <2>1 DEF Create
  <1>2. ASSUME NEW p \in Orders, NEW m \in Numbers, NEW to \in AttemptStates, Transition(p, m, to)
        PROVE  attempt'[o][n] = attempt[o][n]
    <2>1. attempt[p][m].state # "NONE"
      BY <1>2 DEF Transition, Transitions, InFile
    <2> QED
      BY <1>0, <1>2, <2>1 DEF Transition
  <1>3. ASSUME NEW p \in Orders, NEW m \in Numbers, NEW x, FulfilAll(p, m, x)
        PROVE  attempt'[o][n] = attempt[o][n]
    <2>1. p # o
      BY <1>3 DEF FulfilAll
    <2> QED
      BY <1>0, <1>3, <2>1 DEF FulfilAll
  <1>4. ASSUME NEW p \in Orders, NEW m \in Numbers, NEW found, ResolveReview(p, m, found)
        PROVE  attempt'[o][n] = attempt[o][n]
    BY <1>0, <1>4 DEF ResolveReview
  <1>5. CASE AttemptStep
    BY <1>5, <1>1, <1>2, <1>3, <1>4 DEF AttemptStep, FulfillAttempt, FulfillAttemptByBuyer
  <1>6. ASSUME NEW p \in Orders, Fulfill(p) \/ Refund(p) PROVE attempt'[o][n] = attempt[o][n]
    BY <1>6, ClosedRows DEF Fulfill, Refund
  <1>7. CASE OrderStep
    BY <1>6, <1>7 DEF OrderStep, Purchase, OpenForDelivered, ConfirmReceived, ReportIssue, Confirm,
       OpenSystemTicket, ResolveTicket
  <1>8. CASE (\E S \in SUBSET Orders : AutoCompleteDue(S)) \/ UNCHANGED vars
    BY <1>8 DEF AutoCompleteDue, vars
  <1> QED
    BY <1>5, <1>7, <1>8 DEF Next

\* Nobody but a buyer makes an order, nobody is asked about an order that is
\* not one, and a ticket stays.
LEMMA AnswerStep ==
  ASSUME LedgerInv, Recorded, [Next]_vars, NEW o \in Orders
  PROVE  /\ purchase'[o] = "NONE" => purchase[o] = "NONE" /\ confirmation'[o] = "NONE"
         /\ confirmation'[o] = "ISSUE_REPORTED" => ticket'[o] # "NONE"
         /\ ticket[o] # "NONE" => ticket'[o] # "NONE"
         /\ purchase'[o] = "PENDING_FULFILLMENT" /\ confirmation'[o] # "NONE" =>
              \/ purchase[o] = "PENDING_FULFILLMENT" /\ confirmation[o] # "NONE"
              \/ OpenForDelivered(o)
  <1> DEFINE Goal ==
         /\ purchase'[o] = "NONE" => purchase[o] = "NONE" /\ confirmation'[o] = "NONE"
         /\ confirmation'[o] = "ISSUE_REPORTED" => ticket'[o] # "NONE"
         /\ ticket[o] # "NONE" => ticket'[o] # "NONE"
         /\ purchase'[o] = "PENDING_FULFILLMENT" /\ confirmation'[o] # "NONE" =>
              \/ purchase[o] = "PENDING_FULFILLMENT" /\ confirmation[o] # "NONE"
              \/ OpenForDelivered(o)
  <1>0. TypeOK /\ (purchase[o] = "NONE" => confirmation[o] = "NONE")
        /\ (confirmation[o] = "ISSUE_REPORTED" => ticket[o] # "NONE")
    BY DEF LedgerInv, Recorded
  <1>1. ASSUME NEW p \in Orders, Purchase(p) PROVE Goal
    BY <1>0, <1>1 DEF Purchase, TypeOK
  <1>2. ASSUME NEW p \in Orders, Fulfill(p) PROVE Goal
    BY <1>0, <1>2 DEF Fulfill, AskBuyer, TypeOK
  <1>3. ASSUME NEW p \in Orders, Refund(p) PROVE Goal
    BY <1>0, <1>3 DEF Refund, TypeOK
  <1>4. ASSUME NEW p \in Orders, NEW n \in Numbers, NEW x, FulfilAll(p, n, x) PROVE Goal
    BY <1>0, <1>4 DEF FulfilAll, AskBuyer, TypeOK
  <1>5. ASSUME UNCHANGED <<purchase, confirmation, ticket>> PROVE Goal
    BY <1>0, <1>5
  <1>6. CASE AttemptStep
    BY <1>4, <1>5, <1>6
    DEF AttemptStep, Create, Transition, ResolveReview, FulfillAttempt, FulfillAttemptByBuyer
  <1>7. ASSUME NEW p \in Orders, OpenForDelivered(p) PROVE Goal
    <2>1. UNCHANGED <<purchase, ticket>> /\ \A q \in Orders : q # p => confirmation'[q] = confirmation[q]
      BY <1>0, <1>7 DEF OpenForDelivered, Confirm, TypeOK
    <2>2. confirmation'[p] = "AWAITING_BUYER" /\ purchase[p] = "PENDING_FULFILLMENT"
      BY <1>0, <1>7 DEF OpenForDelivered, Confirm, TypeOK
    <2> QED
      BY <1>0, <1>7, <2>1, <2>2
  <1>8. ASSUME NEW p \in Orders, ConfirmReceived(p) \/ ReportIssue(p) PROVE Goal
    BY <1>0, <1>8 DEF ConfirmReceived, ReportIssue, Confirm, TypeOK
  <1>9. ASSUME NEW p \in Orders, OpenSystemTicket(p) \/ ResolveTicket(p) PROVE Goal
    BY <1>0, <1>9 DEF OpenSystemTicket, ResolveTicket, TypeOK
  <1>10. CASE OrderStep
    BY <1>1, <1>2, <1>3, <1>7, <1>8, <1>9, <1>10 DEF OrderStep
  <1>11. ASSUME NEW S \in SUBSET Orders, AutoCompleteDue(S) PROVE Goal
    BY <1>0, <1>11 DEF AutoCompleteDue, TypeOK
  <1>12. CASE UNCHANGED vars
    BY <1>5, <1>12 DEF vars
  <1> QED
    BY <1>6, <1>10, <1>11, <1>12 DEF Next

LEMMA StepRecorded == LedgerInv /\ Recorded /\ [Next]_vars => Recorded'
  <1> SUFFICES ASSUME LedgerInv, Recorded, [Next]_vars, NEW o \in Orders
               PROVE  /\ purchase'[o] = "NONE" =>
                            confirmation'[o] = "NONE" /\ \A n \in Numbers : attempt'[o][n].state = "NONE"
                      /\ confirmation'[o] = "ISSUE_REPORTED" => ticket'[o] # "NONE"
    BY DEF Recorded
  <1>1. purchase'[o] = "NONE" => purchase[o] = "NONE" /\ confirmation'[o] = "NONE"
    BY AnswerStep
  <1>2. purchase[o] = "NONE" => \A n \in Numbers : attempt[o][n].state = "NONE"
    BY DEF Recorded
  <1> QED
    BY <1>1, <1>2, UnboughtRow, AnswerStep

-----------------------------------------------------------------------------
(* Ticketed.                                                               *)

\* A ticket is opened before the pass goes on.
LEMMA AtTicket ==
  ASSUME PassStep
  PROVE  OpenTicket \/ (pass.pc = "idle" /\ StartPass) \/ pass.ticket = {}
  <1>1. CASE StartPass \/ OpenTicket \/ Settle
    BY <1>1 DEF StartPass, Settle
  <1>2. CASE \E id \in Ids : AskDeliver(id) \/ AskFulfil(id) \/ AskIssue(id) \/ AskWait(id)
    BY <1>2 DEF AskDeliver, AskFulfil, AskIssue, AskWait, At
  <1>3. CASE \/ LookUncertain \/ LookNothing \/ LookForeign \/ LookClean
             \/ RecoverLanded \/ RecoverUnchanged \/ RecoverOdd \/ PauseOdd
    BY <1>3 DEF LookUncertain, LookNothing, LookForeign, LookClean, Look, RecoverLanded, RecoverUnchanged,
       RecoverOdd, PauseOdd, At
  <1>4. CASE \/ \E id \in Ids : AbandonUnwritten(id)
             \/ CheckFile
             \/ \E id \in Ids : DecideWait(id) \/ DecideUnclear(id) \/ DecideClean(id)
             \/ DecideWrite
             \/ \E o \in Orders : PlanCreate(o)
             \/ \E id \in Ids : PlanPrepare(id)
             \/ PlanDone
    BY <1>4 DEF AbandonUnwritten, CheckFile, DecideWait, DecideUnclear, DecideClean, DecideWrite,
       PlanCreate, PlanPrepare, PlanDone, At
  <1>5. CASE \/ BeginWrite \/ Verify \/ Upload \/ ReadBack \/ AfterUncertain
             \/ \E id \in Ids : AfterStage(id) \/ AfterUnstage(id)
    BY <1>5 DEF BeginWrite, Verify, Upload, ReadBack, AfterUncertain, AfterStage, AfterUnstage, At
  <1> QED
    BY <1>1, <1>2, <1>3, <1>4, <1>5 DEF PassStep

\* The ticket a step leaves to open is that of an attempt it sent to review.
LEMMA TicketAfter ==
  ASSUME WTypeOK, PassStep, pass.ticket = {} \/ OpenTicket
  PROVE  \/ pass'.ticket = {}
         \/ \E id \in Ids : Fail(id) /\ pass'.ticket = {id[1]} /\ pass'.pc # "idle"
  <1>0. pass \in Pass /\ Typed
    BY DEF WTypeOK, Typed
  <1>1. pass'.ticket = {} \/ pass'.ticket # {}
    OBVIOUS
  <1>2. CASE StartPass \/ OpenTicket
    <2>1. [pass EXCEPT !.ticket = {}].ticket = {}
      BY <1>0 DEF Pass
    <2>2. \A S : [NoPass EXCEPT !.pc = "ask", !.todo = S].ticket = {}
      BY DEF NoPass
    <2> QED
      BY <1>2, <2>1, <2>2 DEF StartPass, OpenTicket
  <1>3. ASSUME pass.ticket = {}, NEW id \in Ids, AskDeliver(id) \/ AskFulfil(id) \/ AskIssue(id) \/ AskWait(id)
        PROVE  pass'.ticket = {} \/ (Fail(id) /\ pass'.ticket = {id[1]} /\ pass'.pc # "idle")
    <2>1. pass.pc = "ask"
      BY <1>3 DEF AskDeliver, AskFulfil, AskIssue, AskWait, At
    <2>2. Fail(id) => pass'.ticket = {id[1]} /\ pass'.pc = pass.pc
      BY <1>0 DEF Fail, Done, Pass
    <2>3. Fail(id) \/ pass' = Done(id)
      BY <1>3 DEF AskDeliver, AskFulfil, AskIssue, AskWait
    <2> QED
      BY <1>0, <1>3, <2>1, <2>2, <2>3, DoneFields
  <1>4. ASSUME pass.ticket = {},
               \/ LookUncertain \/ LookNothing \/ LookForeign \/ LookClean
               \/ RecoverLanded \/ RecoverUnchanged \/ RecoverOdd \/ PauseOdd
        PROVE  pass'.ticket = {}
    <2>1. LookUncertain \/ LookNothing \/ LookForeign \/ PauseOdd => pass'.ticket = {}
      BY <1>0, NoPassType DEF LookUncertain, LookNothing, LookForeign, PauseOdd, PauseNow
    <2>2. \A C : AbandonNext(C) => pass'.ticket = {}
      BY <1>0, <1>4 DEF AbandonNext, Pass
    <2>3. RecoverLanded \/ RecoverOdd => pass'.ticket = {}
      BY <1>0, <1>4 DEF RecoverLanded, RecoverOdd, Pass
    <2> QED
      BY <1>4, <2>1, <2>2, <2>3 DEF LookClean, RecoverUnchanged
  <1>5. ASSUME pass.ticket = {}, NEW id \in Ids,
               AbandonUnwritten(id) \/ DecideWait(id) \/ DecideUnclear(id) \/ DecideClean(id) \/ PlanPrepare(id)
        PROVE  pass'.ticket = {}
    <2>1. AbandonUnwritten(id) => pass'.ticket = {}
      BY <1>0, <1>5, DoneFields, NoPassType DEF AbandonUnwritten
    <2>2. DecideWait(id) => pass'.ticket = {}
      BY <1>0, <1>5, DoneFields DEF DecideWait
    <2>3. DecideUnclear(id) => pass'.ticket = {}
      BY <1>0, <1>5 DEF DecideUnclear, Done, Pass
    <2>4. DecideClean(id) => pass'.ticket = {}
      BY <1>0, <1>5 DEF DecideClean, Done, Pass
    <2>5. PlanPrepare(id) => pass'.ticket = {}
      BY <1>0, <1>5 DEF PlanPrepare, Done, Pass
    <2> QED
      BY <1>5, <2>1, <2>2, <2>3, <2>4, <2>5
  <1>6. ASSUME pass.ticket = {}, CheckFile \/ DecideWrite \/ PlanDone \/ (\E o \in Orders : PlanCreate(o))
        PROVE  pass'.ticket = {}
    <2>1. CheckFile => pass'.ticket = {}
      BY <1>0, <1>6, NoPassType DEF CheckFile, PauseNow, Pass
    <2>2. DecideWrite => pass'.ticket = {}
      BY <1>0, <1>6, NoPassType DEF DecideWrite, Pass
    <2>3. PlanDone => pass'.ticket = {}
      BY <1>0, <1>6, NoPassType DEF PlanDone, Pass
    <2>4. (\E o \in Orders : PlanCreate(o)) => pass'.ticket = {}
      BY <1>0, <1>6 DEF PlanCreate, Pass
    <2> QED
      BY <1>6, <2>1, <2>2, <2>3, <2>4
  <1>7. ASSUME pass.ticket = {}, BeginWrite \/ Verify \/ Upload \/ ReadBack \/ AfterUncertain \/ Settle
        PROVE  pass'.ticket = {}
    <2>1. BeginWrite \/ Upload => pass'.ticket = {}
      BY <1>0, <1>7 DEF BeginWrite, Upload, Pass
    <2>2. Verify => pass'.ticket = {}
      BY <1>0, <1>7 DEF Verify, Pass
    <2>3. ReadBack => pass'.ticket = {}
      BY <1>0, <1>7 DEF ReadBack, Pass
    <2>4. AfterUncertain => pass'.ticket = {}
      BY <1>0, <1>7 DEF AfterUncertain, Pass
    <2>5. Settle => pass'.ticket = {}
      BY <1>0, NoPassType DEF Settle
    <2> QED
      BY <1>7, <2>1, <2>2, <2>3, <2>4, <2>5
  <1>8. ASSUME pass.ticket = {}, NEW id \in Ids, AfterStage(id) \/ AfterUnstage(id)
        PROVE  pass'.ticket = {} \/ (Fail(id) /\ pass'.ticket = {id[1]} /\ pass'.pc # "idle")
    <2>1. pass.pc = "after"
      BY <1>8 DEF AfterStage, AfterUnstage, At
    <2>2. Fail(id) => pass'.ticket = {id[1]} /\ pass'.pc = pass.pc
      BY <1>0 DEF Fail, Done, Pass
    <2>3. Fail(id) \/ pass' = [pass EXCEPT !.ids = @ \ {id}]
      BY <1>8 DEF AfterStage, AfterUnstage
    <2>4. [pass EXCEPT !.ids = @ \ {id}].ticket = pass.ticket
      BY <1>0 DEF Pass
    <2> QED
      BY <1>8, <2>1, <2>2, <2>3, <2>4
  <1> QED
    BY <1>2, <1>3, <1>4, <1>5, <1>6, <1>7, <1>8 DEF PassStep

\* An attempt goes to review with a ticket to open, or by its buyer's report.
LEMMA FailedRows ==
  ASSUME WTypeOK, WNext, NEW j \in Ids, StateAfter(j) = "FAILED_REVIEW", StateOf(j) # "FAILED_REVIEW"
  PROVE  pass'.ticket = {j[1]} \/ confirmation[j[1]] = "ISSUE_REPORTED"
  <1>0. TypeOK /\ pass \in Pass
    BY DEF WTypeOK
  <1>1. \A id \in Ids, to \in AttemptStates : Move(id, to) => StateAfter(j) = (IF j = id THEN to ELSE StateOf(j))
    BY <1>0, MoveRows
  <1>2. attempt' # attempt
    BY DEF StateAfter, StateOf
  <1>3. ASSUME NEW id \in Ids, Fail(id) PROVE pass'.ticket = {j[1]}
    <2>1. j = id
      BY <1>1, <1>3, StateNames DEF Fail
    <2>2. pass'.ticket = {id[1]}
      BY <1>0, <1>3 DEF Fail, Done, Pass
    <2> QED
      BY <2>1, <2>2
  <1>4. ASSUME NEW id \in Ids, Move(id, "FAILED_REVIEW"), confirmation[id[1]] = "ISSUE_REPORTED"
        PROVE  confirmation[j[1]] = "ISSUE_REPORTED"
    BY <1>1, <1>4, StateNames
  <1>5. ASSUME NEW id \in Ids, FulfillAttemptByBuyer(id[1], id[2]) PROVE FALSE
    BY <1>0, <1>5, FulfilRows
  <1>6. ASSUME NEW o \in Orders, NEW n \in Numbers, Create(o, n, "BUYER") PROVE FALSE
    BY <1>0, <1>6, CreateRows
  <1>7. ASSUME NEW id \in Ids, NEW to \in AttemptStates, Move(id, to), to # "FAILED_REVIEW" PROVE FALSE
    BY <1>1, <1>7
  <1>8. ~People
    BY PeopleQuiet DEF QuietRow
  <1>9. ~(Stop \/ (\E good \in BOOLEAN : Boot(good)) \/ List \/ Tick \/ Resume \/ Repair \/ Edit)
    BY <1>2 DEF Stop, Boot, List, Tick, Resume, Repair, Edit, vars
  <1>10. ~(\/ StartPass \/ OpenTicket \/ LookUncertain \/ LookNothing \/ LookForeign \/ LookClean
           \/ RecoverLanded \/ RecoverUnchanged \/ RecoverOdd \/ PauseOdd
           \/ CheckFile \/ DecideWrite \/ PlanDone
           \/ BeginWrite \/ Verify \/ Upload \/ ReadBack \/ AfterUncertain \/ Settle)
    BY <1>2 DEF StartPass, OpenTicket, OpenSystemTicket, LookUncertain, LookNothing, LookForeign, LookClean, Look,
       RecoverLanded, RecoverUnchanged, RecoverOdd, PauseOdd, CheckFile, DecideWrite, PlanDone,
       BeginWrite, Verify, Upload, ReadBack, AfterUncertain, Settle, vars
  <1>11. ASSUME NEW id \in Ids, AskDeliver(id) \/ AskFulfil(id) \/ AskIssue(id) \/ AskWait(id)
         PROVE  pass'.ticket = {j[1]} \/ confirmation[j[1]] = "ISSUE_REPORTED"
    BY <1>11, <1>2, <1>3, <1>4, <1>5
    DEF AskDeliver, AskFulfil, AskIssue, AskWait, OpenForDelivered, Confirm, vars
  <1>12. ASSUME NEW id \in Ids, AbandonUnwritten(id) \/ DecideWait(id) \/ DecideUnclear(id) \/ DecideClean(id)
         PROVE  FALSE
    BY <1>12, <1>2, <1>7, StateNames DEF AbandonUnwritten, DecideWait, DecideUnclear, DecideClean, vars
  <1>13. ASSUME NEW id \in Ids, PlanPrepare(id) \/ AfterStage(id) PROVE FALSE
    BY <1>13, <1>2, <1>7, StateNames DEF PlanPrepare, AfterStage, vars
  <1>14. ASSUME NEW id \in Ids, AfterUnstage(id) PROVE pass'.ticket = {j[1]}
    BY <1>14, <1>3, <1>7, StateNames DEF AfterUnstage
  <1>15. ASSUME NEW o \in Orders, PlanCreate(o) PROVE FALSE
    BY <1>15, <1>2, <1>6 DEF PlanCreate, vars
  <1> QED
    BY <1>8, <1>9, <1>10, <1>11, <1>12, <1>13, <1>14, <1>15 DEF WNext, PassStep

LEMMA StepTicketed ==
  ASSUME WTypeOK, LedgerInv, Recorded, Ticketed, WNext
  PROVE  Ticketed'
  <1>1. [Next]_vars
    BY StepOnLedger
  <1>2. \A o \in Orders : ticket[o] # "NONE" => ticket'[o] # "NONE"
    BY <1>1, AnswerStep
  <1>3. pass' = pass \/ PassStep \/ Stop
    BY OtherFrame DEF WNext
  <1>4. PassStep => OpenTicket \/ pass.ticket = {}
    BY AtTicket DEF Ticketed
  <1>5. Stop => pass'.ticket = {}
    BY DEF Stop, NoPass
  <1>6. pass'.pc = "idle" => pass'.ticket = {}
    BY <1>3, <1>4, <1>5, TicketAfter DEF Ticketed
  <1>7. \A o, q \in pass'.ticket : o = q
    BY <1>3, <1>4, <1>5, TicketAfter DEF Ticketed
  <1>8. ASSUME ~setting'.faults, NEW id \in Ids, StateAfter(id) = "FAILED_REVIEW"
        PROVE  ticket'[id[1]] # "NONE" \/ id[1] \in pass'.ticket
    <2>0. setting' = setting /\ id[1] \in Orders
      BY IdParts DEF WNext
    <2>1. CASE StateOf(id) # "FAILED_REVIEW"
      BY <1>2, <1>8, <2>0, <2>1, FailedRows DEF Recorded
    <2>2. CASE StateOf(id) = "FAILED_REVIEW"
      <3>1. ticket[id[1]] # "NONE" \/ id[1] \in pass.ticket
        BY <1>8, <2>0, <2>2 DEF Ticketed
      <3>2. ~Stop
        BY <1>8, <2>0 DEF Stop
      <3>3. CASE OpenTicket
        <4>1. PICK o \in pass.ticket : OpenSystemTicket(o) \/ ticket[o] = "OPEN"
          BY <3>3 DEF OpenTicket
        <4>2. ticket'[id[1]] # "NONE" \/ id[1] # o
          BY <1>2, <2>0, <4>1 DEF OpenSystemTicket, WTypeOK, TypeOK
        <4>3. id[1] \in pass.ticket => id[1] = o
          BY <4>1 DEF Ticketed
        <4> QED
          BY <1>2, <2>0, <3>1, <4>2, <4>3
      <3> QED
        BY <1>2, <1>3, <1>4, <2>0, <3>1, <3>2, <3>3
    <2> QED
      BY <2>1, <2>2
  <1>9. Ids' = Ids /\ \A id : StateOf(id)' = StateAfter(id)
    BY DEF Ids, StateOf, StateAfter
  <1> QED
    BY <1>6, <1>7, <1>8, <1>9 DEF Ticketed

LEMMA InitTicketed == WInit => Ticketed
  <1> SUFFICES ASSUME WInit PROVE Ticketed
    OBVIOUS
  <1>1. pass.ticket = {}
    BY DEF WInit, NoPass
  <1>2. \A id \in Ids : StateOf(id) = "NONE"
    BY IdParts DEF WInit, Init, StateOf, NoAttempt
  <1> QED
    BY <1>1, <1>2 DEF Ticketed

-----------------------------------------------------------------------------
(* Every change of an attempt's state that a step makes.                   *)

RowMove(id) ==
    \/ StateAfter(id) = StateOf(id)
    \/ StateOf(id) = "NONE" /\ StateAfter(id) = "PLAN_CREATED"
    \/ StateOf(id) = "PLAN_CREATED" /\ StateAfter(id) = "ABANDONED"
    \/ StateOf(id) = "PLAN_CREATED" /\ StateAfter(id) = "FILE_PREPARED" /\ PlanPrepare(id)
    \/ StateOf(id) = "FILE_PREPARED" /\ StateAfter(id) = "ABANDONED" /\ (AbandonUnwritten(id) \/ AfterStage(id))
    \/ StateOf(id) = "FILE_PREPARED" /\ StateAfter(id) = "FILE_STAGED" /\ AfterStage(id)
    \/ StateOf(id) = "FILE_STAGED" /\ StateAfter(id) = "AWAITING_RESTART"
    \/ StateOf(id) = "AWAITING_RESTART" /\ StateAfter(id) = "RESTART_OBSERVED" /\ DecideClean(id)
    \/ StateOf(id) = "RESTART_OBSERVED" /\ StateAfter(id) = "UNSTAGE_REQUIRED"
    \/ StateOf(id) = "UNSTAGE_REQUIRED" /\ StateAfter(id) = "VERIFICATION_REQUIRED" /\ AfterUnstage(id)
    \/ StateOf(id) \in InFile /\ StateAfter(id) = "FAILED_REVIEW" /\ AfterUnstage(id)
    \/ StateOf(id) = "VERIFICATION_REQUIRED" /\ StateAfter(id) \in {"FULFILLED", "FAILED_REVIEW"}

LEMMA ToFailed ==
  ASSUME TypeOK, NEW id \in Ids, Move(id, "FAILED_REVIEW")
  PROVE  StateOf(id) \in InFile \cup {"VERIFICATION_REQUIRED"}
  <1>1. <<StateOf(id), "FAILED_REVIEW">> \in Transitions
    BY MoveRows, StateNames
  <1> QED
    BY <1>1 DEF Transitions

LEMMA AskRows ==
  ASSUME WTypeOK, Asking, NEW id \in Ids, AskDeliver(id) \/ AskFulfil(id) \/ AskIssue(id) \/ AskWait(id)
  PROVE  \A j \in Ids : RowMove(j) /\ ReviewAfter(j) = ReviewOf(j)
  <1>0. TypeOK
    BY DEF WTypeOK
  <1>1. StateOf(id) = "VERIFICATION_REQUIRED"
    BY DEF AskDeliver, AskFulfil, AskIssue, AskWait, At, Asking, InState
  <1>2. CASE Move(id, "FAILED_REVIEW")
    BY <1>0, <1>1, <1>2, MoveRows, StateNames DEF RowMove
  <1>3. CASE FulfillAttemptByBuyer(id[1], id[2])
    BY <1>0, <1>3, FulfilRows DEF RowMove
  <1>4. CASE OpenForDelivered(id[1]) \/ UNCHANGED vars
    BY <1>4, IdParts, ServiceQuiet DEF RowMove
  <1> QED
    BY <1>2, <1>3, <1>4 DEF AskDeliver, AskFulfil, AskIssue, AskWait, Fail

LEMMA DecideRows ==
  ASSUME WTypeOK, NEW id \in Ids,
         AbandonUnwritten(id) \/ DecideWait(id) \/ DecideUnclear(id) \/ DecideClean(id) \/ PlanPrepare(id)
  PROVE  \A j \in Ids : RowMove(j) /\ ReviewAfter(j) = ReviewOf(j)
  <1>0. TypeOK
    BY DEF WTypeOK
  <1>1. CASE UNCHANGED vars
    BY <1>1, SameQuiet DEF RowMove, vars
  <1>2. CASE AbandonUnwritten(id) /\ Move(id, "ABANDONED")
    <2>1. <<StateOf(id), "ABANDONED">> \in Transitions
      BY <1>0, <1>2, MoveRows, StateNames
    <2>2. StateOf(id) \in {"PLAN_CREATED", "FILE_PREPARED"}
      BY <2>1 DEF Transitions
    <2> QED
      BY <1>0, <1>2, <2>2, MoveRows, StateNames DEF RowMove
  <1>3. CASE DecideWait(id) /\ StateOf(id) = "FILE_STAGED" /\ Move(id, "AWAITING_RESTART")
    BY <1>0, <1>3, MoveRows, StateNames DEF RowMove
  <1>4. CASE DecideClean(id)
    <2>1. CASE StateOf(id) = "FILE_STAGED" /\ Move(id, "AWAITING_RESTART")
      BY <1>0, <2>1, MoveRows, StateNames DEF RowMove
    <2>2. CASE StateOf(id) = "AWAITING_RESTART" /\ Move(id, "RESTART_OBSERVED")
      BY <1>0, <1>4, <2>2, MoveRows, StateNames DEF RowMove
    <2>3. CASE StateOf(id) = "RESTART_OBSERVED" /\ Move(id, "UNSTAGE_REQUIRED")
      BY <1>0, <2>3, MoveRows, StateNames DEF RowMove
    <2> QED
      BY <1>1, <1>4, <2>1, <2>2, <2>3 DEF DecideClean
  <1>5. CASE PlanPrepare(id) /\ Move(id, "FILE_PREPARED")
    <2>1. <<StateOf(id), "FILE_PREPARED">> \in Transitions
      BY <1>0, <1>5, MoveRows, StateNames
    <2>2. StateOf(id) = "PLAN_CREATED"
      BY <2>1 DEF Transitions
    <2> QED
      BY <1>0, <1>5, <2>2, MoveRows, StateNames DEF RowMove
  <1> QED
    BY <1>1, <1>2, <1>3, <1>4, <1>5 DEF AbandonUnwritten, DecideWait, DecideUnclear, PlanPrepare

LEMMA AfterRows ==
  ASSUME WTypeOK, NEW id \in Ids, AfterStage(id) \/ AfterUnstage(id)
  PROVE  \A j \in Ids : RowMove(j) /\ ReviewAfter(j) = ReviewOf(j)
  <1>0. TypeOK
    BY DEF WTypeOK
  <1>1. CASE AfterStage(id) /\ Move(id, "ABANDONED")
    <2>1. <<StateOf(id), "ABANDONED">> \in Transitions
      BY <1>0, <1>1, MoveRows, StateNames
    <2>2. StateOf(id) \in {"PLAN_CREATED", "FILE_PREPARED"}
      BY <2>1 DEF Transitions
    <2> QED
      BY <1>0, <1>1, <2>2, MoveRows, StateNames DEF RowMove
  <1>2. CASE AfterStage(id) /\ Move(id, "FILE_STAGED")
    <2>1. <<StateOf(id), "FILE_STAGED">> \in Transitions
      BY <1>0, <1>2, MoveRows, StateNames
    <2>2. StateOf(id) = "FILE_PREPARED"
      BY <2>1 DEF Transitions
    <2> QED
      BY <1>0, <1>2, <2>2, MoveRows, StateNames DEF RowMove
  <1>3. CASE AfterUnstage(id) /\ Move(id, "VERIFICATION_REQUIRED")
    <2>1. <<StateOf(id), "VERIFICATION_REQUIRED">> \in Transitions
      BY <1>0, <1>3, MoveRows, StateNames
    <2>2. StateOf(id) = "UNSTAGE_REQUIRED"
      BY <2>1 DEF Transitions
    <2> QED
      BY <1>0, <1>3, <2>2, MoveRows, StateNames DEF RowMove
  <1>4. CASE AfterUnstage(id) /\ Move(id, "FAILED_REVIEW")
    BY <1>0, <1>4, ToFailed, MoveRows, StateNames DEF RowMove
  <1> QED
    BY <1>1, <1>2, <1>3, <1>4 DEF AfterStage, AfterUnstage, Fail

LEMMA StepRows ==
  ASSUME WTypeOK, ReviewsOfFailed, Asking, WNext
  PROVE  \A j \in Ids : /\ RowMove(j)
                        /\ ReviewAfter(j) = ReviewOf(j) \/ (People /\ ReviewAfter(j) = Truth(j[1]))
  <1>0. TypeOK
    BY DEF WTypeOK
  <1>1. CASE attempt' = attempt
    BY <1>1, SameQuiet DEF RowMove
  <1>2. ASSUME NEW o \in Orders, PlanCreate(o)
        PROVE  \A j \in Ids : RowMove(j) /\ ReviewAfter(j) = ReviewOf(j)
    <2>1. CASE UNCHANGED vars
      BY <2>1, SameQuiet DEF RowMove, vars
    <2>2. ASSUME NEW n \in Numbers, Create(o, n, "BUYER")
          PROVE  \A j \in Ids : RowMove(j) /\ ReviewAfter(j) = ReviewOf(j)
      <3>1. ReviewOf(<<o, n>>) = "NONE"
        <4>1. attempt[o][n].state = "NONE"
          BY <1>0, <2>2, CreateRows DEF StateOf
        <4> QED
          BY <4>1 DEF ReviewsOfFailed, ReviewOf
      <3>2. StateOf(<<o, n>>) = "NONE" /\ StateAfter(<<o, n>>) = "PLAN_CREATED" /\ ReviewAfter(<<o, n>>) = "NONE"
        BY <1>0, <2>2, CreateRows
      <3>3. RowMove(<<o, n>>) /\ ReviewAfter(<<o, n>>) = ReviewOf(<<o, n>>)
        BY <3>1, <3>2 DEF RowMove
      <3>4. ASSUME NEW j \in Ids, j # <<o, n>> PROVE RowMove(j) /\ ReviewAfter(j) = ReviewOf(j)
        BY <1>0, <2>2, <3>4, CreateRows DEF RowMove
      <3> QED
        BY <3>3, <3>4
    <2> QED
      BY <1>2, <2>1, <2>2 DEF PlanCreate
  <1>3. CASE People
    BY <1>3, PeopleQuiet DEF QuietRow, RowMove
  <1>4. \/ StartPass \/ OpenTicket \/ LookUncertain \/ LookNothing \/ LookForeign \/ LookClean
        \/ RecoverLanded \/ RecoverUnchanged \/ RecoverOdd \/ PauseOdd
        \/ CheckFile \/ DecideWrite \/ PlanDone
        \/ BeginWrite \/ Verify \/ Upload \/ ReadBack \/ AfterUncertain \/ Settle
        => attempt' = attempt
    BY DEF StartPass, OpenTicket, OpenSystemTicket, LookUncertain, LookNothing, LookForeign, LookClean, Look,
       RecoverLanded, RecoverUnchanged, RecoverOdd, PauseOdd, CheckFile, DecideWrite, PlanDone,
       BeginWrite, Verify, Upload, ReadBack, AfterUncertain, Settle, vars
  <1>5. Stop \/ (\E good \in BOOLEAN : Boot(good)) \/ List \/ Tick \/ Resume \/ Repair \/ Edit => attempt' = attempt
    BY DEF Stop, Boot, List, Tick, Resume, Repair, Edit, vars
  <1> QED
    BY <1>1, <1>2, <1>3, <1>4, <1>5, AskRows, DecideRows, AfterRows DEF WNext, PassStep

\* The attempts in the file change only as the record of a write says.
LEMMA StepSets ==
  ASSUME WTypeOK, ReviewsOfFailed, Asking, WNext
  PROVE  /\ (\E id \in Ids : AfterStage(id) \/ AfterUnstage(id)) \/ Staged' = Staged
         /\ (\E id \in Ids : AfterStage(id) \/ AbandonUnwritten(id)) \/ Prepared \subseteq Prepared'
         /\ (\E id \in Ids : PlanPrepare(id)) \/ Prepared' \subseteq Prepared
  <1>1. \A j \in Ids : RowMove(j)
    BY StepRows
  <1>2. \A j : StateOf(j)' = StateAfter(j)
    BY DEF StateOf, StateAfter
  <1>3. ASSUME NEW j \in Ids, ~(AfterStage(j) \/ AfterUnstage(j))
        PROVE  StateOf(j) \in InFile <=> StateAfter(j) \in InFile
    BY <1>1, <1>3 DEF RowMove, InFile
  <1>4. ASSUME NEW j \in Ids, ~(AfterStage(j) \/ AbandonUnwritten(j))
        PROVE  StateOf(j) = "FILE_PREPARED" => StateAfter(j) = "FILE_PREPARED"
    BY <1>1, <1>4 DEF RowMove, InFile
  <1>5. ASSUME NEW j \in Ids, ~PlanPrepare(j)
        PROVE  StateAfter(j) = "FILE_PREPARED" => StateOf(j) = "FILE_PREPARED"
    BY <1>1, <1>5 DEF RowMove, InFile
  <1>6. Ids' = Ids
    BY DEF Ids
  <1> QED
    BY <1>2, <1>3, <1>4, <1>5, <1>6 DEF Staged, Prepared, InState

LEMMA Apart ==
  /\ Staged \cap Prepared = {}
  /\ Staged \subseteq Ids /\ Prepared \subseteq Ids
  /\ \A S \in SUBSET Ids : S # Garbage
  BY WorkerAssumption DEF Staged, Prepared, InState, InFile, Ids

-----------------------------------------------------------------------------
(* The file, the journal and the ledger.                                   *)

LEMMA SameWritten ==
  ASSUME WriteKept, UNCHANGED <<file, journal>>, Staged' = Staged,
         Prepared \subseteq Prepared' \/ journal.outcome = "NONE" \/ file # journal.payload
  PROVE  WriteKept'
  BY DEF WriteKept

\* Before the pass's own write there is none, and the file is as recorded.
LEMMA NoneYet ==
  ASSUME WTypeOK, WriteKept, Outstanding
  PROVE  /\ pass.pc \in {"abandon", "decide", "plan", "begin"} => journal.outcome = "NONE" /\ file = Staged
         /\ Unresolved = "STARTED" => journal.outcome = "STARTED"
         /\ Unresolved = "NONE" <=> journal.outcome = "NONE"
  BY DEF WriteKept, Outstanding, Unresolved

\* A write plans another file than it found.
LEMMA PlansOther ==
  ASSUME WTypeOK, WriteKept, journal.outcome # "NONE"
  PROVE  journal.payload # journal.before
  <1>1. journal.kind \in {"STAGE", "UNSTAGE"}
    BY DEF WTypeOK, Journal
  <1> QED
    BY <1>1 DEF WriteKept

\* The steps after which the pass knows nothing of the file.
Blank == {"idle", "ask", "abandon"}

LEMMA BlankTrue ==
  ASSUME pass'.pc \in Blank, pass'.pc # "idle" => pass'.ids = {}
  PROVE  PassTrue'
  BY DEF PassTrue, Blank, Writing

LEMMA AskKept ==
  ASSUME WTypeOK, ReviewsOfFailed, Asking, WriteKept, PassTrue, WNext,
         \/ StartPass
         \/ \E id \in Ids : AskDeliver(id) \/ AskFulfil(id) \/ AskIssue(id) \/ AskWait(id)
  PROVE  WriteKept' /\ PassTrue'
  <1>0. pass \in Pass /\ Typed
    BY DEF WTypeOK, Typed
  <1>1. CASE StartPass
    <2>1. pass'.pc = "ask" /\ pass'.ids = {}
      BY <1>1 DEF StartPass, NoPass
    <2>2. UNCHANGED <<file, journal>> /\ Staged' = Staged /\ Prepared' = Prepared
      BY <1>1 DEF StartPass, server, store, vars, Staged, Prepared, InState, StateOf, Ids
    <2> QED
      BY <2>1, <2>2, BlankTrue, SameWritten DEF Blank
  <1>2. ASSUME NEW id \in Ids, AskDeliver(id) \/ AskFulfil(id) \/ AskIssue(id) \/ AskWait(id)
        PROVE  WriteKept' /\ PassTrue'
    <2>0. pass.pc = "ask" /\ pass.ids = {}
      BY <1>2 DEF AskDeliver, AskFulfil, AskIssue, AskWait, At, PassTrue
    <2>1. pass'.pc = "ask" /\ pass'.ids = {}
      <3>1. CASE Fail(id)
        BY <1>0, <2>0, <3>1 DEF Fail, Done, Pass
      <3>2. CASE pass' = Done(id)
        BY <1>0, <2>0, <3>2, DoneFields
      <3> QED
        BY <1>2, <3>1, <3>2 DEF AskDeliver, AskFulfil, AskIssue, AskWait
    <2>2. UNCHANGED <<file, journal>>
      BY <1>2 DEF AskDeliver, AskFulfil, AskIssue, AskWait, server, store
    <2>3. \A j \in Ids : ~(AfterStage(j) \/ AfterUnstage(j) \/ AbandonUnwritten(j))
      BY <2>0 DEF AfterStage, AfterUnstage, AbandonUnwritten, At
    <2>4. Staged' = Staged /\ Prepared \subseteq Prepared'
      BY <2>3, StepSets
    <2> QED
      BY <2>1, <2>2, <2>4, BlankTrue, SameWritten DEF Blank
  <1> QED
    BY <1>1, <1>2

LEMMA TicketKept ==
  ASSUME WTypeOK, WriteKept, PassTrue, OpenTicket
  PROVE  WriteKept' /\ PassTrue'
  <1>1. attempt' = attempt
    BY DEF OpenTicket, OpenSystemTicket, vars
  <1>2. Staged' = Staged /\ Prepared' = Prepared
    BY <1>1 DEF Staged, Prepared, InState, StateOf, Ids
  <1>3. UNCHANGED <<file, journal, now>>
    BY DEF OpenTicket, server, store
  <1>4. /\ pass'.pc = pass.pc /\ pass'.todo = pass.todo /\ pass'.ids = pass.ids
        /\ pass'.kind = pass.kind /\ pass'.file = pass.file /\ pass'.outcome = pass.outcome
    BY DEF OpenTicket, WTypeOK, Pass
  <1> QED
    BY <1>2, <1>3, <1>4, SameWritten DEF PassTrue

LEMMA LookKept ==
  ASSUME WTypeOK, WriteKept, PassTrue, WNext,
         \/ LookUncertain \/ LookNothing \/ LookForeign \/ LookClean
         \/ RecoverLanded \/ RecoverUnchanged \/ RecoverOdd \/ PauseOdd
  PROVE  WriteKept' /\ PassTrue'
  <1>0. pass \in Pass /\ Typed /\ journal \in Journal
    BY DEF WTypeOK, Typed
  <1>1. attempt' = attempt /\ file' = file
    BY DEF LookUncertain, LookNothing, LookForeign, LookClean, Look, RecoverLanded, RecoverUnchanged,
       RecoverOdd, PauseOdd, server, vars
  <1>2. Staged' = Staged /\ Prepared' = Prepared
    BY <1>1 DEF Staged, Prepared, InState, StateOf, Ids
  <1>3. CASE LookUncertain \/ LookNothing \/ LookForeign \/ PauseOdd
    <2>1. pass' = NoPass /\ journal' = journal
      BY <1>3 DEF LookUncertain, LookNothing, LookForeign, PauseOdd, PauseNow, store
    <2> QED
      BY <1>0, <1>1, <1>2, <2>1, NoPassType, BlankTrue, SameWritten DEF Blank
  <1>4. \A C : AbandonNext(C) /\ pass.pc = "ask" => pass'.pc = "abandon" /\ pass'.ids = {}
    BY <1>0 DEF AbandonNext, Pass, PassTrue
  <1>5. CASE LookClean
    <2>1. pass'.pc = "abandon" /\ pass'.ids = {} /\ journal' = journal
      BY <1>4, <1>5 DEF LookClean, Look, At
    <2> QED
      BY <1>1, <1>2, <2>1, BlankTrue, SameWritten DEF Blank
  <1>6. CASE RecoverUnchanged
    <2>1. journal.outcome # "NONE" /\ file = journal.before
      BY <1>6 DEF RecoverUnchanged, Unresolved
    <2>2. file' = Staged'
      BY <1>1, <1>2, <2>1, PlansOther DEF WriteKept
    <2>3. journal' = NoWrite /\ pass'.pc = "abandon" /\ pass'.ids = {}
      BY <1>4, <1>6 DEF RecoverUnchanged, Look, At
    <2>4. WriteKept'
      BY <2>2, <2>3 DEF WriteKept, NoWrite
    <2> QED
      BY <2>3, <2>4, BlankTrue DEF Blank
  <1>7. CASE RecoverOdd
    <2>1. journal.outcome # "NONE" /\ file \notin {Garbage, journal.before, journal.payload}
      BY <1>7 DEF RecoverOdd, Unresolved
    <2> QED
      BY <2>1 DEF WriteKept
  <1>8. CASE RecoverLanded
    <2>1. journal.outcome = "STARTED" /\ file = journal.payload /\ journal' = journal
      BY <1>8 DEF RecoverLanded, Unresolved
    <2> DEFINE ids == journal.ids \cap
                        IF journal.kind = "STAGE" THEN InState({"FILE_PREPARED"}) ELSE Staged
               failing == IF journal.kind = "STAGE" THEN {} ELSE RecoverFailing(ids)
    <2>2. pass' = [pass EXCEPT !.pc = "after", !.kind = journal.kind, !.ids = ids,
                               !.failing = failing, !.outcome = "WRITTEN_VERIFIED"]
      BY <1>8 DEF RecoverLanded
    <2>3. journal.kind \in {"STAGE", "UNSTAGE"}
      BY <1>0 DEF Journal
    <2>4. ids = IF journal.kind = "STAGE" THEN journal.payload \ Staged ELSE Staged \ journal.payload
      <3>1. CASE journal.kind = "STAGE"
        <4>1. /\ journal.payload = journal.before \cup journal.ids
              /\ journal.before \subseteq Staged /\ journal.payload \ Staged \subseteq Prepared
          BY <2>1, <3>1 DEF WriteKept
        <4> QED
          BY <3>1, <4>1, Apart DEF Prepared
      <3>2. CASE journal.kind = "UNSTAGE"
        <4>1. journal.payload = journal.before \ journal.ids /\ Staged \subseteq journal.before
          BY <2>1, <3>2 DEF WriteKept
        <4> QED
          BY <3>2, <4>1
      <3> QED
        BY <2>3, <3>1, <3>2
    <2> HIDE DEF ids, failing
    <2>5. pass'.pc = "after" /\ pass'.kind = journal.kind /\ pass'.ids = ids /\ pass'.outcome = "WRITTEN_VERIFIED"
      BY <1>0, <2>2 DEF Pass
    <2>6. WriteKept'
      BY <1>1, <1>2, <2>1, SameWritten
    <2>7. PassTrue'
      BY <1>1, <1>2, <2>1, <2>3, <2>4, <2>5 DEF PassTrue, Writing
    <2> QED
      BY <2>6, <2>7
  <1> QED
    BY <1>3, <1>5, <1>6, <1>7, <1>8

LEMMA DecideKept ==
  ASSUME WTypeOK, ReviewsOfFailed, Asking, Outstanding, WriteKept, PassTrue, WNext,
         \/ CheckFile \/ DecideWrite
         \/ \E id \in Ids : AbandonUnwritten(id) \/ DecideWait(id) \/ DecideUnclear(id) \/ DecideClean(id)
  PROVE  WriteKept' /\ PassTrue'
  <1>0. pass \in Pass /\ Typed
    BY DEF WTypeOK, Typed
  <1>1. pass.pc \in {"abandon", "decide"} /\ UNCHANGED <<file, journal>>
    BY DEF CheckFile, DecideWrite, AbandonUnwritten, DecideWait, DecideUnclear, DecideClean, At, server, store
  <1>2. journal.outcome = "NONE"
    BY <1>1, NoneYet
  <1>3. \A j \in Ids : ~(AfterStage(j) \/ AfterUnstage(j))
    BY <1>1 DEF AfterStage, AfterUnstage, At
  <1>4. Staged' = Staged
    BY <1>3, StepSets
  <1>5. WriteKept'
    BY <1>1, <1>2, <1>4, SameWritten
  <1>6. ASSUME NEW id \in Ids, AbandonUnwritten(id) PROVE PassTrue'
    <2>1. pass.pc = "abandon" /\ pass.ids = {} /\ (pass' = NoPass \/ pass' = Done(id))
      BY <1>6 DEF AbandonUnwritten, At, PassTrue
    <2>2. pass'.pc = "idle" \/ (pass'.pc = "abandon" /\ pass'.ids = {})
      BY <1>0, <2>1, DoneFields, NoPassType
    <2> QED
      BY <2>2, BlankTrue DEF Blank
  <1>7. ASSUME CheckFile PROVE PassTrue'
    <2>1. CASE pass.file = Staged
      <3>1. pass.pc = "abandon" /\ pass.ids = {} /\ pass' = [pass EXCEPT !.pc = "decide", !.todo = Staged]
        BY <1>7, <2>1 DEF CheckFile, At, PassTrue
      <3>2. pass'.pc = "decide" /\ pass'.ids = {} /\ pass'.todo = Staged /\ pass'.file = Staged
        BY <1>0, <2>1, <3>1 DEF Pass
      <3> QED
        BY <1>4, <3>2 DEF PassTrue, Writing
    <2>2. CASE pass.file # Staged
      <3>1. pass'.pc = "idle"
        BY <1>0, <1>7, <2>2, NoPassType DEF CheckFile, PauseNow
      <3> QED
        BY <3>1, BlankTrue DEF Blank
    <2> QED
      BY <2>1, <2>2
  <1>8. ASSUME NEW id \in Ids, DecideWait(id) \/ DecideUnclear(id) \/ DecideClean(id) PROVE PassTrue'
    <2>1. pass.pc = "decide" /\ id \in Staged /\ pass.ids \subseteq Staged /\ pass.todo \subseteq Staged /\ pass.file = Staged
      BY <1>8 DEF DecideWait, DecideUnclear, DecideClean, At, PassTrue
    <2> DEFINE Good == /\ pass'.pc = "decide" /\ pass'.file = Staged /\ pass'.todo \subseteq Staged
                       /\ pass'.ids \subseteq Staged
    <2>2. ASSUME pass' = Done(id) PROVE Good
      BY <1>0, <2>1, <2>2, DoneFields
    <2>3. ASSUME DecideUnclear(id) PROVE Good
      BY <1>0, <2>1, <2>3 DEF DecideUnclear, Done, Pass
    <2>4. ASSUME pass' = [Done(id) EXCEPT !.ids = @ \cup {id}] PROVE Good
      BY <1>0, <2>1, <2>4 DEF Done, Pass
    <2>5. ASSUME pass' = pass PROVE Good
      BY <2>1, <2>5
    <2>6. Good
      BY <1>8, <2>2, <2>3, <2>4, <2>5 DEF DecideWait, DecideClean
    <2> QED
      BY <1>4, <2>6 DEF PassTrue, Writing
  <1>9. ASSUME DecideWrite PROVE PassTrue'
    <2>0. pass.pc = "decide" /\ pass.ids \subseteq Staged /\ pass.file = Staged
      BY <1>9 DEF DecideWrite, At, PassTrue
    <2>1. CASE pass.ids # {} /\ pass' = [pass EXCEPT !.pc = "begin", !.kind = "UNSTAGE"]
      <3>1. pass'.pc = "begin" /\ pass'.kind = "UNSTAGE" /\ pass'.ids = pass.ids /\ pass'.file = pass.file
        BY <1>0, <2>1 DEF Pass
      <3> QED
        BY <1>4, <2>0, <2>1, <3>1 DEF PassTrue, Writing
    <2>2. CASE pass.ids = {} /\ pass' = [pass EXCEPT !.pc = "plan"]
      <3>1. pass'.pc = "plan" /\ pass'.ids = {} /\ pass'.file = pass.file
        BY <1>0, <2>2 DEF Pass
      <3> QED
        BY <1>4, <2>0, <3>1 DEF PassTrue, Writing
    <2>3. CASE pass' = NoPass
      BY <1>0, <2>3, NoPassType, BlankTrue DEF Blank
    <2> QED
      BY <1>9, <2>1, <2>2, <2>3 DEF DecideWrite
  <1> QED
    BY <1>5, <1>6, <1>7, <1>8, <1>9

LEMMA PlanKept ==
  ASSUME WTypeOK, ReviewsOfFailed, Asking, Outstanding, WriteKept, PassTrue, WNext,
         (\E o \in Orders : PlanCreate(o)) \/ (\E id \in Ids : PlanPrepare(id)) \/ PlanDone
  PROVE  WriteKept' /\ PassTrue'
  <1>0. pass \in Pass /\ Typed /\ TypeOK
    BY DEF WTypeOK, Typed
  <1>1. pass.pc = "plan" /\ pass.file = Staged /\ pass.ids \subseteq Prepared /\ UNCHANGED <<file, journal>>
    BY DEF PlanCreate, PlanPrepare, PlanDone, At, PassTrue, server, store
  <1>2. journal.outcome = "NONE"
    BY <1>1, NoneYet
  <1>3. \A j \in Ids : ~(AfterStage(j) \/ AfterUnstage(j) \/ AbandonUnwritten(j))
    BY <1>1 DEF AfterStage, AfterUnstage, AbandonUnwritten, At
  <1>4. Staged' = Staged /\ Prepared \subseteq Prepared'
    BY <1>3, StepSets
  <1>5. WriteKept'
    BY <1>1, <1>2, <1>4, SameWritten
  <1>6. ASSUME NEW o \in Orders, PlanCreate(o) PROVE PassTrue'
    <2>1. pass'.pc = "plan" /\ pass'.file = pass.file /\ pass'.ids = pass.ids
      BY <1>0, <1>1, <1>6 DEF PlanCreate, Pass
    <2> QED
      BY <1>1, <1>4, <2>1 DEF PassTrue, Writing
  <1>7. ASSUME NEW id \in Ids, PlanPrepare(id) PROVE PassTrue'
    <2>1. CASE pass' = Done(id)
      BY <1>0, <1>1, <1>4, <2>1, DoneFields DEF PassTrue, Writing
    <2>2. CASE Move(id, "FILE_PREPARED") /\ pass' = [Done(id) EXCEPT !.ids = @ \cup {id}]
      <3>1. pass'.pc = "plan" /\ pass'.file = pass.file /\ pass'.ids = pass.ids \cup {id}
        BY <1>0, <1>1, <2>2 DEF Done, Pass
      <3>2. id \in Prepared'
        <4>1. StateAfter(id) = "FILE_PREPARED"
          BY <1>0, <2>2, MoveRows, StateNames
        <4> QED
          BY <4>1 DEF Prepared, InState, StateAfter, StateOf, Ids
      <3> QED
        BY <1>1, <1>4, <3>1, <3>2 DEF PassTrue, Writing
    <2> QED
      BY <1>7, <2>1, <2>2 DEF PlanPrepare
  <1>8. ASSUME PlanDone PROVE PassTrue'
    <2>1. CASE pass.ids # {}
      <3>1. pass' = [pass EXCEPT !.pc = "begin", !.kind = "STAGE"]
        BY <1>8, <2>1 DEF PlanDone
      <3>2. pass'.pc = "begin" /\ pass'.kind = "STAGE" /\ pass'.ids = pass.ids /\ pass'.file = pass.file
        BY <1>0, <3>1 DEF Pass
      <3> QED
        BY <1>1, <1>4, <2>1, <3>2 DEF PassTrue, Writing
    <2>2. CASE pass.ids = {}
      BY <1>0, <1>8, <2>2, NoPassType, BlankTrue DEF PlanDone, Blank
    <2> QED
      BY <2>1, <2>2
  <1> QED
    BY <1>5, <1>6, <1>7, <1>8

LEMMA BeginKept ==
  ASSUME WTypeOK, Outstanding, WriteKept, PassTrue, BeginWrite
  PROVE  WriteKept' /\ PassTrue'
  <1>0. pass \in Pass /\ pass.kind \in {"STAGE", "UNSTAGE"}
    BY DEF WTypeOK, Pass
  <1>1. /\ pass.pc = "begin" /\ pass.file = Staged /\ pass.ids # {}
        /\ pass.ids \subseteq IF pass.kind = "STAGE" THEN Prepared ELSE Staged
        /\ file = Staged
    BY NoneYet DEF BeginWrite, At, PassTrue
  <1>2. file' = file /\ now' = now /\ Staged' = Staged /\ Prepared' = Prepared
    BY DEF BeginWrite, server, vars, Staged, Prepared, InState, StateOf, Ids
  <1>3. /\ journal'.outcome = "STARTED" /\ journal'.kind = pass.kind /\ journal'.ids = pass.ids
        /\ journal'.before = Staged /\ ~journal'.resolved /\ journal'.at = now
        /\ journal'.payload = IF pass.kind = "STAGE" THEN Staged \cup pass.ids ELSE Staged \ pass.ids
    BY <1>1 DEF BeginWrite
  <1>4. pass'.pc = "verify" /\ pass'.kind = pass.kind /\ pass'.ids = pass.ids
    BY <1>0 DEF BeginWrite, Pass
  <1>5. journal'.payload # Staged
    BY <1>0, <1>1, <1>3, Apart
  <1>6. WriteKept'
    BY <1>0, <1>1, <1>2, <1>3, <1>5, Apart DEF WriteKept
  <1>7. PassTrue'
    BY <1>0, <1>1, <1>2, <1>3, <1>4 DEF PassTrue, Writing
  <1> QED
    BY <1>6, <1>7

LEMMA SendKept ==
  ASSUME WTypeOK, WriteKept, PassTrue, Verify \/ AfterUncertain
  PROVE  WriteKept' /\ PassTrue'
  <1>0. pass \in Pass
    BY DEF WTypeOK
  <1>1. UNCHANGED <<file, journal, now>> /\ Staged' = Staged /\ Prepared' = Prepared
    BY DEF Verify, AfterUncertain, server, store, vars, Staged, Prepared, InState, StateOf, Ids
  <1>2. WriteKept'
    BY <1>1, SameWritten
  <1>3. ASSUME Verify, pass' = [pass EXCEPT !.pc = "upload"] PROVE PassTrue'
    <2>1. pass.pc = "verify" /\ pass'.pc = "upload" /\ pass'.ids = pass.ids /\ pass'.kind = pass.kind
      BY <1>0, <1>3 DEF Verify, At, Pass
    <2> QED
      BY <1>1, <2>1 DEF PassTrue, Writing
  <1>4. ASSUME Verify, pass' = [pass EXCEPT !.pc = "after", !.outcome = "NOT_WRITTEN"] PROVE PassTrue'
    <2>1. pass.pc = "verify" /\ pass'.pc = "after" /\ pass'.outcome = "NOT_WRITTEN" /\ pass'.kind = pass.kind
      BY <1>0, <1>4 DEF Verify, At, Pass
    <2> QED
      BY <1>1, <2>1 DEF PassTrue, Writing
  <1>5. ASSUME AfterUncertain PROVE PassTrue'
    <2>1. pass.pc = "after" /\ pass.outcome = "UNCERTAIN" /\ pass'.pc = "settle"
          /\ pass'.outcome = pass.outcome /\ pass'.kind = pass.kind
      BY <1>0, <1>5 DEF AfterUncertain, At, Pass
    <2> QED
      BY <1>1, <2>1 DEF PassTrue, Writing
  <1> QED
    BY <1>2, <1>3, <1>4, <1>5 DEF Verify

LEMMA UploadKept ==
  ASSUME WTypeOK, WriteKept, PassTrue, Upload
  PROVE  WriteKept' /\ PassTrue'
  <1>0. pass \in Pass /\ journal.kind \in {"STAGE", "UNSTAGE"}
    BY DEF WTypeOK, Journal
  <1>1. UNCHANGED <<journal, now>> /\ Staged' = Staged /\ Prepared' = Prepared
    BY DEF Upload, store, vars, Staged, Prepared, InState, StateOf, Ids
  <1>2. /\ pass.pc = "upload" /\ pass'.pc = "readback" /\ pass'.ids = pass.ids /\ pass'.kind = pass.kind
    BY <1>0 DEF Upload, At, Pass
  <1>3. /\ Staged = journal.before /\ file = journal.before /\ journal.outcome = "STARTED"
        /\ pass.ids = journal.ids /\ (journal.kind = "STAGE" => journal.ids \subseteq Prepared)
    BY <1>2 DEF PassTrue, Writing
  <1>4. file' \in {Garbage, journal.before, journal.payload}
    BY <1>3 DEF Upload
  <1>5. WriteKept'
    BY <1>0, <1>1, <1>3, <1>4 DEF WriteKept
  <1>6. PassTrue'
    BY <1>1, <1>2, <1>3 DEF PassTrue, Writing
  <1> QED
    BY <1>5, <1>6

LEMMA ReadKept ==
  ASSUME WTypeOK, WriteKept, PassTrue, ReadBack
  PROVE  WriteKept' /\ PassTrue'
  <1>0. pass \in Pass /\ journal.kind \in {"STAGE", "UNSTAGE"}
    BY DEF WTypeOK, Journal
  <1>1. UNCHANGED <<file, journal, now>> /\ Staged' = Staged /\ Prepared' = Prepared
    BY DEF ReadBack, server, store, vars, Staged, Prepared, InState, StateOf, Ids
  <1>2. WriteKept'
    BY <1>1, SameWritten
  <1>3. PICK outcome \in {"WRITTEN_VERIFIED", "NOT_WRITTEN", "UNCERTAIN"} :
          /\ Outcome(outcome)
          /\ \E new : pass' = [pass EXCEPT !.pc = "after", !.outcome = outcome, !.failing = @ \cup new]
    BY DEF ReadBack
  <1>4. pass.pc = "readback" /\ pass'.pc = "after" /\ pass'.outcome = outcome
        /\ pass'.ids = pass.ids /\ pass'.kind = pass.kind
    BY <1>0, <1>3 DEF ReadBack, At, Pass
  <1>5. /\ Staged = journal.before /\ pass.ids = journal.ids /\ journal.outcome = "STARTED" /\ pass.kind = journal.kind
        /\ journal.kind = "STAGE" => pass.ids \subseteq Prepared
    BY <1>4 DEF PassTrue, Writing
  <1>6. outcome = "WRITTEN_VERIFIED" =>
          /\ file = journal.payload
          /\ journal.kind = "STAGE" => pass.ids = journal.payload \ Staged
          /\ journal.kind = "UNSTAGE" => pass.ids = Staged \ journal.payload
    BY <1>3, <1>5, Apart DEF Outcome, WriteKept
  <1>7. outcome = "NOT_WRITTEN" => file = journal.before
    BY <1>3 DEF Outcome
  <1> QED
    BY <1>1, <1>2, <1>4, <1>5, <1>6, <1>7 DEF PassTrue, Writing

LEMMA AfterStageKept ==
  ASSUME WTypeOK, ReviewsOfFailed, Asking, WriteKept, PassTrue, WNext, NEW id \in Ids, AfterStage(id)
  PROVE  WriteKept' /\ PassTrue'
  <1>0. pass \in Pass /\ TypeOK
    BY DEF WTypeOK
  <1>1. /\ pass.pc = "after" /\ pass.kind = "STAGE" /\ id \in pass.ids /\ UNCHANGED <<file, journal, now>>
        /\ pass' = [pass EXCEPT !.ids = @ \ {id}]
    BY DEF AfterStage, At, server
  <1>2. /\ pass'.pc = "after" /\ pass'.kind = pass.kind /\ pass'.outcome = pass.outcome
        /\ pass'.ids = pass.ids \ {id}
    BY <1>0, <1>1 DEF Pass
  <1>3. journal.outcome = "STARTED" /\ journal.kind = "STAGE"
    BY <1>1 DEF PassTrue, Writing
  <1>4. journal.payload # journal.before
    BY <1>3, PlansOther
  <1>5. CASE pass.outcome = "NOT_WRITTEN" /\ Move(id, "ABANDONED")
    <2>1. file = journal.before
      BY <1>1, <1>5 DEF PassTrue
    <2>2. Staged' = Staged \ {id} /\ Staged = journal.before
      BY <1>0, <1>3, <1>4, <1>5, <2>1, MovedSets, StateNames DEF WriteKept, Staged, InFile
    <2>3. id \notin Staged
      <3>1. <<StateOf(id), "ABANDONED">> \in Transitions
        BY <1>0, <1>5, MoveRows, StateNames
      <3> QED
        BY <3>1 DEF Transitions, Staged, InState, InFile
    <2>4. Staged' = Staged
      BY <2>2, <2>3
    <2>5. WriteKept'
      BY <1>1, <1>4, <2>1, <2>4, SameWritten
    <2>6. PassTrue'
      BY <1>1, <1>2, <1>3, <1>5, <2>1 DEF PassTrue, Writing
    <2> QED
      BY <2>5, <2>6
  <1>6. CASE pass.outcome = "WRITTEN_VERIFIED" /\ Move(id, "FILE_STAGED")
    <2>1. /\ file = journal.payload /\ pass.ids = journal.payload \ Staged
          /\ journal.payload = journal.before \cup journal.ids /\ journal.ids \cap journal.before = {}
          /\ journal.before \subseteq Staged /\ Staged \subseteq journal.payload
          /\ journal.payload \ Staged \subseteq Prepared
      BY <1>1, <1>3, <1>6 DEF PassTrue, WriteKept
    <2>2. Staged' = Staged \cup {id}
      BY <1>0, <1>6, MovedSets, StateNames DEF Staged, InFile
    <2>3. Prepared' = Prepared \ {id}
      BY <1>0, <1>6, MovedSets, StateNames DEF Prepared
    <2>4. id \in journal.payload /\ id \notin Staged
      BY <1>1, <2>1
    <2>5. WriteKept'
      BY <1>1, <1>3, <1>4, <2>1, <2>2, <2>3, <2>4 DEF WriteKept
    <2>6. PassTrue'
      BY <1>1, <1>2, <1>3, <1>6, <2>1, <2>2, <2>4 DEF PassTrue, Writing
    <2> QED
      BY <2>5, <2>6
  <1> QED
    BY <1>5, <1>6 DEF AfterStage

LEMMA AfterUnstageKept ==
  ASSUME WTypeOK, WriteKept, PassTrue, NEW id \in Ids, AfterUnstage(id)
  PROVE  WriteKept' /\ PassTrue'
  <1>0. pass \in Pass /\ TypeOK
    BY DEF WTypeOK
  <1>1. /\ pass.pc = "after" /\ pass.kind = "UNSTAGE" /\ id \in pass.ids /\ UNCHANGED <<file, journal, now>>
        /\ pass.outcome = "WRITTEN_VERIFIED"
    BY DEF AfterUnstage, At, server, store
  <1>2. /\ pass'.pc = "after" /\ pass'.kind = pass.kind /\ pass'.outcome = pass.outcome
        /\ pass'.ids = pass.ids \ {id}
    <2>1. CASE Fail(id)
      BY <1>0, <1>1, <2>1 DEF Fail, Done, Pass
    <2>2. CASE pass' = [pass EXCEPT !.ids = @ \ {id}]
      BY <1>0, <1>1, <2>2 DEF Pass
    <2> QED
      BY <2>1, <2>2 DEF AfterUnstage
  <1>3. journal.outcome = "STARTED" /\ journal.kind = "UNSTAGE"
    BY <1>1 DEF PassTrue, Writing
  <1>4. /\ file = journal.payload /\ pass.ids = Staged \ journal.payload
        /\ journal.payload \subseteq Staged /\ Staged \subseteq journal.before
    BY <1>1, <1>3 DEF PassTrue, WriteKept
  <1>5. Staged' = Staged \ {id}
    BY <1>0, MovedSets, StateNames DEF AfterUnstage, Fail, Staged, InFile
  <1>6. WriteKept'
    BY <1>1, <1>3, <1>4, <1>5 DEF WriteKept
  <1>7. PassTrue'
    BY <1>1, <1>2, <1>3, <1>4, <1>5 DEF PassTrue, Writing
  <1> QED
    BY <1>6, <1>7

LEMMA SettleKept ==
  ASSUME WTypeOK, WriteKept, PassTrue, Settle
  PROVE  WriteKept' /\ PassTrue'
  <1>0. pass \in Pass /\ Typed /\ journal \in Journal
    BY DEF WTypeOK, Typed
  <1>1. file' = file /\ Staged' = Staged /\ Prepared' = Prepared /\ pass' = NoPass
    BY DEF Settle, server, vars, Staged, Prepared, InState, StateOf, Ids
  <1>2. PassTrue'
    BY <1>0, <1>1, NoPassType, BlankTrue DEF Blank
  <1>3. pass.pc \in {"settle", "after"} /\ journal.outcome = "STARTED" /\ pass.kind = journal.kind
    BY DEF Settle, PassTrue, Writing
  <1>4. CASE pass.outcome = "UNCERTAIN"
    <2>1. journal' = [journal EXCEPT !.outcome = "UNCERTAIN"]
      BY <1>4 DEF Settle
    <2>2. /\ journal'.outcome = "UNCERTAIN" /\ journal'.kind = journal.kind /\ journal'.ids = journal.ids
          /\ journal'.before = journal.before /\ journal'.payload = journal.payload
          /\ journal'.resolved = journal.resolved
      BY <1>0, <2>1 DEF Journal
    <2>3. WriteKept'
      BY <1>1, <1>3, <2>2 DEF WriteKept
    <2> QED
      BY <1>2, <2>3
  <1>5. CASE pass.outcome # "UNCERTAIN"
    <2>1. journal' = NoWrite /\ pass.pc = "after"
      BY <1>5 DEF Settle, PassTrue
    <2>2. file = Staged
      <3>1. CASE pass.outcome = "NOT_WRITTEN"
        BY <1>3, <2>1, <3>1, PlansOther DEF PassTrue, WriteKept
      <3>2. CASE pass.outcome = "WRITTEN_VERIFIED"
        <4>1. pass.ids = {} /\ file = journal.payload
          BY <2>1, <3>2 DEF Settle, PassTrue
        <4>2. journal.kind = "STAGE" => journal.payload \subseteq Staged /\ Staged \subseteq journal.payload
          BY <1>3, <2>1, <3>2, <4>1 DEF PassTrue, WriteKept
        <4>3. journal.kind = "UNSTAGE" => journal.payload \subseteq Staged /\ Staged \subseteq journal.payload
          BY <1>3, <2>1, <3>2, <4>1 DEF PassTrue, WriteKept
        <4> QED
          BY <1>0, <4>1, <4>2, <4>3 DEF Journal
      <3> QED
        BY <1>0, <1>5, <2>1, <3>1, <3>2 DEF Pass, PassTrue
    <2>3. WriteKept'
      BY <1>1, <2>1, <2>2 DEF WriteKept, NoWrite
    <2> QED
      BY <1>2, <2>3
  <1> QED
    BY <1>4, <1>5

LEMMA OthersKept ==
  ASSUME WTypeOK, WriteKept, PassTrue, Untouched,
         Stop \/ (\E good \in BOOLEAN : Boot(good)) \/ List \/ Tick \/ Resume \/ Repair \/ Edit \/ People
  PROVE  WriteKept' /\ PassTrue'
  <1>0. Typed
    BY DEF WTypeOK, Typed
  <1>1. CASE Stop
    <2>1. UNCHANGED <<file, journal>> /\ Staged' = Staged /\ Prepared' = Prepared /\ pass' = NoPass
      BY <1>1 DEF Stop, server, store, vars, Staged, Prepared, InState, StateOf, Ids
    <2> QED
      BY <1>0, <2>1, NoPassType, BlankTrue, SameWritten DEF Blank
  <1>2. CASE (\E good \in BOOLEAN : Boot(good)) \/ List \/ Tick
    <2>1. UNCHANGED <<file, journal, pass>> /\ Staged' = Staged /\ Prepared' = Prepared
      BY <1>2 DEF Boot, List, Tick, store, vars, Staged, Prepared, InState, StateOf, Ids
    <2>2. now' = now \/ pass.pc = "idle"
      BY <1>2 DEF Boot, List, Tick
    <2> QED
      BY <2>1, <2>2, SameWritten DEF PassTrue, Writing
  <1>3. CASE People
    <2>1. UNCHANGED <<file, journal, pass, now>>
      BY <1>3 DEF People, server, store
    <2>2. Staged' = Staged /\ Prepared' = Prepared
      BY <1>3, PeopleQuiet, QuietSets DEF Staged, Prepared, InFile
    <2> QED
      BY <2>1, <2>2, SameWritten DEF PassTrue, Writing
  <1> QED
    BY <1>1, <1>2, <1>3 DEF Resume, Repair, Edit, Untouched

LEMMA StepWritten ==
  ASSUME WTypeOK, ReviewsOfFailed, Asking, Outstanding, Untouched, WriteKept, PassTrue, WNext
  PROVE  WriteKept' /\ PassTrue'
  BY AskKept, TicketKept, LookKept, DecideKept, PlanKept, BeginKept, SendKept, UploadKept, ReadKept,
     AfterStageKept, AfterUnstageKept, SettleKept, OthersKept DEF WNext, PassStep

-----------------------------------------------------------------------------
(* What spawned.                                                           *)

\* The invariant's part about the file, in one word.
Written == WTypeOK /\ LedgerInv /\ ReviewsOfFailed /\ Orderly /\ Untouched /\ WriteKept /\ PassTrue

LEMMA FileLive ==
  ASSUME WTypeOK, WriteKept, file # Garbage
  PROVE  file \subseteq Staged \cup Prepared
  <1>1. CASE journal.outcome = "NONE" \/ file # journal.payload
    BY <1>1 DEF WriteKept
  <1>2. CASE journal.outcome # "NONE" /\ file = journal.payload
    <2>1. journal.kind \in {"STAGE", "UNSTAGE"}
      BY DEF WTypeOK, Journal
    <2> QED
      BY <1>2, <2>1 DEF WriteKept
  <1> QED
    BY <1>1, <1>2

LEMMA LiveStates ==
  ASSUME NEW id \in Ids
  PROVE  /\ StateOf(id) \in Exposed \cup {"FULFILLED", "FAILED_REVIEW"} => Live(id) /\ StateOf(id) # "PLAN_CREATED"
         /\ id \in Staged => Live(id) /\ StateOf(id) \in InFile
         /\ id \in Prepared => Live(id) /\ StateOf(id) = "FILE_PREPARED"
  BY DEF Live, Exposed, InFile, Retryable, Staged, Prepared, InState

LEMMA OneLive ==
  ASSUME LedgerInv, NEW i \in Ids, NEW j \in Ids, i[1] = j[1], Live(i), Live(j)
  PROVE  i = j
  <1>1. i[1] \in Orders /\ i[2] \in Numbers /\ j[2] \in Numbers /\ i = <<i[1], i[2]>> /\ j = <<j[1], j[2]>>
    BY IdParts
  <1>2. i[2] \in Int /\ j[2] \in Int
    BY <1>1, LedgerAssumption DEF Numbers
  <1>3. ~(i[2] < j[2]) /\ ~(j[2] < i[2])
    BY <1>1, <1>2 DEF LedgerInv, OneLiveAttempt, Live, StateOf
  <1> QED
    BY <1>1, <1>2, <1>3

\* Which steps change the server and the evidence.
LEMMA ServerFrame ==
  ASSUME Untouched, WNext
  PROVE  /\ Upload \/ file' = file
         /\ (\E good \in BOOLEAN : Boot(good)) \/ (boots' = boots /\ spawned' = spawned)
         /\ (\E id \in Ids : DecideClean(id) \/ AfterStage(id)) \/ evidence' = evidence
         /\ RecoverUnchanged \/ RecoverOdd \/ BeginWrite \/ Settle \/ journal' = journal
  <1>1. CASE PassStep \/ Stop
    BY <1>1, WorkerFrame
  <1>2. CASE (\E good \in BOOLEAN : Boot(good)) \/ List \/ Tick \/ People
    BY <1>2, OtherFrame DEF Boot, List, Tick, People, server, store
  <1> QED
    BY <1>1, <1>2 DEF WNext, Untouched, Resume, Repair, Edit

\* A prepared attempt that is abandoned is not in the file.
LEMMA AbandonedAbsent ==
  ASSUME Written, NEW id \in Ids, AbandonUnwritten(id) \/ AfterStage(id),
         StateOf(id) = "FILE_PREPARED", StateAfter(id) = "ABANDONED"
  PROVE  file = Staged /\ file # Garbage /\ id \notin file
  <1>0. TypeOK /\ id \in Prepared
    BY DEF Written, WTypeOK, Prepared, InState
  <1>1. ASSUME AbandonUnwritten(id) PROVE file = Staged
    BY <1>1, NoneYet DEF AbandonUnwritten, At, Written, Orderly
  <1>2. ASSUME AfterStage(id) PROVE file = Staged
    <2>1. ~Move(id, "FILE_STAGED")
      BY <1>0, MoveRows, StateNames
    <2>2. pass.pc = "after" /\ pass.outcome = "NOT_WRITTEN"
      BY <1>2, <2>1 DEF AfterStage, At
    <2>3. file = journal.before /\ journal.outcome # "NONE"
      BY <2>2 DEF Written, PassTrue, Writing
    <2>4. journal.payload # journal.before
      BY <2>3, PlansOther DEF Written
    <2> QED
      BY <2>3, <2>4 DEF Written, WriteKept
  <1> QED
    BY <1>0, <1>1, <1>2, Apart

\* What is recorded as staged is in the file that landed.
LEMMA AfterStaged ==
  ASSUME Written, NEW id \in Ids, AfterStage(id), StateAfter(id) = "FILE_STAGED" \/ evidence' # evidence
  PROVE  /\ Move(id, "FILE_STAGED") /\ id \in Prepared /\ id \notin Staged
         /\ file = journal.payload /\ file # Garbage /\ id \in file
         /\ evidence' = [evidence EXCEPT ![id] = [at |-> journal.at, boot |-> journal.boot, observed |-> 0]]
  <1>0. TypeOK /\ journal.payload # Garbage
    BY Apart DEF Written, WTypeOK, Journal
  <1>1. Move(id, "ABANDONED") => StateAfter(id) = "ABANDONED"
    BY <1>0, MoveRows, StateNames
  <1>2. /\ Move(id, "FILE_STAGED") /\ pass.outcome = "WRITTEN_VERIFIED" /\ pass.pc = "after"
        /\ evidence' = [evidence EXCEPT ![id] = [at |-> journal.at, boot |-> journal.boot, observed |-> 0]]
    BY <1>1 DEF AfterStage, At
  <1>3. <<StateOf(id), "FILE_STAGED">> \in Transitions
    BY <1>0, <1>2, MoveRows, StateNames
  <1>4. StateOf(id) = "FILE_PREPARED"
    BY <1>3 DEF Transitions
  <1>5. id \in Prepared /\ id \notin Staged
    BY <1>4 DEF Prepared, Staged, InState, InFile
  <1>6. file = journal.payload /\ id \in journal.payload
    BY <1>2, <1>5 DEF Written, PassTrue, Writing, AfterStage, At
  <1> QED
    BY <1>0, <1>2, <1>5, <1>6

\* What is recorded as removed is not in the file that landed.
LEMMA AfterRemoved ==
  ASSUME Written, NEW id \in Ids, AfterUnstage(id)
  PROVE  file # Garbage /\ id \notin file /\ id \in Staged
  <1>1. pass.pc = "after" /\ pass.kind = "UNSTAGE" /\ pass.outcome = "WRITTEN_VERIFIED" /\ id \in pass.ids
    BY DEF AfterUnstage, At
  <1>2. file = journal.payload /\ pass.ids = Staged \ journal.payload
    BY <1>1 DEF Written, PassTrue, Writing
  <1>3. journal.payload # Garbage
    BY Apart DEF Written, WTypeOK, Journal
  <1> QED
    BY <1>1, <1>2, <1>3

LEMMA UploadFile ==
  ASSUME Written, Upload
  PROVE  /\ file = Staged /\ file # Garbage /\ file' \in {Garbage, file, journal.payload}
         /\ journal.payload \subseteq Staged \cup Prepared
         /\ journal.at = now /\ journal' = journal /\ evidence' = evidence
         /\ Staged' = Staged /\ Prepared' = Prepared
         /\ Staged \subseteq journal.payload \/ journal.payload \subseteq Staged
  <1>0. journal.kind \in {"STAGE", "UNSTAGE"}
    BY DEF Written, WTypeOK, Journal
  <1>1. pass.pc = "upload"
    BY DEF Upload, At
  <1>2. /\ file = Staged /\ journal.before = Staged /\ journal.at = now /\ journal.outcome # "NONE"
        /\ journal.kind = "STAGE" => journal.ids \subseteq Prepared
    BY <1>1 DEF Written, PassTrue, Writing
  <1>3. journal' = journal /\ evidence' = evidence /\ file' \in {Garbage, file, journal.payload}
    BY DEF Upload, store
  <1>4. Staged' = Staged /\ Prepared' = Prepared
    BY DEF Upload, vars, Staged, Prepared, InState, StateOf, Ids
  <1> QED
    BY <1>0, <1>2, <1>3, <1>4, Apart DEF Written, WriteKept

\* An attempt stays put, unless the upload takes it out.
LEMMA StaysPut ==
  ASSUME Written, WNext, NEW id \in Ids, file' # Garbage, id \in file'
  PROVE  Put(id)'
  <1>0. WTypeOK /\ WriteKept
    BY DEF Written
  <1>1. RowMove(id)
    BY StepRows DEF Written, Orderly
  <1>2. CASE Upload
    <2>1. file' \subseteq Staged \cup Prepared
      BY <1>2, UploadFile
    <2> QED
      BY <1>2, <2>1, UploadFile DEF Put
  <1>3. CASE file' = file
    <2>1. id \in Staged \/ id \in Prepared
      BY <1>0, <1>3, FileLive
    <2>2. CASE id \in Staged
      <3>1. ~AfterUnstage(id)
        BY <1>3, AfterRemoved
      <3>2. StateAfter(id) \in InFile
        BY <1>1, <2>2, <3>1 DEF RowMove, Staged, InState, InFile
      <3> QED
        BY <3>2 DEF Put, Staged, InState, StateAfter, StateOf, Ids
    <2>3. CASE id \in Prepared
      <3>1. StateOf(id) = "FILE_PREPARED"
        BY <2>3 DEF Prepared, InState
      <3>2. StateAfter(id) # "ABANDONED" \/ ~(AbandonUnwritten(id) \/ AfterStage(id))
        BY <1>3, <3>1, AbandonedAbsent
      <3>3. StateAfter(id) \in {"FILE_PREPARED", "FILE_STAGED"}
        BY <1>1, <3>1, <3>2 DEF RowMove, InFile
      <3> QED
        BY <1>3, <3>3 DEF Put, Staged, Prepared, InState, InFile, StateAfter, StateOf, Ids
    <2> QED
      BY <2>1, <2>2, <2>3
  <1> QED
    BY <1>2, <1>3, ServerFrame DEF Written

\* An attempt is put into the file by an upload alone.
LEMMA PutBefore ==
  ASSUME Written, WNext, NEW id \in Ids, Put(id)'
  PROVE  Put(id) \/ (Upload /\ id \in Prepared /\ id \notin Staged /\ id \notin file)
  <1>0. WTypeOK /\ WriteKept /\ Outstanding
    BY DEF Written, Orderly
  <1>1. RowMove(id)
    BY StepRows DEF Written, Orderly
  <1>2. CASE StateAfter(id) \in InFile
    <2>1. StateOf(id) \in InFile \/ (StateAfter(id) = "FILE_STAGED" /\ AfterStage(id))
      BY <1>1, <1>2 DEF RowMove, InFile
    <2>2. AfterStage(id) /\ StateAfter(id) = "FILE_STAGED" => Put(id)
      BY AfterStaged DEF Put
    <2> QED
      BY <2>1, <2>2 DEF Put, Staged, InState
  <1>3. CASE StateAfter(id) = "FILE_PREPARED" /\ file' # Garbage /\ id \in file'
    <2>1. CASE StateOf(id) = "FILE_PREPARED"
      <3>1. id \in Prepared /\ id \notin Staged
        BY <2>1 DEF Prepared, Staged, InState, InFile
      <3>2. CASE Upload
        BY <3>1, <3>2, UploadFile DEF Put
      <3>3. CASE file' = file
        BY <1>3, <3>1, <3>3 DEF Put
      <3> QED
        BY <3>2, <3>3, ServerFrame DEF Written
    <2>2. CASE StateOf(id) = "PLAN_CREATED" /\ PlanPrepare(id)
      <3>1. file = Staged /\ file' = file
        BY <1>0, <2>2, NoneYet DEF PlanPrepare, At, server
      <3> QED
        BY <1>3, <2>2, <3>1 DEF Staged, InState, InFile
    <2> QED
      BY <1>1, <1>3, <2>1, <2>2 DEF RowMove
  <1>4. StateAfter(id) \in InFile \/ (StateAfter(id) = "FILE_PREPARED" /\ file' # Garbage /\ id \in file')
    BY DEF Put, Staged, Prepared, InState, StateAfter, StateOf
  <1> QED
    BY <1>2, <1>3, <1>4

\* The row of an unfinished write is replaced only once its file is recorded.
LEMMA JournalStep ==
  ASSUME Written, WNext
  PROVE  \/ journal'.at = journal.at /\ journal'.boot = journal.boot
         \/ file = Staged
  <1>0. WTypeOK /\ WriteKept /\ PassTrue /\ Outstanding
    BY DEF Written, Orderly
  <1>1. CASE BeginWrite
    BY <1>0, <1>1, NoneYet DEF BeginWrite, At
  <1>2. CASE RecoverUnchanged
    <2>1. journal.outcome # "NONE" /\ file = journal.before
      BY <1>2 DEF RecoverUnchanged, Unresolved
    <2> QED
      BY <1>0, <2>1, PlansOther DEF WriteKept
  <1>3. CASE RecoverOdd
    BY <1>0, <1>3 DEF RecoverOdd, WTypeOK, Journal
  <1>4. CASE Settle
    <2>1. CASE pass.outcome = "UNCERTAIN"
      BY <1>0, <1>4, <2>1 DEF Settle, WTypeOK, Journal
    <2>2. CASE pass.outcome # "UNCERTAIN"
      <3>1. journal' = NoWrite /\ file' = file
        BY <1>4, <2>2 DEF Settle, server
      <3>2. Staged' = Staged
        BY <1>4 DEF Settle, vars, Staged, InState, StateOf, Ids
      <3>3. WriteKept'
        BY <1>0, <1>4, SettleKept
      <3> QED
        BY <3>1, <3>2, <3>3 DEF WriteKept, NoWrite
    <2> QED
      BY <2>1, <2>2
  <1> QED
    BY <1>1, <1>2, <1>3, <1>4, ServerFrame DEF Written

\* While an attempt is in the file, it is known since when.
LEMMA SinceStep ==
  ASSUME Written, WNext, NEW id \in Ids, Put(id), Put(id)'
  PROVE  Since(id)' = Since(id) /\ BootOf(id)' = BootOf(id)
  <1>0. WTypeOK /\ WriteKept
    BY DEF Written
  <1>1. RowMove(id)
    BY StepRows DEF Written, Orderly
  <1>2. id \in Staged' <=> StateAfter(id) \in InFile
    BY DEF Staged, InState, StateAfter, StateOf, Ids
  <1>3. evidence[id] \in [at : 0..setting.time, boot : 0..Len(boots), observed : 0..Len(boots)]
    BY <1>0 DEF WTypeOK
  <1>4. \A j \in Ids : j # id /\ AfterStage(j) => evidence'[id] = evidence[id]
    BY <1>0 DEF AfterStage, WTypeOK
  <1>5. CASE id \in Staged
    <2>1. StateOf(id) \in InFile
      BY <1>5 DEF Staged, InState
    <2>2. StateAfter(id) # "FILE_PREPARED"
      BY <1>1, <2>1 DEF RowMove, InFile
    <2>3. id \in Staged'
      BY <2>2 DEF Put, Prepared, InState, StateAfter, StateOf
    <2>4. evidence'[id].at = evidence[id].at /\ evidence'[id].boot = evidence[id].boot
      <3>1. ASSUME NEW j \in Ids, DecideClean(j)
            PROVE  evidence'[id].at = evidence[id].at /\ evidence'[id].boot = evidence[id].boot
        BY <1>0, <1>3, <3>1 DEF DecideClean, WTypeOK
      <3>2. AfterStage(id) => evidence' = evidence
        BY <1>5, AfterStaged
      <3> QED
        BY <1>4, <3>1, <3>2, ServerFrame DEF Written
    <2> QED
      BY <1>5, <2>3, <2>4 DEF Since, BootOf
  <1>6. CASE id \in Prepared /\ id \notin Staged /\ file # Garbage /\ id \in file
    <2>1. StateOf(id) = "FILE_PREPARED"
      BY <1>6 DEF Prepared, InState
    <2>2. CASE id \in Staged'
      <3>1. AfterStage(id) /\ StateAfter(id) = "FILE_STAGED"
        BY <1>1, <1>2, <2>1, <2>2 DEF RowMove, InFile
      <3>2. evidence'[id] = [at |-> journal.at, boot |-> journal.boot, observed |-> 0]
        BY <1>0, <3>1, AfterStaged DEF WTypeOK
      <3> QED
        BY <1>6, <2>2, <3>2 DEF Since, BootOf
    <2>3. CASE id \notin Staged'
      <3>1. file # Staged
        BY <1>6
      <3> QED
        BY <1>6, <2>3, <3>1, JournalStep DEF Since, BootOf
    <2> QED
      BY <2>2, <2>3
  <1> QED
    BY <1>5, <1>6 DEF Put

\* What a boot does to the counts.
LEMMA BootSpawns ==
  ASSUME Written, NEW good \in BOOLEAN, Boot(good), NEW o \in Orders
  PROVE  /\ spawned[o] \in Nat
         /\ spawned'[o] = spawned[o] \/ spawned'[o] = spawned[o] + 1
         /\ spawned'[o] # spawned[o] =>
              /\ good /\ file # Garbage
              /\ \E n \in Numbers : <<o, n>> \in file /\ Put(<<o, n>>)
         /\ good /\ file # Garbage /\ (\E n \in Numbers : <<o, n>> \in file) => spawned'[o] = spawned[o] + 1
  <1>1. spawned[o] \in Nat
    BY SettingType DEF Written, WTypeOK, Typed
  <1>2. spawned'[o] = IF good /\ file # Garbage /\ \E n \in Numbers : <<o, n>> \in file
                        THEN spawned[o] + 1 ELSE spawned[o]
    BY DEF Boot
  <1>3. file # Garbage => file \subseteq Staged \cup Prepared
    BY FileLive DEF Written
  <1> QED
    BY <1>1, <1>2, <1>3 DEF Put

\* Nothing else does anything to them.
LEMMA SpawnedGrows ==
  ASSUME Written, WNext, NEW o \in Orders
  PROVE  /\ spawned[o] \in Nat /\ spawned'[o] \in Nat /\ spawned'[o] >= spawned[o]
         /\ spawned'[o] = spawned[o] \/ \E good \in BOOLEAN : Boot(good)
  <1>1. spawned[o] \in Nat
    BY SettingType DEF Written, WTypeOK, Typed
  <1> QED
    BY <1>1, BootSpawns, ServerFrame DEF Written

LEMMA StepSpawnedLive ==
  ASSUME Written, SpawnedLive, WNext
  PROVE  SpawnedLive'
  <1> DEFINE Answerable(id) ==
         /\ StateAfter(id) \notin {"NONE", "PLAN_CREATED"} \cup Retryable
         /\ StateAfter(id) = "FILE_PREPARED" => file' = Garbage \/ id \in file'
  <1>0. WTypeOK /\ LedgerInv /\ ReviewsOfFailed /\ Asking
    BY DEF Written, Orderly
  <1>1. ASSUME NEW id \in Ids, Live(id), StateOf(id) # "PLAN_CREATED",
               StateOf(id) = "FILE_PREPARED" => file = Garbage \/ id \in file
        PROVE  Answerable(id)
    <2>1. RowMove(id)
      BY <1>0, StepRows
    <2>2. StateOf(id) \notin {"NONE", "PLAN_CREATED"} \cup Retryable
      BY <1>1 DEF Live
    <2>3. ~(/\ StateOf(id) = "FILE_PREPARED" /\ StateAfter(id) = "ABANDONED"
            /\ AbandonUnwritten(id) \/ AfterStage(id))
      BY <1>1, AbandonedAbsent
    <2>4. StateAfter(id) \notin {"NONE", "PLAN_CREATED"} \cup Retryable
      BY <2>1, <2>2, <2>3 DEF RowMove, InFile, Retryable
    <2>5. ASSUME StateAfter(id) = "FILE_PREPARED" PROVE file' = Garbage \/ id \in file'
      <3>1. StateOf(id) = "FILE_PREPARED"
        BY <2>1, <2>2, <2>5 DEF RowMove, InFile
      <3>2. id \in Prepared
        BY <3>1 DEF Prepared, InState
      <3>3. CASE Upload
        BY <1>1, <3>1, <3>2, <3>3, UploadFile, Apart
      <3>4. CASE file' = file
        BY <1>1, <3>1, <3>4
      <3> QED
        BY <3>3, <3>4, ServerFrame DEF Written
    <2> QED
      BY <2>4, <2>5
  <1>2. ASSUME NEW o \in Orders, spawned'[o] > 0
        PROVE  \E n \in Numbers : Answerable(<<o, n>>)
    <2>1. CASE spawned[o] > 0
      <3>1. PICK n \in Numbers :
               /\ Live(<<o, n>>) /\ StateOf(<<o, n>>) # "PLAN_CREATED"
               /\ StateOf(<<o, n>>) = "FILE_PREPARED" => file = Garbage \/ <<o, n>> \in file
        BY <2>1 DEF SpawnedLive
      <3>2. Answerable(<<o, n>>)
        BY <1>1, <3>1, IdParts
      <3> QED
        BY <3>2
    <2>2. CASE ~(spawned[o] > 0)
      <3>1. spawned'[o] # spawned[o]
        BY <1>2, <2>2
      <3>2. PICK n \in Numbers : <<o, n>> \in file /\ Put(<<o, n>>)
        BY <3>1, SpawnedGrows, BootSpawns
      <3>3. Live(<<o, n>>) /\ StateOf(<<o, n>>) # "PLAN_CREATED"
        BY <3>2, IdParts, LiveStates DEF Put, InFile
      <3>4. Answerable(<<o, n>>)
        BY <1>1, <3>2, <3>3, IdParts
      <3> QED
        BY <3>4
    <2> QED
      BY <2>1, <2>2
  <1>3. \A id : StateOf(id)' = StateAfter(id)
    BY DEF StateOf, StateAfter
  <1> QED
    BY <1>2, <1>3 DEF SpawnedLive, Live

\* The only attempt of an order that is put spawned all its order's items.
LEMMA StepReviewsTrue ==
  ASSUME Written, ReviewsTrue, WNext
  PROVE  ReviewsTrue'
  <1>0. WTypeOK /\ LedgerInv /\ ReviewsOfFailed /\ Asking
    BY DEF Written, Orderly
  <1> SUFFICES ASSUME NEW id \in Ids, ReviewAfter(id) = "NOT_SPAWNED" PROVE spawned'[id[1]] = 0
    BY DEF ReviewsTrue, ReviewAfter, Ids
  <1>1. id[1] \in Orders /\ id[2] \in Numbers
    BY IdParts
  <1>2. CASE ReviewOf(id) = "NOT_SPAWNED"
    <2>1. spawned[id[1]] = 0
      BY <1>2 DEF ReviewsTrue, ReviewOf
    <2>2. Live(id) /\ StateOf(id) = "FAILED_REVIEW"
      BY <1>0, <1>1, <1>2, LiveStates DEF ReviewsOfFailed, ReviewOf, StateOf
    <2>3. ASSUME NEW n \in Numbers, Put(<<id[1], n>>) PROVE FALSE
      <3>1. Live(<<id[1], n>>) /\ StateOf(<<id[1], n>>) # "FAILED_REVIEW"
        BY <1>1, <2>3, IdParts, LiveStates DEF Put, InFile
      <3>2. <<id[1], n>> = id
        BY <1>0, <1>1, <2>2, <3>1, IdParts, OneLive
      <3> QED
        BY <2>2, <3>1, <3>2
    <2> QED
      BY <1>1, <2>1, <2>3, SpawnedGrows, BootSpawns
  <1>3. CASE ReviewOf(id) # "NOT_SPAWNED"
    <2>1. People /\ Truth(id[1]) = "NOT_SPAWNED"
      BY <1>0, <1>3, StepRows
    <2>2. spawned' = spawned
      BY <2>1 DEF People, server
    <2> QED
      BY <1>1, <2>1, <2>2, SpawnedGrows DEF Truth
  <1> QED
    BY <1>2, <1>3

LEMMA StepBootsSpawned ==
  ASSUME Written, BootsSpawned, WNext
  PROVE  BootsSpawned'
  <1>0. WTypeOK /\ WriteKept /\ Clocked /\ Typed
    BY DEF Written, Orderly, WTypeOK, Typed
  <1> SUFFICES ASSUME NEW id \in Ids, file' # Garbage, id \in file',
                      NEW b \in 1..Len(boots'), boots'[b].good, boots'[b].start > Since(id)'
               PROVE  spawned'[id[1]] > 0
    BY DEF BootsSpawned, Ids
  <1>1. id[1] \in Orders /\ id[2] \in Numbers /\ id = <<id[1], id[2]>>
    BY IdParts
  <1>2. Put(id)'
    BY StaysPut
  <1>3. CASE Upload /\ id \in Prepared /\ id \notin Staged
    <2>1. Since(id)' = now
      BY <1>3, UploadFile DEF Since
    <2>2. boots' = boots
      BY <1>3 DEF Upload
    <2>3. boots[b].start <= now /\ boots[b].start \in Int /\ now \in Int
      BY <1>0, <2>2, BootType DEF Clocked
    <2> QED
      BY <2>1, <2>2, <2>3
  <1>4. CASE Put(id)
    <2>1. Since(id)' = Since(id)
      BY <1>2, <1>4, SinceStep
    <2>2. file # Garbage /\ id \in file
      <3>1. CASE Upload
        BY <1>4, <3>1, UploadFile DEF Put
      <3> QED
        BY <3>1, ServerFrame DEF Written
    <2>3. ASSUME NEW good \in BOOLEAN, Boot(good) PROVE spawned'[id[1]] > 0
      <3>1. /\ Len(boots') = Len(boots) + 1
            /\ \A c \in 1..Len(boots) : boots'[c] = boots[c]
            /\ boots'[Len(boots')] = [start |-> now, good |-> good]
            /\ Len(boots) \in Nat
        BY <1>0, <2>3, BootAdds, BootType
      <3>2. CASE b \in 1..Len(boots)
        <4>1. spawned[id[1]] > 0
          BY <2>1, <2>2, <3>1, <3>2 DEF BootsSpawned
        <4> QED
          BY <1>1, <4>1, SpawnedGrows
      <3>3. CASE b = Len(boots')
        <4>1. good
          <5>1. boots'[b] = [start |-> now, good |-> good]
            BY <3>1, <3>3
          <5>2. boots'[b].good = good
            BY <5>1
          <5> QED
            BY <5>2
        <4>2. \E n \in Numbers : <<id[1], n>> \in file
          <5>1. <<id[1], id[2]>> \in file
            BY <1>1, <2>2
          <5> QED
            BY <1>1, <5>1
        <4>3. spawned[id[1]] \in Nat /\ spawned'[id[1]] = spawned[id[1]] + 1
          BY <1>1, <2>2, <2>3, <4>1, <4>2, BootSpawns
        <4> QED
          BY <4>3
      <3> QED
        BY <3>1, <3>2, <3>3
    <2>4. CASE boots' = boots /\ spawned' = spawned
      BY <2>1, <2>2, <2>4 DEF BootsSpawned
    <2> QED
      BY <2>3, <2>4, ServerFrame DEF Written
  <1> QED
    BY <1>2, <1>3, <1>4, PutBefore

\* One clean restart, observed: the attempt was in the file by then.
LEMMA StepCheckedSpawned ==
  ASSUME Written, BootsSpawned, CheckedSpawned, WNext
  PROVE  CheckedSpawned'
  <1>0. WTypeOK /\ WriteKept /\ PassTrue /\ Outstanding /\ Asking /\ ReviewsOfFailed /\ Typed /\ TypeOK
    BY DEF Written, Orderly, WTypeOK, Typed
  <1>1. \A id : StateOf(id)' = StateAfter(id)
    BY DEF StateOf, StateAfter
  <1> SUFFICES ASSUME NEW id \in Ids, StateAfter(id) \in Checked
               PROVE  /\ evidence'[id].observed \in 1..Len(boots')
                      /\ boots'[evidence'[id].observed].good => spawned'[id[1]] > 0
    BY <1>1 DEF CheckedSpawned, InState, Ids, Checked
  <1>2. id[1] \in Orders /\ evidence[id] \in [at : 0..setting.time, boot : 0..Len(boots), observed : 0..Len(boots)]
    BY <1>0, IdParts DEF WTypeOK
  <1>3. RowMove(id)
    BY <1>0, StepRows
  <1>4. CASE StateOf(id) \in Checked
    <2>1. /\ evidence[id].observed \in 1..Len(boots)
          /\ boots[evidence[id].observed].good => spawned[id[1]] > 0
      BY <1>4 DEF CheckedSpawned, InState
    <2>2. evidence'[id].observed = evidence[id].observed
      <3>1. ASSUME NEW j \in Ids, DecideClean(j) PROVE evidence'[id] = evidence[id]
        <4>1. CASE j # id
          BY <1>0, <3>1, <4>1 DEF DecideClean, WTypeOK
        <4>2. CASE j = id
          BY <1>4, <3>1, <4>2 DEF DecideClean, Checked
        <4> QED
          BY <4>1, <4>2
      <3>2. ASSUME NEW j \in Ids, AfterStage(j) PROVE evidence'[id] = evidence[id]
        <4>1. CASE j # id
          BY <1>0, <3>2, <4>1 DEF AfterStage, WTypeOK
        <4>2. CASE j = id
          BY <1>4, <3>2, <4>2, AfterStaged DEF Checked, Prepared, InState
        <4> QED
          BY <4>1, <4>2
      <3> QED
        BY <3>1, <3>2, ServerFrame DEF Written
    <2>3. CASE boots' = boots /\ spawned' = spawned
      BY <2>1, <2>2, <2>3
    <2>4. ASSUME NEW good \in BOOLEAN, Boot(good)
          PROVE  /\ evidence'[id].observed \in 1..Len(boots')
                 /\ boots'[evidence'[id].observed].good => spawned'[id[1]] > 0
      <3>1. /\ Len(boots') = Len(boots) + 1 /\ Len(boots) \in Nat
            /\ \A c \in 1..Len(boots) : boots'[c] = boots[c]
        BY <1>0, <2>4, BootAdds, BootType
      <3>2. boots'[evidence[id].observed] = boots[evidence[id].observed]
        BY <2>1, <3>1
      <3>3. spawned[id[1]] > 0 => spawned'[id[1]] > 0
        BY <1>2, SpawnedGrows
      <3> QED
        BY <2>1, <2>2, <3>1, <3>2, <3>3
    <2> QED
      BY <2>3, <2>4, ServerFrame DEF Written
  <1>5. CASE StateOf(id) \notin Checked
    <2>1. StateOf(id) = "AWAITING_RESTART" /\ StateAfter(id) = "RESTART_OBSERVED" /\ DecideClean(id)
      BY <1>3, <1>5 DEF RowMove, Checked, InFile
    <2> DEFINE c == evidence[id].boot + 1
    <2>2. /\ pass.pc = "decide" /\ Newer(id) > 0 /\ ~Unclear(id)
          /\ evidence' = [evidence EXCEPT ![id].observed = c]
          /\ UNCHANGED <<boots, spawned>>
      <3>1. CASE StateOf(id) = "AWAITING_RESTART" /\ evidence' = [evidence EXCEPT ![id].observed = c]
        BY <2>1, <3>1 DEF DecideClean, At, server
      <3> QED
        BY <2>1, <3>1 DEF DecideClean
    <2>3. file = Staged /\ id \in Staged /\ file # Garbage
      BY <1>0, <2>1, <2>2, NoneYet, Apart DEF Staged, InState, InFile
    <2>4. pass.listed \in 0..Len(boots) /\ Len(boots) \in Nat
      BY <1>0, BootType DEF WTypeOK, Pass
    <2>5. c \in 1..Len(boots) /\ c \in Int
      BY <1>2, <2>2, <2>4 DEF Newer
    <2>6. boots[c].start - evidence[id].at >= Lead
      <3>1. boots[c].start \in Int /\ evidence[id].at \in Int /\ Lead \in Int
        BY <1>0, <1>2, <2>5, BootType, WorkerAssumption
      <3>2. ~(boots[c].start - evidence[id].at < Lead)
        BY <2>2 DEF Unclear
      <3> QED
        BY <3>1, <3>2
    <2>7. boots[c].start > Since(id)
      <3>1. boots[c].start \in Int /\ evidence[id].at \in Int /\ Lead \in Nat \ {0}
        BY <1>0, <1>2, <2>5, BootType, WorkerAssumption
      <3> QED
        BY <2>3, <2>6, <3>1 DEF Since
    <2>8. boots[c].good => spawned[id[1]] > 0
      BY <2>3, <2>5, <2>7 DEF BootsSpawned
    <2>9. evidence'[id].observed = c
      BY <1>0, <1>2, <2>2 DEF WTypeOK
    <2> QED
      BY <2>2, <2>5, <2>8, <2>9
  <1> QED
    BY <1>4, <1>5

LEMMA StepSpawnCount ==
  ASSUME Written, SpawnedLive, SpawnCount, WNext
  PROVE  SpawnCount'
  <1>0. WTypeOK /\ LedgerInv /\ Typed /\ Len(boots) \in Nat
    BY BootType DEF Written, WTypeOK, Typed
  <1> SUFFICES ASSUME NEW id \in Ids, Put(id)'
               PROVE  spawned'[id[1]] <= Len(boots') - BootOf(id)'
    BY DEF SpawnCount, Ids
  <1>1. id[1] \in Orders /\ id[2] \in Numbers /\ id = <<id[1], id[2]>> /\ spawned[id[1]] \in Nat
    BY IdParts, SpawnedGrows
  <1>2. CASE Put(id)
    <2>1. BootOf(id)' = BootOf(id)
      BY <1>2, SinceStep
    <2>2. spawned[id[1]] <= Len(boots) - BootOf(id) /\ BootOf(id) \in Int
      BY <1>0, <1>2 DEF SpawnCount, BootOf, WTypeOK, Journal
    <2>3. ASSUME NEW good \in BOOLEAN, Boot(good) PROVE spawned'[id[1]] <= Len(boots') - BootOf(id)'
      <3>1. Len(boots') = Len(boots) + 1
        BY <1>0, <2>3, BootAdds
      <3>2. spawned'[id[1]] = spawned[id[1]] \/ spawned'[id[1]] = spawned[id[1]] + 1
        BY <1>1, <2>3, BootSpawns
      <3> QED
        BY <1>0, <1>1, <2>1, <2>2, <3>1, <3>2
    <2>4. CASE boots' = boots /\ spawned' = spawned
      BY <2>1, <2>2, <2>4
    <2> QED
      BY <2>3, <2>4, ServerFrame DEF Written
  <1>3. CASE Upload /\ id \in Prepared /\ id \notin Staged /\ id \notin file
    <2>1. BootOf(id)' = journal.boot /\ boots' = boots /\ spawned' = spawned
      BY <1>3, UploadFile DEF BootOf, Upload
    <2>2. spawned[id[1]] = 0
      <3> SUFFICES ASSUME spawned[id[1]] > 0 PROVE FALSE
        BY <1>1
      <3>1. PICK n \in Numbers :
               /\ Live(<<id[1], n>>)
               /\ StateOf(<<id[1], n>>) = "FILE_PREPARED" => file = Garbage \/ <<id[1], n>> \in file
        BY <1>1 DEF SpawnedLive
      <3>2. Live(id) /\ StateOf(id) = "FILE_PREPARED"
        BY <1>3, LiveStates
      <3>3. <<id[1], n>> = id
        BY <1>0, <1>1, <3>1, <3>2, IdParts, OneLive
      <3> QED
        BY <1>3, <3>1, <3>2, <3>3, UploadFile
    <2>3. journal.boot \in 0..Len(boots)
      BY <1>0 DEF WTypeOK, Journal
    <2> QED
      BY <1>0, <2>1, <2>2, <2>3
  <1> QED
    BY <1>2, <1>3, PutBefore

LEMMA StepSpawnKept ==
  ASSUME Written, SpawnKept, WNext
  PROVE  SpawnKept'
  BY StepSpawnedLive, StepReviewsTrue, StepBootsSpawned, StepCheckedSpawned, StepSpawnCount DEF SpawnKept

-----------------------------------------------------------------------------
(* A buyer is asked about what spawned.                                    *)

LEMMA WhoAsks ==
  ASSUME WTypeOK, WNext, NEW o \in Orders, OpenForDelivered(o)
  PROVE  \E id \in Ids : AskDeliver(id) /\ OpenForDelivered(id[1]) /\ id[1] = o
  <1>0. TypeOK /\ setting.orders \subseteq Orders
    BY SettingType DEF WTypeOK, Typed
  <1>1. /\ confirmation[o] = "NONE" /\ confirmation'[o] = "AWAITING_BUYER"
        /\ purchase' = purchase /\ confirmation' # confirmation
    BY <1>0 DEF OpenForDelivered, Confirm, TypeOK
  <1>2. \A id \in Ids, to \in AttemptStates : ~Move(id, to)
    BY <1>1 DEF Move, Transition
  <1>3. \A id \in Ids : ~FulfillAttemptByBuyer(id[1], id[2])
    BY <1>0, <1>1, FulfilRows
  <1>4. ~People
    <2> SUFFICES ASSUME People PROVE FALSE
      OBVIOUS
    <2>1. PICK p \in setting.orders :
             \/ Purchase(p) \/ Fulfill(p) \/ Refund(p)
             \/ ConfirmReceived(p) \/ AutoCompleteDue({p}) \/ ReportIssue(p)
             \/ ResolveTicket(p)
             \/ \E n \in Numbers : ResolveReview(p, n, Truth(p))
      BY DEF People
    <2>2. p \in Orders
      BY <1>0, <2>1
    <2>3. ~Fulfill(p) /\ ~Refund(p)
      BY <1>0, <1>1, <2>2 DEF Fulfill, Refund, TypeOK
    <2>4. ~ConfirmReceived(p) /\ ~ReportIssue(p)
      BY <1>0, <1>1, <2>2 DEF ConfirmReceived, ReportIssue, Confirm, TypeOK
    <2>5. ~AutoCompleteDue({p})
      BY <1>0, <1>1, <2>2 DEF AutoCompleteDue, TypeOK
    <2> QED
      BY <1>1, <2>1, <2>3, <2>4, <2>5 DEF Purchase, ResolveTicket, ResolveReview
  <1>5. ~(Stop \/ (\E good \in BOOLEAN : Boot(good)) \/ List \/ Tick \/ Resume \/ Repair \/ Edit)
    BY <1>1 DEF Stop, Boot, List, Tick, Resume, Repair, Edit, vars
  <1>6. ~(\/ StartPass \/ OpenTicket \/ LookUncertain \/ LookNothing \/ LookForeign \/ LookClean
          \/ RecoverLanded \/ RecoverUnchanged \/ RecoverOdd \/ PauseOdd
          \/ CheckFile \/ DecideWrite \/ PlanDone
          \/ BeginWrite \/ Verify \/ Upload \/ ReadBack \/ AfterUncertain \/ Settle)
    BY <1>1 DEF StartPass, OpenTicket, OpenSystemTicket, LookUncertain, LookNothing, LookForeign, LookClean, Look,
       RecoverLanded, RecoverUnchanged, RecoverOdd, PauseOdd, CheckFile, DecideWrite, PlanDone,
       BeginWrite, Verify, Upload, ReadBack, AfterUncertain, Settle, vars
  <1>7. \A id \in Ids : ~(AskFulfil(id) \/ AskIssue(id) \/ AskWait(id))
    BY <1>1, <1>2, <1>3, StateNames DEF AskFulfil, AskIssue, AskWait, vars
  <1>8. \A id \in Ids : ~(\/ AbandonUnwritten(id) \/ DecideWait(id) \/ DecideUnclear(id) \/ DecideClean(id)
                          \/ PlanPrepare(id) \/ AfterStage(id) \/ AfterUnstage(id))
    BY <1>1, <1>2, StateNames
    DEF AbandonUnwritten, DecideWait, DecideUnclear, DecideClean, PlanPrepare, AfterStage, AfterUnstage, Fail, vars
  <1>9. \A p \in Orders : ~PlanCreate(p)
    BY <1>1 DEF PlanCreate, Create, vars
  <1>10. PICK id \in Ids : AskDeliver(id)
    BY <1>4, <1>5, <1>6, <1>7, <1>8, <1>9 DEF WNext, PassStep
  <1>11. OpenForDelivered(id[1])
    BY <1>1, <1>2, <1>10, StateNames DEF AskDeliver, Fail, vars
  <1>12. id[1] = o
    <2>1. id[1] \in Orders
      BY IdParts
    <2> QED
      BY <1>0, <1>1, <1>11, <2>1 DEF OpenForDelivered, Confirm, TypeOK
  <1> QED
    BY <1>10, <1>11, <1>12

\* The logs the worker read before it asked hold the boot it observed.
LEMMA AsksOfSpawned ==
  ASSUME Written, CheckedSpawned, WNext, NEW id \in Ids, AskDeliver(id), OpenForDelivered(id[1])
  PROVE  spawned[id[1]] > 0
  <1>0. WTypeOK /\ TypeOK /\ Asking
    BY DEF Written, Orderly, WTypeOK
  <1>1. confirmation' # confirmation
    <2>1. id[1] \in Orders
      BY IdParts
    <2> QED
      BY <1>0, <2>1 DEF OpenForDelivered, Confirm, TypeOK
  <1>2. ~Fail(id) /\ ~(UNCHANGED vars)
    BY <1>1 DEF Fail, Move, Transition, vars
  <1>3. PICK read \in (evidence[id].observed - 1)..Len(boots) :
           LET log == {boots[b] : b \in evidence[id].observed..read}
           IN  log # {} /\ \A b \in log : b.good
    BY <1>2 DEF AskDeliver
  <1>4. id \in InState(Checked)
    BY <1>0 DEF AskDeliver, At, Asking, InState, Checked
  <1>5. /\ evidence[id].observed \in 1..Len(boots)
        /\ boots[evidence[id].observed].good => spawned[id[1]] > 0
    BY <1>4 DEF CheckedSpawned
  <1>6. PICK b \in evidence[id].observed..read : TRUE
    BY <1>3
  <1>7. evidence[id].observed \in evidence[id].observed..read
    BY <1>3, <1>5, <1>6
  <1>8. boots[evidence[id].observed].good
    BY <1>3, <1>7
  <1> QED
    BY <1>5, <1>8

LEMMA StepAsked ==
  ASSUME Written, Recorded, CheckedSpawned, AskedSpawned, WNext
  PROVE  AskedSpawned'
  <1>0. WTypeOK /\ LedgerInv /\ Untouched
    BY DEF Written
  <1> SUFFICES ASSUME NEW o \in Orders, purchase'[o] = "PENDING_FULFILLMENT", confirmation'[o] # "NONE"
               PROVE  spawned'[o] > 0
    BY DEF AskedSpawned
  <1>1. [Next]_vars
    BY <1>0, StepOnLedger
  <1>2. CASE purchase[o] = "PENDING_FULFILLMENT" /\ confirmation[o] # "NONE"
    <2>1. spawned[o] > 0
      BY <1>0, <1>2 DEF AskedSpawned
    <2> QED
      BY <2>1, SpawnedGrows
  <1>3. CASE OpenForDelivered(o)
    <2>1. spawned[o] > 0
      BY <1>0, <1>3, WhoAsks, AsksOfSpawned
    <2> QED
      BY <2>1, SpawnedGrows
  <1> QED
    BY <1>0, <1>1, <1>2, <1>3, AnswerStep

-----------------------------------------------------------------------------
(* When nothing fails: an item that spawned twice is noticed.              *)

Counted == Written /\ SpawnKept /\ Calm /\ OnceCounted

\* A boot spawns nothing for a live attempt that is not in the file.
LEMMA NotRespawned ==
  ASSUME Written, NEW good \in BOOLEAN, Boot(good), NEW id \in Ids, Live(id), file # Garbage => id \notin file
  PROVE  spawned'[id[1]] = spawned[id[1]]
  <1> SUFFICES ASSUME spawned'[id[1]] # spawned[id[1]] PROVE FALSE
    OBVIOUS
  <1>1. id[1] \in Orders
    BY IdParts
  <1>2. PICK n \in Numbers : file # Garbage /\ <<id[1], n>> \in file /\ Put(<<id[1], n>>)
    BY <1>1, BootSpawns
  <1> DEFINE j == <<id[1], n>>
  <1>3. j \in Ids /\ j[1] = id[1]
    BY <1>1, IdParts
  <1>4. Live(j)
    BY <1>2, <1>3, LiveStates DEF Put
  <1>5. j = id
    BY <1>3, <1>4, OneLive DEF Written
  <1> QED
    BY <1>2, <1>5

\* The parts of OnceCounted that the pass decides.
PassCounted ==
    /\ pass.outcome # "UNCERTAIN"
    /\ journal.outcome # "NONE" => pass.pc \in Writing
    /\ RemovedOnce

LEMMA NoRecovery ==
  ASSUME Counted, pass.pc \notin Writing
  PROVE  journal.outcome = "NONE" /\ Unresolved = "NONE"
  BY DEF Counted, OnceCounted, NothingFails, Unresolved

\* Passes that are not about to remove anything.
LEMMA EarlyCounted ==
  ASSUME Counted, journal' = journal, pass.pc \notin Writing,
         pass'.pc \in {"idle", "ask", "pause", "abandon", "plan"} \/ (pass'.pc = "begin" /\ pass'.kind = "STAGE"),
         pass'.outcome \in {pass.outcome, "NONE"}
  PROVE  PassCounted'
  <1>1. journal.outcome = "NONE" /\ pass.outcome # "UNCERTAIN"
    BY NoRecovery DEF Counted, OnceCounted, NothingFails
  <1> QED
    BY <1>1 DEF PassCounted, RemovedOnce

LEMMA AskCounted ==
  ASSUME Counted,
         \/ StartPass
         \/ \E id \in Ids : AskDeliver(id) \/ AskFulfil(id) \/ AskIssue(id) \/ AskWait(id)
         \/ LookUncertain \/ LookNothing \/ LookForeign \/ LookClean
         \/ RecoverLanded \/ RecoverUnchanged \/ RecoverOdd \/ PauseOdd
         \/ \E id \in Ids : AbandonUnwritten(id)
  PROVE  PassCounted'
  <1>0. pass \in Pass /\ Typed
    BY DEF Counted, Written, WTypeOK, Typed
  <1>1. pass.pc \notin Writing
    BY DEF StartPass, AskDeliver, AskFulfil, AskIssue, AskWait, LookUncertain, LookNothing, LookForeign, LookClean,
       RecoverLanded, RecoverUnchanged, RecoverOdd, PauseOdd, AbandonUnwritten, Look, At, Writing
  <1>2. ~(LookUncertain \/ RecoverLanded \/ RecoverUnchanged \/ RecoverOdd)
    BY <1>1, NoRecovery DEF LookUncertain, RecoverLanded, RecoverUnchanged, RecoverOdd
  <1>3. journal' = journal
    BY <1>2 DEF StartPass, AskDeliver, AskFulfil, AskIssue, AskWait, LookNothing, LookForeign, LookClean,
       PauseOdd, AbandonUnwritten, store
  <1>4. NoPass.outcome = "NONE" /\ NoPass.pc = "idle"
    BY DEF NoPass
  <1>5. CASE StartPass
    <2>1. \A S : [NoPass EXCEPT !.pc = "ask", !.todo = S].pc = "ask" /\ [NoPass EXCEPT !.pc = "ask", !.todo = S].outcome = "NONE"
      BY DEF NoPass
    <2> QED
      BY <1>1, <1>3, <1>5, <2>1, EarlyCounted DEF StartPass
  <1>6. ASSUME NEW id \in Ids, AskDeliver(id) \/ AskFulfil(id) \/ AskIssue(id) \/ AskWait(id) PROVE PassCounted'
    <2>1. pass.pc = "ask" /\ (Fail(id) \/ pass' = Done(id))
      BY <1>6 DEF AskDeliver, AskFulfil, AskIssue, AskWait, At
    <2>2. Fail(id) => pass'.pc = pass.pc /\ pass'.outcome = pass.outcome
      BY <1>0 DEF Fail, Done, Pass
    <2>3. pass'.pc = "ask" /\ pass'.outcome = pass.outcome
      BY <1>0, <2>1, <2>2, DoneFields
    <2> QED
      BY <1>1, <1>3, <2>3, EarlyCounted
  <1>7. CASE LookNothing \/ LookForeign \/ PauseOdd
    <2>1. pass' = NoPass
      BY <1>7 DEF LookNothing, LookForeign, PauseOdd, PauseNow
    <2> QED
      BY <1>1, <1>3, <1>4, <2>1, EarlyCounted
  <1>8. CASE LookClean
    <2>1. \A C : AbandonNext(C) => pass'.pc = "abandon" /\ pass'.outcome = pass.outcome
      BY <1>0 DEF AbandonNext, Pass
    <2> QED
      BY <1>1, <1>3, <1>8, <2>1, EarlyCounted DEF LookClean
  <1>9. ASSUME NEW id \in Ids, AbandonUnwritten(id) PROVE PassCounted'
    <2>1. pass.pc = "abandon" /\ (pass' = NoPass \/ pass' = Done(id))
      BY <1>9 DEF AbandonUnwritten, At
    <2> QED
      BY <1>0, <1>1, <1>3, <1>4, <2>1, DoneFields, EarlyCounted
  <1> QED
    BY <1>2, <1>5, <1>6, <1>7, <1>8, <1>9

\* What a pass decides to remove for good was in the file for one boot.
LEMMA DecideCounted ==
  ASSUME Counted,
         \/ CheckFile
         \/ \E id \in Ids : DecideWait(id) \/ DecideUnclear(id) \/ DecideClean(id)
         \/ DecideWrite
  PROVE  PassCounted'
  <1>0. /\ pass \in Pass /\ Typed /\ WTypeOK /\ PassTrue
        /\ journal.outcome # "NONE" => pass.pc \in Writing
        /\ pass.outcome # "UNCERTAIN"
        /\ RemovedOnce
    BY DEF Counted, Written, WTypeOK, Typed, OnceCounted, NothingFails
  <1>1. pass.pc \notin Writing /\ journal' = journal
    BY DEF CheckFile, DecideWait, DecideUnclear, DecideClean, DecideWrite, At, Writing, store
  <1>2. journal.outcome = "NONE"
    BY <1>1, NoRecovery
  <1>3. NoPass.outcome = "NONE" /\ NoPass.pc = "idle"
    BY DEF NoPass
  <1>4. CASE CheckFile
    <2>1. pass.pc = "abandon" /\ pass.ids = {}
      BY <1>0, <1>4 DEF CheckFile, At, PassTrue
    <2>2. CASE pass' = [pass EXCEPT !.pc = "decide", !.todo = Staged]
      <3>1. pass'.pc = "decide" /\ pass'.ids = {} /\ pass'.outcome = pass.outcome
        BY <1>0, <2>1, <2>2 DEF Pass
      <3> QED
        BY <1>0, <1>1, <1>2, <3>1 DEF PassCounted, RemovedOnce
    <2>3. CASE pass' = NoPass
      BY <1>1, <1>3, <2>3, EarlyCounted
    <2> QED
      BY <1>4, <2>2, <2>3 DEF CheckFile, PauseNow
  <1>5. ASSUME NEW id \in Ids, DecideWait(id) \/ DecideUnclear(id) \/ DecideClean(id)
        PROVE  PassCounted'
    <2>1. /\ pass.pc = "decide"
          /\ \A j \in pass.ids \ pass.failing : evidence[j].boot + 1 = pass.listed
      BY <1>0, <1>5 DEF DecideWait, DecideUnclear, DecideClean, At, RemovedOnce
    <2>2. \A j \in Ids : evidence'[j].boot = evidence[j].boot
      <3>1. CASE evidence' = evidence
        BY <3>1
      <3>2. CASE DecideClean(id) /\ evidence' = [evidence EXCEPT ![id].observed = evidence[id].boot + 1]
        <4>1. evidence[id] \in [at : 0..setting.time, boot : 0..Len(boots), observed : 0..Len(boots)]
          BY <1>0 DEF WTypeOK
        <4>2. [evidence[id] EXCEPT !.observed = evidence[id].boot + 1].boot = evidence[id].boot
          BY <4>1
        <4> QED
          BY <1>0, <3>2, <4>2 DEF WTypeOK
      <3> QED
        BY <1>5, <3>1, <3>2 DEF DecideWait, DecideUnclear, DecideClean, store
    <2> DEFINE Good ==
           /\ pass'.pc = "decide" /\ pass'.outcome = pass.outcome /\ pass'.listed = pass.listed
           /\ pass'.ids \subseteq Ids
           /\ \A j \in pass'.ids \ pass'.failing : evidence[j].boot + 1 = pass.listed
    <2>3. pass.ids \subseteq Ids
      BY <1>0 DEF Pass
    <2>4. pass' = pass => Good
      BY <2>1, <2>3
    <2>5. pass' = Done(id) => Good
      BY <1>0, <2>1, <2>3, DoneFields
    <2>6. DecideUnclear(id) => Good
      <3>1. DecideUnclear(id) =>
               /\ pass'.pc = pass.pc /\ pass'.outcome = pass.outcome /\ pass'.listed = pass.listed
               /\ pass'.ids = pass.ids \cup {id} /\ pass'.failing = pass.failing \cup {id}
        BY <1>0 DEF DecideUnclear, Done, Pass
      <3> QED
        BY <2>1, <2>3, <3>1
    <2>7. DecideClean(id) /\ pass' = [Done(id) EXCEPT !.ids = @ \cup {id}] => Good
      <3> SUFFICES ASSUME DecideClean(id), pass' = [Done(id) EXCEPT !.ids = @ \cup {id}] PROVE Good
        OBVIOUS
      <3>1. /\ pass'.pc = pass.pc /\ pass'.outcome = pass.outcome /\ pass'.listed = pass.listed
            /\ pass'.ids = pass.ids \cup {id} /\ pass'.failing = pass.failing
        BY <1>0 DEF Done, Pass
      <3>2. Newer(id) > 0 /\ ~(Newer(id) >= 2)
        BY DEF DecideClean, Unclear
      <3>3. pass.listed \in Int /\ evidence[id].boot \in Int
        BY <1>0 DEF WTypeOK, Pass
      <3>4. evidence[id].boot + 1 = pass.listed
        BY <3>2, <3>3 DEF Newer
      <3> QED
        BY <2>1, <2>3, <3>1, <3>4
    <2>8. Good
      BY <1>5, <2>4, <2>5, <2>6, <2>7 DEF DecideWait, DecideClean
    <2> QED
      BY <1>0, <1>1, <1>2, <2>2, <2>8 DEF PassCounted, RemovedOnce
  <1>6. CASE DecideWrite
    <2>1. pass.pc = "decide" /\ evidence' = evidence
      BY <1>6 DEF DecideWrite, At, store
    <2>2. CASE pass' = [pass EXCEPT !.pc = "begin", !.kind = "UNSTAGE"]
      <3>1. /\ pass'.pc = "begin" /\ pass'.ids = pass.ids /\ pass'.failing = pass.failing
            /\ pass'.outcome = pass.outcome /\ pass'.listed = pass.listed
        BY <1>0, <2>2 DEF Pass
      <3> QED
        BY <1>0, <1>1, <1>2, <2>1, <3>1 DEF PassCounted, RemovedOnce
    <2>3. CASE pass' = [pass EXCEPT !.pc = "plan"] \/ pass' = NoPass
      <3>1. [pass EXCEPT !.pc = "plan"].pc = "plan" /\ [pass EXCEPT !.pc = "plan"].outcome = pass.outcome
        BY <1>0 DEF Pass
      <3> QED
        BY <1>1, <1>3, <2>3, <3>1, EarlyCounted
    <2> QED
      BY <1>6, <2>2, <2>3 DEF DecideWrite
  <1> QED
    BY <1>4, <1>5, <1>6

LEMMA PlanCounted ==
  ASSUME Counted, (\E o \in Orders : PlanCreate(o)) \/ (\E id \in Ids : PlanPrepare(id)) \/ PlanDone
  PROVE  PassCounted'
  <1>0. pass \in Pass
    BY DEF Counted, Written, WTypeOK
  <1>1. pass.pc = "plan" /\ journal' = journal
    BY DEF PlanCreate, PlanPrepare, PlanDone, At, store
  <1>2. pass.pc \notin Writing
    BY <1>1 DEF Writing
  <1>3. CASE \E o \in Orders : PlanCreate(o)
    <2>1. pass'.pc = "plan" /\ pass'.outcome = pass.outcome
      BY <1>0, <1>1, <1>3 DEF PlanCreate, Pass
    <2> QED
      BY <1>1, <1>2, <2>1, EarlyCounted
  <1>4. CASE \E id \in Ids : PlanPrepare(id)
    <2>1. pass'.pc = "plan" /\ pass'.outcome = pass.outcome
      BY <1>0, <1>1, <1>4 DEF PlanPrepare, Done, Pass
    <2> QED
      BY <1>1, <1>2, <2>1, EarlyCounted
  <1>5. CASE PlanDone
    <2>1. /\ [pass EXCEPT !.pc = "begin", !.kind = "STAGE"].pc = "begin"
          /\ [pass EXCEPT !.pc = "begin", !.kind = "STAGE"].kind = "STAGE"
          /\ [pass EXCEPT !.pc = "begin", !.kind = "STAGE"].outcome = pass.outcome
          /\ NoPass.pc = "idle" /\ NoPass.outcome = "NONE"
      BY <1>0 DEF Pass, NoPass
    <2> QED
      BY <1>1, <1>2, <1>5, <2>1, EarlyCounted DEF PlanDone
  <1> QED
    BY <1>3, <1>4, <1>5

\* The write carries what was decided; a boot seen during it adds to review.
LEMMA WriteCounted ==
  ASSUME Counted, BeginWrite \/ Verify \/ Upload
  PROVE  PassCounted'
  <1>0. pass \in Pass /\ pass.outcome # "UNCERTAIN" /\ RemovedOnce /\ evidence' = evidence
    BY DEF Counted, Written, WTypeOK, OnceCounted, NothingFails, BeginWrite, Verify, Upload, store
  <1> DEFINE Same == /\ pass'.ids = pass.ids /\ pass'.failing = pass.failing /\ pass'.kind = pass.kind
                     /\ pass'.listed = pass.listed /\ pass'.outcome = pass.outcome
  <1>1. CASE BeginWrite
    <2>1. pass.pc = "begin" /\ pass'.pc = "verify" /\ Same
      BY <1>0, <1>1 DEF BeginWrite, At, Pass
    <2> QED
      BY <1>0, <2>1 DEF PassCounted, RemovedOnce, Writing
  <1>2. CASE Verify /\ pass' = [pass EXCEPT !.pc = "upload"]
    <2>1. pass.pc = "verify" /\ pass'.pc = "upload" /\ Same
      BY <1>0, <1>2 DEF Verify, At, Pass
    <2> QED
      BY <1>0, <2>1 DEF PassCounted, RemovedOnce, Writing
  <1>3. CASE Verify /\ pass' = [pass EXCEPT !.pc = "after", !.outcome = "NOT_WRITTEN"]
    <2>1. pass'.pc = "after" /\ pass'.outcome = "NOT_WRITTEN"
      BY <1>0, <1>3 DEF Pass
    <2> QED
      BY <2>1 DEF PassCounted, RemovedOnce, Writing
  <1>4. CASE Upload
    <2>1. pass.pc = "upload" /\ pass'.pc = "readback" /\ Same
      BY <1>0, <1>4 DEF Upload, At, Pass
    <2> QED
      BY <1>0, <2>1 DEF PassCounted, RemovedOnce, Writing
  <1> QED
    BY <1>1, <1>2, <1>3, <1>4 DEF Verify

LEMMA ReadCounted ==
  ASSUME Counted, ReadBack
  PROVE  PassCounted'
  <1>0. /\ pass \in Pass /\ Typed /\ WTypeOK /\ WriteKept /\ PassTrue /\ RemovedOnce /\ SpawnCount
        /\ listed = Len(boots) /\ file # Garbage /\ ~setting.faults
    BY DEF Counted, Written, WTypeOK, Typed, OnceCounted, NothingFails, SpawnKept, Calm
  <1>1. pass.pc = "readback" /\ journal.outcome # "NONE" /\ UNCHANGED <<spawned, boots, file>>
    BY <1>0 DEF ReadBack, At, PassTrue, Writing, server
  <1>2. PICK outcome \in {"WRITTEN_VERIFIED", "NOT_WRITTEN", "UNCERTAIN"} :
          /\ Outcome(outcome)
          /\ \E seen \in {listed # pass.listed} :
               pass' = [pass EXCEPT !.pc = "after", !.outcome = outcome,
                                    !.failing = @ \cup IF pass.kind = "UNSTAGE" THEN RestartDuring(seen) ELSE {}]
    BY <1>0 DEF ReadBack
  <1>3. /\ pass'.pc = "after" /\ pass'.outcome = outcome /\ pass'.ids = pass.ids /\ pass'.kind = pass.kind
        /\ pass'.failing = pass.failing \cup
              IF pass.kind = "UNSTAGE" THEN RestartDuring(listed # pass.listed) ELSE {}
    BY <1>0, <1>2 DEF Pass
  <1>4. outcome # "UNCERTAIN"
    BY <1>0, <1>1, <1>2 DEF Outcome, WriteKept
  <1>5. ASSUME pass.kind = "UNSTAGE", NEW id \in pass'.ids \ pass'.failing
        PROVE  spawned'[id[1]] <= 1
    <2>1. listed = pass.listed /\ id \in pass.ids \ pass.failing
      BY <1>3, <1>5 DEF RestartDuring
    <2>2. evidence[id].boot + 1 = Len(boots)
      BY <1>0, <1>1, <1>5, <2>1 DEF RemovedOnce
    <2>3. pass.kind = journal.kind /\ pass.ids = journal.ids /\ Staged = journal.before
      BY <1>0, <1>1 DEF PassTrue, Writing
    <2>4. id \in Staged /\ id \in Ids
      BY <1>0, <1>1, <1>5, <2>1, <2>3, Apart DEF WriteKept
    <2>5. spawned[id[1]] <= Len(boots) - evidence[id].boot
      BY <1>0, <2>4 DEF SpawnCount, Put, BootOf
    <2>6. evidence[id].boot \in Int
      BY <1>0, <2>4 DEF WTypeOK
    <2>7. Len(boots) - evidence[id].boot = 1
      BY <2>2, <2>6
    <2> QED
      BY <1>1, <2>5, <2>7
  <1> QED
    BY <1>3, <1>4, <1>5 DEF PassCounted, RemovedOnce, Writing

LEMMA AfterCounted ==
  ASSUME Counted, AfterUncertain \/ Settle \/ \E id \in Ids : AfterStage(id) \/ AfterUnstage(id)
  PROVE  PassCounted'
  <1>0. /\ pass \in Pass /\ Typed /\ pass.outcome # "UNCERTAIN" /\ RemovedOnce
        /\ UNCHANGED spawned
    BY DEF Counted, Written, WTypeOK, Typed, OnceCounted, NothingFails, AfterUncertain, Settle, AfterStage,
       AfterUnstage, server
  <1>1. ~AfterUncertain
    BY <1>0 DEF AfterUncertain
  <1>2. CASE Settle
    <2>1. journal' = NoWrite /\ pass' = NoPass
      BY <1>0, <1>2 DEF Settle
    <2> QED
      BY <2>1 DEF NoWrite, NoPass, PassCounted, RemovedOnce
  <1>3. ASSUME NEW id \in Ids, AfterStage(id) PROVE PassCounted'
    <2>1. pass.pc = "after" /\ pass.kind = "STAGE" /\ pass' = [pass EXCEPT !.ids = @ \ {id}]
      BY <1>3 DEF AfterStage, At
    <2>2. pass'.pc = "after" /\ pass'.kind = "STAGE" /\ pass'.outcome = pass.outcome
      BY <1>0, <2>1 DEF Pass
    <2> QED
      BY <1>0, <2>2 DEF PassCounted, RemovedOnce, Writing
  <1>4. ASSUME NEW id \in Ids, AfterUnstage(id) PROVE PassCounted'
    <2>1. pass.pc = "after" /\ (pass' = [pass EXCEPT !.ids = @ \ {id}] \/ Fail(id))
          /\ pass.kind = "UNSTAGE" /\ pass.outcome = "WRITTEN_VERIFIED"
      BY <1>4 DEF AfterUnstage, At
    <2>2. Fail(id) => /\ pass'.pc = pass.pc /\ pass'.outcome = pass.outcome
                      /\ pass'.ids = pass.ids \ {id} /\ pass'.failing = pass.failing
      BY <1>0 DEF Fail, Done, Pass
    <2>3. pass' = [pass EXCEPT !.ids = @ \ {id}] =>
             /\ pass'.pc = pass.pc /\ pass'.outcome = pass.outcome
             /\ pass'.ids = pass.ids \ {id} /\ pass'.failing = pass.failing
      BY <1>0 DEF Pass
    <2> QED
      BY <1>0, <2>1, <2>2, <2>3 DEF PassCounted, RemovedOnce, Writing
  <1> QED
    BY <1>1, <1>2, <1>3, <1>4

\* Boots, people and the clock change nothing of the pass.
LEMMA ServerCounted ==
  ASSUME Counted, (\E good \in BOOLEAN : Boot(good)) \/ List \/ Tick \/ Resume \/ Repair \/ Edit \/ People
  PROVE  PassCounted'
  <1>0. /\ Written /\ PassTrue /\ RemovedOnce /\ pass.outcome # "UNCERTAIN" /\ Untouched
        /\ journal.outcome # "NONE" => pass.pc \in Writing
    BY DEF Counted, Written, OnceCounted, NothingFails
  <1>1. pass' = pass /\ evidence' = evidence /\ journal' = journal
    BY <1>0, OtherFrame DEF Resume, Untouched
  <1>2. ASSUME pass.pc = "after", pass.kind = "UNSTAGE", pass.outcome = "WRITTEN_VERIFIED",
               NEW id \in pass.ids \ pass.failing
        PROVE  spawned'[id[1]] <= 1
    <2>1. spawned[id[1]] <= 1
      BY <1>0, <1>2 DEF RemovedOnce
    <2>2. file = journal.payload /\ id \in Staged \ journal.payload
      BY <1>0, <1>2 DEF PassTrue, Writing
    <2>3. id \in Ids /\ Live(id) /\ id \notin file
      BY <2>2, LiveStates, Apart
    <2>4. spawned'[id[1]] = spawned[id[1]]
      <3>1. CASE \E good \in BOOLEAN : Boot(good)
        BY <1>0, <2>3, <3>1, NotRespawned
      <3>2. CASE List \/ Tick \/ Resume \/ Repair \/ Edit \/ People
        BY <3>2 DEF List, Tick, Resume, Repair, Edit, People, server
      <3> QED
        BY <3>1, <3>2
    <2> QED
      BY <2>1, <2>4
  <1> QED
    BY <1>0, <1>1, <1>2 DEF PassCounted, RemovedOnce

LEMMA TicketCounted ==
  ASSUME Counted, OpenTicket
  PROVE  PassCounted'
  <1>0. /\ pass \in Pass /\ RemovedOnce /\ pass.outcome # "UNCERTAIN"
        /\ journal.outcome # "NONE" => pass.pc \in Writing
    BY DEF Counted, Written, WTypeOK, OnceCounted, NothingFails
  <1>1. /\ pass'.pc = pass.pc /\ pass'.outcome = pass.outcome /\ pass'.ids = pass.ids /\ pass'.kind = pass.kind
        /\ pass'.failing = pass.failing /\ pass'.listed = pass.listed
        /\ UNCHANGED <<evidence, journal, spawned>>
    BY <1>0 DEF OpenTicket, Pass, store, server
  <1> QED
    BY <1>0, <1>1 DEF PassCounted, RemovedOnce

LEMMA StepPassCounted ==
  ASSUME Counted, WNext
  PROVE  PassCounted'
  <1>1. ~Stop
    BY DEF Counted, Calm, Stop
  <1> QED
    BY <1>1, AskCounted, DecideCounted, PlanCounted, WriteCounted, ReadCounted, AfterCounted, ServerCounted,
       TicketCounted DEF WNext, PassStep

LEMMA StepListed ==
  ASSUME Counted, WNext
  PROVE  listed' = Len(boots') /\ file' # Garbage
  <1>0. listed = Len(boots) /\ file # Garbage /\ ~setting.faults /\ setting.delay = 0 /\ Written
    BY DEF Counted, OnceCounted, NothingFails, Calm
  <1>1. file' # Garbage
    <2>1. CASE Upload
      <3>1. journal.payload # Garbage
        BY <1>0, Apart DEF Written, WTypeOK, Journal
      <3> QED
        BY <1>0, <2>1, <3>1 DEF Upload
    <2> QED
      BY <1>0, <2>1, ServerFrame DEF Written
  <1>2. listed' = Len(boots')
    <2>1. CASE PassStep \/ Stop
      BY <1>0, <2>1, WorkerFrame
    <2>2. CASE \E good \in BOOLEAN : Boot(good)
      BY <1>0, <2>2 DEF Boot
    <2>3. ~List
      <3>1. Typed
        BY <1>0 DEF Written, WTypeOK, Typed
      <3> QED
        BY <1>0, <3>1, BootType DEF List
    <2>4. CASE Tick \/ Resume \/ Repair \/ Edit \/ People
      BY <1>0, <2>4 DEF Tick, Resume, Repair, Edit, People, server
    <2> QED
      BY <2>1, <2>2, <2>3, <2>4 DEF WNext
  <1> QED
    BY <1>1, <1>2

LEMMA StepDelivered ==
  ASSUME Counted, WNext
  PROVE  DeliveredClean'
  <1>0. /\ Written /\ WTypeOK /\ ReviewsOfFailed /\ Asking /\ TypeOK /\ Untouched
        /\ DeliveredClean /\ RemovedOnce
    BY DEF Counted, Written, Orderly, OnceCounted, WTypeOK
  <1>1. \A id : StateOf(id)' = StateAfter(id)
    BY DEF StateOf, StateAfter
  <1> SUFFICES ASSUME NEW id \in Ids, StateAfter(id) \in {"VERIFICATION_REQUIRED", "FULFILLED"}
               PROVE  spawned'[id[1]] <= 1
    BY <1>1 DEF DeliveredClean, InState, Ids
  <1>2. RowMove(id)
    BY <1>0, StepRows
  <1>3. CASE StateOf(id) \in {"VERIFICATION_REQUIRED", "FULFILLED"}
    <2>1. spawned[id[1]] <= 1
      BY <1>0, <1>3 DEF DeliveredClean, InState
    <2>2. Live(id)
      BY <1>3 DEF Live, Retryable
    <2>3. file # Garbage => id \notin file
      <3>1. id \notin Staged /\ id \notin Prepared
        BY <1>3 DEF Staged, Prepared, InState, InFile
      <3> QED
        BY <1>0, <3>1, FileLive DEF Written
    <2>4. spawned'[id[1]] = spawned[id[1]]
      BY <1>0, <2>2, <2>3, ServerFrame, NotRespawned
    <2> QED
      BY <2>1, <2>4
  <1>4. CASE AfterUnstage(id) /\ StateAfter(id) = "VERIFICATION_REQUIRED"
    <2>1. ~Move(id, "FAILED_REVIEW")
      BY <1>0, <1>4, MoveRows, StateNames
    <2>2. /\ pass.pc = "after" /\ pass.kind = "UNSTAGE" /\ pass.outcome = "WRITTEN_VERIFIED"
          /\ id \in pass.ids \ pass.failing /\ spawned' = spawned
      BY <1>4, <2>1 DEF AfterUnstage, At, Fail, server
    <2> QED
      BY <1>0, <2>2 DEF RemovedOnce
  <1> QED
    BY <1>2, <1>3, <1>4 DEF RowMove, InFile

LEMMA StepOnceCounted ==
  ASSUME Written, SpawnKept, Calm, OnceCounted, WNext
  PROVE  OnceCounted'
  BY StepPassCounted, StepListed, StepDelivered DEF Counted, PassCounted, OnceCounted, NothingFails

-----------------------------------------------------------------------------
(* The invariant is inductive.                                             *)

LEMMA InitWorker == WInit => WorkerInv
  <1> SUFFICES ASSUME WInit PROVE WorkerInv
    OBVIOUS
  <1>1. Init /\ LedgerInv /\ TypeOK /\ ReviewsOfFailed
    BY InitInv, ReviewsInv DEF WInit, LedgerInv
  <1>2. \A id \in Ids : StateOf(id) = "NONE" /\ attempt[id[1]][id[2]].review = "NONE"
    BY <1>1, IdParts DEF Init, NoAttempt, StateOf
  <1>3. \A S : "NONE" \notin S => InState(S) = {}
    BY <1>2 DEF InState
  <1>4. Staged = {} /\ Prepared = {} /\ InState(Checked) = {} /\ InState({"VERIFICATION_REQUIRED", "FULFILLED"}) = {}
    BY <1>3 DEF Staged, Prepared, InFile, Checked
  <1>5. boots = <<[start |-> -Quiet, good |-> TRUE]>> /\ Len(boots) = 1 /\ boots \in Seq([start : Int, good : BOOLEAN])
    BY WorkerAssumption DEF WInit
  <1>6. /\ setting \in Settings /\ setting \in Setting /\ setting.time \in Nat /\ setting.boots \in Nat
    BY WorkerAssumption DEF WInit, Setting
  <1>7. /\ pass = NoPass /\ NoPass.pc = "idle" /\ NoPass.outcome = "NONE" /\ NoPass.ticket = {}
        /\ journal = NoWrite /\ NoWrite.outcome = "NONE" /\ NoWrite.resolved = FALSE
    BY DEF WInit, NoPass, NoWrite
  <1>8. WTypeOK
    <2>1. pass \in Pass
      BY <1>5, <1>7 DEF NoPass, Pass
    <2>2. journal \in Journal
      BY <1>5, <1>6, <1>7 DEF NoWrite, Journal
    <2>3. evidence \in [Ids -> [at : 0..setting.time, boot : 0..Len(boots), observed : 0..Len(boots)]]
      BY <1>5, <1>6 DEF WInit, NoEvidence
    <2>4. spawned \in [Orders -> 0..setting.boots]
      BY <1>6 DEF WInit
    <2>5. Len(boots) \in 1..(setting.boots + 1) /\ listed \in 1..Len(boots) /\ now \in 0..setting.time
      BY <1>5, <1>6 DEF WInit
    <2>6. file \subseteq Ids /\ paused \in BOOLEAN
      BY DEF WInit
    <2> QED
      BY <1>1, <1>5, <1>6, <2>1, <2>2, <2>3, <2>4, <2>5, <2>6 DEF WTypeOK
  <1>9. Orderly /\ Recorded /\ Ticketed
    BY <1>1, InitOrderly, InitRecorded, InitTicketed
  <1>10. WriteKept /\ PassTrue
    BY <1>4, <1>7 DEF WInit, WriteKept, PassTrue, Writing
  <1>11. SpawnKept
    <2>1. \A id \in Ids : ~Put(id)
      BY <1>4 DEF Put
    <2>2. \A o \in Orders : spawned[o] = 0
      BY DEF WInit
    <2> QED
      BY <1>2, <1>4, <2>1, <2>2
      DEF WInit, SpawnKept, SpawnedLive, ReviewsTrue, BootsSpawned, CheckedSpawned, SpawnCount
  <1>12. AskedSpawned
    BY <1>1 DEF Init, AskedSpawned
  <1>13. OnceCounted
    <2>1. file # Garbage /\ listed = Len(boots)
      BY <1>5, Apart DEF WInit
    <2> QED
      BY <1>4, <1>7, <2>1 DEF OnceCounted, NothingFails, RemovedOnce, DeliveredClean
  <1> QED
    BY <1>1, <1>8, <1>9, <1>10, <1>11, <1>12, <1>13 DEF WorkerInv

LEMMA StepWorkerType ==
  ASSUME WTypeOK, Clocked, WNext, Clocked'
  PROVE  WTypeOK'
  <1>1. Typed'
    BY StepTyped DEF WTypeOK, Typed
  <1>2. TypeOK'
    BY StepOnLedger, StepType DEF WTypeOK
  <1>3. setting' = setting /\ setting.boots \in Nat /\ Typed
    BY SettingType DEF WNext, WTypeOK, Typed
  <1>4. Len(boots') \in 1..(setting.boots + 1)
    BY <1>1, <1>3 DEF Typed
  <1>5. spawned' \in [Orders -> Nat]
    <2>1. spawned \in [Orders -> Nat]
      BY <1>3 DEF WTypeOK
    <2>2. ASSUME NEW good \in BOOLEAN, Boot(good) PROVE spawned' \in [Orders -> Nat]
      BY <2>1, <2>2 DEF Boot
    <2>3. CASE PassStep \/ Stop
      BY <2>1, <2>3, WorkerFrame
    <2>4. CASE List \/ Tick \/ Resume \/ Repair \/ Edit \/ People
      BY <2>1, <2>4 DEF List, Tick, Resume, Repair, Edit, People, server
    <2> QED
      BY <2>2, <2>3, <2>4 DEF WNext
  <1>6. \A o \in Orders : spawned'[o] \in 0..setting.boots
    BY <1>3, <1>4, <1>5 DEF Clocked
  <1>7. spawned' \in [Orders -> 0..setting.boots]
    BY <1>5, <1>6
  <1> QED
    BY <1>1, <1>2, <1>3, <1>7 DEF Typed, WTypeOK

LEMMA StutterWorker ==
  ASSUME WorkerInv, UNCHANGED wvars
  PROVE  WorkerInv'
  <1>0. UNCHANGED <<purchase, delivery, attempt, confirmation, ticket, balance, stock>>
        /\ UNCHANGED <<file, boots, listed, now, spawned, evidence, journal, paused, pass, setting>>
    BY DEF wvars, vars, server, store
  <1>1. LedgerInv' /\ ReviewsOfFailed' /\ Recorded'
    BY StepInv, ReviewsInv, StepRecorded DEF WorkerInv, wvars, LedgerInv
  <1>2. WTypeOK'
    BY <1>0, <1>1 DEF WorkerInv, WTypeOK, LedgerInv, Pass, Journal
  <1>3. Staged' = Staged /\ Prepared' = Prepared /\ Unresolved' = Unresolved /\ \A S : InState(S)' = InState(S)
    BY <1>0 DEF Staged, Prepared, Unresolved, InState, StateOf
  <1>4. \A id : StateOf(id)' = StateOf(id) /\ Live(id)' = Live(id)
    BY <1>0 DEF Live, StateOf
  <1>5. \A id : Put(id)' = Put(id) /\ Since(id)' = Since(id) /\ BootOf(id)' = BootOf(id)
    BY <1>0, <1>3 DEF Put, Since, BootOf
  <1>6. Orderly' /\ Ticketed' /\ AskedSpawned'
    BY <1>0, <1>3, <1>4 DEF WorkerInv, Orderly, Clocked, Asking, Outstanding, Ticketed, AskedSpawned, Untouched
  <1>7. WriteKept => WriteKept'
    BY <1>0, <1>3 DEF WriteKept
  <1>8. PassTrue => PassTrue'
    BY <1>0, <1>3 DEF PassTrue, Writing
  <1>9. SpawnKept => SpawnKept'
    BY <1>0, <1>3, <1>4, <1>5
    DEF SpawnKept, SpawnedLive, ReviewsTrue, BootsSpawned, CheckedSpawned, SpawnCount
  <1>10. OnceCounted => OnceCounted'
    BY <1>0, <1>3 DEF OnceCounted, NothingFails, RemovedOnce, DeliveredClean, Writing
  <1> QED
    BY <1>0, <1>1, <1>2, <1>6, <1>7, <1>8, <1>9, <1>10 DEF WorkerInv, Untouched, Calm

LEMMA StepWorker == WorkerInv /\ [WNext]_wvars => WorkerInv'
  <1> SUFFICES ASSUME WorkerInv, WNext PROVE WorkerInv'
    BY StutterWorker
  <1>0. /\ WTypeOK /\ LedgerInv /\ ReviewsOfFailed /\ Orderly /\ Recorded /\ Ticketed /\ AskedSpawned
        /\ Clocked /\ Asking /\ Outstanding /\ TypeOK
    BY DEF WorkerInv, Orderly, LedgerInv
  <1>1. [Next]_vars
    BY <1>0, StepOnLedger
  <1>2. LedgerInv' /\ ReviewsOfFailed' /\ Recorded' /\ Ticketed'
    BY <1>0, <1>1, StepInv, ReviewsInv, StepRecorded, StepTicketed
  <1>3. Orderly'
    BY <1>0, StepClocked, StepAsking, StepOutstanding DEF Orderly
  <1>4. WTypeOK'
    BY <1>0, <1>3, StepWorkerType DEF Orderly
  <1>5. setting' = setting
    BY DEF WNext
  <1>6. Untouched => Written /\ SpawnKept
    BY <1>0 DEF WorkerInv, Written
  <1>7. Untouched => WriteKept' /\ PassTrue' /\ SpawnKept'
    BY <1>0, <1>6, StepWritten, StepSpawnKept DEF Written
  <1>8. AskedSpawned'
    <2>1. CASE Untouched
      BY <1>0, <1>6, <2>1, StepAsked DEF SpawnKept
    <2>2. CASE ~Untouched
      BY <1>5, <2>2 DEF Untouched, AskedSpawned
    <2> QED
      BY <2>1, <2>2
  <1>9. Calm => OnceCounted'
    BY <1>6, StepOnceCounted DEF WorkerInv, Calm
  <1> QED
    BY <1>2, <1>3, <1>4, <1>5, <1>7, <1>8, <1>9 DEF WorkerInv, Untouched, Calm

-----------------------------------------------------------------------------
(* The worker implements ShopPromise.                                      *)

Phases == [o \in Orders |-> IF Untouched THEN Phase(o) ELSE "NONE"]
Items == [o \in Orders |-> IF Untouched THEN spawned[o] ELSE 0]

LEMMA PhaseNames ==
  ASSUME NEW o \in Orders
  PROVE  /\ delivery[o] = "NONE" => Phase(o) = "NONE"
         /\ delivery[o] = "MANUAL_READY" => Phase(o) = "OPEN"
         /\ delivery[o] = "FULFILLED" => Phase(o) = "DELIVERED"
         /\ delivery[o] = "CANCELLED" => Phase(o) = "CANCELLED"
  BY DEF Phase

\* What a step of the ledger does to the deliveries.
LEMMA DeliveryStep ==
  ASSUME LedgerInv, [Next]_vars
  PROVE  \/ delivery' = delivery
         \/ \E o \in Orders :
              \/ delivery[o] = "NONE" /\ delivery' = [delivery EXCEPT ![o] = "MANUAL_READY"]
              \/ delivery[o] = "MANUAL_READY" /\ delivery' = [delivery EXCEPT ![o] = "FULFILLED"]
              \/ /\ delivery[o] = "MANUAL_READY" /\ delivery' = [delivery EXCEPT ![o] = "CANCELLED"]
                 /\ \A n \in Numbers : ~BlocksRefund(attempt[o][n])
  <1>0. /\ delivery \in [Orders -> {"NONE", "MANUAL_READY", "FULFILLED", "CANCELLED"}]
        /\ \A o \in Orders : /\ purchase[o] = "NONE" <=> delivery[o] = "NONE"
                             /\ purchase[o] = "PENDING_FULFILLMENT" <=> delivery[o] = "MANUAL_READY"
    BY DEF LedgerInv, TypeOK, RecordsAgree
  <1>1. CASE UNCHANGED vars
    BY <1>1 DEF vars
  <1>2. CASE AttemptStep
    <2>1. PICK o \in Orders, n \in Numbers :
             \/ \E mode \in Modes : Create(o, n, mode)
             \/ \E to \in AttemptStates : Transition(o, n, to)
             \/ FulfillAttemptByBuyer(o, n)
             \/ FulfillAttempt(o, n)
             \/ \E found \in {"NOT_SPAWNED", "SPAWNED"} : ResolveReview(o, n, found)
      BY <1>2 DEF AttemptStep
    <2> QED
      BY <2>1 DEF Create, Transition, FulfillAttemptByBuyer, FulfillAttempt, FulfilAll, ResolveReview
  <1>3. CASE OrderStep
    <2>1. PICK o \in Orders :
             \/ Purchase(o) \/ Fulfill(o) \/ Refund(o) \/ OpenForDelivered(o) \/ ConfirmReceived(o)
             \/ ReportIssue(o) \/ OpenSystemTicket(o) \/ ResolveTicket(o)
      BY <1>3 DEF OrderStep
    <2>2. CASE Purchase(o)
      BY <1>0, <2>2 DEF Purchase
    <2>3. CASE Fulfill(o)
      BY <1>0, <2>3 DEF Fulfill
    <2>4. CASE Refund(o)
      <3>1. CASE purchase[o] = "FULFILLED"
        BY <2>4, <3>1 DEF Refund
      <3>2. CASE purchase[o] # "FULFILLED"
        <4>1. delivery[o] = "MANUAL_READY" /\ \A n \in Numbers : ~BlocksRefund(attempt[o][n])
          BY <1>0, <2>4, <3>2 DEF Refund
        <4>2. delivery' = [delivery EXCEPT ![o] = "CANCELLED"]
          BY <2>4, <3>2, <4>1 DEF Refund
        <4> QED
          BY <4>1, <4>2
      <3> QED
        BY <3>1, <3>2
    <2>5. CASE OpenForDelivered(o) \/ ConfirmReceived(o) \/ ReportIssue(o) \/ OpenSystemTicket(o) \/ ResolveTicket(o)
      BY <2>5 DEF OpenForDelivered, ConfirmReceived, ReportIssue, OpenSystemTicket, ResolveTicket, Confirm
    <2> QED
      BY <2>1, <2>2, <2>3, <2>4, <2>5
  <1>4. CASE \E S \in SUBSET Orders : AutoCompleteDue(S)
    BY <1>4 DEF AutoCompleteDue
  <1> QED
    BY <1>1, <1>2, <1>3, <1>4 DEF Next

\* An order with an attempt in the file is open.
LEMMA PutIsOpen ==
  ASSUME LedgerInv, Recorded, NEW id \in Ids, Put(id)
  PROVE  delivery[id[1]] = "MANUAL_READY"
  <1>1. id[1] \in Orders /\ id[2] \in Numbers
    BY IdParts
  <1>2. attempt[id[1]][id[2]].state \in Exposed
    BY DEF Put, Staged, Prepared, InState, StateOf, Exposed
  <1>3. delivery[id[1]] # "CANCELLED"
    BY <1>1, <1>2 DEF LedgerInv, CancelledNeverDelivered, Exposed, InFile, Retryable
  <1>4. delivery[id[1]] # "FULFILLED"
    BY <1>1, <1>2 DEF LedgerInv, DeliveredOnce
  <1>5. delivery[id[1]] # "NONE"
    BY <1>1, <1>2 DEF LedgerInv, RecordsAgree, Recorded, Exposed, InFile
  <1> QED
    BY <1>1, <1>3, <1>4, <1>5 DEF LedgerInv, TypeOK

\* An order that may be refunded as undelivered has spawned nothing.
LEMMA RefundableClean ==
  ASSUME LedgerInv, SpawnedLive, ReviewsTrue, Written, NEW o \in Orders, delivery[o] = "MANUAL_READY",
         \A n \in Numbers : ~BlocksRefund(attempt[o][n])
  PROVE  spawned[o] = 0
  <1>0. spawned[o] \in Nat
    BY SettingType DEF Written, WTypeOK, Typed
  <1> SUFFICES ASSUME spawned[o] > 0 PROVE FALSE
    BY <1>0
  <1>1. PICK n \in Numbers : Live(<<o, n>>) /\ StateOf(<<o, n>>) # "PLAN_CREATED"
    BY DEF SpawnedLive
  <1>2. StateOf(<<o, n>>) = attempt[o][n].state /\ <<o, n>> \in Ids
    BY IdParts DEF StateOf
  <1>3. attempt[o][n].state \in AttemptStates
    BY DEF LedgerInv, TypeOK, Attempt
  <1>4. attempt[o][n].state \notin Exposed
    BY DEF BlocksRefund
  <1>5. attempt[o][n].state # "FULFILLED"
    BY DEF LedgerInv, FulfilledOnAnswer
  <1>6. attempt[o][n].state = "FAILED_REVIEW"
    BY <1>1, <1>2, <1>3, <1>4, <1>5 DEF Live, AttemptStates
  <1>7. attempt[o][n].review = "NOT_SPAWNED"
    BY <1>6 DEF BlocksRefund
  <1> QED
    BY <1>2, <1>7 DEF ReviewsTrue

\* One step, of which the promise sees a spawn, a purchase, an end, or nothing.
LEMMA BootKeepsPromise ==
  ASSUME WorkerInv, Untouched, NEW good \in BOOLEAN, Boot(good), setting' = setting
  PROVE  Promise!PNext \/ UNCHANGED Promise!pvars
  <1>0. Written /\ LedgerInv /\ Recorded /\ Untouched'
    BY DEF WorkerInv, Written, Untouched
  <1> DEFINE S == {o \in Orders : good /\ file # Garbage /\ \E n \in Numbers : <<o, n>> \in file}
  <1>1. Phases' = Phases
    BY <1>0 DEF Boot, vars, Phases, Phase
  <1>2. Items' = [o \in Orders |-> IF o \in S THEN Items[o] + 1 ELSE Items[o]]
    BY <1>0 DEF Boot, Items
  <1>3. \A o \in S : Phases[o] = "OPEN"
    <2> TAKE o \in S
    <2>1. PICK n \in Numbers : file # Garbage /\ <<o, n>> \in file
      OBVIOUS
    <2>2. Put(<<o, n>>)
      BY <1>0, <2>1, FileLive DEF Put, Written
    <2>3. <<o, n>> \in Ids /\ <<o, n>>[1] = o
      BY IdParts
    <2>4. delivery[o] = "MANUAL_READY"
      BY <1>0, <2>2, <2>3, PutIsOpen
    <2> QED
      BY <2>4, PhaseNames DEF Phases
  <1>4. CASE S = {}
    <2>1. Items' = Items
      BY <1>2, <1>4 DEF Items
    <2> QED
      BY <1>1, <2>1 DEF Promise!pvars, Phases, Items
  <1>5. CASE S # {}
    <2>1. PICK T \in SUBSET Orders : T = S
      OBVIOUS
    <2> HIDE DEF S
    <2>2. Promise!Spawn(T)
      BY <1>1, <1>2, <1>3, <1>5, <2>1 DEF Promise!Spawn, Phases, Items
    <2> QED
      BY <2>2 DEF Promise!PNext
  <1> QED
    BY <1>4, <1>5

LEMMA LedgerKeepsPromise ==
  ASSUME WorkerInv, Untouched, [Next]_vars, setting' = setting, spawned' = spawned
  PROVE  Promise!PNext \/ UNCHANGED Promise!pvars
  <1>0. /\ Written /\ LedgerInv /\ SpawnedLive /\ ReviewsTrue /\ Untouched'
        /\ delivery \in [Orders -> {"NONE", "MANUAL_READY", "FULFILLED", "CANCELLED"}]
    BY DEF WorkerInv, Written, Untouched, LedgerInv, TypeOK, SpawnKept
  <1>1. Items' = Items
    BY <1>0 DEF Items
  <1>2. CASE delivery' = delivery
    <2>1. Phases' = Phases
      BY <1>0, <1>2 DEF Phases, Phase
    <2> QED
      BY <1>1, <2>1 DEF Promise!pvars, Phases, Items
  <1>3. ASSUME NEW o \in Orders, NEW d, NEW p, delivery' = [delivery EXCEPT ![o] = d],
               Phase(o)' = p
        PROVE  Phases' = [Phases EXCEPT ![o] = p]
    <2>1. \A q \in Orders \ {o} : Phase(q)' = Phase(q)
      BY <1>0, <1>3 DEF Phase
    <2> QED
      BY <1>0, <1>3, <2>1 DEF Phases
  <1>4. ASSUME NEW o \in Orders
        PROVE  /\ delivery'[o] = "MANUAL_READY" => Phase(o)' = "OPEN"
               /\ delivery'[o] = "FULFILLED" => Phase(o)' = "DELIVERED"
               /\ delivery'[o] = "CANCELLED" => Phase(o)' = "CANCELLED"
    BY DEF Phase
  <1>5. ASSUME NEW o \in Orders, delivery[o] = "NONE", delivery' = [delivery EXCEPT ![o] = "MANUAL_READY"]
        PROVE  Promise!PNext
    <2>1. Phases[o] = "NONE" /\ Phase(o)' = "OPEN"
      BY <1>0, <1>4, <1>5, PhaseNames DEF Phases
    <2>2. Phases' = [Phases EXCEPT ![o] = "OPEN"]
      BY <1>3, <1>5, <2>1
    <2>3. Promise!Buy(o)
      BY <1>1, <2>1, <2>2 DEF Promise!Buy, Phases, Items
    <2> QED
      BY <2>3 DEF Promise!PNext
  <1>6. ASSUME NEW o \in Orders, delivery[o] = "MANUAL_READY", delivery' = [delivery EXCEPT ![o] = "FULFILLED"]
        PROVE  Promise!PNext
    <2>1. Phases[o] = "OPEN" /\ Phase(o)' = "DELIVERED"
      BY <1>0, <1>4, <1>6, PhaseNames DEF Phases
    <2>2. Phases' = [Phases EXCEPT ![o] = "DELIVERED"]
      BY <1>3, <1>6, <2>1
    <2>3. Promise!Deliver(o)
      BY <1>1, <2>1, <2>2 DEF Promise!Deliver, Phases, Items
    <2> QED
      BY <2>3 DEF Promise!PNext
  <1>7. ASSUME NEW o \in Orders, delivery[o] = "MANUAL_READY", delivery' = [delivery EXCEPT ![o] = "CANCELLED"],
               \A n \in Numbers : ~BlocksRefund(attempt[o][n])
        PROVE  Promise!PNext
    <2>1. Phases[o] = "OPEN" /\ Phase(o)' = "CANCELLED"
      BY <1>0, <1>4, <1>7, PhaseNames DEF Phases
    <2>2. Phases' = [Phases EXCEPT ![o] = "CANCELLED"]
      BY <1>3, <1>7, <2>1
    <2>3. Items[o] = 0
      BY <1>0, <1>7, RefundableClean DEF Items
    <2>4. Promise!Cancel(o)
      BY <1>1, <2>1, <2>2, <2>3 DEF Promise!Cancel, Phases, Items
    <2> QED
      BY <2>4 DEF Promise!PNext
  <1> QED
    BY <1>0, <1>2, <1>5, <1>6, <1>7, DeliveryStep

LEMMA StepKeepsPromise == WorkerInv /\ [WNext]_wvars => [Promise!PNext]_(Promise!pvars)
  <1> SUFFICES ASSUME WorkerInv, [WNext]_wvars PROVE Promise!PNext \/ UNCHANGED Promise!pvars
    OBVIOUS
  <1>0. [Next]_vars /\ setting' = setting
    BY StepOnLedger DEF WorkerInv, WNext, wvars
  <1>1. CASE ~Untouched
    <2>1. Phases' = Phases /\ Items' = Items
      BY <1>0, <1>1 DEF Phases, Items, Untouched
    <2> QED
      BY <2>1 DEF Promise!pvars, Phases, Items
  <1>2. CASE Untouched /\ \E good \in BOOLEAN : Boot(good)
    BY <1>0, <1>2, BootKeepsPromise
  <1>3. CASE Untouched /\ spawned' = spawned
    BY <1>0, <1>3, LedgerKeepsPromise
  <1> QED
    BY <1>1, <1>2, <1>3, ServerFrame DEF wvars, server

LEMMA InitKeepsPromise == WInit => Promise!PInit
  <1> SUFFICES ASSUME WInit PROVE Promise!PInit
    OBVIOUS
  <1>1. \A o \in Orders : Phase(o) = "NONE" /\ spawned[o] = 0
    BY PhaseNames DEF WInit, Init
  <1> QED
    BY <1>1 DEF Promise!PInit

-----------------------------------------------------------------------------
(* The theorems.                                                           *)

\* The worker's invariant holds in every reachable state.
THEOREM WorkerSafe == WSpec => []WorkerInv
  <1> QED
    BY InitWorker, StepWorker, PTL DEF WSpec

\* All the worker, its people and the server do to the Shop's database is what its
\* transactions allow: every theorem about the ledger holds of it here.
THEOREM WorkerOnLedger == WSpec => Spec
  <1>1. WorkerInv => WTypeOK
    BY DEF WorkerInv
  <1>2. WInit => Init
    BY DEF WInit
  <1> QED
    BY <1>1, <1>2, StepOnLedger, WorkerSafe, PTL DEF WSpec, Spec

\* Every row, boot, journal entry and pass keeps its domain; the counts of spawned
\* items stay within the boots.
THEOREM WorkerTypes == WSpec => []WTypeOK
  <1>1. WorkerInv => WTypeOK
    BY DEF WorkerInv
  <1> QED
    BY <1>1, WorkerSafe, PTL

\* The delivery worker keeps the Shop's promise: an item spawns only while its
\* order is open, and no order of which an item spawned is cancelled for its
\* points, wherever the worker stopped and whichever request failed or was lost.
THEOREM PromiseSafe == WSpec => PromiseKept
  <1> QED
    BY InitKeepsPromise, StepKeepsPromise, WorkerSafe, PTL DEF WSpec, PromiseKept, Promise!PSpec

\* An order the worker may stage again has spawned nothing and is not in the file.
THEOREM CandidatesSafe == WSpec => []CandidateClean
  <1>1. WorkerInv => CandidateClean
    <2> SUFFICES ASSUME WorkerInv, Untouched, NEW o \in Candidates
                 PROVE  /\ spawned[o] = 0
                        /\ file = Garbage \/ \A n \in Numbers : <<o, n>> \notin file
      BY DEF CandidateClean
    <2>0. WTypeOK /\ WriteKept /\ SpawnedLive
      BY DEF WorkerInv, SpawnKept
    <2>1. o \in Orders /\ spawned[o] \in Nat
      <3>1. o \in Orders
        BY DEF Candidates
      <3>2. spawned[o] \in 0..setting.boots /\ setting.boots \in Nat
        BY <2>0, <3>1, SettingType DEF WTypeOK, Typed
      <3> QED
        BY <3>1, <3>2
    <2>2. \A n \in Numbers : StateOf(<<o, n>>) \in {"NONE"} \cup Retryable
      <3>1. \A n \in Numbers : attempt[o][n].state \in {"NONE"} \cup Retryable
        BY DEF Candidates
      <3>2. \A n : StateOf(<<o, n>>) = attempt[o][n].state
        BY DEF StateOf
      <3> QED
        BY <3>1, <3>2
    <2>3. \A n \in Numbers : ~Live(<<o, n>>)
      BY <2>2 DEF Live
    <2>4. spawned[o] = 0
      <3>1. ~(spawned[o] > 0)
        BY <2>0, <2>1, <2>3 DEF SpawnedLive
      <3> QED
        BY <2>1, <3>1
    <2>5. file = Garbage \/ \A n \in Numbers : <<o, n>> \notin file
      BY <2>0, <2>1, <2>3, IdParts, FileLive, LiveStates
    <2> QED
      BY <2>4, <2>5
  <1> QED
    BY <1>1, WorkerSafe, PTL

\* The worker asks a buyer about a delivery only when the item did spawn.
THEOREM AskedSafe == WSpec => []AskedSpawned
  <1>1. WorkerInv => AskedSpawned
    BY DEF WorkerInv
  <1> QED
    BY <1>1, WorkerSafe, PTL

\* With nothing unresolved the file holds what the ledger says is in it.
THEOREM FileSafe == WSpec => []FileMatchesLedger
  <1>1. WorkerInv => FileMatchesLedger
    <2> SUFFICES ASSUME WorkerInv, Untouched, Unresolved = "NONE" PROVE file = Staged
      BY DEF FileMatchesLedger
    <2>1. WTypeOK /\ WriteKept
      BY DEF WorkerInv
    <2>2. journal.outcome = "NONE"
      BY <2>1 DEF WriteKept, Unresolved
    <2> QED
      BY <2>1, <2>2 DEF WriteKept
  <1> QED
    BY <1>1, WorkerSafe, PTL

\* The journal's unique index never has to refuse a planned write.
THEOREM JournalFree == WSpec => []NeverOutstanding
  <1>1. WorkerInv => NeverOutstanding
    BY DEF WorkerInv, Orderly, Outstanding, NeverOutstanding
  <1> QED
    BY <1>1, WorkerSafe, PTL

\* When nothing fails, an item that spawned twice is never taken for delivered.
THEOREM SpawnedTwiceSafe == WSpec => []SpawnedTwiceReviewed
  <1>1. WorkerInv => SpawnedTwiceReviewed
    <2> SUFFICES ASSUME WorkerInv, Calm, NEW o \in Orders, NEW n \in Numbers, spawned[o] > 1,
                        attempt[o][n].state \in {"VERIFICATION_REQUIRED", "FULFILLED"}
                 PROVE  FALSE
      BY DEF SpawnedTwiceReviewed
    <2>1. <<o, n>> \in InState({"VERIFICATION_REQUIRED", "FULFILLED"}) /\ <<o, n>>[1] = o
      BY IdParts DEF InState, StateOf
    <2>2. spawned[o] <= 1
      BY <2>1 DEF WorkerInv, OnceCounted, DeliveredClean
    <2>3. spawned[o] \in Nat
      BY SettingType DEF WorkerInv, WTypeOK, Typed
    <2> QED
      BY <2>2, <2>3
  <1> QED
    BY <1>1, WorkerSafe, PTL

\* Unless something stops a pass, no review stays without a ticket.
THEOREM TicketsSafe == WSpec => []ReviewHasTicket
  <1>1. WorkerInv => ReviewHasTicket
    <2> SUFFICES ASSUME WorkerInv, Calm, pass.pc = "idle", NEW o \in Orders, NEW n \in Numbers,
                        attempt[o][n].state = "FAILED_REVIEW"
                 PROVE  ticket[o] # "NONE"
      BY DEF ReviewHasTicket
    <2>1. <<o, n>> \in Ids /\ <<o, n>>[1] = o /\ StateOf(<<o, n>>) = "FAILED_REVIEW"
      BY IdParts DEF StateOf
    <2> QED
      BY <2>1 DEF WorkerInv, Ticketed, Calm
  <1> QED
    BY <1>1, WorkerSafe, PTL
=============================================================================
