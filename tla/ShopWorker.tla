----------------------------- MODULE ShopWorker -----------------------------
(***************************************************************************)
(* The automatic delivery worker of one installation                       *)
(* (internal/shop/deliveryworker), its write journal, the one file it      *)
(* writes on the game server (internal/shop/missionwrite), the server's    *)
(* boots and the Shop database (ShopLedger) it works on.                   *)
(*                                                                         *)
(* A pass is a sequence of steps, one per database transaction or remote   *)
(* request; a boot, a purchase, a refund, an answer or a stop of the       *)
(* worker can come between any two.  The clock moves only between passes:  *)
(* a pass is cut off after three minutes, which is also Lead.  Passes of   *)
(* one installation do not overlap; PassLease says when that is so.        *)
(*                                                                         *)
(* An order becomes an object in the file under its attempt's id.  A boot  *)
(* reads the file once and spawns what it holds.  The boot is known to the *)
(* worker only when its log file is listed, some time later.         *)
(***************************************************************************)
EXTENDS ShopLedger, Sequences

CONSTANTS
    MaxStaged,  \* orders in the file at once (Config.MaxStaged)
    Lead,       \* StagingLeadTime
    Quiet,      \* StagingQuietPeriod
    Settings,   \* what may happen; one of them holds throughout a behaviour
    Garbage     \* a file Champion did not render

\* orders   the orders that may be placed, each with up to attempts attempts
\* faults   whether the worker may stop and remote requests may fail
\* resumes  whether a person resumes the installation
\* edits    whether somebody but the worker edits the file
\* delay    how long a boot's log file may take to be listed
\* time     bound on the clock;  boots: on boots after the first
Setting ==
    [orders : SUBSET Orders, attempts : Numbers, faults : BOOLEAN, resumes : BOOLEAN,
     edits : BOOLEAN, delay : Nat, time : Nat, boots : Nat]

ASSUME WorkerAssumption ==
    /\ MaxStaged \in Nat \ {0}
    /\ Lead \in Nat \ {0} /\ Quiet \in Nat
    /\ Settings \subseteq Setting
    /\ \A S \in SUBSET (Orders \X Numbers) : Garbage # S

VARIABLES
    file,     \* the Champion file: the attempts rendered in it, or Garbage
    boots,    \* the server's boots, oldest first
    listed,   \* how many of them have a listed log file
    now,
    spawned,  \* how often an item of the order spawned
    evidence, \* staged_at, staged_boot_file and restart_boot_file, by attempt
    journal,  \* the last row of shop_delivery_writes
    paused,   \* shop_auto_delivery_settings.paused_at
    pass,     \* what the running pass holds in memory
    setting   \* the setting of this behaviour

server == <<file, boots, listed, now, spawned>>
store == <<evidence, journal, paused>>
wvars == <<vars, server, store, pass, setting>>

-----------------------------------------------------------------------------
(* Attempts, as the worker reads them.                                     *)

Ids == Orders \X Numbers

StateOf(id) == attempt[id[1]][id[2]].state

InState(S) == {id \in Ids : StateOf(id) \in S}

Staged == InState(InFile)

Move(id, to) == Transition(id[1], id[2], to)

\* Open orders with no attempt but ones proven to have spawned nothing.
Candidates ==
    {o \in Orders :
        /\ OpenForAttempt(o)
        /\ \A n \in Numbers : attempt[o][n].state \in {"NONE"} \cup Retryable
        /\ \E n \in 1..setting.attempts : attempt[o][n].state = "NONE"}

\* The oldest orders first: any choice, as ids follow no order of Orders.
Chosen ==
    LET free == MaxStaged - Cardinality(Staged) - Cardinality(InState({"FILE_PREPARED"}))
    IN  {C \in SUBSET Candidates :
            \/ free > 0 /\ Cardinality(C) = free
            \/ free > 0 /\ C = Candidates /\ Cardinality(C) < free
            \/ free <= 0 /\ C = {}}

NoWrite == [outcome |-> "NONE", kind |-> "STAGE", ids |-> {}, before |-> {}, payload |-> {},
            boot |-> 0, at |-> 0, resolved |-> FALSE]

\* The outcome of the write nobody resolved yet, if there is one.
Unresolved == IF journal.resolved THEN "NONE" ELSE journal.outcome

NoEvidence == [at |-> 0, boot |-> 0, observed |-> 0]

\* pc     where the pass is
\* todo   attempts the current loop still has to handle
\* ids    attempts of the write;  failing: those of them that go to review
\* cand   orders to stage
\* file, listed   the snapshot the pass decides on
\* ticket the order whose ticket fail() still has to open
NoPass == [pc |-> "idle", todo |-> {}, ids |-> {}, failing |-> {}, cand |-> {}, kind |-> "STAGE",
           file |-> {}, listed |-> 0, outcome |-> "NONE", ticket |-> {}]

WInit ==
    /\ Init
    /\ file = {}
    /\ boots = <<[start |-> -Quiet, good |-> TRUE]>>
    /\ listed = 1
    /\ now = 0
    /\ spawned = [o \in Orders |-> 0]
    /\ evidence = [id \in Ids |-> NoEvidence]
    /\ journal = NoWrite
    /\ paused = FALSE
    /\ pass = NoPass
    /\ setting \in Settings

At(pc) == pass.pc = pc /\ pass.ticket = {}

Done(id) == [pass EXCEPT !.todo = @ \ {id}]

\* The installation is paused and the pass ends.
PauseNow == paused' = TRUE /\ pass' = NoPass

-----------------------------------------------------------------------------
(* The buyers' answers (askBuyers, deliver).                               *)

StartPass ==
    /\ pass.pc = "idle"
    /\ ~paused
    /\ pass' = [NoPass EXCEPT !.pc = "ask", !.todo = InState({"VERIFICATION_REQUIRED"})]
    /\ UNCHANGED <<vars, server, store>>

FailSilently(id) == \* mutant: staff are not told
    /\ Move(id, "FAILED_REVIEW")
    /\ pass' = [Done(id) EXCEPT !.ids = @ \ {id}]

\* The attempt goes to review; its ticket is opened by the next step.
Fail(id) ==
    /\ Move(id, "FAILED_REVIEW")
    /\ pass' = [Done(id) EXCEPT !.ids = @ \ {id}, !.ticket = {id[1]}]

\* Nobody was asked yet: the server's logs of the boots from the observed
\* one on, as far as they were read, decide.
AskDeliver(id) ==
    /\ At("ask") /\ id \in pass.todo
    /\ confirmation[id[1]] = "NONE"
    /\ \E read \in (evidence[id].observed - 1)..Len(boots) :
        LET log == {boots[b] : b \in evidence[id].observed..read}
        IN  \/ /\ \E b \in log : ~b.good
               /\ Fail(id)
            \/ /\ log # {} /\ \A b \in log : b.good
               /\ OpenForDelivered(id[1])
               /\ pass' = Done(id)
            \/ /\ log = {}
               /\ UNCHANGED vars
               /\ pass' = Done(id)
            \/ /\ log = {} \* nothing after LogEvidenceWait
               /\ Fail(id)
    /\ UNCHANGED <<server, store>>

AskFulfil(id) ==
    /\ At("ask") /\ id \in pass.todo
    /\ FulfillAttemptByBuyer(id[1], id[2])
    /\ pass' = Done(id)
    /\ UNCHANGED <<server, store>>

\* The buyer's own ticket is open: no other is.
AskIssue(id) ==
    /\ At("ask") /\ id \in pass.todo
    /\ confirmation[id[1]] = "ISSUE_REPORTED"
    /\ Move(id, "FAILED_REVIEW")
    /\ pass' = Done(id)
    /\ UNCHANGED <<server, store>>

AskWait(id) ==
    /\ At("ask") /\ id \in pass.todo
    /\ confirmation[id[1]] = "AWAITING_BUYER"
    /\ pass' = Done(id)
    /\ UNCHANGED <<vars, server, store>>

\* An order that has an open ticket keeps that one.
OpenTicket ==
    /\ \E o \in pass.ticket :
        \/ OpenSystemTicket(o)
        \/ ticket[o] = "OPEN" /\ UNCHANGED vars
    /\ pass' = [pass EXCEPT !.ticket = {}]
    /\ UNCHANGED <<server, store>>

-----------------------------------------------------------------------------
(* The snapshot, and an interrupted write (run, recover).                  *)

LookUncertain ==
    /\ At("ask") /\ pass.todo = {}
    /\ Unresolved = "UNCERTAIN"
    /\ PauseNow
    /\ UNCHANGED <<vars, server, evidence, journal>>

LookNothing ==
    /\ At("ask") /\ pass.todo = {}
    /\ Unresolved = "NONE"
    /\ InState({"PLAN_CREATED", "FILE_PREPARED"} \cup InFile) = {} /\ {} \in Chosen
    /\ pass' = NoPass
    /\ UNCHANGED <<vars, server, store>>

\* There is something to do and the snapshot was read.
Look ==
    /\ At("ask") /\ pass.todo = {}
    /\ Unresolved # "UNCERTAIN"
    /\ UNCHANGED <<vars, server, evidence>>

LookForeign ==
    /\ Look
    /\ \/ Unresolved = "STARTED"
       \/ InState({"PLAN_CREATED", "FILE_PREPARED"} \cup InFile) # {}
       \/ {} \notin Chosen
    /\ file = Garbage
    /\ PauseNow
    /\ UNCHANGED journal

\* Attempts that never reached the journal are abandoned next.
AbandonNext(C) ==
    pass' = [pass EXCEPT !.pc = "abandon", !.todo = InState({"PLAN_CREATED", "FILE_PREPARED"}),
                         !.cand = C, !.file = file, !.listed = listed]

LookCleanAnyway == \* mutant: an interrupted write is not looked for
    /\ Look
    /\ file # Garbage
    /\ \E C \in Chosen :
        /\ C # {} \/ InState({"PLAN_CREATED", "FILE_PREPARED"} \cup InFile) # {}
        /\ AbandonNext(C)
    /\ UNCHANGED <<journal, paused>>

LookClean ==
    /\ Look
    /\ Unresolved = "NONE"
    /\ file # Garbage
    /\ \E C \in Chosen :
        /\ C # {} \/ InState({"PLAN_CREATED", "FILE_PREPARED"} \cup InFile) # {}
        /\ AbandonNext(C)
    /\ UNCHANGED <<journal, paused>>

\* What was decided about each attempt is lost; one that had not reached
\* UNSTAGE_REQUIRED goes to review.
RecoverFailing(ids) == {id \in ids : StateOf(id) # "UNSTAGE_REQUIRED"}

\* The interrupted write landed: the ledger is redone from the file.
RecoverLanded ==
    /\ Look
    /\ Unresolved = "STARTED"
    /\ file = journal.payload
    /\ LET ids == journal.ids \cap
                    IF journal.kind = "STAGE" THEN InState({"FILE_PREPARED"}) ELSE Staged
       IN  pass' = [pass EXCEPT !.pc = "after", !.kind = journal.kind, !.ids = ids,
                                !.failing = IF journal.kind = "STAGE" THEN {} ELSE RecoverFailing(ids),
                                !.outcome = "WRITTEN_VERIFIED"]
    /\ UNCHANGED <<journal, paused>>

\* It did not land: the pass goes on, and stages nothing.
RecoverUnchanged ==
    /\ Look
    /\ Unresolved = "STARTED"
    /\ file = journal.before
    /\ journal' = NoWrite
    /\ AbandonNext({})
    /\ UNCHANGED paused

\* The file is neither: the write is uncertain, and then the pass pauses.
RecoverOdd ==
    /\ Look
    /\ Unresolved = "STARTED"
    /\ file \notin {Garbage, journal.payload, journal.before}
    /\ journal' = [journal EXCEPT !.outcome = "UNCERTAIN"]
    /\ pass' = [pass EXCEPT !.pc = "pause"]
    /\ UNCHANGED paused

PauseOdd ==
    /\ At("pause")
    /\ PauseNow
    /\ UNCHANGED <<vars, server, evidence, journal>>

\* Refused, and the pass over, when the order was closed meanwhile.
AbandonUnwritten(id) ==
    /\ At("abandon") /\ id \in pass.todo
    /\ \/ Move(id, "ABANDONED") /\ pass' = Done(id)
       \/ StateOf(id) = "ABANDONED" /\ pass' = NoPass /\ UNCHANGED vars
    /\ UNCHANGED <<server, store>>

\* The file must hold what the ledger says is staged.
CheckFile ==
    /\ At("abandon") /\ pass.todo = {}
    /\ IF pass.file = Staged
         THEN /\ pass' = [pass EXCEPT !.pc = "decide", !.todo = Staged]
              /\ UNCHANGED paused
         ELSE PauseNow
    /\ UNCHANGED <<vars, server, evidence, journal>>

-----------------------------------------------------------------------------
(* The restart rules (decide).                                             *)

\* Listed boots newer than the one the attempt was staged in.
Newer(id) == pass.listed - evidence[id].boot

UnclearTwice(id) == Newer(id) >= 2 \* mutant: the lead time is overlooked

\* Two restarts, or one that began before the staging or too soon after it.
Unclear(id) ==
    \/ Newer(id) >= 2
    \/ boots[evidence[id].boot + 1].start - evidence[id].at < Lead

DecideWait(id) ==
    /\ At("decide") /\ id \in pass.todo
    /\ Newer(id) = 0
    /\ IF StateOf(id) = "FILE_STAGED" THEN Move(id, "AWAITING_RESTART") ELSE UNCHANGED vars
    /\ pass' = Done(id)
    /\ UNCHANGED <<server, store>>

DecideUnclear(id) ==
    /\ At("decide") /\ id \in pass.todo
    /\ Newer(id) > 0 /\ Unclear(id)
    /\ pass' = [Done(id) EXCEPT !.ids = @ \cup {id}, !.failing = @ \cup {id}]
    /\ UNCHANGED <<vars, server, store>>

\* One clean restart: the attempt is moved to UNSTAGE_REQUIRED, step by step.
DecideClean(id) ==
    /\ At("decide") /\ id \in pass.todo
    /\ Newer(id) > 0 /\ ~Unclear(id)
    /\ \/ StateOf(id) = "FILE_STAGED" /\ Move(id, "AWAITING_RESTART")
          /\ UNCHANGED <<pass, evidence>>
       \/ StateOf(id) = "AWAITING_RESTART" /\ Move(id, "RESTART_OBSERVED")
          /\ evidence' = [evidence EXCEPT ![id].observed = evidence[id].boot + 1]
          /\ UNCHANGED pass
       \/ StateOf(id) = "RESTART_OBSERVED" /\ Move(id, "UNSTAGE_REQUIRED")
          /\ UNCHANGED <<pass, evidence>>
       \/ StateOf(id) = "UNSTAGE_REQUIRED" /\ UNCHANGED <<vars, evidence>>
          /\ pass' = [Done(id) EXCEPT !.ids = @ \cup {id}]
    /\ UNCHANGED <<server, journal, paused>>

\* At most one write: a removal first, else staging in a boot old enough.
DecideWrite ==
    /\ At("decide") /\ pass.todo = {}
    /\ pass' = IF pass.ids # {}
                 THEN [pass EXCEPT !.pc = "begin", !.kind = "UNSTAGE"]
               ELSE IF pass.cand # {} /\ now - boots[pass.listed].start >= Quiet
                 THEN [pass EXCEPT !.pc = "plan"]
               ELSE NoPass
    /\ UNCHANGED <<vars, server, store>>

-----------------------------------------------------------------------------
(* Planning (plan): two transactions for each order; either may be         *)
(* refused because the order was closed meanwhile.                         *)

PlanCreate(o) ==
    /\ At("plan") /\ pass.todo = {} /\ o \in pass.cand
    /\ \/ \E n \in Numbers :
            /\ n <= setting.attempts
            /\ Create(o, n, "BUYER")
            /\ pass' = [pass EXCEPT !.cand = @ \ {o}, !.todo = {<<o, n>>}]
       \/ /\ ~OpenForAttempt(o)
          /\ pass' = [pass EXCEPT !.cand = @ \ {o}]
          /\ UNCHANGED vars
    /\ UNCHANGED <<server, store>>

PlanPrepare(id) ==
    /\ At("plan") /\ id \in pass.todo
    /\ \/ Move(id, "FILE_PREPARED") /\ pass' = [Done(id) EXCEPT !.ids = @ \cup {id}]
       \/ ~(StateOf(id) = "PLAN_CREATED" /\ OpenForAttempt(id[1])) /\ pass' = Done(id) /\ UNCHANGED vars
    /\ UNCHANGED <<server, store>>

PlanDone ==
    /\ At("plan") /\ pass.todo = {} /\ pass.cand = {}
    /\ pass' = IF pass.ids # {} THEN [pass EXCEPT !.pc = "begin", !.kind = "STAGE"] ELSE NoPass
    /\ UNCHANGED <<vars, server, store>>

-----------------------------------------------------------------------------
(* The write (journal, WriteArtifact) and its record (afterStage,          *)
(* afterUnstage, settle).                                                  *)

\* Refused while a write is unresolved (uq_shop_delivery_writes_unresolved).
BeginWrite ==
    /\ At("begin")
    /\ Unresolved = "NONE"
    /\ journal' = [outcome |-> "STARTED", kind |-> pass.kind, ids |-> pass.ids,
                   before |-> pass.file,
                   payload |-> IF pass.kind = "STAGE" THEN Staged \cup pass.ids ELSE Staged \ pass.ids,
                   boot |-> pass.listed, at |-> now, resolved |-> FALSE]
    /\ pass' = [pass EXCEPT !.pc = "verify"]
    /\ UNCHANGED <<vars, server, evidence, paused>>

\* Nothing is sent when the snapshot is stale or cannot be read again.
Verify ==
    /\ At("verify")
    /\ \/ /\ listed = pass.listed /\ file = pass.file
          /\ pass' = [pass EXCEPT !.pc = "upload"]
       \/ /\ listed # pass.listed \/ file # pass.file \/ setting.faults
          /\ pass' = [pass EXCEPT !.pc = "after", !.outcome = "NOT_WRITTEN"]
    /\ UNCHANGED <<vars, server, store>>

\* The upload lands, is refused, or goes wrong on the way.
Upload ==
    /\ At("upload")
    /\ file' \in {file, journal.payload} \cup IF setting.faults THEN {Garbage} ELSE {}
    /\ pass' = [pass EXCEPT !.pc = "readback"]
    /\ UNCHANGED <<vars, boots, listed, now, spawned, store>>

OutcomeUnread(outcome) == \* mutant: an unreadable file counts as unchanged
    \/ outcome = "WRITTEN_VERIFIED" /\ file = journal.payload
    \/ outcome = "NOT_WRITTEN" /\ (setting.faults \/ file = journal.before)
    \/ outcome = "UNCERTAIN" /\ file \notin {journal.payload, journal.before}

\* The file read back decides the outcome.
Outcome(outcome) ==
    \/ outcome = "WRITTEN_VERIFIED" /\ file = journal.payload
    \/ outcome = "NOT_WRITTEN" /\ file = journal.before
    \/ outcome = "UNCERTAIN" /\ (setting.faults \/ file \notin {journal.payload, journal.before})

RestartIgnored(seen) == {} \* mutant: a boot during the write is not looked for

\* A new boot listed during a removal sends its attempts to review, unless
\* the list could not be read (Unverified).
RestartDuring(seen) == IF seen THEN pass.ids ELSE {}

ReadBack ==
    /\ At("readback")
    /\ \E outcome \in {"WRITTEN_VERIFIED", "NOT_WRITTEN", "UNCERTAIN"} :
        /\ Outcome(outcome)
        /\ \E seen \in {listed # pass.listed} \cup IF setting.faults THEN {FALSE} ELSE {} :
            pass' = [pass EXCEPT !.pc = "after", !.outcome = outcome,
                                 !.failing = @ \cup IF pass.kind = "UNSTAGE" THEN RestartDuring(seen) ELSE {}]
    /\ UNCHANGED <<vars, server, store>>

AfterUncertain ==
    /\ At("after") /\ pass.outcome = "UNCERTAIN"
    /\ paused' = TRUE
    /\ pass' = [pass EXCEPT !.pc = "settle"]
    /\ UNCHANGED <<vars, server, evidence, journal>>

AfterStage(id) ==
    /\ At("after") /\ pass.kind = "STAGE" /\ id \in pass.ids
    /\ \/ /\ pass.outcome = "NOT_WRITTEN"
          /\ Move(id, "ABANDONED")
          /\ UNCHANGED evidence
       \/ /\ pass.outcome = "WRITTEN_VERIFIED"
          /\ Move(id, "FILE_STAGED")
          /\ evidence' = [evidence EXCEPT ![id] = [at |-> journal.at, boot |-> journal.boot, observed |-> 0]]
    /\ pass' = [pass EXCEPT !.ids = @ \ {id}]
    /\ UNCHANGED <<server, journal, paused>>

AfterUnstage(id) ==
    /\ At("after") /\ pass.kind = "UNSTAGE" /\ id \in pass.ids
    /\ pass.outcome = "WRITTEN_VERIFIED"
    /\ IF id \in pass.failing
         THEN Fail(id)
         ELSE /\ Move(id, "VERIFICATION_REQUIRED")
              /\ pass' = [pass EXCEPT !.ids = @ \ {id}]
    /\ UNCHANGED <<server, store>>

SettleFirst == \* mutant: the row is finished before the ledger is updated
    /\ pass.pc = "after" /\ pass.outcome # "UNCERTAIN"
    /\ journal' = NoWrite
    /\ UNCHANGED <<vars, server, evidence, paused, pass>>

\* The journal row is finished only once the ledger reflects the write.
Settle ==
    /\ pass.ticket = {}
    /\ \/ pass.pc = "settle"
       \/ pass.pc = "after" /\ pass.outcome # "UNCERTAIN" /\ pass.ids = {}
       \/ pass.pc = "after" /\ pass.outcome = "NOT_WRITTEN" /\ pass.kind = "UNSTAGE"
    /\ journal' = IF pass.outcome = "UNCERTAIN" THEN [journal EXCEPT !.outcome = "UNCERTAIN"] ELSE NoWrite
    /\ pass' = NoPass
    /\ UNCHANGED <<vars, server, evidence, paused>>

\* The process dies, the pass times out, or a call it cannot do without
\* fails: nothing of the pass survives but what it wrote.
Stop ==
    /\ setting.faults
    /\ pass.pc # "idle"
    /\ pass' = NoPass
    /\ UNCHANGED <<vars, server, store>>

PassStep ==
    \/ StartPass \/ OpenTicket
    \/ \E id \in Ids : AskDeliver(id) \/ AskFulfil(id) \/ AskIssue(id) \/ AskWait(id)
    \/ LookUncertain \/ LookNothing \/ LookForeign \/ LookClean
    \/ RecoverLanded \/ RecoverUnchanged \/ RecoverOdd \/ PauseOdd
    \/ \E id \in Ids : AbandonUnwritten(id)
    \/ CheckFile
    \/ \E id \in Ids : DecideWait(id) \/ DecideUnclear(id) \/ DecideClean(id)
    \/ DecideWrite
    \/ \E o \in Orders : PlanCreate(o)
    \/ \E id \in Ids : PlanPrepare(id)
    \/ PlanDone
    \/ BeginWrite \/ Verify \/ Upload \/ ReadBack
    \/ AfterUncertain
    \/ \E id \in Ids : AfterStage(id) \/ AfterUnstage(id)
    \/ Settle

-----------------------------------------------------------------------------
(* The server, the clock and the people.                                   *)

\* A boot spawns what the file holds, unless the spawner fails.
Boot(good) ==
    /\ Len(boots) <= setting.boots
    /\ now > boots[Len(boots)].start
    /\ boots' = Append(boots, [start |-> now, good |-> good])
    /\ spawned' = [o \in Orders |->
                     IF good /\ file # Garbage /\ \E n \in Numbers : <<o, n>> \in file
                       THEN spawned[o] + 1 ELSE spawned[o]]
    /\ listed' = IF setting.delay = 0 THEN Len(boots') ELSE listed
    /\ UNCHANGED <<vars, file, now, store, pass>>

List ==
    /\ listed < Len(boots)
    /\ listed' = listed + 1
    /\ UNCHANGED <<vars, file, boots, now, spawned, store, pass>>

Tick ==
    /\ pass.pc = "idle"
    /\ now < setting.time
    /\ \A b \in (listed + 1)..Len(boots) : now < boots[b].start + setting.delay
    /\ now' = now + 1
    /\ UNCHANGED <<vars, file, boots, listed, spawned, store, pass>>

\* A person lets the worker go on: the pause goes, and an unresolved write
\* counts as resolved.
Resume ==
    /\ setting.resumes
    /\ paused \/ Unresolved # "NONE"
    /\ paused' = FALSE
    /\ journal' = [journal EXCEPT !.resolved = journal.outcome # "NONE"]
    /\ UNCHANGED <<vars, server, evidence, pass>>

\* Before that, the file is put back as the ledger expects it.
Repair ==
    /\ setting.resumes
    /\ paused /\ file # Staged
    /\ file' = Staged
    /\ UNCHANGED <<vars, boots, listed, now, spawned, store, pass>>

\* An owner restores an earlier file, or writes one of his own.
Edit ==
    /\ setting.edits
    /\ file' \in {Garbage, {}} \cup {{id} : id \in setting.orders \X (1..setting.attempts)}
    /\ UNCHANGED <<vars, boots, listed, now, spawned, store, pass>>

\* A person who resolves a review checked in game, and is right.
Truth(o) == IF spawned[o] > 0 THEN "SPAWNED" ELSE "NOT_SPAWNED"

People ==
    /\ \E o \in setting.orders :
        \/ Purchase(o) \/ Fulfill(o) \/ Refund(o)
        \/ ConfirmReceived(o) \/ AutoCompleteDue({o}) \/ ReportIssue(o)
        \/ ResolveTicket(o)
        \/ \E n \in Numbers : ResolveReview(o, n, Truth(o))
    /\ UNCHANGED <<server, store, pass>>

WNext ==
    /\ \/ PassStep
       \/ Stop
       \/ \E good \in BOOLEAN : Boot(good)
       \/ List
       \/ Tick
       \/ Resume \/ Repair \/ Edit
       \/ People
    /\ UNCHANGED setting

WSpec == WInit /\ [][WNext]_wvars

-----------------------------------------------------------------------------
(* Properties.                                                             *)

\* Nobody resumes the installation or edits its file.
Untouched == ~setting.resumes /\ ~setting.edits

\* Nothing fails either, and boots are listed at once.
Calm == Untouched /\ ~setting.faults /\ setting.delay = 0

\* The worker, the people and the server together keep the promise of
\* ShopPromise: an item spawns only while its order is open, and an order is
\* cancelled for its points only if nothing spawned, whatever boot, refund,
\* review, staging and recovery happened around one another, while nobody
\* else touches the file.
Phase(o) ==
    CASE delivery[o] = "NONE" -> "NONE"
      [] delivery[o] = "MANUAL_READY" -> "OPEN"
      [] delivery[o] = "FULFILLED" -> "DELIVERED"
      [] delivery[o] = "CANCELLED" -> "CANCELLED"

Promise == INSTANCE ShopPromise WITH
    phase <- [o \in Orders |-> IF Untouched THEN Phase(o) ELSE "NONE"],
    items <- [o \in Orders |-> IF Untouched THEN spawned[o] ELSE 0]

PromiseKept == Promise!PSpec

\* An order the worker may stage again has spawned nothing so far and is not
\* in the file now.
CandidateClean ==
    Untouched =>
        \A o \in Candidates :
            /\ spawned[o] = 0
            /\ file = Garbage \/ \A n \in Numbers : <<o, n>> \notin file

\* A buyer is asked about an order before it is closed only when its item
\* did spawn.
AskedSpawned ==
    Untouched => \A o \in Orders :
        purchase[o] = "PENDING_FULFILLMENT" /\ confirmation[o] # "NONE" => spawned[o] > 0

\* Between passes, with no write unresolved and no pause, the file holds
\* exactly the attempts the ledger says are in it.
FileMatchesLedger ==
    Untouched /\ pass.pc = "idle" /\ Unresolved = "NONE" /\ ~paused => file = Staged

\* A pass plans only orders of which nothing spawned: it never stages an
\* order again after an attempt that might have.
PlansOnlyUnspawned ==
    pass.pc = "plan" => \A o \in pass.cand : spawned[o] = 0

\* An item that spawned twice is in review, or will be: its attempt is still
\* in the file.  It is never taken for one that was delivered cleanly.
SpawnedTwiceReviewed ==
    Calm => \A o \in Orders, n \in Numbers :
        spawned[o] > 1 => attempt[o][n].state \notin {"VERIFICATION_REQUIRED", "FULFILLED"}

\* A pass that planned a write finds no other one unfinished or uncertain:
\* the journal's unique index, which would refuse the write and strand the
\* prepared orders, never has to, however passes stopped, people resumed and
\* owners edited the file before.
NeverOutstanding == pass.pc = "begin" => Unresolved = "NONE"

\* Between passes that nothing stopped, every attempt in review has had a ticket opened.
ReviewHasTicket ==
    Calm /\ pass.pc = "idle" =>
        \A o \in Orders, n \in Numbers : attempt[o][n].state = "FAILED_REVIEW" => ticket[o] # "NONE"

Pass ==
    [pc : {"idle", "ask", "pause", "abandon", "decide", "plan", "begin", "verify", "upload",
           "readback", "after", "settle"},
     todo : SUBSET Ids, ids : SUBSET Ids, failing : SUBSET Ids, cand : SUBSET Orders,
     kind : {"STAGE", "UNSTAGE"}, file : SUBSET Ids, listed : 0..Len(boots),
     outcome : {"NONE", "NOT_WRITTEN", "WRITTEN_VERIFIED", "UNCERTAIN"}, ticket : SUBSET Orders]

Journal ==
    [outcome : {"NONE", "STARTED", "UNCERTAIN"}, kind : {"STAGE", "UNSTAGE"}, ids : SUBSET Ids,
     before : SUBSET Ids, payload : SUBSET Ids, boot : 0..Len(boots), at : 0..setting.time,
     resolved : BOOLEAN]

WTypeOK ==
    /\ TypeOK
    /\ setting \in Settings
    /\ file = Garbage \/ file \subseteq Ids
    /\ boots \in Seq([start : Int, good : BOOLEAN]) /\ Len(boots) \in 1..(setting.boots + 1)
    /\ listed \in 1..Len(boots)
    /\ now \in 0..setting.time
    /\ spawned \in [Orders -> 0..setting.boots]
    /\ evidence \in [Ids -> [at : 0..setting.time, boot : 0..Len(boots), observed : 0..Len(boots)]]
    /\ paused \in BOOLEAN
    /\ journal \in Journal
    /\ pass \in Pass
=============================================================================
