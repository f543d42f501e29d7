------------------------------ MODULE KillLog ------------------------------
(***************************************************************************)
(* The killfeed pipeline of one game server, in every bot process that     *)
(* runs it (internal/killfeed): the engine that follows the server's ADM   *)
(* log, the persistence queue behind it, and the rows they leave.          *)
(*                                                                         *)
(* Every boot of the server starts a new log file.  A line stands for one  *)
(* persisted event (a kill or a death), and a byte offset for the number   *)
(* of complete lines before it.  Nitrado's listing of a file lags behind   *)
(* what a download returns, and a new file is listed late.                 *)
(*                                                                         *)
(* Two lines never have the same fingerprint.  The in-memory deduplicator  *)
(* is left out: it only spares the queue a line whose row is stored.       *)
(***************************************************************************)
EXTENDS Naturals, Sequences, FiniteSets

CONSTANTS
    Processes,  \* bot processes on one database
    MaxBoots,   \* bound on the server's boots
    MaxLines,   \* bound on the lines of one log file
    MaxWritten, \* bound on the lines of all log files
    MaxFaults,  \* bound on failed requests, database errors and timeouts
    MaxCrashes, \* bound on processes that stop
    None

Boots == 1..MaxBoots
Line == Boots \X (1..MaxLines)

ASSUME KillLogAssumption ==
    /\ MaxBoots \in Nat \ {0} /\ MaxLines \in Nat /\ MaxWritten \in Nat
    /\ MaxFaults \in Nat /\ MaxCrashes \in Nat
    /\ None \notin Line
    /\ None \notin [boot : Boots, off : 0..MaxLines]
    /\ None \notin [pos : 0..MaxLines, end : 0..MaxLines, ok : BOOLEAN]

VARIABLES
    boot,       \* the server's current boot
    written,    \* lines in each boot's file
    listed,     \* the lines Nitrado's listing shows of each file
    listedBoot, \* the newest boot whose file is listed
    stored,     \* lines with a row in kills or deaths
    ckpt,       \* the server's row in adm_checkpoints, or None
    posts,      \* cards handed to the Discord feeds, by line
    skipped,    \* history: lines passed over by a process that started
    left,       \* history: lines passed over by a process that changed files
    sel,        \* the boot whose file a process follows, 0 when it follows none
    next,       \* the boot it is about to change to, or 0
    off,        \* tracker.LastByteOffset
    hint,       \* directSizeHint: the size a stale probe proved
    batch,      \* the download being worked through, or None
    waits,      \* whether the engine waits for the queue's answer
    queue,      \* the persistence queue
    fresh,      \* the line the queue's consumer has just inserted, or None
    last,       \* the line of the process's last card, or None
    faults, crashes

env == <<boot, written, listed, listedBoot>>
rows == <<stored, ckpt, posts, skipped, left>>
engine == <<sel, next, off, hint, batch, waits>>
consumer == <<queue, fresh, last>>
vars == <<env, rows, engine, consumer, faults, crashes>>

Checkpoint == [boot : Boots, off : 0..MaxLines]
Batch == [pos : 0..MaxLines, end : 0..MaxLines, ok : BOOLEAN]

TypeOK ==
    /\ boot \in Boots /\ listedBoot \in 1..boot
    /\ written \in [Boots -> 0..MaxLines]
    /\ listed \in [Boots -> 0..MaxLines]
    /\ stored \subseteq Line /\ skipped \subseteq Line /\ left \subseteq Line
    /\ ckpt \in Checkpoint \cup {None}
    /\ posts \in [Line -> Nat]
    /\ sel \in [Processes -> 0..MaxBoots]
    /\ next \in [Processes -> 0..MaxBoots]
    /\ off \in [Processes -> 0..MaxLines]
    /\ hint \in [Processes -> 0..MaxLines]
    /\ batch \in [Processes -> Batch \cup {None}]
    /\ waits \in [Processes -> BOOLEAN]
    /\ queue \in [Processes -> Seq(Line)]
    /\ fresh \in [Processes -> Line \cup {None}]
    /\ last \in [Processes -> Line \cup {None}]
    /\ faults \in 0..MaxFaults /\ crashes \in 0..MaxCrashes

Init ==
    /\ boot = 1 /\ listedBoot = 1
    /\ written = [b \in Boots |-> 0]
    /\ listed = [b \in Boots |-> 0]
    /\ stored = {} /\ skipped = {} /\ left = {}
    /\ ckpt = None
    /\ posts = [l \in Line |-> 0]
    /\ sel = [p \in Processes |-> 0] /\ next = [p \in Processes |-> 0]
    /\ off = [p \in Processes |-> 0]
    /\ hint = [p \in Processes |-> 0]
    /\ batch = [p \in Processes |-> None]
    /\ waits = [p \in Processes |-> FALSE]
    /\ queue = [p \in Processes |-> <<>>]
    /\ fresh = [p \in Processes |-> None]
    /\ last = [p \in Processes |-> None]
    /\ faults = 0 /\ crashes = 0

\* A request or a query fails.
Fault == faults < MaxFaults /\ faults' = faults + 1
NoFault == UNCHANGED faults

Earlier(l, m) == l[1] < m[1] \/ (l[1] = m[1] /\ l[2] < m[2])

Written == {l \in Line : l[2] <= written[l[1]]}

\* The lines written before position n of boot b's file.
Upto(b, n) == {l \in Written : l[1] < b \/ (l[1] = b /\ l[2] <= n)}

Accounted == stored \cup skipped \cup left

-----------------------------------------------------------------------------
(* The game server and Nitrado's file API.                                  *)

WriteLine ==
    /\ written[boot] < MaxLines /\ Cardinality(Written) < MaxWritten
    /\ written' = [written EXCEPT ![boot] = @ + 1]
    /\ UNCHANGED <<boot, listed, listedBoot, rows, engine, consumer, faults, crashes>>

Reboot ==
    /\ boot < MaxBoots
    /\ boot' = boot + 1
    /\ UNCHANGED <<written, listed, listedBoot, rows, engine, consumer, faults, crashes>>

\* The listing shows more of a file.
ListLines(b) ==
    /\ \E n \in (listed[b] + 1)..written[b] : listed' = [listed EXCEPT ![b] = n]
    /\ UNCHANGED <<boot, written, listedBoot, rows, engine, consumer, faults, crashes>>

\* A boot's file is listed and its header can be read.
ListBoot ==
    /\ listedBoot < boot
    /\ listedBoot' = listedBoot + 1
    /\ UNCHANGED <<boot, written, listed, rows, engine, consumer, faults, crashes>>

-----------------------------------------------------------------------------
(* Choosing a file.                                                         *)

\* saveDurableCheckpoint, which may fail; the checkpoint is overwritten
\* whatever it says.
Save(b, n) ==
    \/ ckpt' = [boot |-> b, off |-> n] /\ NoFault
    \/ UNCHANGED ckpt /\ Fault

Names(b) == ckpt # None /\ ckpt.boot = b

Follow(p, b, n) ==
    /\ sel' = [sel EXCEPT ![p] = b]
    /\ off' = [off EXCEPT ![p] = n]
    /\ hint' = [hint EXCEPT ![p] = 0]

\* A process starts and resumes the newest boot's file at its checkpoint.
Resume(p) ==
    /\ sel[p] = 0 /\ Names(listedBoot)
    /\ Follow(p, listedBoot, ckpt.off)
    /\ NoFault
    /\ UNCHANGED <<env, rows, next, batch, waits, consumer, crashes>>

\* The checkpoint is of another file, or there is none: a cold start begins
\* at the end of the file as it is listed.
ColdStart(p) ==
    LET tail == listed[listedBoot]
    IN  /\ sel[p] = 0 /\ ~Names(listedBoot)
        /\ Follow(p, listedBoot, tail)
        /\ skipped' = skipped \cup (Upto(listedBoot, tail) \ Accounted)
        /\ Save(listedBoot, tail)
        /\ UNCHANGED <<env, stored, posts, left, next, batch, waits, consumer, crashes>>

\* The checkpoint cannot be loaded: the file is read from its beginning.
BlindStart(p) ==
    /\ sel[p] = 0 /\ Fault
    /\ Follow(p, listedBoot, 0)
    /\ skipped' = skipped \cup (Upto(listedBoot, 0) \ Accounted)
    /\ UNCHANGED <<env, stored, ckpt, posts, left, next, batch, waits, consumer, crashes>>

Idle(p) == sel[p] # 0 /\ next[p] = 0 /\ batch[p] = None

Download(p, from, to) ==
    batch' = [batch EXCEPT ![p] = [pos |-> from, end |-> to, ok |-> TRUE]]

NewerBoots(p) == {b \in 1..listedBoot : b > sel[p]}

\* A newer boot is found: the newest whose header can be read at the time.
\* The rest of the old file is read first, but only when the listing shows a
\* rest and the download succeeds.
FindBoot(p) ==
    /\ Idle(p)
    /\ \E b \in NewerBoots(p) : next' = [next EXCEPT ![p] = b]
    /\ \/ listed[sel[p]] > off[p] /\ Download(p, off[p], written[sel[p]]) /\ NoFault
       \/ listed[sel[p]] <= off[p] /\ UNCHANGED batch /\ NoFault
       \/ UNCHANGED batch /\ Fault
    /\ UNCHANGED <<env, rows, sel, off, hint, waits, consumer, crashes>>

\* The process changes to the newer boot's file, at the checkpoint another
\* process may have left there, and never returns to the older one.
ChangeFile(p) ==
    LET b == next[p]
    IN  /\ b # 0 /\ batch[p] = None
        /\ next' = [next EXCEPT ![p] = 0]
        /\ left' = left \cup (Upto(b, 0) \ Accounted)
        /\ \/ /\ Names(b) /\ NoFault
              /\ Follow(p, b, ckpt.off)
           \/ Follow(p, b, 0) /\ IF Names(b) THEN Fault ELSE NoFault
        /\ UNCHANGED <<env, stored, ckpt, posts, skipped, batch, waits, consumer, crashes>>

-----------------------------------------------------------------------------
(* Reading the file.                                                        *)

\* The listing is shorter than what was read, and no stale probe has proved
\* the file that long.
LooksTruncated(p) == listed[sel[p]] < off[p] /\ hint[p] < off[p]

\* A poll that sees the file changed reads on.  Whether the listing shows a
\* change is left open; a full download returns the file as it is, a partial
\* read what is listed.
Read(p) ==
    LET from == IF LooksTruncated(p) THEN 0 ELSE off[p]
        b == sel[p]
    IN  /\ Idle(p)
        /\ off' = [off EXCEPT ![p] = from]
        /\ \/ Download(p, from, written[b]) /\ NoFault
           \/ from > 0 /\ listed[b] > from /\ Download(p, from, listed[b]) /\ NoFault
           \/ UNCHANGED batch /\ Fault
        /\ UNCHANGED <<env, rows, sel, next, hint, waits, consumer, crashes>>

\* A stale probe: a download whatever the listing says.
Probe(p) ==
    /\ Idle(p)
    /\ hint' = [hint EXCEPT ![p] = written[sel[p]]]
    /\ IF written[sel[p]] > off[p] THEN Download(p, off[p], written[sel[p]]) ELSE UNCHANGED batch
    /\ UNCHANGED <<env, rows, sel, next, off, waits, consumer, faults, crashes>>

\* processLineAt hands the next line to the queue and waits for its answer.
Enqueue(p) ==
    /\ batch[p] # None /\ ~waits[p]
    /\ batch[p].ok /\ batch[p].pos < batch[p].end
    /\ queue' = [queue EXCEPT ![p] = Append(@, <<sel[p], batch[p].pos + 1>>)]
    /\ waits' = [waits EXCEPT ![p] = TRUE]
    /\ UNCHANGED <<env, rows, sel, next, off, hint, batch, fresh, last, faults, crashes>>

\* The wait is cut off; the line stays in the queue.
GiveUp(p) ==
    /\ waits[p] /\ Fault
    /\ waits' = [waits EXCEPT ![p] = FALSE]
    /\ batch' = [batch EXCEPT ![p].ok = FALSE]
    /\ UNCHANGED <<env, rows, sel, next, off, hint, consumer, crashes>>

HandledAll(b) == b.end \* mutant: a failed line counts as handled

Handled(b) == b.pos

\* The download's lines are handled, or one of them failed: the checkpoint
\* follows the last line before it.
Finish(p) ==
    LET b == batch[p]
    IN  /\ b # None /\ ~waits[p]
        /\ b.ok => b.pos = b.end
        /\ off' = [off EXCEPT ![p] = Handled(b)]
        /\ batch' = [batch EXCEPT ![p] = None]
        /\ Save(sel[p], Handled(b))
        /\ UNCHANGED <<env, stored, posts, skipped, left, sel, next, hint, waits, consumer, crashes>>

-----------------------------------------------------------------------------
(* The persistence queue's consumer.                                        *)

AnswerSuccess(p, good) == \* mutant: the engine is not told of a failure
    LET awaited == waits[p] /\ Len(queue[p]) = 1 /\ good
    IN  /\ queue' = [queue EXCEPT ![p] = Tail(@)]
        /\ waits' = [waits EXCEPT ![p] = @ /\ ~awaited]
        /\ batch' = IF awaited THEN [batch EXCEPT ![p].pos = @ + 1] ELSE batch

\* The line at the head is done with; the engine is told if it still waits
\* for this one, which is then the queue's only line.
Answer(p, good) ==
    LET awaited == waits[p] /\ Len(queue[p]) = 1
    IN  /\ queue' = [queue EXCEPT ![p] = Tail(@)]
        /\ waits' = [waits EXCEPT ![p] = @ /\ ~awaited]
        /\ batch' = IF ~awaited THEN batch
                    ELSE IF good THEN [batch EXCEPT ![p].pos = @ + 1]
                    ELSE [batch EXCEPT ![p].ok = FALSE]

NotStored(l) == FALSE \* mutant: the row's fingerprint is not unique

IsDuplicate(l) == l \in stored

\* The row is there already: nothing is posted.
Duplicate(p) ==
    /\ queue[p] # <<>> /\ fresh[p] = None
    /\ IsDuplicate(Head(queue[p]))
    /\ Answer(p, TRUE)
    /\ UNCHANGED <<env, rows, sel, next, off, hint, fresh, last, faults, crashes>>

Insert(p) ==
    LET l == Head(queue[p])
    IN  /\ queue[p] # <<>> /\ fresh[p] = None
        /\ ~IsDuplicate(l)
        /\ stored' = stored \cup {l}
        /\ fresh' = [fresh EXCEPT ![p] = l]
        /\ UNCHANGED <<env, ckpt, posts, skipped, left, engine, queue, last, faults, crashes>>

\* The statement reports an error, though it may have committed.
FailInsert(p) ==
    /\ queue[p] # <<>> /\ fresh[p] = None
    /\ Fault
    /\ stored' \in {stored, stored \cup {Head(queue[p])}}
    /\ Answer(p, FALSE)
    /\ UNCHANGED <<env, ckpt, posts, skipped, left, sel, next, off, hint, fresh, last, crashes>>

\* The persisted hook hands the card to the feed.
Post(p) ==
    /\ fresh[p] # None
    /\ posts' = [posts EXCEPT ![fresh[p]] = @ + 1]
    /\ last' = [last EXCEPT ![p] = fresh[p]]
    /\ fresh' = [fresh EXCEPT ![p] = None]
    /\ Answer(p, TRUE)
    /\ UNCHANGED <<env, stored, ckpt, skipped, left, sel, next, off, hint, faults, crashes>>

\* The process ends, at a crash or at the end of a shutdown.
Stop(p) ==
    /\ sel[p] # 0 /\ crashes < MaxCrashes
    /\ crashes' = crashes + 1
    /\ Follow(p, 0, 0)
    /\ next' = [next EXCEPT ![p] = 0]
    /\ batch' = [batch EXCEPT ![p] = None]
    /\ waits' = [waits EXCEPT ![p] = FALSE]
    /\ queue' = [queue EXCEPT ![p] = <<>>]
    /\ fresh' = [fresh EXCEPT ![p] = None]
    /\ last' = [last EXCEPT ![p] = None]
    /\ UNCHANGED <<env, rows, faults>>

Nitrado == WriteLine \/ Reboot \/ ListBoot \/ \E b \in Boots : ListLines(b)

Engine(p) ==
    \/ Resume(p) \/ ColdStart(p) \/ BlindStart(p)
    \/ FindBoot(p) \/ ChangeFile(p)
    \/ Read(p) \/ Probe(p)
    \/ Enqueue(p) \/ GiveUp(p) \/ Finish(p)

Consumer(p) == Duplicate(p) \/ Insert(p) \/ FailInsert(p) \/ Post(p)

Next ==
    \/ Nitrado
    \/ \E p \in Processes : Engine(p) \/ Consumer(p) \/ Stop(p)

Spec == Init /\ [][Next]_vars

\* Nitrado lists everything in the end; a process is started again and polls
\* on: every poll looks for a newer boot first, once that is due again, and a
\* quiet file is read directly every so often; the queue's consumer never
\* stops.  Writing, rebooting, polls, faults and stops are never forced.
Fairness ==
    /\ WF_vars(ListBoot) /\ \A b \in Boots : WF_vars(ListLines(b))
    /\ \A p \in Processes :
        /\ WF_vars(Resume(p) \/ ColdStart(p))
        /\ SF_vars(FindBoot(p)) /\ WF_vars(ChangeFile(p))
        /\ WF_vars(Probe(p))
        /\ WF_vars(Enqueue(p) \/ Finish(p))
        /\ WF_vars(Duplicate(p) \/ Insert(p) \/ Post(p))

FairSpec == Spec /\ Fairness

-----------------------------------------------------------------------------

\* A kill or death is posted at most once by all processes together, and
\* only when its row is stored, whatever overlaps, retries and stops.
PostedOnce == \A l \in Line : posts[l] <= 1 /\ (posts[l] = 1 => l \in stored)

Covered(b, n) == Upto(b, n) \subseteq Accounted

\* The checkpoint never passes a line that is not stored, except the lines
\* a process gave up when it started or changed files.
CheckpointAccounts == ckpt # None => Covered(ckpt.boot, ckpt.off)

\* A process posts in the order of the log, but for lines it gave up before
\* and then reads again.
PostsInOrder ==
    [][\A p \in Processes :
        last[p] # None /\ last'[p] \notin {None, last[p]} =>
            Earlier(last[p], last'[p]) \/ last'[p] \in skipped \cup left]_vars

\* Every line is stored in the end, but for those given up.
StoredInTheEnd ==
    \A l \in Line : (l \in Written) ~> (l \in Accounted)

\* Positions lie within the files, and files among those listed.
InRange ==
    /\ \A b \in Boots : listed[b] <= written[b]
    /\ ckpt # None => ckpt.boot <= listedBoot /\ ckpt.off <= written[ckpt.boot]
    /\ \A p \in Processes :
        /\ sel[p] <= listedBoot /\ next[p] <= listedBoot
        /\ sel[p] # 0 => off[p] <= written[sel[p]]
        /\ batch[p] # None =>
              sel[p] # 0 /\ batch[p].pos <= batch[p].end /\ batch[p].end <= written[sel[p]]

\* The engine waits for the queue's last line, the next of its download.
Asked ==
    \A p \in Processes : waits[p] =>
        /\ batch[p] # None /\ batch[p].ok /\ batch[p].pos < batch[p].end
        /\ queue[p] # <<>> /\ queue[p][Len(queue[p])] = <<sel[p], batch[p].pos + 1>>

\* A card in the making is the only one of its line.
FreshOnce ==
    \A p \in Processes : fresh[p] # None =>
        /\ queue[p] # <<>> /\ fresh[p] = Head(queue[p])
        /\ fresh[p] \in stored /\ posts[fresh[p]] = 0
        /\ \A q \in Processes : fresh[q] = fresh[p] => q = p

EngineCovered(p) ==
    /\ sel[p] # 0 => Covered(sel[p], off[p])
    /\ batch[p] # None => Covered(sel[p], batch[p].pos)

QueueCovered(p) ==
    /\ last[p] # None =>
          last[p] \in Written /\ last[p][1] <= listedBoot /\ Covered(last[p][1], last[p][2])
    /\ \A i \in DOMAIN queue[p] :
          LET l == queue[p][i]
          IN  l \in Written /\ l[1] <= listedBoot /\ Covered(l[1], l[2] - 1)

\* No line before a position, a queued line or a posted one is unaccounted
\* for.
AllCovered == CheckpointAccounts /\ \A p \in Processes : EngineCovered(p) /\ QueueCovered(p)

\* The next card comes after the last one, unless its line was given up.
FreshLater ==
    \A p \in Processes : fresh[p] # None /\ last[p] # None =>
        Earlier(last[p], fresh[p]) \/ fresh[p] \in skipped \cup left

\* The inductive invariant behind PostedOnce, CheckpointAccounts and
\* PostsInOrder.
LogInv ==
    TypeOK /\ InRange /\ Asked /\ FreshOnce /\ PostedOnce /\ AllCovered /\ FreshLater

\* A process that changes to a newer boot's file has read the older one to
\* its end.
OldFileDrained == left \subseteq stored
=============================================================================
