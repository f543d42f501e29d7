--------------------------- MODULE KillLogProofs ---------------------------
(***************************************************************************)
(* For any number of processes, boots, lines, faults and stops: no line is *)
(* posted twice, the checkpoint never passes a line that is neither stored *)
(* nor given up, and every process posts in the order of the log.          *)
(***************************************************************************)
EXTENDS KillLog, TLAPS

\* Covered, of any files w and any lines A that are accounted for, and the
\* same for an engine's state and a consumer's.
Cov(w, A, b, n) ==
    \A l \in Line : l[2] <= w[l[1]] /\ (l[1] < b \/ (l[1] = b /\ l[2] <= n)) => l \in A

EngineCov(w, A, s, o, m) ==
    (s # 0 => Cov(w, A, s, o)) /\ (m # None => Cov(w, A, s, m.pos))

Before(w, A, top, l, n) ==
    l \in Line /\ l[2] <= w[l[1]] /\ l[1] <= top /\ Cov(w, A, l[1], n)

QueueCov(w, A, top, l, q) ==
    /\ l # None => Before(w, A, top, l, l[2])
    /\ \A i \in DOMAIN q : Before(w, A, top, q[i], q[i][2] - 1)

LEMMA CoveredIs ==
    /\ AllCovered <=>
        /\ ckpt # None => Cov(written, Accounted, ckpt.boot, ckpt.off)
        /\ \A p \in Processes :
            /\ EngineCov(written, Accounted, sel[p], off[p], batch[p])
            /\ QueueCov(written, Accounted, listedBoot, last[p], queue[p])
    /\ AllCovered' <=>
        /\ ckpt' # None => Cov(written', Accounted', ckpt'.boot, ckpt'.off)
        /\ \A p \in Processes :
            /\ EngineCov(written', Accounted', sel'[p], off'[p], batch'[p])
            /\ QueueCov(written', Accounted', listedBoot', last'[p], queue'[p])
<1>1. \A b, n : Covered(b, n) <=> Cov(written, Accounted, b, n)
  BY DEF Covered, Cov, Upto, Written
<1>2. CheckpointAccounts <=> (ckpt # None => Cov(written, Accounted, ckpt.boot, ckpt.off))
  BY <1>1 DEF CheckpointAccounts
<1>3. \A p \in Processes :
        EngineCovered(p) <=> EngineCov(written, Accounted, sel[p], off[p], batch[p])
  BY <1>1 DEF EngineCovered, EngineCov
<1>4. \A p \in Processes :
        QueueCovered(p) <=> QueueCov(written, Accounted, listedBoot, last[p], queue[p])
  BY <1>1 DEF QueueCovered, QueueCov, Before, Written
<1>5. CheckpointAccounts' <=> (ckpt' # None => Cov(written', Accounted', ckpt'.boot, ckpt'.off))
  BY DEF CheckpointAccounts, Covered, Cov, Upto, Written
<1>6. ASSUME NEW p \in Processes
      PROVE  EngineCovered(p)' <=> EngineCov(written', Accounted', sel'[p], off'[p], batch'[p])
  BY DEF EngineCovered, EngineCov, Covered, Cov, Upto, Written
<1>7. ASSUME NEW p \in Processes
      PROVE  QueueCovered(p)' <=>
                QueueCov(written', Accounted', listedBoot', last'[p], queue'[p])
  BY DEF QueueCovered, QueueCov, Before, Covered, Cov, Upto, Written
<1> QED
  BY <1>2, <1>3, <1>4, <1>5, <1>6, <1>7 DEF AllCovered

LEMMA LineParts ==
    /\ \A l \in Line : l[1] \in Boots /\ l[2] \in 1..MaxLines /\ l = <<l[1], l[2]>>
    /\ \A b \in Boots, n \in 1..MaxLines : <<b, n>> \in Line
  BY DEF Line

LEMMA UptoHas ==
    ASSUME NEW l \in Line, NEW b, NEW n
    PROVE  l \in Upto(b, n) <=>
              l[2] <= written[l[1]] /\ (l[1] < b \/ (l[1] = b /\ l[2] <= n))
  BY DEF Upto, Written

\* A line is appended to the current boot's file, or none is.
Grown == written' = written \/ (written' = [written EXCEPT ![boot] = @ + 1])

\* Files only grow and are only listed, lines are only accounted for.
Onward == Grown /\ listedBoot <= listedBoot' /\ Accounted \subseteq Accounted'

\* What is covered stays covered.
LEMMA StaysCovered ==
    ASSUME TypeOK, Onward, NEW b \in Nat, NEW n \in Nat, b <= listedBoot,
           b \in Boots => n <= written[b],
           Cov(written, Accounted, b, n)
    PROVE  Cov(written', Accounted', b, n)
<1> SUFFICES ASSUME NEW l \in Line,
                    l[2] <= written'[l[1]], l[1] < b \/ (l[1] = b /\ l[2] <= n)
             PROVE  l \in Accounted'
  BY DEF Cov
<1>1. /\ l[1] \in Boots /\ l[2] \in Nat /\ l[1] \in Nat
      /\ written \in [Boots -> 0..MaxLines] /\ boot \in Nat /\ b <= boot
  BY LineParts DEF TypeOK, Boots
<1>2. l[2] <= written[l[1]]
  <2>1. CASE l[1] = b
    BY <1>1, <2>1
  <2>2. CASE l[1] # b
    BY <1>1, <2>2 DEF Onward, Grown
  <2> QED
    BY <2>1, <2>2
<1> QED
  BY <1>2 DEF Cov, Onward

\* Less of a file is covered when more is.
LEMMA LessCovered ==
    ASSUME NEW w, NEW A, NEW b \in Nat, NEW c \in Nat, NEW n \in Nat, NEW k \in Nat,
           c < b \/ (c = b /\ k <= n), Cov(w, A, b, n)
    PROVE  Cov(w, A, c, k)
  BY LineParts DEF Cov, Boots

\* One accounted line more covers one position more.
LEMMA MoreCovered ==
    ASSUME NEW w, NEW A, NEW b \in Nat, NEW n \in Nat, Cov(w, A, b, n), <<b, n + 1>> \in A
    PROVE  Cov(w, A, b, n + 1)
<1> SUFFICES ASSUME NEW l \in Line, l[2] <= w[l[1]],
                    l[1] < b \/ (l[1] = b /\ l[2] <= n + 1)
             PROVE  l \in A
  BY DEF Cov
<1>1. (l[1] = b /\ l[2] = n + 1) \/ l[1] < b \/ (l[1] = b /\ l[2] <= n)
  BY LineParts DEF Boots
<1> QED
  BY <1>1, LineParts DEF Cov
LEMMA WrittenGrows ==
    ASSUME TypeOK, Onward
    PROVE  \A b \in Boots : written[b] \in Nat /\ written'[b] \in Nat /\ written[b] <= written'[b]
<1>1. written \in [Boots -> 0..MaxLines] /\ MaxLines \in Nat
  BY KillLogAssumption DEF TypeOK
<1>2. CASE written' = written
  BY <1>1, <1>2
<1>3. CASE written' = [written EXCEPT ![boot] = @ + 1]
  <2> SUFFICES ASSUME NEW b \in Boots
               PROVE  written[b] \in Nat /\ written'[b] \in Nat /\ written[b] <= written'[b]
    OBVIOUS
  <2>1. written'[b] = IF b = boot THEN written[b] + 1 ELSE written[b]
    BY <1>1, <1>3
  <2> QED
    BY <1>1, <2>1
<1> QED
  BY <1>2, <1>3 DEF Onward, Grown

LEMMA CkptStays ==
    ASSUME LogInv, Onward, ckpt # None
    PROVE  Cov(written', Accounted', ckpt.boot, ckpt.off)
<1>1. ckpt.boot \in Boots /\ ckpt.boot \in Nat /\ ckpt.off \in Nat
      /\ ckpt.boot <= listedBoot /\ ckpt.off <= written[ckpt.boot]
  BY DEF LogInv, TypeOK, InRange, Checkpoint, Boots
<1> QED
  BY <1>1, StaysCovered, CoveredIs DEF LogInv

LEMMA EngineStays ==
    ASSUME LogInv, Onward, NEW p \in Processes
    PROVE  EngineCov(written', Accounted', sel[p], off[p], batch[p])
<1>1. EngineCov(written, Accounted, sel[p], off[p], batch[p])
  BY CoveredIs DEF LogInv
<1>2. sel[p] \in Nat /\ off[p] \in Nat /\ sel[p] <= listedBoot
      /\ (sel[p] \in Boots => off[p] <= written[sel[p]])
  BY DEF LogInv, TypeOK, InRange, Boots
<1>3. ASSUME batch[p] # None
      PROVE  batch[p].pos \in Nat /\ (sel[p] \in Boots => batch[p].pos <= written[sel[p]])
  BY <1>3 DEF LogInv, TypeOK, InRange, Boots, Batch
<1> QED
  BY <1>1, <1>2, <1>3, StaysCovered DEF LogInv, EngineCov

LEMMA BeforeStays ==
    ASSUME LogInv, Onward, listedBoot' \in Nat, NEW l, NEW n \in Nat, n <= l[2],
           Before(written, Accounted, listedBoot, l, n)
    PROVE  Before(written', Accounted', listedBoot', l, n)
<1>1. l[1] \in Boots /\ l[1] \in Nat /\ l[2] \in Nat
      /\ listedBoot \in Nat
  BY LineParts DEF Before, LogInv, TypeOK, Boots
<1>2. n <= written[l[1]] /\ l[2] <= written'[l[1]]
  BY <1>1, WrittenGrows DEF Before, LogInv
<1>3. Cov(written', Accounted', l[1], n)
  BY <1>1, <1>2, StaysCovered DEF Before, LogInv
<1> QED
  BY <1>1, <1>2, <1>3 DEF Before, Onward

LEMMA QueueStays ==
    ASSUME LogInv, Onward, listedBoot' \in Nat, NEW p \in Processes
    PROVE  QueueCov(written', Accounted', listedBoot', last[p], queue[p])
<1>1. QueueCov(written, Accounted, listedBoot, last[p], queue[p])
  BY CoveredIs DEF LogInv
<1>2. \A l : l \in Line => l[2] \in Nat /\ l[2] - 1 \in Nat /\ l[2] - 1 <= l[2]
  BY LineParts
<1>3. last[p] # None => Before(written', Accounted', listedBoot', last[p], last[p][2])
  BY <1>1, <1>2, BeforeStays DEF QueueCov, Before
<1>4. ASSUME NEW i \in DOMAIN queue[p]
      PROVE  Before(written', Accounted', listedBoot', queue[p][i], queue[p][i][2] - 1)
  BY <1>1, <1>2, BeforeStays DEF QueueCov, Before
<1> QED
  BY <1>3, <1>4 DEF QueueCov
LEMMA NextOnward ==
    ASSUME LogInv, Next
    PROVE  Onward /\ listedBoot' \in Nat
<1> USE DEF Onward, Grown, Accounted
<1>1. listedBoot \in Nat
  BY DEF LogInv, TypeOK, Boots
<1>2. CASE Nitrado
  BY <1>1, <1>2 DEF Nitrado, WriteLine, Reboot, ListBoot, ListLines, rows
<1>3. ASSUME NEW p \in Processes, Engine(p)
      PROVE  Onward /\ listedBoot' \in Nat
  <2>1. UNCHANGED env /\ stored' = stored
    BY <1>3 DEF Engine, Resume, ColdStart, BlindStart, FindBoot, ChangeFile, Read, Probe,
         Enqueue, GiveUp, Finish, rows
  <2>2. skipped \subseteq skipped' /\ left \subseteq left'
    BY <1>3 DEF Engine, Resume, ColdStart, BlindStart, FindBoot, ChangeFile, Read, Probe,
         Enqueue, GiveUp, Finish, rows
  <2> QED
    BY <1>1, <2>1, <2>2 DEF env
<1>4. ASSUME NEW p \in Processes, Consumer(p) \/ Stop(p)
      PROVE  Onward /\ listedBoot' \in Nat
  <2>1. UNCHANGED <<env, skipped, left>> /\ stored \subseteq stored'
    BY <1>4 DEF Consumer, Duplicate, Insert, FailInsert, Post, Stop, rows
  <2> QED
    BY <1>1, <2>1 DEF env
<1> QED
  BY <1>2, <1>3, <1>4 DEF Next

\* A step that leaves the consumers alone keeps what is known of the cards.
LEMMA CardsKeep ==
    ASSUME LogInv, UNCHANGED <<stored, posts, consumer>>,
           skipped \subseteq skipped', left \subseteq left'
    PROVE  FreshOnce' /\ PostedOnce' /\ FreshLater'
  BY DEF LogInv, consumer, FreshOnce, PostedOnce, FreshLater

LEMMA NitradoKeeps ==
    ASSUME LogInv, Nitrado
    PROVE  LogInv'
<1>1. Onward /\ listedBoot' \in Nat
  BY NextOnward DEF Next
<1>2. UNCHANGED <<rows, engine, consumer, faults, crashes>>
  BY DEF Nitrado, WriteLine, Reboot, ListBoot, ListLines
<1>3. TypeOK'
  <2> USE KillLogAssumption DEF LogInv, TypeOK, rows, engine, consumer
  <2>1. /\ boot' \in Boots /\ listedBoot' \in 1..boot'
        /\ written' \in [Boots -> 0..MaxLines] /\ listed' \in [Boots -> 0..MaxLines]
    <3>1. CASE WriteLine
      BY <3>1 DEF WriteLine
    <3>2. CASE Reboot
      BY <3>2 DEF Reboot, Boots
    <3>3. CASE ListBoot
      BY <3>3 DEF ListBoot, Boots
    <3>4. ASSUME NEW b \in Boots, ListLines(b)
          PROVE  listed' \in [Boots -> 0..MaxLines] /\ UNCHANGED <<boot, written, listedBoot>>
      BY <3>4 DEF ListLines
    <3> QED
      BY <3>1, <3>2, <3>3, <3>4 DEF Nitrado
  <2> QED
    BY <1>2, <2>1
<1>4. InRange'
  <2> USE DEF LogInv, TypeOK, InRange, rows, engine, Checkpoint, Batch
  <2>1. \A b \in Boots : listed'[b] <= written'[b]
    <3>1. CASE \E b \in Boots : ListLines(b)
      BY <3>1 DEF ListLines
    <3>2. CASE UNCHANGED listed
      BY <1>1, <3>2, WrittenGrows, SMTT(30)
    <3> QED
      BY <3>1, <3>2 DEF Nitrado, WriteLine, Reboot, ListBoot
  <2>2. \A b \in Boots : written[b] \in Nat /\ written'[b] \in Nat /\ written[b] <= written'[b]
    BY <1>1, WrittenGrows
  <2>3. listedBoot \in Nat /\ listedBoot' \in Nat /\ listedBoot <= listedBoot'
    BY <1>1 DEF Onward, Boots
  <2>4. ckpt' # None => ckpt'.boot <= listedBoot' /\ ckpt'.off <= written'[ckpt'.boot]
    BY <1>2, <2>2, <2>3 DEF Boots
  <2>5. ASSUME NEW p \in Processes
        PROVE  /\ sel'[p] <= listedBoot' /\ next'[p] <= listedBoot'
               /\ sel'[p] # 0 => off'[p] <= written'[sel'[p]]
               /\ batch'[p] # None =>
                     sel'[p] # 0 /\ batch'[p].pos <= batch'[p].end
                     /\ batch'[p].end <= written'[sel'[p]]
    <3>1. /\ sel'[p] = sel[p] /\ next'[p] = next[p] /\ off'[p] = off[p] /\ batch'[p] = batch[p]
          /\ sel[p] \in Nat /\ next[p] \in Nat /\ off[p] \in Nat
          /\ sel[p] <= listedBoot /\ next[p] <= listedBoot
      BY <1>2 DEF Boots
    <3>2. sel[p] # 0 => sel[p] \in Boots /\ off[p] <= written[sel[p]]
      BY DEF Boots
    <3>3. batch[p] # None => /\ sel[p] # 0 /\ batch[p].pos <= batch[p].end
                             /\ batch[p].end \in Nat /\ batch[p].end <= written[sel[p]]
      OBVIOUS
    <3> HIDE DEF TypeOK, InRange
    <3> QED
      BY <2>2, <2>3, <3>1, <3>2, <3>3
  <2> QED
    BY <2>1, <2>4, <2>5
<1>5. Asked'
  BY <1>2 DEF LogInv, Asked, engine, consumer
<1>6. FreshOnce' /\ PostedOnce' /\ FreshLater'
  BY <1>2, CardsKeep DEF rows
<1>7. AllCovered'
  BY <1>1, <1>2, CoveredIs, CkptStays, EngineStays, QueueStays DEF rows, engine, consumer
<1> QED
  BY <1>3, <1>4, <1>5, <1>6, <1>7 DEF LogInv
\* What InRange and Asked say of one process.
Ranged(s, n, o, m) ==
    /\ s <= listedBoot /\ n <= listedBoot
    /\ s # 0 => o <= written[s]
    /\ m # None => s # 0 /\ m.pos <= m.end /\ m.end <= written[s]

Asks(w, s, m, q) ==
    w => /\ m # None /\ m.ok /\ m.pos < m.end
         /\ q # <<>> /\ q[Len(q)] = <<s, m.pos + 1>>

LEMMA Locals ==
    ASSUME LogInv
    PROVE  \A p \in Processes :
             /\ Ranged(sel[p], next[p], off[p], batch[p])
             /\ Asks(waits[p], sel[p], batch[p], queue[p])
             /\ EngineCov(written, Accounted, sel[p], off[p], batch[p])
             /\ sel[p] \in 0..MaxBoots /\ (sel[p] # 0 => sel[p] \in Boots)
             /\ off[p] \in 0..MaxLines /\ next[p] \in 0..MaxBoots
             /\ (next[p] # 0 => next[p] \in Boots)
             /\ (batch[p] # None => batch[p] \in Batch)
  BY CoveredIs, SMTT(30) DEF LogInv, TypeOK, InRange, Asked, Ranged, Asks, Boots

Others(p) ==
    \A q \in Processes : q # p =>
        /\ sel'[q] = sel[q] /\ next'[q] = next[q] /\ off'[q] = off[q]
        /\ batch'[q] = batch[q] /\ waits'[q] = waits[q]

CkptGood ==
    ckpt' # None => /\ ckpt'.boot <= listedBoot /\ ckpt'.off <= written[ckpt'.boot]
                    /\ Cov(written, Accounted', ckpt'.boot, ckpt'.off)

\* An engine's step that leaves the consumers alone keeps the invariant when
\* it does for that engine and for the checkpoint.
LEMMA EngineStep ==
    ASSUME LogInv, TypeOK', UNCHANGED <<env, stored, posts, consumer>>,
           skipped \subseteq skipped', left \subseteq left',
           NEW p \in Processes, Others(p), CkptGood,
           Ranged(sel'[p], next'[p], off'[p], batch'[p]),
           Asks(waits'[p], sel'[p], batch'[p], queue[p]),
           EngineCov(written, Accounted', sel'[p], off'[p], batch'[p])
    PROVE  LogInv'
<1>1. Onward /\ listedBoot' \in Nat
  BY DEF Onward, Grown, Accounted, env, LogInv, TypeOK, Boots
<1>2. InRange'
  <2>1. \A q \in Processes : Ranged(sel'[q], next'[q], off'[q], batch'[q])
    BY Locals DEF Others
  <2> QED
    BY <2>1 DEF env, LogInv, InRange, Ranged, CkptGood
<1>3. Asked'
  <2>1. \A q \in Processes : Asks(waits'[q], sel'[q], batch'[q], queue'[q])
    BY Locals DEF Others, consumer
  <2> QED
    BY <2>1 DEF Asked, Asks
<1>4. FreshOnce' /\ PostedOnce' /\ FreshLater'
  BY CardsKeep
<1>5. AllCovered'
  <2>1. \A q \in Processes : EngineCov(written', Accounted', sel'[q], off'[q], batch'[q])
    <3> SUFFICES ASSUME NEW q \in Processes
                 PROVE  EngineCov(written', Accounted', sel'[q], off'[q], batch'[q])
      OBVIOUS
    <3>1. CASE q = p
      BY <3>1 DEF env
    <3>2. CASE q # p
      BY <1>1, <3>2, EngineStays DEF Others
    <3> QED
      BY <3>1, <3>2
  <2>2. \A q \in Processes : QueueCov(written', Accounted', listedBoot', last'[q], queue'[q])
    BY <1>1, QueueStays DEF consumer
  <2>3. ckpt' # None => Cov(written', Accounted', ckpt'.boot, ckpt'.off)
    BY DEF CkptGood, env
  <2> QED
    BY <2>1, <2>2, <2>3, CoveredIs
<1> QED
  BY <1>2, <1>3, <1>4, <1>5 DEF LogInv

\* A checkpoint that is kept stays good, and so does one that is written at
\* a covered position.
LEMMA CkptKept ==
    ASSUME LogInv, UNCHANGED <<ckpt, written>>, Accounted \subseteq Accounted'
    PROVE  CkptGood
<1>1. ckpt # None => Cov(written, Accounted, ckpt.boot, ckpt.off)
  BY CoveredIs DEF LogInv
<1> QED
  BY <1>1 DEF LogInv, InRange, CkptGood, Cov

LEMMA CkptSaved ==
    ASSUME LogInv, UNCHANGED written, Accounted \subseteq Accounted', NEW b, NEW n, Save(b, n),
           b <= listedBoot, n <= written[b], Cov(written, Accounted', b, n)
    PROVE  CkptGood
<1>1. CASE UNCHANGED ckpt
  BY <1>1, CkptKept
<1>2. CASE ckpt' = [boot |-> b, off |-> n]
  BY <1>2 DEF CkptGood
<1> QED
  BY <1>1, <1>2 DEF Save
\* Lines given up account for all that is passed over.
LEMMA GivenUp ==
    ASSUME NEW b, NEW n
    PROVE  Cov(written, Accounted \cup (Upto(b, n) \ Accounted), b, n)
  BY UptoHas DEF Cov

\* The types of what an engine's step changes.
LEMMA TypesKeep ==
    ASSUME TypeOK, UNCHANGED <<env, stored, posts, consumer, crashes>>,
           skipped' \subseteq Line, left' \subseteq Line, ckpt' \in Checkpoint \cup {None},
           faults' \in 0..MaxFaults,
           sel' \in [Processes -> 0..MaxBoots], next' \in [Processes -> 0..MaxBoots],
           off' \in [Processes -> 0..MaxLines], hint' \in [Processes -> 0..MaxLines],
           batch' \in [Processes -> Batch \cup {None}], waits' \in [Processes -> BOOLEAN]
    PROVE  TypeOK'
  BY DEF TypeOK, env, consumer

LEMMA FaultTypes ==
    ASSUME TypeOK, Fault \/ NoFault
    PROVE  faults' \in 0..MaxFaults
  BY KillLogAssumption DEF TypeOK, Fault, NoFault

LEMMA SaveTypes ==
    ASSUME TypeOK, NEW b \in Boots, NEW n \in 0..MaxLines, Save(b, n)
    PROVE  ckpt' \in Checkpoint \cup {None} /\ faults' \in 0..MaxFaults
  BY FaultTypes, SMTT(30) DEF TypeOK, Save, Checkpoint

LEMMA FollowTypes ==
    ASSUME TypeOK, NEW p \in Processes, NEW b \in 0..MaxBoots, NEW n \in 0..MaxLines,
           Follow(p, b, n)
    PROVE  /\ sel' \in [Processes -> 0..MaxBoots] /\ off' \in [Processes -> 0..MaxLines]
           /\ hint' \in [Processes -> 0..MaxLines]
           /\ sel'[p] = b /\ off'[p] = n
  BY KillLogAssumption, SMTT(30) DEF TypeOK, Follow

LEMMA StartKeeps ==
    ASSUME LogInv, NEW p \in Processes, Resume(p) \/ ColdStart(p) \/ BlindStart(p)
    PROVE  LogInv'
<1>1. /\ TypeOK /\ listedBoot \in Boots /\ listedBoot \in 0..MaxBoots /\ 0 \in 0..MaxLines
      /\ listed[listedBoot] \in 0..MaxLines /\ listed[listedBoot] <= written[listedBoot]
      /\ written[listedBoot] \in Nat
  <2>1. TypeOK /\ InRange
    BY DEF LogInv
  <2>2. listedBoot \in Boots /\ listedBoot \in 0..MaxBoots
    BY <2>1, KillLogAssumption DEF TypeOK, Boots
  <2>3. listed[listedBoot] \in 0..MaxLines /\ written[listedBoot] \in 0..MaxLines
    BY <2>1, <2>2 DEF TypeOK
  <2> QED
    BY <2>1, <2>2, <2>3, KillLogAssumption DEF InRange
<1>2. sel[p] = 0 /\ batch[p] = None /\ ~waits[p] /\ next[p] <= listedBoot
  BY DEF Resume, ColdStart, BlindStart, LogInv, InRange, Asked
<1>3. /\ UNCHANGED <<env, stored, posts, consumer, crashes, left, next, batch, waits>>
      /\ skipped \subseteq skipped' /\ skipped' \subseteq Line
  BY <1>1 DEF Resume, ColdStart, BlindStart, TypeOK, rows, Upto, Written
<1>4. SUFFICES ASSUME NEW n \in 0..MaxLines, Follow(p, listedBoot, n), n <= written[listedBoot],
                      Cov(written, Accounted', listedBoot, n), CkptGood,
                      ckpt' \in Checkpoint \cup {None}, faults' \in 0..MaxFaults
               PROVE  LogInv'
  <2>1. Accounted \subseteq Accounted'
    BY <1>3 DEF Accounted
  <2>2. CASE Resume(p)
    <3>1. ckpt \in Checkpoint /\ ckpt.boot = listedBoot
      BY <1>1, <2>2 DEF Resume, Names, TypeOK
    <3>2. ckpt.off \in 0..MaxLines /\ ckpt.off <= written[listedBoot]
      BY <3>1, <2>2 DEF Checkpoint, LogInv, InRange, Resume, Names
    <3>3. CkptGood
      BY <1>3, <2>1, <2>2, CkptKept DEF Resume, rows, env
    <3>4. Cov(written, Accounted', listedBoot, ckpt.off) /\ ckpt' = ckpt
      BY <2>2, <3>1, <3>3 DEF CkptGood, Resume, Names, rows
    <3> QED
      BY <1>1, <1>4, <2>2, <3>1, <3>2, <3>3, <3>4, FaultTypes DEF Resume
  <2>3. CASE ColdStart(p)
    <3> DEFINE tail == listed[listedBoot]
    <3>1. Accounted' = Accounted \cup (Upto(listedBoot, tail) \ Accounted)
      BY <2>3 DEF ColdStart, Accounted
    <3>2. Cov(written, Accounted', listedBoot, tail)
      BY <3>1, GivenUp
    <3>3. Save(listedBoot, tail) /\ Follow(p, listedBoot, tail) /\ listedBoot <= listedBoot
      BY <1>1, <2>3 DEF ColdStart, Boots
    <3>4. CkptGood
      BY <1>1, <1>3, <2>1, <3>2, <3>3, CkptSaved DEF env
    <3>5. ckpt' \in Checkpoint \cup {None} /\ faults' \in 0..MaxFaults
      BY <1>1, <3>3, SaveTypes
    <3> QED
      BY <1>1, <1>4, <3>2, <3>3, <3>4, <3>5
  <2>4. CASE BlindStart(p)
    <3>1. Accounted' = Accounted \cup (Upto(listedBoot, 0) \ Accounted)
      BY <2>4 DEF BlindStart, Accounted
    <3>2. Cov(written, Accounted', listedBoot, 0)
      BY <3>1, GivenUp
    <3>3. CkptGood /\ ckpt' = ckpt
      BY <1>3, <2>1, <2>4, CkptKept DEF BlindStart, env
    <3>4. ckpt' \in Checkpoint \cup {None} /\ faults' \in 0..MaxFaults
      BY <1>1, <2>4, <3>3, FaultTypes DEF BlindStart, TypeOK
    <3>5. Follow(p, listedBoot, 0) /\ 0 <= written[listedBoot]
      BY <1>1, <2>4 DEF BlindStart
    <3> QED
      BY <1>1, <1>4, <3>2, <3>3, <3>4, <3>5
  <2> QED
    BY <2>2, <2>3, <2>4
<1>5. sel'[p] = listedBoot /\ off'[p] = n /\ TypeOK'
  BY <1>1, <1>3, <1>4, FollowTypes, TypesKeep DEF TypeOK
<1>6. Others(p)
  BY <1>3, <1>4 DEF Others, Follow, LogInv, TypeOK
<1>7. /\ Ranged(sel'[p], next'[p], off'[p], batch'[p])
      /\ Asks(waits'[p], sel'[p], batch'[p], queue[p])
      /\ EngineCov(written, Accounted', sel'[p], off'[p], batch'[p])
  BY <1>1, <1>2, <1>3, <1>4, <1>5 DEF Ranged, Asks, EngineCov, Boots
<1> QED
  BY <1>3, <1>4, <1>5, <1>6, <1>7, EngineStep
LEMMA ChangeFileKeeps ==
    ASSUME LogInv, NEW p \in Processes, ChangeFile(p)
    PROVE  LogInv'
<1> DEFINE b == next[p]
<1>1. TypeOK /\ InRange
  BY DEF LogInv
<1>2. b \in Boots /\ b \in 0..MaxBoots /\ b <= listedBoot /\ batch[p] = None /\ ~waits[p]
  BY <1>1 DEF ChangeFile, LogInv, Asked, InRange, TypeOK, Boots
<1>3. 0 \in 0..MaxLines /\ listedBoot \in Nat /\ written[b] \in 0..MaxLines
  BY <1>1, <1>2, KillLogAssumption DEF TypeOK, Boots
<1>4. /\ UNCHANGED <<env, stored, ckpt, posts, consumer, crashes, skipped, batch, waits>>
      /\ left \subseteq left' /\ left' \subseteq Line /\ Accounted \subseteq Accounted'
      /\ next' = [next EXCEPT ![p] = 0]
      /\ Accounted' = Accounted \cup (Upto(b, 0) \ Accounted)
  BY <1>1 DEF ChangeFile, TypeOK, Upto, Written, Accounted
<1>5. CkptGood
  BY <1>4, CkptKept DEF env
<1>6. SUFFICES ASSUME NEW n \in 0..MaxLines, Follow(p, b, n), n <= written[b],
                      Cov(written, Accounted', b, n), faults' \in 0..MaxFaults
               PROVE  LogInv'
  <2>1. CASE Names(b) /\ NoFault /\ Follow(p, b, ckpt.off)
    <3>1. ckpt # None /\ ckpt.boot = b /\ ckpt.off \in 0..MaxLines
      BY <1>1, <2>1 DEF Names, TypeOK, Checkpoint
    <3>2. ckpt.off <= written[b] /\ Cov(written, Accounted', b, ckpt.off)
      BY <1>4, <1>5, <3>1 DEF CkptGood
    <3> QED
      BY <1>1, <1>6, <2>1, <3>1, <3>2, FaultTypes
  <2>2. CASE Follow(p, b, 0) /\ (Fault \/ NoFault)
    <3>1. Cov(written, Accounted', b, 0) /\ 0 <= written[b]
      BY <1>3, <1>4, GivenUp
    <3> QED
      BY <1>1, <1>3, <1>6, <2>2, <3>1, FaultTypes
  <2> QED
    BY <2>1, <2>2 DEF ChangeFile
<1>7. sel'[p] = b /\ off'[p] = n /\ next'[p] = 0 /\ batch'[p] = None /\ ~waits'[p]
  <2>1. sel'[p] = b /\ off'[p] = n
    BY <1>1, <1>2, <1>6, FollowTypes
  <2>2. next'[p] = 0
    BY <1>1, <1>4 DEF TypeOK
  <2> QED
    BY <1>2, <1>4, <2>1, <2>2
<1>8. TypeOK'
  <2>1. /\ sel' \in [Processes -> 0..MaxBoots] /\ off' \in [Processes -> 0..MaxLines]
        /\ hint' \in [Processes -> 0..MaxLines]
    BY <1>1, <1>2, <1>6, FollowTypes
  <2>2. /\ next' \in [Processes -> 0..MaxBoots] /\ skipped' \subseteq Line
        /\ ckpt' \in Checkpoint \cup {None}
        /\ batch' \in [Processes -> Batch \cup {None}] /\ waits' \in [Processes -> BOOLEAN]
    BY <1>1, <1>4, KillLogAssumption DEF TypeOK
  <2> QED
    BY <1>1, <1>4, <1>6, <2>1, <2>2, TypesKeep
<1>9. Others(p)
  BY <1>1, <1>4, <1>6 DEF Others, Follow, TypeOK
<1>10. /\ Ranged(sel'[p], next'[p], off'[p], batch'[p])
       /\ Asks(waits'[p], sel'[p], batch'[p], queue[p])
       /\ EngineCov(written, Accounted', sel'[p], off'[p], batch'[p])
  BY <1>2, <1>3, <1>6, <1>7 DEF Ranged, Asks, EngineCov
<1> QED
  BY <1>4, <1>5, <1>8, <1>9, <1>10, EngineStep

\* What the steps that only read the file leave alone.
LEMMA ReadingKeeps ==
    ASSUME LogInv, NEW p \in Processes,
           UNCHANGED <<env, rows, consumer, crashes, sel>>, faults' \in 0..MaxFaults,
           next' \in [Processes -> 0..MaxBoots], off' \in [Processes -> 0..MaxLines],
           hint' \in [Processes -> 0..MaxLines], batch' \in [Processes -> Batch \cup {None}],
           waits' \in [Processes -> BOOLEAN],
           Others(p), sel[p] # 0, next'[p] <= listedBoot, off'[p] <= off[p], ~waits'[p],
           \/ batch'[p] = batch[p]
           \/ batch'[p] # None /\ batch'[p].pos <= off[p]
              /\ batch'[p].pos <= batch'[p].end /\ batch'[p].end <= written[sel[p]]
           \/ batch[p] # None /\ batch'[p] # None
              /\ batch'[p].pos = batch[p].pos /\ batch'[p].end = batch[p].end
    PROVE  LogInv'
<1>1. TypeOK /\ InRange
  BY DEF LogInv
<1>2. TypeOK'
  BY <1>1, TypesKeep DEF TypeOK, rows
<1>3. Accounted' = Accounted /\ CkptGood
  BY CkptKept DEF rows, env, Accounted
<1>4. /\ Ranged(sel[p], next[p], off[p], batch[p])
      /\ EngineCov(written, Accounted, sel[p], off[p], batch[p])
      /\ sel[p] \in Boots /\ sel[p] \in Nat /\ off[p] \in Nat /\ off'[p] \in Nat
      /\ written[sel[p]] \in Nat
  BY <1>1, Locals DEF TypeOK, Boots
<1>5. batch'[p] # None => batch'[p].pos \in Nat /\ batch'[p].end \in Nat
  BY DEF Batch
<1>6. Ranged(sel'[p], next'[p], off'[p], batch'[p])
  BY <1>4, <1>5 DEF Ranged
<1>7. EngineCov(written, Accounted', sel'[p], off'[p], batch'[p])
  <2>1. Cov(written, Accounted', sel[p], off'[p])
    BY <1>3, <1>4, LessCovered DEF EngineCov
  <2>2. ASSUME batch'[p] # None
        PROVE  Cov(written, Accounted', sel[p], batch'[p].pos)
    BY <1>3, <1>4, <1>5, <2>2, LessCovered DEF EngineCov
  <2> QED
    BY <2>1, <2>2 DEF EngineCov
<1>8. Asks(waits'[p], sel'[p], batch'[p], queue[p])
  BY DEF Asks
<1> QED
  BY <1>2, <1>3, <1>6, <1>7, <1>8, EngineStep DEF rows
\* A download starts where the engine is, or before it.
LEMMA DownloadTypes ==
    ASSUME TypeOK, NEW p \in Processes, NEW from \in 0..MaxLines, NEW to \in 0..MaxLines,
           Download(p, from, to)
    PROVE  /\ batch' \in [Processes -> Batch \cup {None}]
           /\ batch'[p] # None /\ batch'[p].pos = from /\ batch'[p].end = to
           /\ \A q \in Processes : q # p => batch'[q] = batch[q]
<1> DEFINE m == [pos |-> from, end |-> to, ok |-> TRUE]
<1>1. m \in Batch /\ m # None
  <2>1. m \in Batch
    BY DEF Batch
  <2>2. None \notin Batch
    BY KillLogAssumption DEF Batch
  <2> QED
    BY <2>1, <2>2
<1>2. batch' = [batch EXCEPT ![p] = m]
  BY DEF Download
<1> QED
  BY <1>1, <1>2 DEF TypeOK

LEMMA PollKeeps ==
    ASSUME LogInv, NEW p \in Processes, FindBoot(p) \/ Read(p) \/ Probe(p)
    PROVE  LogInv'
<1> DEFINE size == written[sel[p]]
<1>1. TypeOK /\ InRange
  BY DEF LogInv
<1>2. /\ sel[p] \in Boots /\ sel[p] # 0 /\ batch[p] = None /\ ~waits[p]
      /\ next[p] = 0 /\ 0 <= listedBoot
  BY <1>1 DEF FindBoot, Read, Probe, Idle, LogInv, Asked, TypeOK, Boots
<1>3. /\ off[p] \in 0..MaxLines /\ size \in 0..MaxLines /\ listed[sel[p]] \in 0..MaxLines
      /\ off[p] <= size /\ listed[sel[p]] <= size /\ 0 \in 0..MaxLines
  BY <1>1, <1>2, KillLogAssumption DEF TypeOK, InRange
<1>4. UNCHANGED <<env, rows, consumer, crashes, sel, waits>> /\ ~waits'[p]
  BY <1>2 DEF FindBoot, Read, Probe
<1>5. CASE FindBoot(p)
  <2>1. PICK b \in NewerBoots(p) : next' = [next EXCEPT ![p] = b]
    BY <1>5 DEF FindBoot
  <2>2. next' \in [Processes -> 0..MaxBoots] /\ next'[p] <= listedBoot
        /\ \A q \in Processes : q # p => next'[q] = next[q]
    <3>1. b \in 0..MaxBoots /\ b <= listedBoot
      <4>1. b \in 1..listedBoot /\ listedBoot \in 1..boot /\ boot \in 1..MaxBoots
        BY <1>1 DEF NewerBoots, TypeOK, Boots
      <4> QED
        BY <4>1, KillLogAssumption
    <3> QED
      BY <1>1, <2>1, <3>1 DEF TypeOK
  <2>3. faults' \in 0..MaxFaults /\ UNCHANGED <<off, hint>>
    BY <1>1, <1>5, FaultTypes DEF FindBoot
  <2>4. UNCHANGED batch \/ Download(p, off[p], size)
    BY <1>5 DEF FindBoot
  <2>5. /\ batch' \in [Processes -> Batch \cup {None}]
        /\ \A q \in Processes : q # p => batch'[q] = batch[q]
        /\ \/ batch'[p] = batch[p]
           \/ batch'[p] # None /\ batch'[p].pos = off[p] /\ batch'[p].end = size
    BY <1>1, <1>3, <2>4, DownloadTypes DEF TypeOK
  <2>6. Others(p)
    BY <1>4, <2>2, <2>3, <2>5 DEF Others
  <2> QED
    <3>1. /\ off' \in [Processes -> 0..MaxLines] /\ hint' \in [Processes -> 0..MaxLines]
          /\ waits' \in [Processes -> BOOLEAN] /\ off'[p] <= off[p]
      BY <1>1, <1>3, <1>4, <2>3 DEF TypeOK
    <3> QED
      BY <1>2, <1>3, <1>4, <2>2, <2>3, <2>5, <2>6, <3>1, ReadingKeeps
<1>6. CASE Read(p)
  <2> DEFINE from == IF LooksTruncated(p) THEN 0 ELSE off[p]
  <2>1. from \in 0..MaxLines /\ from <= off[p]
    BY <1>3
  <2>2. off' = [off EXCEPT ![p] = from] /\ UNCHANGED <<next, hint>>
    BY <1>6 DEF Read
  <2>3. off' \in [Processes -> 0..MaxLines] /\ off'[p] = from
        /\ \A q \in Processes : q # p => off'[q] = off[q]
    BY <1>1, <2>1, <2>2 DEF TypeOK
  <2>4. faults' \in 0..MaxFaults
    BY <1>1, <1>6, FaultTypes DEF Read
  <2>5. \/ Download(p, from, size)
        \/ Download(p, from, listed[sel[p]]) /\ listed[sel[p]] > from
        \/ UNCHANGED batch
    BY <1>6 DEF Read
  <2>6. /\ batch' \in [Processes -> Batch \cup {None}]
        /\ \A q \in Processes : q # p => batch'[q] = batch[q]
        /\ \/ batch'[p] = batch[p]
           \/ /\ batch'[p] # None /\ batch'[p].pos = from
              /\ batch'[p].pos <= batch'[p].end /\ batch'[p].end <= size
    <3>1. CASE Download(p, from, size)
      BY <1>1, <1>3, <2>1, <3>1, DownloadTypes
    <3>2. CASE Download(p, from, listed[sel[p]]) /\ listed[sel[p]] > from
      BY <1>1, <1>3, <2>1, <3>2, DownloadTypes
    <3>3. CASE UNCHANGED batch
      BY <1>1, <3>3 DEF TypeOK
    <3> QED
      BY <2>5, <3>1, <3>2, <3>3
  <2>7. Others(p)
    BY <1>4, <2>2, <2>3, <2>6 DEF Others
  <2> QED
    <3>1. /\ next' \in [Processes -> 0..MaxBoots] /\ hint' \in [Processes -> 0..MaxLines]
          /\ waits' \in [Processes -> BOOLEAN] /\ next'[p] <= listedBoot
      BY <1>1, <1>2, <1>4, <2>2 DEF TypeOK
    <3>2. batch'[p] # None /\ batch'[p].pos = from => batch'[p].pos <= off[p]
      BY <2>1
    <3> QED
      BY <1>2, <1>4, <2>1, <2>3, <2>4, <2>6, <2>7, <3>1, <3>2, ReadingKeeps
<1>7. CASE Probe(p)
  <2>1. /\ UNCHANGED <<next, off, faults>> /\ hint' \in [Processes -> 0..MaxLines]
        /\ UNCHANGED batch \/ Download(p, off[p], size)
    BY <1>1, <1>3, <1>7 DEF Probe, TypeOK
  <2>2. /\ batch' \in [Processes -> Batch \cup {None}]
        /\ \A q \in Processes : q # p => batch'[q] = batch[q]
        /\ \/ batch'[p] = batch[p]
           \/ batch'[p] # None /\ batch'[p].pos = off[p] /\ batch'[p].end = size
    BY <1>1, <1>3, <2>1, DownloadTypes DEF TypeOK
  <2>3. Others(p)
    BY <1>4, <2>1, <2>2 DEF Others
  <2> QED
    <3>1. /\ next' \in [Processes -> 0..MaxBoots] /\ off' \in [Processes -> 0..MaxLines]
          /\ waits' \in [Processes -> BOOLEAN] /\ next'[p] <= listedBoot
          /\ faults' \in 0..MaxFaults /\ off'[p] <= off[p]
      BY <1>1, <1>2, <1>3, <1>4, <2>1 DEF TypeOK
    <3> QED
      BY <1>2, <1>3, <1>4, <2>1, <2>2, <2>3, <3>1, ReadingKeeps
<1> QED
  BY <1>5, <1>6, <1>7

LEMMA GiveUpKeeps ==
    ASSUME LogInv, NEW p \in Processes, GiveUp(p)
    PROVE  LogInv'
<1>1. TypeOK /\ InRange
  BY DEF LogInv
<1>2. batch[p] \in Batch /\ batch[p] # None /\ sel[p] # 0 /\ next[p] <= listedBoot
  BY <1>1 DEF GiveUp, LogInv, Asked, InRange, TypeOK
<1>3. UNCHANGED <<env, rows, consumer, crashes, sel, next, off, hint>>
      /\ waits' = [waits EXCEPT ![p] = FALSE]
      /\ batch' = [batch EXCEPT ![p] = [batch[p] EXCEPT !.ok = FALSE]]
  BY DEF GiveUp
<1>4. [batch[p] EXCEPT !.ok = FALSE] \in Batch
  BY <1>2 DEF Batch
<1>5. /\ batch' \in [Processes -> Batch \cup {None}] /\ waits' \in [Processes -> BOOLEAN]
      /\ ~waits'[p]
      /\ batch'[p] # None /\ batch'[p].pos = batch[p].pos /\ batch'[p].end = batch[p].end
  BY <1>1, <1>2, <1>3, <1>4, KillLogAssumption DEF TypeOK, Batch
<1>6. Others(p)
  BY <1>1, <1>3 DEF Others, TypeOK
<1>7. faults' \in 0..MaxFaults /\ off'[p] <= off[p]
  BY <1>1, <1>3, FaultTypes DEF GiveUp, TypeOK
<1> QED
  BY <1>1, <1>2, <1>3, <1>5, <1>6, <1>7, ReadingKeeps DEF TypeOK
LEMMA FinishKeeps ==
    ASSUME LogInv, NEW p \in Processes, Finish(p)
    PROVE  LogInv'
<1> DEFINE n == batch[p].pos
<1>1. TypeOK /\ InRange
  BY DEF LogInv
<1>2. batch[p] # None /\ ~waits[p] /\ batch[p] \in Batch
  BY <1>1 DEF Finish, TypeOK
<1>3. /\ sel[p] \in Boots /\ sel[p] # 0 /\ sel[p] <= listedBoot /\ next[p] <= listedBoot
      /\ n \in 0..MaxLines /\ n <= written[sel[p]]
  <2>1. /\ sel[p] \in Boots /\ sel[p] # 0 /\ sel[p] <= listedBoot /\ next[p] <= listedBoot
        /\ n <= batch[p].end /\ batch[p].end <= written[sel[p]]
    BY <1>1, <1>2 DEF TypeOK, InRange, Boots
  <2>2. n \in 0..MaxLines /\ batch[p].end \in 0..MaxLines /\ written[sel[p]] \in 0..MaxLines
    BY <1>1, <1>2, <2>1 DEF TypeOK, Batch
  <2> QED
    BY <2>1, <2>2
<1>4. /\ UNCHANGED <<env, stored, posts, skipped, left, sel, next, hint, waits, consumer, crashes>>
      /\ off' = [off EXCEPT ![p] = n] /\ batch' = [batch EXCEPT ![p] = None]
      /\ Save(sel[p], n)
  BY DEF Finish, Handled
<1>5. Accounted' = Accounted /\ Cov(written, Accounted', sel[p], n)
  BY <1>2, <1>4, Locals DEF Accounted, EngineCov
<1>6. CkptGood
  BY <1>3, <1>4, <1>5, CkptSaved DEF env
<1>7. off' \in [Processes -> 0..MaxLines] /\ off'[p] = n
      /\ batch' \in [Processes -> Batch \cup {None}] /\ batch'[p] = None
  BY <1>1, <1>3, <1>4 DEF TypeOK
<1>8. TypeOK'
  <2>1. ckpt' \in Checkpoint \cup {None} /\ faults' \in 0..MaxFaults
    BY <1>1, <1>3, <1>4, SaveTypes
  <2>2. /\ skipped' \subseteq Line /\ left' \subseteq Line
        /\ sel' \in [Processes -> 0..MaxBoots] /\ next' \in [Processes -> 0..MaxBoots]
        /\ hint' \in [Processes -> 0..MaxLines] /\ waits' \in [Processes -> BOOLEAN]
    BY <1>1, <1>4 DEF TypeOK
  <2> QED
    BY <1>1, <1>4, <1>7, <2>1, <2>2, TypesKeep
<1>9. Others(p)
  BY <1>1, <1>4 DEF Others, TypeOK
<1>10. /\ Ranged(sel'[p], next'[p], off'[p], batch'[p])
       /\ Asks(waits'[p], sel'[p], batch'[p], queue[p])
       /\ EngineCov(written, Accounted', sel'[p], off'[p], batch'[p])
  BY <1>2, <1>3, <1>4, <1>5, <1>7 DEF Ranged, Asks, EngineCov
<1> QED
  BY <1>4, <1>6, <1>8, <1>9, <1>10, EngineStep

\* The queue's new last line is the next of the download, and everything
\* before it is covered.
LEMMA EnqueueKeeps ==
    ASSUME LogInv, NEW p \in Processes, Enqueue(p)
    PROVE  LogInv'
<1> DEFINE l == <<sel[p], batch[p].pos + 1>>
<1>1. TypeOK /\ InRange
  BY DEF LogInv
<1>2. batch[p] # None /\ batch[p].ok /\ batch[p].pos < batch[p].end /\ batch[p] \in Batch
  BY <1>1 DEF Enqueue, TypeOK
<1>3. /\ sel[p] \in Boots /\ sel[p] \in Nat /\ sel[p] <= listedBoot /\ batch[p].pos \in Nat
      /\ batch[p].pos + 1 <= written[sel[p]] /\ batch[p].pos + 1 \in 1..MaxLines
  <2>1. sel[p] \in Boots /\ sel[p] <= listedBoot /\ batch[p].end <= written[sel[p]]
    BY <1>1, <1>2 DEF TypeOK, InRange, Boots
  <2>2. /\ batch[p].pos \in 0..MaxLines /\ batch[p].end \in 0..MaxLines
        /\ written[sel[p]] \in 0..MaxLines
    BY <1>1, <1>2, <2>1 DEF TypeOK, Batch
  <2> QED
    BY <1>2, <2>1, <2>2, KillLogAssumption DEF Boots
<1>4. l \in Line /\ l[1] = sel[p] /\ l[2] = batch[p].pos + 1
  BY <1>3, LineParts
<1>5. UNCHANGED <<env, rows, sel, next, off, hint, batch, fresh, last, faults, crashes>>
      /\ queue' = [queue EXCEPT ![p] = Append(queue[p], l)]
      /\ waits' = [waits EXCEPT ![p] = TRUE]
  BY DEF Enqueue
<1>6. /\ queue[p] \in Seq(Line) /\ queue'[p] = Append(queue[p], l)
      /\ queue' \in [Processes -> Seq(Line)]
      /\ \A q \in Processes : q # p => queue'[q] = queue[q]
  BY <1>1, <1>4, <1>5 DEF TypeOK
<1>7. TypeOK'
  BY <1>1, <1>5, <1>6 DEF TypeOK, env, rows
<1>8. InRange'
  BY <1>1, <1>5 DEF InRange, env, rows
<1>9. Asked'
  <2>1. \A q \in Processes : q # p => Asks(waits'[q], sel'[q], batch'[q], queue'[q])
    BY <1>1, <1>5, <1>6, Locals DEF TypeOK
  <2>2. queue'[p] # <<>> /\ queue'[p][Len(queue'[p])] = l
    BY <1>4, <1>6
  <2>3. Asks(waits'[p], sel'[p], batch'[p], queue'[p])
    BY <1>2, <1>5, <2>2 DEF Asks
  <2> QED
    BY <2>1, <2>3 DEF Asked, Asks
<1>10. FreshOnce' /\ PostedOnce' /\ FreshLater'
  <2>1. \A q \in Processes : queue[q] # <<>> => queue'[q] # <<>> /\ Head(queue'[q]) = Head(queue[q])
    <3>1. queue[p] # <<>> => queue'[p] # <<>> /\ Head(queue'[p]) = Head(queue[p])
      BY <1>4, <1>6
    <3> QED
      BY <1>6, <3>1
  <2> QED
    BY <1>5, <2>1 DEF LogInv, FreshOnce, PostedOnce, FreshLater, rows
<1>11. AllCovered'
  <2>1. Onward /\ listedBoot' \in Nat
    BY <1>1, <1>5 DEF Onward, Grown, Accounted, env, rows, TypeOK, Boots
  <2>2. Before(written', Accounted', listedBoot', l, l[2] - 1)
    <3>1. l[2] - 1 = batch[p].pos /\ Cov(written, Accounted, sel[p], batch[p].pos)
      BY <1>2, <1>3, <1>4, Locals DEF EngineCov
    <3> QED
      BY <1>3, <1>4, <1>5, <3>1 DEF Before, Accounted, env, rows
  <2>3. ASSUME NEW q \in Processes
        PROVE  QueueCov(written', Accounted', listedBoot', last'[q], queue'[q])
    <3>1. CASE q # p
      BY <1>5, <1>6, <2>1, <3>1, QueueStays
    <3>2. CASE q = p
      <4>1. QueueCov(written', Accounted', listedBoot', last[p], queue[p])
        BY <2>1, QueueStays
      <4>2. \A i \in DOMAIN queue'[p] :
               (i \in DOMAIN queue[p] /\ queue'[p][i] = queue[p][i]) \/ queue'[p][i] = l
        BY <1>4, <1>6
      <4> QED
        BY <1>5, <2>2, <3>2, <4>1, <4>2 DEF QueueCov
    <3> QED
      BY <3>1, <3>2
  <2>4. \A q \in Processes : EngineCov(written', Accounted', sel'[q], off'[q], batch'[q])
    BY <1>5, <2>1, EngineStays
  <2>5. ckpt' # None => Cov(written', Accounted', ckpt'.boot, ckpt'.off)
    BY <1>5, <2>1, CkptStays DEF rows
  <2> QED
    BY <2>3, <2>4, <2>5, CoveredIs
<1> QED
  BY <1>7, <1>8, <1>9, <1>10, <1>11 DEF LogInv

\* A queue without its head.
LEMMA TailParts ==
    ASSUME NEW q \in Seq(Line), q # <<>>
    PROVE  /\ Tail(q) \in Seq(Line) /\ Head(q) = q[1] /\ Len(q) \in Nat /\ Len(q) >= 1
           /\ Len(Tail(q)) = Len(q) - 1
           /\ \A i \in DOMAIN Tail(q) : i + 1 \in DOMAIN q /\ Tail(q)[i] = q[i + 1]
           /\ Len(q) # 1 => Tail(q) # <<>> /\ Tail(q)[Len(Tail(q))] = q[Len(q)]
<1>1. Tail(q) \in Seq(Line) /\ Head(q) = q[1] /\ Len(q) \in Nat /\ Len(q) >= 1
  OBVIOUS
<1>2. Len(Tail(q)) = Len(q) - 1
  OBVIOUS
<1>3. \A i \in DOMAIN Tail(q) : i + 1 \in DOMAIN q /\ Tail(q)[i] = q[i + 1]
  OBVIOUS
<1>4. ASSUME Len(q) # 1
      PROVE  Tail(q) # <<>> /\ Tail(q)[Len(Tail(q))] = q[Len(q)]
  <2>1. Len(Tail(q)) \in Nat /\ Len(Tail(q)) >= 1
    BY <1>1, <1>2, <1>4
  <2>2. Len(Tail(q)) \in DOMAIN Tail(q)
    BY <1>1, <2>1
  <2>3. Tail(q)[Len(Tail(q))] = q[Len(Tail(q)) + 1]
    BY <1>3, <2>2
  <2> QED
    BY <1>1, <1>2, <2>1, <2>3
<1> QED
  BY <1>1, <1>2, <1>3, <1>4

\* A download whose next line is handled, or has failed.
LEMMA BatchSteps ==
    ASSUME NEW m \in Batch
    PROVE  /\ m.pos \in Nat /\ m.end \in 0..MaxLines /\ m # None
           /\ [m EXCEPT !.ok = FALSE] \in Batch /\ [m EXCEPT !.ok = FALSE].pos = m.pos
           /\ [m EXCEPT !.ok = FALSE].end = m.end
           /\ [m EXCEPT !.pos = @ + 1].pos = m.pos + 1 /\ [m EXCEPT !.pos = @ + 1].end = m.end
           /\ m.pos < m.end => [m EXCEPT !.pos = @ + 1] \in Batch
<1>1. m.pos \in Nat /\ m.end \in 0..MaxLines /\ m # None /\ MaxLines \in Nat
  BY KillLogAssumption DEF Batch
<1>2. [m EXCEPT !.ok = FALSE] \in Batch
  BY DEF Batch
<1>3. [m EXCEPT !.ok = FALSE].pos = m.pos /\ [m EXCEPT !.ok = FALSE].end = m.end
  BY DEF Batch
<1>4. [m EXCEPT !.pos = @ + 1].pos = m.pos + 1 /\ [m EXCEPT !.pos = @ + 1].end = m.end
  BY DEF Batch
<1>5. ASSUME m.pos < m.end
      PROVE  [m EXCEPT !.pos = @ + 1] \in Batch
  <2>1. m.pos + 1 \in 0..MaxLines
    BY <1>1, <1>5
  <2> QED
    BY <2>1 DEF Batch
<1> QED
  BY <1>1, <1>2, <1>3, <1>4, <1>5

\* The head of the queue is answered: the engine that waits for it goes on,
\* or its download has failed.
LEMMA AnswerKeeps ==
    ASSUME LogInv, NEW p \in Processes, NEW good \in BOOLEAN, queue[p] # <<>>, Answer(p, good),
           UNCHANGED <<env, sel, next, off>>, Accounted \subseteq Accounted',
           good => Head(queue[p]) \in Accounted'
    PROVE  /\ queue' \in [Processes -> Seq(Line)] /\ waits' \in [Processes -> BOOLEAN]
           /\ batch' \in [Processes -> Batch \cup {None}]
           /\ queue'[p] = Tail(queue[p]) /\ \A q \in Processes : q # p => queue'[q] = queue[q]
           /\ Others(p)
           /\ Ranged(sel'[p], next'[p], off'[p], batch'[p])
           /\ Asks(waits'[p], sel'[p], batch'[p], queue'[p])
           /\ EngineCov(written, Accounted', sel'[p], off'[p], batch'[p])
<1> DEFINE m == batch[p]
           awaited == waits[p] /\ Len(queue[p]) = 1
           more == [m EXCEPT !.pos = @ + 1]
           less == [m EXCEPT !.ok = FALSE]
<1>1. TypeOK
  BY DEF LogInv
<1>2. /\ queue[p] \in Seq(Line) /\ Len(queue[p]) \in Nat /\ Len(queue[p]) >= 1
      /\ Tail(queue[p]) \in Seq(Line) /\ Head(queue[p]) = queue[p][1]
      /\ waits[p] \in BOOLEAN
  BY <1>1 DEF TypeOK
<1>3. /\ queue' = [queue EXCEPT ![p] = Tail(queue[p])]
      /\ waits' = [waits EXCEPT ![p] = waits[p] /\ ~awaited]
      /\ \/ ~awaited /\ batch' = batch
         \/ awaited /\ good /\ batch' = [batch EXCEPT ![p] = more]
         \/ awaited /\ batch' = [batch EXCEPT ![p] = less]
  BY DEF Answer
<1>4. /\ Ranged(sel[p], next[p], off[p], m) /\ Asks(waits[p], sel[p], m, queue[p])
      /\ EngineCov(written, Accounted, sel[p], off[p], m)
      /\ m # None => m \in Batch /\ sel[p] \in Boots
      /\ off[p] \in 0..MaxLines
  BY Locals DEF Ranged
<1>5. awaited => /\ m # None /\ m \in Batch /\ m.pos < m.end
                 /\ Head(queue[p]) = <<sel[p], m.pos + 1>>
  BY <1>2, <1>4 DEF Asks
<1>6. m \in Batch => /\ m.pos \in Nat /\ m.end \in 0..MaxLines
                     /\ less \in Batch /\ less.pos = m.pos /\ less.end = m.end
                     /\ more.pos = m.pos + 1 /\ more.end = m.end
                     /\ (m.pos < m.end => more \in Batch)
  BY BatchSteps
<1>7. None \notin Batch
  BY KillLogAssumption DEF Batch
<1>8. /\ queue' \in [Processes -> Seq(Line)] /\ waits' \in [Processes -> BOOLEAN]
      /\ queue'[p] = Tail(queue[p]) /\ \A q \in Processes : q # p => queue'[q] = queue[q]
      /\ waits'[p] = (waits[p] /\ ~awaited) /\ \A q \in Processes : q # p => waits'[q] = waits[q]
  BY <1>1, <1>2, <1>3 DEF TypeOK
<1>9. /\ batch' \in [Processes -> Batch \cup {None}]
      /\ \A q \in Processes : q # p => batch'[q] = batch[q]
      /\ \/ ~awaited /\ batch'[p] = m
         \/ awaited /\ good /\ batch'[p] = more
         \/ awaited /\ batch'[p] = less
  <2>1. CASE ~awaited /\ batch' = batch
    BY <1>1, <2>1 DEF TypeOK
  <2>2. CASE awaited /\ good /\ batch' = [batch EXCEPT ![p] = more]
    <3>1. more \in Batch
      BY <1>5, <1>6, <2>2
    <3> HIDE DEF more, awaited
    <3> QED
      BY <1>1, <2>2, <3>1 DEF TypeOK
  <2>3. CASE awaited /\ batch' = [batch EXCEPT ![p] = less]
    <3>1. less \in Batch
      BY <1>5, <1>6, <2>3
    <3> HIDE DEF less, awaited
    <3> QED
      BY <1>1, <2>3, <3>1 DEF TypeOK
  <2> QED
    BY <1>3, <2>1, <2>2, <2>3
<1>10. Others(p)
  BY <1>8, <1>9 DEF Others
<1>11. Ranged(sel[p], next[p], off[p], batch'[p])
  <2>1. CASE ~awaited /\ batch'[p] = m
    BY <1>4, <2>1
  <2>2. CASE awaited /\ good /\ batch'[p] = more
    <3>1. more.pos <= more.end /\ more.end = m.end
      BY <1>5, <1>6, <2>2
    <3> HIDE DEF more
    <3> QED
      BY <1>4, <1>5, <2>2, <3>1 DEF Ranged
  <2>3. CASE awaited /\ batch'[p] = less
    <3>1. less.pos = m.pos /\ less.end = m.end
      BY <1>5, <1>6, <2>3
    <3> HIDE DEF less
    <3> QED
      BY <1>4, <1>5, <2>3, <3>1 DEF Ranged
  <2> QED
    BY <1>9, <2>1, <2>2, <2>3
<1>12. Asks(waits'[p], sel[p], batch'[p], queue'[p])
  <2>1. CASE waits[p] /\ ~awaited
    <3>1. batch'[p] = m
      <4> HIDE DEF m, more, less
      <4> QED
        BY <1>9, <2>1
    <3>2. Tail(queue[p]) # <<>> /\ Tail(queue[p])[Len(Tail(queue[p]))] = queue[p][Len(queue[p])]
      BY <1>2, <2>1, TailParts
    <3> QED
      BY <1>4, <1>8, <2>1, <3>1, <3>2 DEF Asks
  <2> QED
    BY <1>8, <2>1 DEF Asks
<1>13. EngineCov(written, Accounted', sel[p], off[p], batch'[p])
  <2>1. EngineCov(written, Accounted', sel[p], off[p], m)
    BY <1>4 DEF EngineCov, Cov
  <2>2. CASE awaited /\ good /\ batch'[p] = more
    <3>1. Cov(written, Accounted', sel[p], m.pos + 1)
      <4>1. m # None /\ m.pos \in Nat /\ sel[p] \in Nat
        BY <1>4, <1>5, <1>6, <2>2 DEF Boots
      <4>2. <<sel[p], m.pos + 1>> \in Accounted'
        BY <1>5, <2>2
      <4>3. Cov(written, Accounted', sel[p], m.pos)
        BY <2>1, <4>1 DEF EngineCov
      <4> QED
        BY <4>1, <4>2, <4>3, MoreCovered
    <3>2. more.pos = m.pos + 1
      BY <1>5, <1>6, <2>2
    <3> HIDE DEF more
    <3> QED
      BY <2>1, <2>2, <3>1, <3>2 DEF EngineCov
  <2>3. CASE awaited /\ batch'[p] = less
    <3>1. less.pos = m.pos /\ m # None
      BY <1>5, <1>6, <2>3
    <3> HIDE DEF less
    <3> QED
      BY <2>1, <2>3, <3>1 DEF EngineCov
  <2> QED
    BY <1>9, <2>1, <2>2, <2>3
<1> QED
  BY <1>8, <1>9, <1>10, <1>11, <1>12, <1>13

\* A step of a consumer that takes the head off its queue keeps the invariant
\* when it does for the cards and the consumer's last line.
LEMMA ConsumerStep ==
    ASSUME LogInv, NEW p \in Processes, NEW good \in BOOLEAN, queue[p] # <<>>, Answer(p, good),
           UNCHANGED <<env, ckpt, skipped, left, sel, next, off, hint, crashes>>,
           stored \subseteq stored', stored' \subseteq Line, faults' \in 0..MaxFaults,
           good => Head(queue[p]) \in Accounted',
           posts' \in [Line -> Nat], fresh' \in [Processes -> Line \cup {None}],
           last' \in [Processes -> Line \cup {None}],
           \A q \in Processes : q # p => last'[q] = last[q],
           last'[p] # None => Before(written, Accounted', listedBoot, last'[p], last'[p][2]),
           FreshOnce', PostedOnce', FreshLater'
    PROVE  LogInv'
<1>1. TypeOK /\ InRange
  BY DEF LogInv
<1>2. Onward /\ listedBoot' \in Nat /\ Accounted \subseteq Accounted'
  BY <1>1 DEF Onward, Grown, Accounted, env, TypeOK, Boots
<1>3. /\ queue' \in [Processes -> Seq(Line)] /\ waits' \in [Processes -> BOOLEAN]
      /\ batch' \in [Processes -> Batch \cup {None}]
      /\ queue'[p] = Tail(queue[p]) /\ \A q \in Processes : q # p => queue'[q] = queue[q]
      /\ Others(p)
      /\ Ranged(sel'[p], next'[p], off'[p], batch'[p])
      /\ Asks(waits'[p], sel'[p], batch'[p], queue'[p])
      /\ EngineCov(written, Accounted', sel'[p], off'[p], batch'[p])
  BY <1>2, AnswerKeeps DEF env
<1>4. TypeOK'
  BY <1>1, <1>3 DEF TypeOK, env
<1>5. InRange'
  <2>1. \A q \in Processes : Ranged(sel'[q], next'[q], off'[q], batch'[q])
    BY <1>3, Locals DEF Others
  <2> QED
    BY <1>1, <2>1 DEF env, InRange, Ranged
<1>6. Asked'
  <2>1. \A q \in Processes : Asks(waits'[q], sel'[q], batch'[q], queue'[q])
    BY <1>3, Locals DEF Others
  <2> QED
    BY <2>1 DEF Asked, Asks
<1>7. AllCovered'
  <2>1. ASSUME NEW q \in Processes
        PROVE  EngineCov(written', Accounted', sel'[q], off'[q], batch'[q])
    <3>1. CASE q = p
      BY <1>3, <3>1 DEF env
    <3>2. CASE q # p
      BY <1>2, <1>3, <3>2, EngineStays DEF Others
    <3> QED
      BY <3>1, <3>2
  <2>2. ASSUME NEW q \in Processes
        PROVE  QueueCov(written', Accounted', listedBoot', last'[q], queue'[q])
    <3>1. QueueCov(written', Accounted', listedBoot', last[q], queue[q])
      BY <1>2, QueueStays
    <3>2. CASE q = p
      <4>1. queue[p] \in Seq(Line)
        BY <1>1 DEF TypeOK
      <4>2. \A i \in DOMAIN queue'[p] : i + 1 \in DOMAIN queue[p] /\ queue'[p][i] = queue[p][i + 1]
        BY <1>3, <4>1, TailParts, SMTT(30)
      <4>3. last'[p] # None => Before(written', Accounted', listedBoot', last'[p], last'[p][2])
        BY DEF env
      <4> QED
        BY <3>1, <3>2, <4>2, <4>3 DEF QueueCov
    <3>3. CASE q # p
      BY <1>3, <3>1, <3>3
    <3> QED
      BY <3>2, <3>3
  <2>3. ckpt' # None => Cov(written', Accounted', ckpt'.boot, ckpt'.off)
    BY <1>2, CkptStays
  <2> QED
    BY <2>1, <2>2, <2>3, CoveredIs
<1> QED
  BY <1>4, <1>5, <1>6, <1>7 DEF LogInv

\* The consumer's last line is still before all that is covered.
LEMMA LastStays ==
    ASSUME LogInv, NEW p \in Processes, UNCHANGED env, Accounted \subseteq Accounted'
    PROVE  last[p] # None => Before(written, Accounted', listedBoot, last[p], last[p][2])
<1>1. QueueCov(written, Accounted, listedBoot, last[p], queue[p])
  BY CoveredIs DEF LogInv
<1> QED
  BY <1>1 DEF QueueCov, Before, Cov

LEMMA DuplicateKeeps ==
    ASSUME LogInv, NEW p \in Processes, Duplicate(p)
    PROVE  LogInv'
<1>1. TypeOK
  BY DEF LogInv
<1>2. /\ queue[p] # <<>> /\ Head(queue[p]) \in stored /\ Answer(p, TRUE)
      /\ UNCHANGED <<env, rows, sel, next, off, hint, fresh, last, faults, crashes>>
  BY DEF Duplicate, IsDuplicate
<1>3. Accounted' = Accounted /\ Head(queue[p]) \in Accounted'
  BY <1>2 DEF Accounted, rows
<1>4. FreshOnce' /\ PostedOnce' /\ FreshLater'
  <2>1. fresh[p] = None /\ queue' = [queue EXCEPT ![p] = Tail(queue[p])]
    BY DEF Duplicate, Answer
  <2>2. \A q \in Processes : fresh[q] # None => queue'[q] = queue[q]
    BY <1>1, <2>1 DEF TypeOK
  <2> QED
    BY <1>2, <2>2 DEF LogInv, FreshOnce, PostedOnce, FreshLater, rows
<1>5. last'[p] # None => Before(written, Accounted', listedBoot, last'[p], last'[p][2])
  BY <1>2, <1>3, LastStays
<1>6. /\ UNCHANGED <<ckpt, skipped, left, stored>> /\ stored' \subseteq Line /\ faults' \in 0..MaxFaults
      /\ posts' \in [Line -> Nat] /\ fresh' \in [Processes -> Line \cup {None}]
      /\ last' \in [Processes -> Line \cup {None}] /\ last' = last
  BY <1>1, <1>2 DEF TypeOK, rows
<1> QED
  BY <1>2, <1>3, <1>4, <1>5, <1>6, ConsumerStep

LEMMA FailInsertKeeps ==
    ASSUME LogInv, NEW p \in Processes, FailInsert(p)
    PROVE  LogInv'
<1>1. TypeOK
  BY DEF LogInv
<1>2. /\ queue[p] # <<>> /\ Answer(p, FALSE) /\ Fault
      /\ stored' \in {stored, stored \cup {Head(queue[p])}}
      /\ UNCHANGED <<env, ckpt, posts, skipped, left, sel, next, off, hint, fresh, last, crashes>>
  BY DEF FailInsert
<1>3. stored \subseteq stored' /\ stored' \subseteq Line /\ Accounted \subseteq Accounted'
  <2>1. Head(queue[p]) \in Line
    BY <1>1, <1>2 DEF TypeOK
  <2> QED
    BY <1>1, <1>2, <2>1 DEF Accounted, TypeOK
<1>4. FreshOnce' /\ PostedOnce' /\ FreshLater'
  <2>1. fresh[p] = None /\ queue' = [queue EXCEPT ![p] = Tail(queue[p])]
    BY DEF FailInsert, Answer
  <2>2. \A q \in Processes : fresh[q] # None => queue'[q] = queue[q]
    BY <1>1, <2>1 DEF TypeOK
  <2> QED
    BY <1>2, <1>3, <2>2 DEF LogInv, FreshOnce, PostedOnce, FreshLater
<1>5. last'[p] # None => Before(written, Accounted', listedBoot, last'[p], last'[p][2])
  BY <1>2, <1>3, LastStays
<1>6. /\ UNCHANGED <<ckpt, skipped, left>> /\ faults' \in 0..MaxFaults
      /\ posts' \in [Line -> Nat] /\ fresh' \in [Processes -> Line \cup {None}]
      /\ last' \in [Processes -> Line \cup {None}] /\ last' = last
  BY <1>1, <1>2, FaultTypes DEF TypeOK
<1> QED
  BY <1>2, <1>3, <1>4, <1>5, <1>6, ConsumerStep

\* The head of a queue is a line of its file.
LEMMA HeadIs ==
    ASSUME LogInv, NEW p \in Processes, queue[p] # <<>>
    PROVE  /\ Head(queue[p]) = queue[p][1] /\ Head(queue[p]) \in Line
           /\ Before(written, Accounted, listedBoot, Head(queue[p]), Head(queue[p])[2] - 1)
<1>1. queue[p] \in Seq(Line)
  BY DEF LogInv, TypeOK
<1>2. Head(queue[p]) = queue[p][1] /\ 1 \in DOMAIN queue[p]
  BY <1>1, TailParts
<1>3. QueueCov(written, Accounted, listedBoot, last[p], queue[p])
  BY CoveredIs DEF LogInv
<1> QED
  BY <1>2, <1>3 DEF QueueCov, Before

\* The inserted line was not accounted for, so it comes after all that is
\* covered, unless it was given up.
LEMMA InsertKeeps ==
    ASSUME LogInv, NEW p \in Processes, Insert(p)
    PROVE  LogInv'
<1> DEFINE l == Head(queue[p])
<1>1. TypeOK /\ InRange
  BY DEF LogInv
<1>2. /\ queue[p] # <<>> /\ l \notin stored /\ stored' = stored \cup {l}
      /\ fresh' = [fresh EXCEPT ![p] = l]
      /\ UNCHANGED <<env, ckpt, posts, skipped, left, engine, queue, last, faults, crashes>>
  BY DEF Insert, IsDuplicate
<1>3. l \in Line /\ Before(written, Accounted, listedBoot, l, l[2] - 1)
  BY <1>2, HeadIs
<1> HIDE DEF l
<1>4. Onward /\ listedBoot' \in Nat
  BY <1>1, <1>2 DEF Onward, Grown, Accounted, env, TypeOK, Boots
<1>5. /\ fresh' \in [Processes -> Line \cup {None}] /\ fresh'[p] = l
      /\ \A q \in Processes : q # p => fresh'[q] = fresh[q]
  BY <1>1, <1>2, <1>3 DEF TypeOK
<1>6. TypeOK'
  BY <1>1, <1>2, <1>3, <1>5 DEF TypeOK, env, engine
<1>7. InRange' /\ Asked'
  BY <1>2 DEF LogInv, InRange, Asked, env, engine
<1>8. posts[l] = 0 /\ PostedOnce'
  BY <1>1, <1>2, <1>3 DEF LogInv, PostedOnce, TypeOK
<1>9. FreshOnce'
  <2>1. \A q \in Processes : q # p => fresh[q] # l
    BY <1>2, <1>3, KillLogAssumption DEF LogInv, FreshOnce
  <2>2. l = Head(queue[p])
    BY DEF l
  <2> QED
    BY <1>2, <1>5, <1>8, <2>1, <2>2 DEF LogInv, FreshOnce
<1>10. FreshLater'
  <2>1. ASSUME last[p] # None, l \notin skipped \cup left
        PROVE  Earlier(last[p], l)
    <3>1. l \notin Accounted
      BY <1>2, <2>1 DEF Accounted
    <3>2. last[p] \in Line /\ Cov(written, Accounted, last[p][1], last[p][2])
      BY <2>1, CoveredIs DEF LogInv, QueueCov, Before
    <3>3. ~(l[1] < last[p][1] \/ (l[1] = last[p][1] /\ l[2] <= last[p][2]))
      BY <1>3, <3>1, <3>2 DEF Cov, Before
    <3>4. /\ l[1] \in Nat /\ l[2] \in Nat /\ last[p][1] \in Nat /\ last[p][2] \in Nat
      BY <1>3, <3>2, LineParts DEF Boots
    <3> QED
      BY <3>3, <3>4 DEF Earlier
  <2> QED
    BY <1>2, <1>5, <2>1 DEF LogInv, FreshLater
<1>11. AllCovered'
  BY <1>2, <1>4, CoveredIs, CkptStays, EngineStays, QueueStays DEF engine
<1> QED
  BY <1>6, <1>7, <1>8, <1>9, <1>10, <1>11 DEF LogInv

LEMMA PostKeeps ==
    ASSUME LogInv, NEW p \in Processes, Post(p)
    PROVE  LogInv'
<1> DEFINE l == fresh[p]
<1>1. TypeOK
  BY DEF LogInv
<1>2. /\ l # None /\ Answer(p, TRUE)
      /\ posts' = [posts EXCEPT ![l] = @ + 1] /\ last' = [last EXCEPT ![p] = l]
      /\ fresh' = [fresh EXCEPT ![p] = None]
      /\ UNCHANGED <<env, stored, ckpt, skipped, left, sel, next, off, hint, faults, crashes>>
  BY DEF Post
<1>3. /\ queue[p] # <<>> /\ l = Head(queue[p]) /\ l \in stored /\ posts[l] = 0
      /\ \A q \in Processes : fresh[q] = l => q = p
  BY <1>2 DEF LogInv, FreshOnce
<1>4. l \in Line /\ Before(written, Accounted, listedBoot, l, l[2] - 1)
  BY <1>3, HeadIs
<1>5. Accounted' = Accounted /\ Head(queue[p]) \in Accounted'
  BY <1>2, <1>3 DEF Accounted
<1> HIDE DEF l
<1>6. /\ posts' \in [Line -> Nat] /\ posts'[l] = 1
      /\ \A k \in Line : k # l => posts'[k] = posts[k]
  BY <1>1, <1>2, <1>3, <1>4 DEF TypeOK
<1>7. /\ fresh' \in [Processes -> Line \cup {None}] /\ fresh'[p] = None
      /\ last' \in [Processes -> Line \cup {None}] /\ last'[p] = l
      /\ \A q \in Processes : q # p => fresh'[q] = fresh[q] /\ last'[q] = last[q]
  BY <1>1, <1>2, <1>4 DEF TypeOK
<1>8. PostedOnce'
  BY <1>2, <1>3, <1>6 DEF LogInv, PostedOnce
<1>9. FreshOnce' /\ FreshLater'
  <2>1. queue' = [queue EXCEPT ![p] = Tail(queue[p])]
    BY <1>2 DEF Answer
  <2>2. \A q \in Processes : q # p => queue'[q] = queue[q]
    BY <1>1, <2>1 DEF TypeOK
  <2>3. \A q \in Processes : fresh'[q] # None =>
            q # p /\ fresh[q] # None /\ fresh[q] # l /\ fresh[q] \in Line
    BY <1>1, <1>3, <1>7 DEF TypeOK
  <2>4. FreshLater'
    BY <1>2, <1>7 DEF LogInv, FreshLater
  <2>5. FreshOnce'
    BY <1>2, <1>6, <1>7, <2>2, <2>3 DEF LogInv, FreshOnce
  <2> QED
    BY <2>4, <2>5
<1>10. Before(written, Accounted', listedBoot, l, l[2])
  <2>1. l[1] \in Nat /\ l[2] \in Nat /\ l[2] - 1 \in Nat /\ l = <<l[1], (l[2] - 1) + 1>>
        /\ l[2] = (l[2] - 1) + 1
    BY <1>4, LineParts DEF Boots
  <2>2. Cov(written, Accounted, l[1], l[2] - 1) /\ l \in Accounted
    BY <1>3, <1>4 DEF Before, Accounted
  <2>3. Cov(written, Accounted, l[1], l[2])
    BY <2>1, <2>2, MoreCovered
  <2> QED
    BY <1>4, <1>5, <2>3 DEF Before
<1>11. stored' \subseteq Line /\ stored \subseteq stored' /\ faults' \in 0..MaxFaults
  BY <1>1, <1>2 DEF TypeOK
<1> QED
  BY <1>2, <1>3, <1>5, <1>6, <1>7, <1>8, <1>9, <1>10, <1>11, ConsumerStep

LEMMA StopKeeps ==
    ASSUME LogInv, NEW p \in Processes, Stop(p)
    PROVE  LogInv'
<1>1. TypeOK /\ InRange
  BY DEF LogInv
<1>2. /\ sel' = [sel EXCEPT ![p] = 0] /\ off' = [off EXCEPT ![p] = 0]
      /\ hint' = [hint EXCEPT ![p] = 0] /\ next' = [next EXCEPT ![p] = 0]
      /\ batch' = [batch EXCEPT ![p] = None] /\ waits' = [waits EXCEPT ![p] = FALSE]
      /\ queue' = [queue EXCEPT ![p] = <<>>] /\ fresh' = [fresh EXCEPT ![p] = None]
      /\ last' = [last EXCEPT ![p] = None]
      /\ crashes < MaxCrashes /\ crashes' = crashes + 1
      /\ UNCHANGED <<env, stored, ckpt, posts, skipped, left, faults>>
  BY DEF Stop, Follow, rows
<1>3. /\ sel'[p] = 0 /\ off'[p] = 0 /\ next'[p] = 0 /\ batch'[p] = None /\ ~waits'[p]
      /\ queue'[p] = <<>> /\ fresh'[p] = None /\ last'[p] = None
  BY <1>1, <1>2 DEF TypeOK
<1>4. \A q \in Processes : q # p =>
        /\ sel'[q] = sel[q] /\ off'[q] = off[q] /\ next'[q] = next[q] /\ batch'[q] = batch[q]
        /\ waits'[q] = waits[q] /\ queue'[q] = queue[q] /\ fresh'[q] = fresh[q]
        /\ last'[q] = last[q]
  BY <1>1, <1>2 DEF TypeOK
<1>5. TypeOK'
  <2>1. 0 \in 0..MaxLines /\ 0 \in 0..MaxBoots /\ crashes' \in 0..MaxCrashes
    BY <1>1, <1>2, KillLogAssumption DEF TypeOK
  <2>2. /\ sel' \in [Processes -> 0..MaxBoots] /\ next' \in [Processes -> 0..MaxBoots]
        /\ off' \in [Processes -> 0..MaxLines] /\ hint' \in [Processes -> 0..MaxLines]
        /\ batch' \in [Processes -> Batch \cup {None}] /\ waits' \in [Processes -> BOOLEAN]
        /\ queue' \in [Processes -> Seq(Line)]
        /\ fresh' \in [Processes -> Line \cup {None}] /\ last' \in [Processes -> Line \cup {None}]
    BY <1>1, <1>2, <2>1 DEF TypeOK
  <2> QED
    BY <1>1, <1>2, <2>1, <2>2 DEF TypeOK, env
<1>6. InRange'
  <2>1. \A q \in Processes : Ranged(sel'[q], next'[q], off'[q], batch'[q])
    <3>1. Ranged(sel'[p], next'[p], off'[p], batch'[p])
      BY <1>1, <1>3 DEF Ranged, TypeOK, Boots
    <3> QED
      BY <1>4, <3>1, Locals
  <2> QED
    BY <1>1, <1>2, <2>1 DEF env, InRange, Ranged
<1>7. Asked'
  BY <1>3, <1>4 DEF LogInv, Asked
<1>8. FreshOnce' /\ PostedOnce' /\ FreshLater'
  BY <1>2, <1>3, <1>4 DEF LogInv, FreshOnce, PostedOnce, FreshLater
<1>9. AllCovered'
  <2>1. Onward /\ listedBoot' \in Nat
    BY <1>1, <1>2 DEF Onward, Grown, Accounted, env, TypeOK, Boots
  <2>2. ASSUME NEW q \in Processes
        PROVE  /\ EngineCov(written', Accounted', sel'[q], off'[q], batch'[q])
               /\ QueueCov(written', Accounted', listedBoot', last'[q], queue'[q])
    <3>1. CASE q = p
      BY <1>3, <3>1 DEF EngineCov, QueueCov
    <3>2. CASE q # p
      BY <1>4, <2>1, <3>2, EngineStays, QueueStays
    <3> QED
      BY <3>1, <3>2
  <2>3. ckpt' # None => Cov(written', Accounted', ckpt'.boot, ckpt'.off)
    BY <1>2, <2>1, CkptStays
  <2> QED
    BY <2>2, <2>3, CoveredIs
<1> QED
  BY <1>5, <1>6, <1>7, <1>8, <1>9 DEF LogInv

LEMMA LogInit == Init => LogInv
<1> SUFFICES ASSUME Init
             PROVE  LogInv
  OBVIOUS
<1>1. 0 \in 0..MaxLines /\ 0 \in 0..MaxBoots /\ 1 \in Boots /\ 0 \in 0..MaxFaults
      /\ 0 \in 0..MaxCrashes
  BY KillLogAssumption DEF Boots
<1>2. TypeOK
  BY <1>1 DEF Init, TypeOK
<1>3. InRange
  BY DEF Init, InRange
<1>4. Asked /\ FreshOnce /\ PostedOnce /\ FreshLater
  BY DEF Init, Asked, FreshOnce, PostedOnce, FreshLater
<1>5. AllCovered
  BY CoveredIs DEF Init, EngineCov, QueueCov
<1> QED
  BY <1>2, <1>3, <1>4, <1>5 DEF LogInv

LEMMA LogStep == LogInv /\ [Next]_vars => LogInv'
<1> SUFFICES ASSUME LogInv, [Next]_vars
             PROVE  LogInv'
  OBVIOUS
<1>1. CASE Nitrado
  BY <1>1, NitradoKeeps
<1>2. ASSUME NEW p \in Processes, Engine(p)
      PROVE  LogInv'
  BY <1>2, StartKeeps, ChangeFileKeeps, PollKeeps, EnqueueKeeps, GiveUpKeeps, FinishKeeps
     DEF Engine
<1>3. ASSUME NEW p \in Processes, Consumer(p)
      PROVE  LogInv'
  BY <1>3, DuplicateKeeps, InsertKeeps, FailInsertKeeps, PostKeeps DEF Consumer
<1>4. ASSUME NEW p \in Processes, Stop(p)
      PROVE  LogInv'
  BY <1>4, StopKeeps
<1>5. CASE UNCHANGED vars
  <2>1. /\ UNCHANGED <<boot, written, listed, listedBoot, stored, ckpt, posts, skipped, left>>
        /\ UNCHANGED <<sel, next, off, hint, batch, waits, queue, fresh, last, faults, crashes>>
    BY <1>5 DEF vars, env, rows, engine, consumer
  <2>2. TypeOK' /\ InRange'
    BY <2>1 DEF LogInv, TypeOK, InRange
  <2>3. Asked' /\ FreshOnce'
    BY <2>1 DEF LogInv, Asked, FreshOnce
  <2>4. PostedOnce' /\ FreshLater'
    BY <2>1 DEF LogInv, PostedOnce, FreshLater
  <2>5. Accounted' = Accounted
    BY <2>1 DEF Accounted
  <2>6. AllCovered'
    BY <2>1, <2>5, CoveredIs DEF LogInv
  <2> QED
    BY <2>2, <2>3, <2>4, <2>6 DEF LogInv
<1> QED
  BY <1>1, <1>2, <1>3, <1>4, <1>5 DEF Next

\* The inductive invariant: positions lie within the files, a card in the
\* making is the only one of its line, and no line before a checkpoint, a
\* position or a card is unaccounted for.
THEOREM LogSafe == Spec => []LogInv
  BY LogInit, LogStep, PTL DEF Spec

\* However many processes follow the log, whatever fails and stops, a kill
\* or death is posted at most once, and only when its row is stored
\* (InsertKillReturning, persistOne).
THEOREM PostedOnceSafe == Spec => []PostedOnce
<1>1. LogInv => PostedOnce
  BY DEF LogInv
<1> QED
  BY <1>1, LogSafe, PTL

\* The saved checkpoint never passes a line that is neither stored nor given
\* up, although every save overwrites the last (saveDurableCheckpoint).
THEOREM CheckpointSafe == Spec => []CheckpointAccounts
<1>1. LogInv => CheckpointAccounts
  BY DEF LogInv, AllCovered
<1> QED
  BY <1>1, LogSafe, PTL

\* A process's cards follow the order of the log, but for lines given up
\* before and read again.
THEOREM InOrder == Spec => PostsInOrder
<1> DEFINE Order == \A p \in Processes :
             last[p] # None /\ last'[p] \notin {None, last[p]} =>
                 Earlier(last[p], last'[p]) \/ last'[p] \in skipped \cup left
<1>1. ASSUME LogInv, [Next]_vars
      PROVE  Order
  <2> SUFFICES ASSUME NEW p \in Processes, last[p] # None, last'[p] \notin {None, last[p]}
               PROVE  Earlier(last[p], last'[p]) \/ last'[p] \in skipped \cup left
    OBVIOUS
  <2>1. last \in [Processes -> Line \cup {None}]
    BY <1>1 DEF LogInv, TypeOK
  <2>2. ASSUME NEW q \in Processes, Post(q)
        PROVE  q = p /\ fresh[p] # None /\ last'[p] = fresh[p]
    BY <2>1, <2>2 DEF Post
  <2>3. CASE \E q \in Processes : Post(q)
    BY <1>1, <2>2, <2>3 DEF LogInv, FreshLater
  <2>4. ASSUME NEW q \in Processes, Stop(q)
        PROVE  FALSE
    BY <2>1, <2>4 DEF Stop
  <2>5. CASE UNCHANGED last
    BY <2>5
  <2>6. \/ \E q \in Processes : Post(q)
        \/ \E q \in Processes : Stop(q)
        \/ UNCHANGED last
    <3>1. Nitrado => UNCHANGED last
      BY DEF Nitrado, WriteLine, Reboot, ListBoot, ListLines, consumer
    <3>2. \A q \in Processes : Engine(q) => UNCHANGED last
      BY DEF Engine, Resume, ColdStart, BlindStart, FindBoot, ChangeFile, Read, Probe,
           Enqueue, GiveUp, Finish, consumer
    <3>3. \A q \in Processes : Consumer(q) => Post(q) \/ UNCHANGED last
      BY DEF Consumer, Duplicate, Insert, FailInsert
    <3>4. UNCHANGED vars => UNCHANGED last
      BY DEF vars, consumer
    <3> QED
      BY <1>1, <3>1, <3>2, <3>3, <3>4 DEF Next
  <2> QED
    BY <2>3, <2>4, <2>5, <2>6
<1>2. LogInv /\ [Next]_vars => [Order]_vars
  BY <1>1
<1> QED
  BY <1>2, LogSafe, PTL DEF Spec, PostsInOrder
=============================================================================
