------------------------------ MODULE KillFeed ------------------------------
(***************************************************************************)
(* One kill or death feed in immediate mode (internal/discord,             *)
(* RotatingFeed with its FeedJournal): cards wait in memory, go out in     *)
(* groups under the nonce of their first card, stay in a window of at most *)
(* MaxItems cards and are deleted again.  The journal has a row for each   *)
(* card; a process that starts replays the rows that were never confirmed  *)
(* and takes the shown messages back.                                      *)
(*                                                                         *)
(* A pass is a sequence of steps, one per request to Discord or to the     *)
(* journal; a process may end between any two, and another one takes the   *)
(* feed over, at once or, on a deploy, a little too early.  Cards are      *)
(* numbered in the order they were queued.                                 *)
(***************************************************************************)
EXTENDS Naturals, Sequences, FiniteSets, SequencesExt

CONSTANTS
    Processes,
    MaxCards,    \* bound on cards
    MaxItems,    \* cards in the channel (rotatingFeedBatchSize)
    MaxGroup,    \* cards in a message (maxCardsPerMessage)
    MaxPending,  \* backlog (maxPendingCards)
    Refusals,    \* the sets of cards Discord may refuse
    MaxStarts,   \* bound on starts of a process
    MaxMishaps   \* bound on processes that end without a final pass, journal
                 \* statements that fail, requests whose answer is lost,
                 \* nonces Discord forgets and starts that find stale cards

ASSUME FeedAssumption ==
    /\ {MaxCards, MaxItems, MaxGroup, MaxPending} \subseteq Nat \ {0}
    /\ {MaxStarts, MaxMishaps} \subseteq Nat
    /\ Refusals \subseteq SUBSET (1..MaxCards)

VARIABLES
    made,     \* cards queued so far
    mem,      \* what each process holds in memory
    row,      \* discord_feed_cards: each card's row
    sent,     \* messages Discord created, oldest first
    forgot,   \* the nonces of how many of them Discord forgot
    refused,  \* cards Discord refuses
    used,     \* starts and mishaps so far
    harm      \* what went wrong so far

vars == <<made, mem, row, sent, forgot, refused, used, harm>>
discord == <<sent, forgot, refused>>

Cards == 1..MaxCards

\* pc       where the process is
\* pending  cards waiting, oldest first;  saved, solo: their flags
\* window   messages shown, oldest first, and the cards each counts for
\* orphans  messages whose deletion failed
\* group    cards in the message being sent
\* marks    cards of message msg still to be marked posted
\* gone, drops   messages and cards the journal has yet to close
\* final    whether this is the last pass
Off == [pc |-> "off", pending |-> <<>>, saved |-> {}, solo |-> {}, window |-> <<>>,
        orphans |-> {}, group |-> 0, marks |-> <<>>, msg |-> 0, gone |-> {},
        drops |-> {}, final |-> FALSE]

Init ==
    /\ made = 0
    /\ mem = [p \in Processes |-> Off]
    /\ row = [c \in Cards |-> [state |-> "NONE", msg |-> 0]]
    /\ sent = <<>>
    /\ forgot = 0
    /\ refused \in Refusals
    /\ used = [starts |-> 0, mishaps |-> 0]
    /\ harm = {}

Running(p) == mem[p].pc # "off"

\* At a step of the pass, with the journal's part of the last one done.
At(p, pc) == mem[p].pc = pc /\ mem[p].gone = {} /\ mem[p].drops = {} /\ mem[p].marks = <<>>

Hold(p, m) == mem' = [mem EXCEPT ![p] = m]

\* Messages ids are deleted from the channel.
Hide(ids) == sent' = [i \in DOMAIN sent |-> [sent[i] EXCEPT !.shown = @ /\ i \notin ids]]

Ids(window) == {window[i].msg : i \in DOMAIN window}

CardsIn(window) == Cardinality(UNION {{i} \X (1..window[i].cards) : i \in DOMAIN window})

\* A set of numbers as a sequence.
Ascending(S) ==
    CHOOSE s \in [1..Cardinality(S) -> S] : \A i, j \in DOMAIN s : i < j => s[i] < s[j]

\* The window without the messages that were deleted.
Without(window, deleted) ==
    LET left == Ascending({i \in DOMAIN window : window[i].msg \notin deleted})
    IN  [k \in DOMAIN left |-> window[left[k]]]

Harm(kinds) ==
    /\ used.mishaps < MaxMishaps
    /\ used' = [used EXCEPT !.mishaps = @ + 1]
    /\ harm' = harm \cup kinds

\* A journal statement fails; delivery goes on from memory.
Fault == Harm({"journal"})

NoFault == UNCHANGED <<used, harm>>

-----------------------------------------------------------------------------
(* Queueing and the journal.                                               *)

EnqueueTimed(p) ==
    /\ Running(p)
    /\ made < MaxCards
    /\ made' = made + 1
    /\ Hold(p, [mem[p] EXCEPT !.pending = Append(@, made')])
    /\ UNCHANGED <<row, discord, used, harm>>

\* Cards without a row get one; a card that has one keeps it.
Record(cards) ==
    row' = [c \in Cards |-> IF c \in cards /\ row[c].state = "NONE"
                              THEN [state |-> "QUEUED", msg |-> 0] ELSE row[c]]

\* A statement that fails leaves the rows before it, and no card flagged.
JournalPending(p) ==
    /\ At(p, "record")
    /\ \/ /\ Record(Range(mem[p].pending) \ mem[p].saved)
          /\ Hold(p, [mem[p] EXCEPT !.pc = "choose", !.saved = Range(mem[p].pending)])
          /\ NoFault
       \/ /\ \E n \in DOMAIN mem[p].pending :
                /\ mem[p].pending[n] \notin mem[p].saved
                /\ Record({mem[p].pending[i] : i \in 1..(n - 1)} \ mem[p].saved)
          /\ Hold(p, [mem[p] EXCEPT !.pc = "choose"])
          /\ Fault
    /\ UNCHANGED <<made, discord>>

\* The row of a card that was dropped or removed stays closed.
JournalPosted(p) ==
    /\ mem[p].marks # <<>>
    /\ LET c == Head(mem[p].marks)
       IN  \/ /\ row' = [row EXCEPT ![c] = [state |-> IF @.state = "QUEUED" THEN "SHOWN" ELSE @.state,
                                            msg |-> IF @.state = "NONE" THEN 0 ELSE mem[p].msg]]
              /\ NoFault
           \/ UNCHANGED row /\ Fault
    /\ Hold(p, [mem[p] EXCEPT !.marks = Tail(@)])
    /\ UNCHANGED <<made, discord>>

\* Only rows in one of the states are closed.
Close(states, cards, to) ==
    row' = [c \in Cards |-> IF c \in cards /\ row[c].state \in states
                              THEN [row[c] EXCEPT !.state = to] ELSE row[c]]

JournalRemoved(p) ==
    /\ mem[p].gone # {}
    /\ \/ Close({"SHOWN"}, {c \in Cards : row[c].msg \in mem[p].gone}, "REMOVED") /\ NoFault
       \/ UNCHANGED row /\ Fault
    /\ Hold(p, [mem[p] EXCEPT !.gone = {}])
    /\ UNCHANGED <<made, discord>>

JournalDropped(p) ==
    /\ mem[p].drops # {}
    /\ \/ Close({"QUEUED", "SHOWN"}, mem[p].drops, "DROPPED") /\ NoFault
       \/ UNCHANGED row /\ Fault
    /\ Hold(p, [mem[p] EXCEPT !.drops = {}])
    /\ UNCHANGED <<made, discord>>

-----------------------------------------------------------------------------
(* A pass (postImmediate).                                                 *)

\* The pass starts with another try at the orphans.
RetryOrphans(p, final, failed) ==
    /\ At(p, "idle")
    /\ final => used.starts < MaxStarts
    /\ failed \subseteq mem[p].orphans
    /\ Hide(mem[p].orphans \ failed)
    /\ Hold(p, [mem[p] EXCEPT !.pc = "record", !.final = final,
                              !.orphans = failed, !.gone = mem[p].orphans \ failed])
    /\ UNCHANGED <<made, row, forgot, refused, used, harm>>

ExpireForgetting(p, n, failed) == \* mutant: a message that was not deleted is let go
    /\ At(p, "idle")
    /\ n \in 1..Len(mem[p].window)
    /\ LET expired == Ids(SubSeq(mem[p].window, 1, n))
       IN  /\ failed \subseteq expired
           /\ Hide(expired \ failed)
           /\ Hold(p, [mem[p] EXCEPT !.window = SubSeq(@, n + 1, Len(@)), !.gone = expired \ failed])
    /\ UNCHANGED <<made, row, forgot, refused, used, harm>>

\* The tick first deletes the messages shown for an interval: some oldest ones.
ExpireImmediate(p, n, failed) ==
    /\ At(p, "idle")
    /\ n \in 1..Len(mem[p].window)
    /\ LET expired == Ids(SubSeq(mem[p].window, 1, n))
       IN  /\ failed \subseteq expired
           /\ Hide(expired \ failed)
           /\ Hold(p, [mem[p] EXCEPT !.window = SubSeq(@, n + 1, Len(@)),
                                     !.orphans = @ \cup failed, !.gone = expired \ failed])
    /\ UNCHANGED <<made, row, forgot, refused, used, harm>>

\* How many cards at the head of the queue go out together; a solo one alone.
NextGroup(m) ==
    LET limit == CHOOSE n \in {MaxGroup, MaxItems, Len(m.pending)} :
                    n <= MaxGroup /\ n <= MaxItems /\ n <= Len(m.pending)
        fits(n) == n = 1 \/ \A i \in 1..n : m.pending[i] \notin m.solo
    IN  CHOOSE n \in 1..limit : fits(n) /\ \A k \in (n + 1)..limit : ~fits(k)

EvictOne(m, n) == \* mutant: the window counts messages
    IF Len(m.window) + 1 > MaxItems THEN 1 ELSE 0

\* The oldest messages that leave to make room for n cards.
Evict(m, n) ==
    CHOOSE k \in 0..Len(m.window) :
        /\ n + CardsIn(SubSeq(m.window, k + 1, Len(m.window))) <= MaxItems
        /\ k = 0 \/ n + CardsIn(SubSeq(m.window, k, Len(m.window))) > MaxItems

\* Nothing waits, an orphan is still shown, or there is no channel to post in.
StopPass(p) ==
    /\ At(p, "choose")
    /\ Hold(p, [mem[p] EXCEPT !.pc = "end"])
    /\ UNCHANGED <<made, row, discord, used, harm>>

\* Room is made first; nothing is posted while a deletion fails.
MakeRoom(p, failed) ==
    /\ At(p, "choose")
    /\ mem[p].pending # <<>> /\ mem[p].orphans = {}
    /\ LET n == NextGroup(mem[p])
           evicted == Ids(SubSeq(mem[p].window, 1, Evict(mem[p], n)))
       IN  /\ failed \subseteq evicted
           /\ Hide(evicted \ failed)
           /\ Hold(p, [mem[p] EXCEPT !.pc = IF failed = {} THEN "send" ELSE "end",
                                     !.group = n, !.gone = evicted \ failed,
                                     !.window = Without(@, evicted \ failed)])
           /\ harm' = harm \cup IF \A i \in 1..n : mem[p].pending[i] \in mem[p].saved
                                 THEN {} ELSE {"unrecorded"}
    /\ UNCHANGED <<made, row, forgot, refused, used>>

Group(p) == SubSeq(mem[p].pending, 1, mem[p].group)

\* Messages Discord knows by the nonce of the group's first card.
Existing(p) == {i \in DOMAIN sent : i > forgot /\ Head(sent[i].cards) = Head(mem[p].pending)}

\* The request is carried out: under a known nonce it creates nothing.
Create(p) ==
    sent' = IF Existing(p) = {} THEN Append(sent, [cards |-> Group(p), shown |-> TRUE]) ELSE sent

\* Discord may look at the nonce before it looks at the cards.
Acceptable(p) == Range(Group(p)) \cap refused = {} \/ Existing(p) # {}

PostedOne(p, cards) == 1 \* mutant: an answer stands for one card

PostedAll(p, cards) == mem[p].group \* mutant: the answer's cards are not counted

\* An existing message holds the cards of an earlier attempt.
Posted(p, cards) ==
    IF Len(cards) > Len(mem[p].pending) THEN Len(mem[p].pending) ELSE Len(cards)

SendGroup(p) ==
    /\ At(p, "send")
    /\ Create(p)
    /\ \E i \in DOMAIN sent' :
        /\ IF Existing(p) = {} THEN i = Len(sent') ELSE i \in Existing(p)
        /\ LET n == Posted(p, sent'[i].cards)
               done == SubSeq(mem[p].pending, 1, n)
           IN  Hold(p, [mem[p] EXCEPT !.pc = "record", !.group = 0, !.marks = done, !.msg = i,
                                      !.pending = SubSeq(@, n + 1, Len(@)), !.saved = @ \ Range(done),
                                      !.solo = @ \ Range(done),
                                      !.window = Append(@, [msg |-> i, cards |-> n])])
    /\ Acceptable(p)
    /\ UNCHANGED <<made, row, forgot, refused, used, harm>>

\* The request is carried out and the answer lost; it is sent again at once,
\* or the cards wait for the next pass.
LoseAnswer(p) ==
    /\ At(p, "send")
    /\ Acceptable(p)
    /\ Create(p)
    /\ \/ UNCHANGED mem
       \/ Hold(p, [mem[p] EXCEPT !.pc = "end", !.group = 0])
    /\ Harm({})
    /\ UNCHANGED <<made, row, forgot, refused>>

SendFails(p) ==
    /\ At(p, "send")
    /\ Hold(p, [mem[p] EXCEPT !.pc = "end", !.group = 0])
    /\ UNCHANGED <<made, row, discord, used, harm>>

RejectAgain(p) == \* mutant: a refused message is tried again as it was
    /\ At(p, "send")
    /\ Range(Group(p)) \cap refused # {}
    /\ Hold(p, [mem[p] EXCEPT !.pc = "record", !.group = 0])
    /\ UNCHANGED <<made, row, discord, used, harm>>

\* A refused message is tried card by card; a card refused alone is dropped.
Reject(p) ==
    /\ At(p, "send")
    /\ Range(Group(p)) \cap refused # {}
    /\ IF mem[p].group > 1
         THEN Hold(p, [mem[p] EXCEPT !.pc = "record", !.group = 0, !.solo = @ \cup Range(Group(p))])
         ELSE Hold(p, [mem[p] EXCEPT !.pc = "record", !.group = 0, !.pending = Tail(@),
                                     !.drops = Range(Group(p)),
                                     !.saved = @ \ Range(Group(p)), !.solo = @ \ Range(Group(p))])
    /\ UNCHANGED <<made, row, discord, used, harm>>

\* A backlog beyond MaxPending loses its oldest cards.
BoundPending(p) ==
    /\ At(p, "end")
    /\ LET over == IF Len(mem[p].pending) > MaxPending THEN Len(mem[p].pending) - MaxPending ELSE 0
           lost == Range(SubSeq(mem[p].pending, 1, over))
       IN  /\ Hold(p, [mem[p] EXCEPT !.pc = IF mem[p].final THEN "exit" ELSE "idle",
                                     !.pending = SubSeq(@, over + 1, Len(@)), !.drops = lost,
                                     !.saved = @ \ lost, !.solo = @ \ lost])
           /\ harm' = IF over > 0 THEN harm \cup {"overflow"} ELSE harm
    /\ UNCHANGED <<made, row, discord, used>>

-----------------------------------------------------------------------------
(* Start, stop and crash.                                                  *)

OpenNewest(state) == \* mutant: the newest row first
    Reverse(Ascending({c \in Cards : row[c].state = state}))

Open(state) == Ascending({c \in Cards : row[c].state = state})

\* The shown cards as messages: rows of one message follow one another.
Shown ==
    LET s == Open("SHOWN")
        first == Ascending({i \in DOMAIN s : i = 1 \/ row[s[i]].msg # row[s[i - 1]].msg})
        next(j) == IF j < Len(first) THEN first[j + 1] ELSE Len(s) + 1
    IN  [j \in DOMAIN first |-> [msg |-> row[s[first[j]]].msg, cards |-> next(j) - first[j]]]

\* Cards that were never confirmed wait again, unless too old; messages still
\* shown are taken back, unless shown too long or too many.
Restore(p, stale, expired, failed) ==
    \E queued \in {Open("QUEUED")}, shown \in {Shown} : \* what the journal answers
    LET keep == SubSeq(shown, expired + 1, Len(shown))
        trim == CHOOSE k \in 0..Len(keep) :
                    /\ CardsIn(SubSeq(keep, k + 1, Len(keep))) <= MaxItems
                    /\ k = 0 \/ CardsIn(SubSeq(keep, k, Len(keep))) > MaxItems
        window == SubSeq(keep, trim + 1, Len(keep))
        remove == Ids(shown) \ Ids(window)
    IN  /\ stale \in 0..Len(queued)
        /\ expired \in 0..Len(shown)
        /\ failed \subseteq remove
        /\ Hide(remove \ failed)
        /\ Hold(p, [Off EXCEPT !.pc = "idle", !.window = window,
                               !.pending = SubSeq(queued, stale + 1, Len(queued)),
                               !.saved = Range(SubSeq(queued, stale + 1, Len(queued))),
                               !.drops = Range(SubSeq(queued, 1, stale)),
                               !.orphans = failed, !.gone = remove \ failed])

Started(kinds, mishaps) ==
    /\ used.mishaps + mishaps <= MaxMishaps
    /\ used' = [starts |-> used.starts + 1, mishaps |-> used.mishaps + mishaps]
    /\ harm' = harm \cup kinds \cup IF \E q \in Processes : Running(q) THEN {"overlap"} ELSE {}

Start(p) ==
    /\ ~Running(p)
    /\ used.starts < MaxStarts
    /\ \/ /\ \E expired \in 0..MaxCards, failed \in SUBSET DOMAIN sent : Restore(p, 0, expired, failed)
          /\ Started({}, 0)
       \/ /\ \E stale \in 1..MaxCards, expired \in 0..MaxCards, failed \in SUBSET DOMAIN sent :
                Restore(p, stale, expired, failed)
          /\ Started({"stale"}, 1)
       \/ /\ Hold(p, [Off EXCEPT !.pc = "idle"]) \* the journal cannot be read
          /\ UNCHANGED sent
          /\ Started({"journal"}, 1)
    /\ UNCHANGED <<made, row, forgot, refused>>

\* After its final pass a process leaves; what came meanwhile leaves with it.
Exit(p) ==
    /\ At(p, "exit")
    /\ Hold(p, Off)
    /\ UNCHANGED <<made, row, discord, used, harm>>

Crash(p) ==
    /\ Running(p)
    /\ used.starts < MaxStarts
    /\ Hold(p, Off)
    /\ Harm({"crash"})
    /\ UNCHANGED <<made, row, discord>>

\* Discord keeps a nonce for a few minutes.
Forget ==
    /\ forgot < Len(sent)
    /\ forgot' = forgot + 1
    /\ Harm({"forgot"})
    /\ UNCHANGED <<made, mem, row, sent, refused>>

Pass(p) ==
    \/ \E final \in BOOLEAN, failed \in SUBSET mem[p].orphans : RetryOrphans(p, final, failed)
    \/ \E n \in 1..Len(mem[p].window) : \E failed \in SUBSET Ids(mem[p].window) : ExpireImmediate(p, n, failed)
    \/ JournalPending(p) \/ JournalPosted(p) \/ JournalRemoved(p) \/ JournalDropped(p)
    \/ StopPass(p)
    \/ \E failed \in SUBSET Ids(mem[p].window) : MakeRoom(p, failed)
    \/ SendGroup(p) \/ LoseAnswer(p) \/ SendFails(p) \/ Reject(p)
    \/ BoundPending(p)

Next ==
    \/ \E p \in Processes : EnqueueTimed(p) \/ Pass(p) \/ Start(p) \/ Exit(p) \/ Crash(p)
    \/ Forget

Spec == Init /\ [][Next]_vars

\* A process is started again, and the last one goes on.  Its passes end and
\* come again, on events, ticks and timers; Discord answers now and then.
Fairness ==
    \A p \in Processes :
        /\ WF_vars(Start(p) \/ Exit(p))
        /\ WF_vars(Pass(p))
        /\ SF_vars(RetryOrphans(p, FALSE, {}))
        /\ SF_vars(MakeRoom(p, {}))
        /\ SF_vars(SendGroup(p) \/ Reject(p))

FairSpec == Spec /\ Fairness

-----------------------------------------------------------------------------
(* Properties.                                                             *)

Holds(i, c) == c \in Range(sent[i].cards)

\* A card goes out once: lost answers, refused groups, groups of another
\* composition and restarts notwithstanding.  After a crash a card may go out
\* again if it did not head its message, whose nonce is another card's.
SentOnce ==
    harm \subseteq {"crash"} =>
        \A i, j \in DOMAIN sent : \A c \in Cards :
            i < j /\ Holds(i, c) /\ Holds(j, c) => "crash" \in harm /\ c # Head(sent[i].cards)

\* A card whose row says that it was shown is in the message the row names.
RowsTrue ==
    harm \cap {"journal", "overlap", "unrecorded"} = {} =>
        \A c \in Cards : row[c].state = "SHOWN" => row[c].msg \in DOMAIN sent /\ Holds(row[c].msg, c)

\* The channel never shows more than MaxItems cards.
VisibleCards ==
    Cardinality(UNION {{i} \X DOMAIN sent[i].cards : i \in {n \in DOMAIN sent : sent[n].shown}})

Capacity == harm = {} => VisibleCards <= MaxItems

\* A message in the channel is one the feed will delete: it is in a process's
\* memory, or the journal leads the next process to it.
Tracked ==
    harm \subseteq {"crash"} =>
        \A i \in DOMAIN sent : sent[i].shown =>
            \/ \E p \in Processes : i \in Ids(mem[p].window) \cup mem[p].orphans
            \/ \E p \in Processes : mem[p].pending # <<>> /\ Head(mem[p].pending) = Head(sent[i].cards)
            \/ /\ \A p \in Processes : ~Running(p)
               /\ \E c \in Range(sent[i].cards) :
                    \/ row[c] = [state |-> "SHOWN", msg |-> i]
                    \/ row[c].state = "QUEUED" /\ c = Head(sent[i].cards)

\* A card that appears for the first time comes after all that appeared before,
\* whatever was lost, crashed, forgotten or dropped in between.
InOrder ==
    harm \cap {"journal", "overlap", "unrecorded"} = {} =>
        \A i, j \in DOMAIN sent : i < j =>
            \A c \in Range(sent[j].cards) : Holds(i, c) \/ Last(sent[i].cards) < c

\* A card the journal took is shown or dropped in the end, whatever crashed
\* and whatever Discord refused for a time; after a journal fault the row may
\* wait for the next start, and a card of another message be taken for it.
ShownInTheEnd ==
    <>[](\A c \in Cards :
            row[c].state = "QUEUED" =>
                \/ \E i \in DOMAIN sent : Holds(i, c)
                \/ harm \cap {"journal", "unrecorded"} # {})
=============================================================================
