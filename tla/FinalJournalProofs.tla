------------------------- MODULE FinalJournalProofs -------------------------
(***************************************************************************)
(* What the paid final pass guarantees for every set of chunks, number of   *)
(* attempts and choice of failing writes: an ambiguous request is not       *)
(* repeated by an attempt that no other was joined by, the accounting of an *)
(* answered call is not lost, and hosted text is applied as a whole.        *)
(***************************************************************************)
EXTENDS FinalJournal, FiniteSetTheorems, TLAPS

-----------------------------------------------------------------------------
(* The inductive invariant                                                  *)

Early == {"recover", "lookup", "reserve"}            \* a call that has no row yet
Asking == {"lookup", "reserve", "ready", "identical"}   \* a call that may be sent

\* A call in the queue belongs to a pending group, has no result and was not sent; it
\* has no journal row before it is reserved.
QueueInv ==
    \A c \in CallIds :
        queue[c] # "out" => /\ c[1] \in pending /\ settled[c] = NoCall /\ c \notin sent
                            /\ queue[c] \in Early => journal[c] = "none"

Begun(c) == journal[c] # "none" \/ queue[c] # "out"

\* While no group was submitted beside another one, there is one at most, and no result
\* is kept for those who wait.  An attempt up to which that was so began with nothing
\* pending: what is pending now is not older.
PendingInv ==
    /\ attempt \in 0 .. MaxAttempts /\ pending \subseteq 1 .. attempt /\ beside \subseteq 1 .. attempt
    /\ \A c \in CallIds, b \in pending : Begun(c) /\ Alone(c[1]) => c[1] <= b
    /\ beside = {} => \A a, b \in pending : a = b
    /\ beside = {} => \A k \in Chunks : transient[k] = 0

\* What was sent is on record, and stays there.
SentInv == \A c \in sent : journal[c] \notin {"none", "Prepared"}

\* Attempts to come have no rows.
FreshInv == \A c \in CallIds : c[1] > attempt => journal[c] = "none"

CheckpointInv == \A c \in CallIds : journal[c] = "Checkpointed" => checkpoint.text = "hosted"

\* The last row belongs to the last attempt that has rows, as long as attempts did not
\* overlap.
LatestInv ==
    /\ latest # 0 => \E c \in CallIds : c[1] = latest /\ journal[c] # "none"
    /\ beside = {} => \A c \in CallIds : journal[c] # "none" => c[1] <= latest

\* As long as attempts did not overlap, a later one has rows only when what earlier ones
\* sent was given up.
OrderInv ==
    beside = {} =>
        \A c \in sent, d \in CallIds :
            c[1] < d[1] /\ journal[d] # "none" => journal[c] = "Abandoned"

\* A call may ask the provider only when what earlier attempts sent was given up.
AskInv ==
    \A c \in sent, d \in CallIds :
        c[1] < d[1] /\ queue[d] \in Asking /\ Alone(d[1]) => journal[c] = "Abandoned"

\* It was given up for each call that was sent, too, and it stays so.
PairInv == \A c, d \in sent : c[1] < d[1] /\ Alone(d[1]) => journal[c] = "Abandoned"

ActiveInv == \A c, d \in active : ChunkOf(c) = ChunkOf(d) => c = d

PaidInv ==
    /\ answered \subseteq sent /\ active \subseteq sent /\ active \cap answered = {}
    /\ PaidIsAccounted

Hosted == {"hosted", "applied"}

\* The text that waits to be applied or stored has a result for every chunk.
SettledInv ==
    /\ \A c \in CallIds : settled[c] # NoCall => ChunkOf(settled[c]) = ChunkOf(c)
    /\ phase \in Hosted => /\ attempt \in Attempts \ pending
                           /\ \A c \in CallsOf(attempt) : settled[c] # NoCall

\* While an attempt is under way, nothing is stored for the recording.  What it
\* acknowledges is stored.
PhaseInv ==
    /\ phase \in {"waiting", "raw"} \cup Hosted => checkpoint.text = "none"
    /\ phase = "stored" => checkpoint.text = "hosted"

RowInv == SentInv /\ FreshInv /\ CheckpointInv /\ LatestInv /\ OrderInv

SendInv == AskInv /\ PairInv /\ ActiveInv

Inv == TypeOK /\ QueueInv /\ PendingInv /\ RowInv /\ SendInv /\ PaidInv /\ SettledInv /\ PhaseInv

-----------------------------------------------------------------------------
(* Types and small facts                                                    *)

Phases == {"idle", "waiting", "hosted", "applied", "stored", "raw", "filed"}
Checkpoints == [text : {"none", "raw", "hosted"}, calls : SUBSET CallIds]

LEMMA TypeFacts ==
    TypeOK <=>
      /\ journal \in [CallIds -> JournalStates]
      /\ latest \in Attempts \cup {0}
      /\ cache \subseteq Chunks
      /\ outbox \subseteq CallIds /\ imported \subseteq CallIds
      /\ active \subseteq CallIds /\ canceled \subseteq CallIds /\ awaiting \subseteq CallIds
      /\ sent \subseteq CallIds /\ answered \subseteq CallIds /\ unrecorded \subseteq CallIds
      /\ checkpoint \in Checkpoints
      /\ attempt \in Nat /\ owned \in BOOLEAN
      /\ pending \subseteq Attempts /\ current \subseteq Attempts /\ beside \subseteq Attempts
      /\ queue \in [CallIds -> Queued \cup {"out"}]
      /\ transient \in [Chunks -> Nat]
      /\ settled \in [CallIds -> CallIds \cup {NoCall}]
      /\ phase \in Phases
  BY DEF TypeOK, Checkpoints, Phases

LEMMA TypeNext ==
    ASSUME journal' \in [CallIds -> JournalStates],
           latest' \in Attempts \cup {0},
           cache' \subseteq Chunks,
           outbox' \subseteq CallIds, imported' \subseteq CallIds,
           active' \subseteq CallIds, canceled' \subseteq CallIds, awaiting' \subseteq CallIds,
           sent' \subseteq CallIds, answered' \subseteq CallIds, unrecorded' \subseteq CallIds,
           checkpoint' \in Checkpoints,
           attempt' \in Nat, owned' \in BOOLEAN,
           pending' \subseteq Attempts, current' \subseteq Attempts, beside' \subseteq Attempts,
           queue' \in [CallIds -> Queued \cup {"out"}],
           transient' \in [Chunks -> Nat],
           settled' \in [CallIds -> CallIds \cup {NoCall}],
           phase' \in Phases
    PROVE  TypeOK'
  BY DEF TypeOK, Checkpoints, Phases

LEMMA CallIdFacts ==
    /\ \A c \in CallIds : c[1] \in Attempts /\ c[2] \in Chunks /\ c = <<c[1], c[2]>>
    /\ \A c \in CallIds : ChunkOf(c) \in Chunks /\ c \in CallsOf(c[1])
    /\ \A a \in Attempts, k \in Chunks : <<a, k>> \in CallIds /\ <<a, k>>[1] = a /\ <<a, k>>[2] = k
    /\ \A a \in Attempts : CallsOf(a) \subseteq CallIds
    /\ \A a, c : c \in CallsOf(a) => c[1] = a
    /\ NoCall \notin CallIds
    /\ Attempts \subseteq Nat \ {0}
  BY FinalJournalAssumption DEF CallIds, Attempts, NoCall, ChunkOf, CallsOf

LEMMA CallsAreFinite ==
    ASSUME NEW S \in SUBSET CallIds
    PROVE  Cardinality(S) \in Nat
<1>1. IsFiniteSet(1 .. MaxAttempts) /\ IsFiniteSet(Chunks)
  BY FinalJournalAssumption, FS_Interval
<1>2. IsFiniteSet(CallIds)
  BY <1>1, FS_Product DEF CallIds, Attempts
<1>3. IsFiniteSet(S)
  BY <1>2, FS_Subset
<1> QED BY <1>3, FS_CardinalityType

LEMMA NoQueueType ==
    /\ NoQueue \in [CallIds -> Queued \cup {"out"}] /\ \A c \in CallIds : NoQueue[c] = "out"
    /\ NoneSettled \in [CallIds -> CallIds \cup {NoCall}]
    /\ \A c \in CallIds : NoneSettled[c] = NoCall
  BY DEF NoQueue, NoneSettled

LEMMA WrittenFacts ==
    ASSUME NEW kind, NEW S, NEW w \in Written(kind, S)
    PROVE  w \subseteq S
  BY DEF Written

\* What giving up calls can do: rows that hold a terminal of a sent call are given up
\* only once that terminal is in the outbox.
LEMMA AbandonFacts ==
    ASSUME NEW S \in SUBSET CallIds, NEW r \in AbandonFinal(S)
    PROVE  /\ r.rows \subseteq S /\ r.terminals \subseteq S
           /\ \A c \in r.rows : journal[c] \notin {"none", "Checkpointed"}
           /\ \A c \in r.rows \cap sent : Attached(c) => c \in r.terminals
<1> DEFINE rowable == {c \in S : journal[c] \notin {"none", "Checkpointed"}}
           telling == {c \in S : Attached(c)} \cap sent
<1>1. PICK rows \in Written("store", rowable), terminals \in Written("outbox", telling) :
         r = [rows |-> rows, terminals |-> terminals]
  BY DEF AbandonFinal
<1>2. rows \subseteq rowable /\ terminals \subseteq telling
  <2> HIDE DEF rowable, telling
  <2> QED BY <1>1, WrittenFacts
<1>3. r.rows = rows /\ r.terminals = terminals
  BY <1>1
<1>4. r \in [rows : SUBSET S, terminals : SUBSET S]
  BY <1>1, <1>2
<1>5. ~ \E c \in r.rows \cap sent : Attached(c) /\ c \notin r.terminals
  BY <1>4 DEF AbandonFinal
<1> QED BY <1>2, <1>3, <1>5

-----------------------------------------------------------------------------
(* What a step may do to one row of the journal                             *)

GivesUp(c) ==
    /\ journal[c] \notin {"none", "Checkpointed"} /\ journal'[c] = "Abandoned"
    /\ c \in answered /\ Attached(c) => c \in outbox'

\* A row is written, or one that waited for an identical call is committed.  Only what
\* is kept for those who wait reaches a call that takes its result from the journal.
Drafts(c) ==
    /\ queue[c] # "out" /\ (queue[c] \in Asking \/ beside # {})
    /\ journal'[c] = "none" => journal[c] = "none"
    /\ queue'[c] \notin Early

Dispatches(c) == queue[c] = "ready" /\ queue'[c] = "out" /\ journal'[c] = "Dispatched"

Commits(c) == c \in active /\ c[1] \in pending /\ journal'[c] = "ResultCached"

Applies(c) == journal[c] \in {"ResultCached", "Applied"} /\ journal'[c] = "Applied"

Files(c) ==
    /\ journal[c] = "Applied" /\ journal'[c] = "Checkpointed"
    /\ checkpoint.text = "hosted" /\ (c \in sent => c \in outbox')

Rests(c) == journal'[c] = journal[c]

RowStep(c) ==
    Rests(c) \/ GivesUp(c) \/ Drafts(c) \/ Dispatches(c) \/ Commits(c) \/ Applies(c) \/ Files(c)

NewRow(c) == journal[c] = "none" /\ journal'[c] # "none"

LatestStep ==
    IF \E c \in CallIds : NewRow(c)
    THEN latest' \in pending /\ \A c \in CallIds : NewRow(c) => c[1] = latest'
    ELSE latest' = latest

\* What a step may do to the accounts.
SendStep ==
    \/ sent' = sent /\ active' \subseteq active
    \/ \E c \in CallIds : /\ queue[c] = "ready" /\ queue'[c] = "out" /\ journal'[c] = "Dispatched"
                          /\ sent' = sent \cup {c} /\ active' = active \cup {c}
                          /\ Identical(c) = {}

AnswerStep ==
    \/ answered' = answered
    \/ \E c \in active : /\ answered' = answered \cup {c} /\ active' = active \ {c} /\ sent' = sent
                         /\ journal'[c] = "ResultCached" \/ c \in outbox' \cup unrecorded'

RecordStep ==
    /\ outbox \cup imported \subseteq outbox' \cup imported' /\ unrecorded \subseteq unrecorded'
    /\ checkpoint.text = "hosted" => checkpoint'.text = "hosted"
    /\ attempt' \in Nat /\ attempt <= attempt' /\ beside \subseteq beside'

JournalStep ==
    /\ \A c \in CallIds : RowStep(c)
    /\ LatestStep /\ SendStep /\ AnswerStep /\ RecordStep

\* What a step of the attempts that are there may do to their groups.
QueueStep ==
    /\ UNCHANGED <<attempt, beside>> /\ pending' \subseteq pending
    /\ \A c \in CallIds :
          queue'[c] # "out" =>
              /\ queue[c] # "out" /\ c[1] \in pending' /\ settled'[c] = NoCall
              /\ queue'[c] \in Early => queue[c] \in Early
              /\ queue'[c] \in Asking => queue[c] \in Asking
    /\ \/ \A k \in Chunks : transient[k] = 0 => transient'[k] = 0
       \/ \E c, d \in CallIds : c[1] \in pending /\ d[1] \in pending /\ c[1] # d[1]

-----------------------------------------------------------------------------
(* What such a step keeps                                                   *)

\* A call that is in the queue
LEMMA QueuedFacts ==
    ASSUME Inv, NEW c \in CallIds, queue[c] # "out"
    PROVE  /\ c[1] \in pending /\ settled[c] = NoCall /\ c \notin sent /\ c \notin answered
           /\ c \notin active /\ queue[c] \in Early => journal[c] = "none"
  BY DEF Inv, QueueInv, PaidInv

\* What was sent is not drafted or dispatched again.
LEMMA SentRow ==
    ASSUME Inv, JournalStep, NEW c \in sent
    PROVE  /\ c \in CallIds
           /\ Rests(c) \/ GivesUp(c) \/ Commits(c) \/ Applies(c) \/ Files(c)
<1>1. c \in CallIds /\ RowStep(c)
  BY TypeFacts DEF Inv, JournalStep
<1>2. ~ Drafts(c) /\ ~ Dispatches(c)
  BY <1>1, QueuedFacts DEF Drafts, Dispatches
<1> QED BY <1>1, <1>2 DEF RowStep

\* Nothing brings back a row that was given up, but a commit in a pending group.
LEMMA AbandonedStays ==
    ASSUME Inv, JournalStep, NEW c \in sent, c[1] \notin pending, journal[c] = "Abandoned"
    PROVE  journal'[c] = "Abandoned"
  BY SentRow DEF Rests, GivesUp, Commits, Applies, Files

LEMMA RowsOfSent ==
    ASSUME Inv, JournalStep
    PROVE  SentInv'
<1> SUFFICES ASSUME NEW c \in sent' PROVE journal'[c] \notin {"none", "Prepared"}
  BY DEF SentInv
<1>1. CASE c \in sent
  <2>1. journal[c] \notin {"none", "Prepared"}
    BY <1>1 DEF Inv, RowInv, SentInv
  <2> QED BY <1>1, <2>1, SentRow DEF Rests, GivesUp, Commits, Applies, Files
<1>2. CASE c \notin sent
  BY <1>2 DEF JournalStep, SendStep
<1> QED BY <1>1, <1>2

\* A row that was not there before belongs to a call in the queue.
LEMMA NewRows ==
    ASSUME Inv, JournalStep, NEW d \in CallIds, NewRow(d)
    PROVE  /\ queue[d] # "out" /\ (queue[d] \in Asking \/ beside # {})
           /\ d[1] \in pending /\ d[1] = latest'
           /\ queue'[d] \notin Early
<1>1. Drafts(d) \/ Dispatches(d)
  <2>1. d \notin active
    BY DEF Inv, PaidInv, RowInv, SentInv, NewRow
  <2> QED BY <2>1 DEF JournalStep, RowStep, Rests, GivesUp, Commits, Applies, Files, NewRow
<1>2. queue[d] # "out" /\ (queue[d] \in Asking \/ beside # {}) /\ queue'[d] \notin Early
  BY <1>1 DEF Drafts, Dispatches, Asking, Early
<1>3. d[1] = latest'
  BY DEF JournalStep, LatestStep
<1> QED BY <1>2, <1>3, QueuedFacts

\* No row goes away.
LEMMA RowsStay ==
    ASSUME Inv, JournalStep, NEW c \in CallIds, journal[c] # "none"
    PROVE  journal'[c] # "none"
  BY DEF JournalStep, RowStep, Rests, GivesUp, Drafts, Dispatches, Commits, Applies, Files

LEMMA AttemptFacts ==
    ASSUME Inv
    PROVE  /\ attempt \in Nat /\ pending \subseteq 1 .. attempt /\ beside \subseteq 1 .. attempt
           /\ pending \subseteq Nat /\ \A c \in CallIds : c[1] \in Nat
           /\ \A c \in CallIds : Begun(c) => c[1] <= attempt
<1>1. attempt \in Nat /\ pending \subseteq 1 .. attempt /\ beside \subseteq 1 .. attempt
  BY TypeFacts DEF Inv, PendingInv
<1>2. \A c \in CallIds : c[1] \in Nat
  BY CallIdFacts
<1>3. ASSUME NEW c \in CallIds, Begun(c) PROVE c[1] <= attempt
  <2>1. CASE journal[c] # "none"
    BY <1>1, <1>2, <2>1 DEF Inv, RowInv, FreshInv
  <2>2. CASE queue[c] # "out"
    <3>1. c[1] \in pending
      BY <2>2, QueuedFacts
    <3>2. c[1] \in 1 .. attempt
      BY <1>1, <3>1
    <3> QED BY <1>1, <3>2
  <2> QED BY <1>3, <2>1, <2>2 DEF Begun
<1>4. pending \subseteq Nat
  BY <1>1
<1> QED BY <1>1, <1>2, <1>3, <1>4

\* The attempts that began before an attempt of which no other was joined are not
\* pending.
LEMMA EarlierIsOver ==
    ASSUME Inv, NEW c \in CallIds, NEW d \in CallIds, c[1] < d[1], Begun(d), Alone(d[1])
    PROVE  c[1] \notin pending
<1>1. \A b \in pending : d[1] <= b
  BY DEF Inv, PendingInv
<1> QED BY <1>1, AttemptFacts

LEMMA AloneBefore ==
    ASSUME JournalStep, NEW a, Alone(a)'
    PROVE  Alone(a)
  BY DEF Alone, JournalStep, RecordStep

LEMMA RowsOfAttempts ==
    ASSUME Inv, JournalStep
    PROVE  FreshInv'
<1> SUFFICES ASSUME NEW c \in CallIds, c[1] > attempt' PROVE journal'[c] = "none"
  BY DEF FreshInv
<1>1. attempt \in Nat /\ attempt' \in Nat /\ attempt <= attempt' /\ c[1] \in Nat
  BY AttemptFacts DEF JournalStep, RecordStep
<1>2. c[1] > attempt /\ journal[c] = "none"
  BY <1>1 DEF Inv, RowInv, FreshInv
<1>3. CASE NewRow(c)
  <2>1. c[1] \in pending
    BY <1>3, NewRows
  <2>2. c[1] \in 1 .. attempt
    BY <2>1, AttemptFacts
  <2> QED BY <1>1, <1>2, <2>2
<1> QED BY <1>2, <1>3 DEF NewRow

LEMMA RowsOfCheckpoint ==
    ASSUME Inv, JournalStep, \A c \in CallIds : Drafts(c) => journal'[c] # "Checkpointed"
    PROVE  CheckpointInv'
<1> SUFFICES ASSUME NEW c \in CallIds, journal'[c] = "Checkpointed" PROVE checkpoint'.text = "hosted"
  BY DEF CheckpointInv
<1>1. Rests(c) \/ Files(c)
  BY DEF JournalStep, RowStep, GivesUp, Dispatches, Commits, Applies
<1> QED BY <1>1 DEF Rests, Files, JournalStep, RecordStep, Inv, RowInv, CheckpointInv

LEMMA RowsOfLatest ==
    ASSUME Inv, JournalStep
    PROVE  LatestInv'
<1>1. CASE \E d \in CallIds : NewRow(d)
  <2>1. PICK d \in CallIds : NewRow(d)
    BY <1>1
  <2>2. d[1] = latest' /\ latest' \in pending
    BY <2>1, NewRows
  <2>3. \E c \in CallIds : c[1] = latest' /\ journal'[c] # "none"
    BY <2>1, <2>2 DEF NewRow
  <2>4. ASSUME beside' = {}, NEW c \in CallIds, journal'[c] # "none" PROVE c[1] <= latest'
    <3>1. beside = {}
      BY <2>4 DEF JournalStep, RecordStep
    <3>2. CASE NewRow(c)
      <4>1. c[1] = latest' /\ c[1] \in Nat
        BY <3>2, NewRows, AttemptFacts
      <4> QED BY <4>1
    <3>3. CASE ~ NewRow(c)
      <4>1. Begun(c) /\ Alone(c[1])
        BY <2>4, <3>1, <3>3 DEF NewRow, Begun, Alone
      <4> QED BY <2>2, <4>1 DEF Inv, PendingInv
    <3> QED BY <3>2, <3>3
  <2> QED BY <2>3, <2>4 DEF LatestInv
<1>2. CASE ~ \E d \in CallIds : NewRow(d)
  <2>1. latest' = latest
    BY <1>2 DEF JournalStep, LatestStep
  <2>2. \A c \in CallIds : journal[c] # "none" <=> journal'[c] # "none"
    BY <1>2, RowsStay DEF NewRow
  <2>3. beside' = {} => beside = {}
    BY DEF JournalStep, RecordStep
  <2> QED BY <2>1, <2>2, <2>3 DEF Inv, RowInv, LatestInv
<1> QED BY <1>1, <1>2

\* A call that is sent in this step is one of a pending group.
LEMMA NewlySent ==
    ASSUME Inv, JournalStep, NEW c \in sent', c \notin sent
    PROVE  c \in CallIds /\ queue[c] = "ready" /\ c[1] \in pending /\ queue'[c] = "out"
<1>1. c \in CallIds /\ queue[c] = "ready" /\ queue'[c] = "out"
  BY DEF JournalStep, SendStep
<1> QED BY <1>1, QueuedFacts

LEMMA RowsInOrder ==
    ASSUME Inv, JournalStep
    PROVE  OrderInv'
<1> SUFFICES ASSUME beside' = {}, NEW c \in sent', NEW d \in CallIds, c[1] < d[1],
                    journal'[d] # "none"
             PROVE  journal'[c] = "Abandoned"
  BY DEF OrderInv
<1>1. beside = {} /\ Alone(d[1])
  BY DEF JournalStep, RecordStep, Alone
<1>2. Begun(d) /\ (journal[d] = "none" => queue[d] \in Asking)
  BY <1>1, NewRows DEF NewRow, Begun
<1>3. c \in CallIds
  BY NewlySent, TypeFacts DEF Inv
<1>4. c[1] \notin pending
  BY <1>1, <1>2, <1>3, EarlierIsOver
<1>5. c \in sent
  BY <1>4, NewlySent
<1>6. journal[c] = "Abandoned"
  BY <1>1, <1>2, <1>5 DEF Inv, RowInv, OrderInv, SendInv, AskInv
<1> QED BY <1>4, <1>5, <1>6, AbandonedStays

LEMMA SentInOrder ==
    ASSUME Inv, JournalStep
    PROVE  PairInv'
<1> SUFFICES ASSUME NEW c \in sent', NEW d \in sent', c[1] < d[1], Alone(d[1])'
             PROVE  journal'[c] = "Abandoned"
  BY DEF PairInv
<1>1. Alone(d[1]) /\ c \in CallIds /\ d \in CallIds
  BY AloneBefore, NewlySent, TypeFacts DEF Inv
<1>2. Begun(d) /\ (d \notin sent => queue[d] \in Asking)
  BY NewlySent DEF Begun, Asking, Inv, RowInv, SentInv
<1>3. c[1] \notin pending
  BY <1>1, <1>2, EarlierIsOver
<1>4. c \in sent
  BY <1>3, NewlySent
<1>5. journal[c] = "Abandoned"
  BY <1>1, <1>2, <1>4 DEF Inv, SendInv, AskInv, PairInv
<1> QED BY <1>3, <1>4, <1>5, AbandonedStays

LEMMA OneAtATime ==
    ASSUME Inv, JournalStep
    PROVE  ActiveInv'
<1>1. CASE active' \subseteq active
  BY <1>1 DEF ActiveInv, Inv, SendInv
<1>2. CASE \E c \in CallIds : active' = active \cup {c} /\ Identical(c) = {}
  BY <1>2 DEF ActiveInv, Inv, SendInv, Identical
<1> QED BY <1>1, <1>2 DEF JournalStep, SendStep

LEMMA AccountsAreKept ==
    ASSUME Inv, JournalStep
    PROVE  PaidInv'
<1>0. /\ answered \subseteq sent /\ active \subseteq sent /\ active \cap answered = {}
      /\ sent \subseteq CallIds
  BY TypeFacts DEF Inv, PaidInv
<1>1. active' \subseteq sent' /\ sent \subseteq sent'
  BY <1>0 DEF JournalStep, SendStep
<1>2. answered' \subseteq sent'
  BY <1>0, <1>1 DEF JournalStep, AnswerStep
<1>3. active' \cap answered' = {}
  <2>1. CASE answered' = answered
    <3>1. CASE active' \subseteq active
      BY <1>0, <2>1, <3>1
    <3>2. CASE \E c \in CallIds : queue[c] = "ready" /\ active' = active \cup {c}
      BY <1>0, <2>1, <3>2, QueuedFacts
    <3> QED BY <3>1, <3>2 DEF JournalStep, SendStep
  <2>2. CASE \E c \in active : answered' = answered \cup {c} /\ active' = active \ {c}
    BY <1>0, <2>2
  <2> QED BY <2>1, <2>2 DEF JournalStep, AnswerStep
<1>4. PaidIsAccounted'
  <2> SUFFICES ASSUME NEW c \in answered'
               PROVE  journal'[c] \in {"ResultCached", "Applied"}
                      \/ c \in outbox' \cup imported' \cup unrecorded'
    BY DEF PaidIsAccounted, Attached
  <2>1. CASE c \in answered
    <3>1. CASE c \in outbox \cup imported \cup unrecorded
      BY <3>1 DEF JournalStep, RecordStep
    <3>2. CASE Attached(c)
      <4>1. c \in sent
        BY <1>0, <2>1
      <4> QED BY <2>1, <3>2, <4>1, SentRow DEF Rests, GivesUp, Commits, Applies, Files, Attached
    <3> QED BY <2>1, <3>1, <3>2 DEF Inv, PaidInv, PaidIsAccounted
  <2>2. CASE c \notin answered
    BY <2>2 DEF JournalStep, AnswerStep
  <2> QED BY <2>1, <2>2
<1> QED BY <1>1, <1>2, <1>3, <1>4 DEF PaidInv

LEMMA JournalStepKeeps ==
    ASSUME Inv, JournalStep
    PROVE  SentInv' /\ FreshInv' /\ LatestInv' /\ OrderInv' /\ PairInv' /\ ActiveInv' /\ PaidInv'
  BY RowsOfSent, RowsOfAttempts, RowsOfLatest, RowsInOrder, SentInOrder, OneAtATime,
     AccountsAreKept

\* The queue of the groups that go on
LEMMA QueueGoesOn ==
    ASSUME Inv, JournalStep, QueueStep
    PROVE  QueueInv'
<1> SUFFICES ASSUME NEW c \in CallIds, queue'[c] # "out"
             PROVE  /\ c[1] \in pending' /\ settled'[c] = NoCall /\ c \notin sent'
                    /\ queue'[c] \in Early => journal'[c] = "none"
  BY DEF QueueInv
<1>1. /\ queue[c] # "out" /\ c[1] \in pending' /\ settled'[c] = NoCall
      /\ queue'[c] \in Early => queue[c] \in Early
  BY DEF QueueStep
<1>2. c \notin sent'
  BY <1>1, NewlySent, QueuedFacts
<1>3. ASSUME queue'[c] \in Early PROVE journal'[c] = "none"
  <2>1. journal[c] = "none"
    BY <1>1, <1>3 DEF Inv, QueueInv
  <2>2. ~ NewRow(c)
    BY <1>3, NewRows
  <2> QED BY <2>1, <2>2 DEF NewRow
<1> QED BY <1>1, <1>2, <1>3

LEMMA AskingGoesOn ==
    ASSUME Inv, JournalStep, QueueStep
    PROVE  AskInv'
<1> SUFFICES ASSUME NEW c \in sent', NEW d \in CallIds, c[1] < d[1], queue'[d] \in Asking, Alone(d[1])'
             PROVE  journal'[c] = "Abandoned"
  BY DEF AskInv
<1>1. queue[d] \in Asking /\ Begun(d)
  BY DEF QueueStep, Asking, Begun
<1>2. Alone(d[1]) /\ c \in CallIds
  BY AloneBefore, NewlySent, TypeFacts DEF Inv
<1>3. c[1] \notin pending
  BY <1>1, <1>2, EarlierIsOver
<1>4. c \in sent
  BY <1>3, NewlySent
<1> QED BY <1>1, <1>2, <1>3, <1>4, AbandonedStays DEF Inv, SendInv, AskInv

LEMMA PendingGoesOn ==
    ASSUME Inv, JournalStep, QueueStep
    PROVE  PendingInv'
<1>0. attempt' = attempt /\ beside' = beside /\ pending' \subseteq pending
  BY DEF QueueStep
<1>1. ASSUME NEW c \in CallIds, NEW b \in pending', Begun(c)', Alone(c[1])' PROVE c[1] <= b
  <2>1. Alone(c[1]) /\ b \in pending
    BY <1>0, <1>1, AloneBefore
  <2>2. Begun(c)
    BY <1>1, NewRows DEF Begun, NewRow, QueueStep
  <2> QED BY <2>1, <2>2 DEF Inv, PendingInv
<1>2. ASSUME beside' = {}, NEW k \in Chunks PROVE transient'[k] = 0
  <2>1. beside = {}
    BY <1>0, <1>2
  <2>2. transient[k] = 0 /\ \A a, b \in pending : a = b
    BY <2>1 DEF Inv, PendingInv
  <2> QED BY <2>2 DEF QueueStep
<1> QED BY <1>0, <1>1, <1>2 DEF Inv, PendingInv

LEMMA StepKeeps ==
    ASSUME Inv, JournalStep, QueueStep, TypeOK', CheckpointInv', SettledInv', PhaseInv'
    PROVE  Inv'
  BY JournalStepKeeps, QueueGoesOn, AskingGoesOn, PendingGoesOn DEF Inv, RowInv, SendInv

-----------------------------------------------------------------------------
(* The latest group                                                         *)

\* A lookup pushes the rows it writes behind all others.
LEMMA PushedFacts ==
    ASSUME NEW a \in pending, TypeOK, PushedBy(a), \A d \in CallIds : NewRow(d) => d[1] = a
    PROVE  LatestStep /\ latest' \in Attempts \cup {0}
<1>1. a \in Attempts /\ latest \in Attempts \cup {0}
  BY TypeFacts
<1>2. CASE \E d \in CallIds : NewRow(d)
  <2>1. PICK d \in CallIds : NewRow(d) /\ d[1] = a
    BY <1>2
  <2>2. d \in CallsOf(a)
    BY <2>1, CallIdFacts
  <2>3. latest' = a
    BY <2>1, <2>2 DEF PushedBy, NewRow
  <2> QED BY <1>1, <1>2, <2>3 DEF LatestStep
<1>3. CASE ~ \E d \in CallIds : NewRow(d)
  <2>1. latest' = latest
    BY <1>1, <1>3, CallIdFacts DEF PushedBy, NewRow
  <2> QED BY <1>1, <1>3, <2>1 DEF LatestStep
<1> QED BY <1>2, <1>3

\* Of the states of a group, one that is ambiguous or holds a result comes before
\* those that let the provider be asked.
LEMMA WorstComesFirst ==
    ASSUME NEW states,
           NEW x \in states, x \in {"Dispatched", "Applied", "ResultCached"}
    PROVE  LET order == <<"Dispatched", "Applied", "ResultCached", "Prepared", "Abandoned",
                          "Checkpointed">>
           IN order[CHOOSE i \in 1 .. 6 : order[i] \in states /\ \A j \in 1 .. i - 1 :
                                                                     order[j] \notin states]
                \in {"Dispatched", "Applied", "ResultCached"}
<1> DEFINE order == <<"Dispatched", "Applied", "ResultCached", "Prepared", "Abandoned",
                      "Checkpointed">>
           Leads(i) == order[i] \in states /\ \A j \in 1 .. i - 1 : order[j] \notin states
           i0 == CHOOSE i \in 1 .. 6 : Leads(i)
<1>1. order[1] = "Dispatched" /\ order[2] = "Applied" /\ order[3] = "ResultCached"
  OBVIOUS
<1>2. \E i \in 1 .. 6 : Leads(i)
  <2>1. CASE "Dispatched" \in states
    <3>1. Leads(1)
      BY <1>1, <2>1
    <3> QED BY <3>1
  <2>2. CASE "Dispatched" \notin states /\ "Applied" \in states
    <3>1. Leads(2)
      BY <1>1, <2>2
    <3> QED BY <3>1
  <2>3. CASE "Dispatched" \notin states /\ "Applied" \notin states /\ "ResultCached" \in states
    <3>1. \A j \in 1 .. 3 - 1 : j = 1 \/ j = 2
      OBVIOUS
    <3>2. Leads(3)
      BY <1>1, <2>3, <3>1
    <3> QED BY <3>2
  <2> QED BY <2>1, <2>2, <2>3
<1>3. i0 \in 1 .. 6 /\ Leads(i0)
  <2> HIDE DEF Leads
  <2> QED BY <1>2
<1>4. PICK m \in 1 .. 3 : order[m] = x
  BY <1>1
<1>5. i0 \in 1 .. 3
  <2> HIDE DEF i0, order
  <2> QED BY <1>3, <1>4
<1> HIDE DEF i0
<1>6. order[i0] \in {"Dispatched", "Applied", "ResultCached"}
  BY <1>1, <1>5
<1> QED BY <1>6 DEF i0

\* When the journal lets the provider be asked, all that was sent was given up, as long
\* as attempts did not overlap.
LEMMA AskingIsSafe ==
    ASSUME TypeOK', RowInv', checkpoint'.text = "none", beside' = {},
           RecoverFinal' \notin {"Dispatched", "Applied", "ResultCached"},
           NEW c \in sent'
    PROVE  journal'[c] = "Abandoned"
<1>1. /\ c \in CallIds /\ journal' \in [CallIds -> JournalStates]
      /\ journal'[c] \notin {"none", "Prepared", "Checkpointed"}
  BY DEF TypeOK, RowInv, SentInv, CheckpointInv
<1>2. c[1] \in Attempts /\ c[2] \in Chunks /\ c = <<c[1], c[2]>> /\ c[1] \in Nat /\ c[1] # 0
  BY <1>1, CallIdFacts
<1>3. c[1] <= latest' /\ latest' \in Nat /\ latest' # 0
  <2>1. c[1] <= latest'
    BY <1>1 DEF RowInv, LatestInv
  <2>2. latest' \in Nat
    BY CallIdFacts DEF TypeOK
  <2> QED BY <1>2, <2>1, <2>2
<1>4. PICK d \in CallIds : d[1] = latest' /\ journal'[d] # "none"
  BY <1>3 DEF RowInv, LatestInv
<1>5. CASE c[1] = latest'
  <2>1. journal'[c] \in StatesOf(latest)'
    BY <1>1, <1>2, <1>5 DEF StatesOf
  <2>2. journal'[c] \notin {"Dispatched", "Applied", "ResultCached"}
    <3> SUFFICES ASSUME journal'[c] \in {"Dispatched", "Applied", "ResultCached"} PROVE FALSE
      OBVIOUS
    <3> QED BY <1>3, <2>1, WorstComesFirst DEF RecoverFinal, Decides
  <2> QED BY <1>1, <2>2 DEF JournalStates
<1>6. CASE c[1] # latest'
  <2>1. c[1] < d[1]
    BY <1>2, <1>3, <1>4, <1>6
  <2> QED BY <1>4, <2>1 DEF RowInv, OrderInv
<1> QED BY <1>5, <1>6

-----------------------------------------------------------------------------
(* Giving up and settling                                                   *)

\* Rows that are given up.
LEMMA AbandonStep ==
    ASSUME Inv, NEW S \in SUBSET CallIds, NEW r \in AbandonFinal(S),
           NEW base \in [CallIds -> JournalStates],
           journal' = With(base, r.rows, "Abandoned"), outbox \cup r.terminals \subseteq outbox'
    PROVE  /\ journal' \in [CallIds -> JournalStates] /\ r.terminals \subseteq CallIds
           /\ \A c \in CallIds : journal'[c] = base[c] \/ GivesUp(c)
<1>1. /\ r.rows \subseteq S /\ r.terminals \subseteq S
      /\ \A c \in r.rows : journal[c] \notin {"none", "Checkpointed"}
      /\ \A c \in r.rows \cap sent : Attached(c) => c \in r.terminals
  BY AbandonFacts
<1>2. \A c \in CallIds : journal'[c] = IF c \in r.rows THEN "Abandoned" ELSE base[c]
  BY DEF With
<1>3. journal' \in [CallIds -> JournalStates]
  BY DEF With, JournalStates
<1>4. answered \subseteq sent
  BY DEF Inv, PaidInv
<1> QED BY <1>1, <1>2, <1>3, <1>4 DEF GivesUp

LEMMA JournalIsABase ==
    ASSUME Inv
    PROVE  journal \in [CallIds -> JournalStates]
  BY TypeFacts DEF Inv

LEMMA PeersAreCalls ==
    ASSUME Inv, NEW c \in CallIds
    PROVE  CanceledPeers(c) \subseteq CallIds
<1>1. CallsOf(c[1]) \subseteq CallIds
  BY CallIdFacts
<1>2. \A d \in CallIds : settled[d] # NoCall => settled[d] \in CallIds
  BY TypeFacts DEF Inv
<1> QED BY <1>1, <1>2 DEF CanceledPeers

\* A group is taken out of the queue.
LEMMA IdleFacts ==
    ASSUME TypeOK, NEW a
    PROVE  /\ Idle(a) \in [CallIds -> Queued \cup {"out"}]
           /\ Unsettled(a) \in [CallIds -> CallIds \cup {NoCall}]
           /\ \A c \in CallIds : Idle(a)[c] = IF c[1] = a THEN "out" ELSE queue[c]
           /\ \A c \in CallIds : Unsettled(a)[c] = IF c[1] = a THEN NoCall ELSE settled[c]
  BY TypeFacts DEF Idle, Unsettled

\* What a step does to the groups when some of them end without a result.
EndsOnly(ended) ==
    /\ pending' = pending \ ended
    /\ queue' \in [CallIds -> Queued \cup {"out"}]
    /\ \A c \in CallIds : queue'[c] = IF c[1] \in ended THEN "out" ELSE queue[c]
    /\ settled' \in [CallIds -> CallIds \cup {NoCall}]
    /\ \A c \in CallIds : settled'[c] = IF c[1] \in ended THEN NoCall ELSE settled[c]
    /\ phase' = phase \/ (phase = "waiting" /\ phase' = "raw")

LEMMA EndsKeep ==
    ASSUME Inv, NEW ended \in SUBSET pending, EndsOnly(ended), UNCHANGED <<attempt, beside>>,
           \A k \in Chunks : transient[k] = 0 => transient'[k] = 0
    PROVE  QueueStep /\ SettledInv' /\ phase' \in Phases /\ (UNCHANGED checkpoint => PhaseInv')
<1>1. QueueStep
  <2>1. ASSUME NEW c \in CallIds, queue'[c] # "out"
        PROVE  /\ queue'[c] = queue[c] /\ c[1] \in pending' /\ settled'[c] = NoCall
    BY <2>1, QueuedFacts DEF EndsOnly
  <2> QED BY <2>1 DEF QueueStep, EndsOnly
<1>2. SettledInv'
  <2>1. \A c \in CallIds : settled'[c] # NoCall => settled'[c] = settled[c]
    BY DEF EndsOnly
  <2>2. ASSUME phase' \in Hosted
        PROVE  attempt \in Attempts \ pending /\ \A c \in CallsOf(attempt) : settled'[c] # NoCall
    <3>1. phase \in Hosted
      BY <2>2 DEF EndsOnly, Hosted
    <3>2. /\ attempt \in Attempts \ pending
          /\ \A c \in CallsOf(attempt) : settled[c] # NoCall /\ c \in CallIds /\ c[1] = attempt
      BY <3>1, CallIdFacts DEF Inv, SettledInv
    <3> QED BY <3>2 DEF EndsOnly
  <2>3. pending' \subseteq pending
    BY DEF EndsOnly
  <2> QED BY <2>1, <2>2, <2>3 DEF Inv, SettledInv, ChunkOf, CallsOf, Hosted
<1>3. phase' \in Phases
  BY TypeFacts DEF Inv, EndsOnly, Phases
<1>4. UNCHANGED checkpoint => PhaseInv'
  BY DEF Inv, PhaseInv, EndsOnly, Hosted
<1> QED BY <1>1, <1>2, <1>3, <1>4

LEMMA FailStep ==
    ASSUME Inv, NEW base \in [CallIds -> JournalStates], NEW failed \in CallIds,
           NEW S \in SUBSET CallIds, NEW over \in SUBSET CallIds,
           FailGroupFrom(base, failed, S, over)
    PROVE  /\ journal' \in [CallIds -> JournalStates]
           /\ \A c \in CallIds : journal'[c] = base[c] \/ GivesUp(c)
           /\ outbox \subseteq outbox' /\ outbox' \subseteq CallIds
           /\ unrecorded \subseteq unrecorded' /\ unrecorded' \subseteq CallIds
           /\ over \subseteq outbox' \cup unrecorded'
           /\ canceled' \subseteq CallIds /\ awaiting' \subseteq CallIds
           /\ owned' \in BOOLEAN /\ current' \subseteq Attempts
           /\ EndsOnly(pending \cap {failed[1]})
<1> DEFINE a == failed[1]
           peers == IF a \in pending THEN CanceledPeers(failed) ELSE {}
<1>0. /\ outbox \subseteq CallIds /\ unrecorded \subseteq CallIds /\ canceled \subseteq CallIds
      /\ awaiting \subseteq CallIds /\ active \subseteq CallIds /\ TypeOK
      /\ owned \in BOOLEAN /\ current \subseteq Attempts
  BY TypeFacts DEF Inv
<1>1. S \cup peers \in SUBSET CallIds
  BY PeersAreCalls
<1>2. PICK r \in AbandonFinal(S \cup peers), recorded \in Written("outbox", over) :
          /\ journal' = With(base, r.rows, "Abandoned")
          /\ outbox' = outbox \cup (r.terminals \cup recorded)
          /\ unrecorded' = unrecorded \cup (over \ recorded)
          /\ canceled' = (canceled \cup ((S \cup peers) \cap active)) \ over
          /\ awaiting' = awaiting \ peers
          /\ IF a \in pending
             THEN /\ pending' = pending \ {a} /\ owned' = FALSE /\ current' = current \ {a}
                  /\ queue' = Idle(a) /\ settled' = Unsettled(a)
                  /\ phase' = IF a = attempt /\ phase = "waiting" THEN "raw" ELSE phase
             ELSE UNCHANGED <<pending, owned, current, queue, settled, phase>>
  BY DEF FailGroupFrom, Publish, Reply
<1> HIDE DEF peers
<1>3. /\ journal' \in [CallIds -> JournalStates] /\ r.terminals \subseteq CallIds
      /\ \A c \in CallIds : journal'[c] = base[c] \/ GivesUp(c)
  BY <1>1, <1>2, AbandonStep
<1>4. recorded \subseteq over
  BY <1>2, WrittenFacts
<1>5. /\ outbox \subseteq outbox' /\ outbox' \subseteq CallIds
      /\ unrecorded \subseteq unrecorded' /\ unrecorded' \subseteq CallIds
      /\ over \subseteq outbox' \cup unrecorded'
      /\ canceled' \subseteq CallIds /\ awaiting' \subseteq CallIds
  BY <1>0, <1>2, <1>3, <1>4
<1>6. CASE a \in pending
  <2>1. pending \cap {failed[1]} = {a}
    BY <1>6
  <2>2. EndsOnly({a})
    <3>1. \A c : c[1] \in {a} <=> c[1] = a
      OBVIOUS
    <3> HIDE DEF a
    <3> QED BY <1>0, <1>2, <1>6, <3>1, IdleFacts DEF EndsOnly
  <2>3. owned' \in BOOLEAN /\ current' \subseteq Attempts
    BY <1>0, <1>2, <1>6
  <2> QED BY <1>3, <1>5, <2>1, <2>2, <2>3
<1>7. CASE a \notin pending
  <2>1. pending \cap {failed[1]} = {} /\ UNCHANGED <<pending, owned, current, queue, settled, phase>>
    BY <1>2, <1>7
  <2>2. EndsOnly({})
    BY <1>0, <2>1, TypeFacts DEF EndsOnly
  <2> QED BY <1>0, <1>3, <1>5, <2>1, <2>2
<1> QED BY <1>6, <1>7

\* A call takes its result from the row of r.
LEMMA SettleStep ==
    ASSUME Inv, NEW c \in CallIds, c[1] \in pending, NEW r \in CallIds, ChunkOf(r) = ChunkOf(c),
           Settle(c, r), attempt' = attempt
    PROVE  /\ settled' \in [CallIds -> CallIds \cup {NoCall}] /\ awaiting' \subseteq CallIds
           /\ pending' \subseteq pending /\ current' = current
           /\ owned' \in BOOLEAN /\ phase' \in Phases /\ SettledInv'
           /\ phase' = phase \/ (phase = "waiting" /\ phase' = "hosted")
           /\ \A d \in CallIds \ {c} : settled'[d] = settled[d]
           /\ \A d \in CallIds \ {c} : queue[d] # "out" => d[1] \in pending'
<1> DEFINE last == \A d \in CallsOf(c[1]) \ {c} : settled[d] # NoCall
<1>0. /\ settled \in [CallIds -> CallIds \cup {NoCall}] /\ awaiting \subseteq CallIds
      /\ phase \in Phases /\ owned \in BOOLEAN /\ r # NoCall /\ c[1] \in Attempts
      /\ \A d \in CallIds : d \in CallsOf(d[1])
      /\ CallsOf(c[1]) \subseteq CallIds /\ \A d \in CallsOf(c[1]) : d[1] = c[1]
  BY TypeFacts, CallIdFacts DEF Inv
<1>1. /\ settled' = [settled EXCEPT ![c] = r] /\ awaiting' = awaiting \cup {r} /\ current' = current
      /\ last => /\ pending' = pending \ {c[1]} /\ owned' = FALSE
                 /\ phase' = IF c[1] = attempt /\ phase = "waiting" THEN "hosted" ELSE phase
      /\ ~ last => UNCHANGED <<pending, owned, phase>>
  BY DEF Settle, Reply
<1>2. settled'[c] = r /\ \A d \in CallIds \ {c} : settled'[d] = settled[d]
  BY <1>0, <1>1
<1>3. \A d \in CallIds : settled'[d] # NoCall => ChunkOf(settled'[d]) = ChunkOf(d)
  BY <1>2 DEF Inv, SettledInv
<1>4. /\ pending' \subseteq pending
      /\ phase' = phase \/ (phase = "waiting" /\ phase' = "hosted")
      /\ owned' \in BOOLEAN /\ phase' \in Phases
  <2>1. CASE last
    BY <1>0, <1>1, <2>1 DEF Phases
  <2>2. CASE ~ last
    BY <1>0, <1>1, <2>2
  <2> QED BY <2>1, <2>2
<1>5. ASSUME phase' \in Hosted
      PROVE  attempt \in Attempts \ pending' /\ \A d \in CallsOf(attempt) : settled'[d] # NoCall
  <2>1. CASE phase \in Hosted
    <3>1. attempt \in Attempts \ pending /\ \A d \in CallsOf(attempt) : settled[d] # NoCall
      BY <2>1 DEF Inv, SettledInv
    <3>2. \A d \in CallsOf(attempt) : d \in CallIds /\ d[1] # c[1]
      BY <3>1, CallIdFacts
    <3> QED BY <1>2, <1>4, <3>1, <3>2
  <2>2. CASE phase \notin Hosted
    <3>1. last /\ c[1] = attempt
      BY <1>1, <1>5, <2>2 DEF Hosted
    <3>2. \A d \in CallsOf(attempt) : settled'[d] # NoCall
      BY <1>0, <1>2, <3>1
    <3> QED BY <1>0, <1>1, <3>1, <3>2
  <2> QED BY <2>1, <2>2
<1>6. SettledInv'
  BY <1>3, <1>5 DEF SettledInv, ChunkOf, CallsOf, Hosted
<1>7. \A d \in CallIds \ {c} : queue[d] # "out" => d[1] \in pending'
  <2> SUFFICES ASSUME NEW d \in CallIds, d # c, queue[d] # "out" PROVE d[1] \in pending'
    OBVIOUS
  <2>1. d[1] \in pending /\ settled[d] = NoCall
    BY QueuedFacts
  <2>2. d[1] = c[1] => ~ last
    BY <1>0, <2>1
  <2> QED BY <1>1, <2>1, <2>2
<1> QED BY <1>0, <1>1, <1>2, <1>4, <1>6, <1>7

-----------------------------------------------------------------------------
(* The steps, one action at a time                                          *)

\* A step of the attempts that are there that sends nothing
LEMMA QuietStep ==
    ASSUME Inv, \A c \in CallIds : RowStep(c), LatestStep,
           UNCHANGED <<attempt, sent, answered, imported, beside>>,
           active' \subseteq active, outbox \subseteq outbox', unrecorded \subseteq unrecorded',
           checkpoint.text = "hosted" => checkpoint'.text = "hosted"
    PROVE  JournalStep
<1>1. attempt \in Nat
  BY TypeFacts DEF Inv
<1> QED BY <1>1 DEF JournalStep, SendStep, AnswerStep, RecordStep

\* No row is new.
LEMMA NoNewRow ==
    ASSUME latest' = latest, \A c \in CallIds : Rests(c) \/ GivesUp(c) \/ Applies(c) \/ Files(c)
    PROVE  LatestStep
  BY DEF LatestStep, NewRow, Rests, GivesUp, Applies, Files

\* A group that fails, when the handler itself touched at most rows of its calls.
LEMMA FailedStep ==
    ASSUME Inv, NEW base \in [CallIds -> JournalStates], NEW c \in CallIds,
           NEW S \in SUBSET CallIds, FailGroupFrom(base, c, S, {}),
           \A d \in CallIds : \/ base[d] = journal[d]
                              \/ journal'[d] = base[d] => Drafts(d) /\ base[d] # "Checkpointed",
           LatestStep, latest' \in Attempts \cup {0},
           transient' \in [Chunks -> Nat], \A k \in Chunks : transient[k] = 0 => transient'[k] = 0,
           UNCHANGED <<cache, imported, checkpoint, attempt, active, sent, answered, beside>>
    PROVE  Inv'
<1>0. {} \in SUBSET CallIds
  OBVIOUS
<1>1. /\ journal' \in [CallIds -> JournalStates]
      /\ \A d \in CallIds : journal'[d] = base[d] \/ GivesUp(d)
      /\ outbox \subseteq outbox' /\ outbox' \subseteq CallIds
      /\ unrecorded \subseteq unrecorded' /\ unrecorded' \subseteq CallIds
      /\ canceled' \subseteq CallIds /\ awaiting' \subseteq CallIds
      /\ owned' \in BOOLEAN /\ current' \subseteq Attempts
      /\ EndsOnly(pending \cap {c[1]})
  BY <1>0, FailStep
<1>2. \A d \in CallIds : Rests(d) \/ GivesUp(d) \/ (Drafts(d) /\ journal'[d] # "Checkpointed")
  BY <1>1 DEF Rests
<1>3. JournalStep
  <2>1. \A d \in CallIds : RowStep(d)
    BY <1>2 DEF RowStep
  <2> QED BY <1>1, <2>1, QuietStep
<1>4. CheckpointInv'
  BY <1>2 DEF Inv, RowInv, CheckpointInv, Rests, GivesUp
<1>5. QueueStep /\ SettledInv' /\ phase' \in Phases /\ PhaseInv'
  <2>1. pending \cap {c[1]} \in SUBSET pending
    OBVIOUS
  <2> QED BY <1>1, <2>1, EndsKeep
<1>6. TypeOK'
  <2>1. pending' \subseteq Attempts /\ queue' \in [CallIds -> Queued \cup {"out"}]
        /\ settled' \in [CallIds -> CallIds \cup {NoCall}]
    BY <1>1, TypeFacts DEF Inv, EndsOnly
  <2> QED BY <1>1, <1>5, <2>1, TypeFacts, TypeNext DEF Inv
<1> QED BY <1>3, <1>4, <1>5, <1>6, StepKeeps

LEMMA FailedGroup ==
    ASSUME Inv, NEW c \in CallIds, NEW S \in SUBSET CallIds, FailGroup(c, S, {}),
           LatestStep, latest' \in Attempts \cup {0},
           transient' \in [Chunks -> Nat], \A k \in Chunks : transient[k] = 0 => transient'[k] = 0,
           UNCHANGED <<cache, imported, checkpoint, attempt, active, sent, answered, beside>>
    PROVE  Inv'
<1>1. FailGroupFrom(journal, c, S, {})
  BY DEF FailGroup
<1> QED BY <1>1, FailedStep, JournalIsABase

\* A group that fails writes no row.
LEMMA FailedRows ==
    ASSUME Inv, NEW c \in CallIds, NEW S \in SUBSET CallIds, FailGroup(c, S, {})
    PROVE  \A d \in CallIds : Rests(d) \/ GivesUp(d)
<1>1. FailGroupFrom(journal, c, S, {}) /\ {} \in SUBSET CallIds
  BY DEF FailGroup
<1> QED BY <1>1, FailStep, JournalIsABase DEF Rests

LEMMA FailedAlone ==
    ASSUME Inv, NEW c \in CallIds, NEW S \in SUBSET CallIds, FailGroup(c, S, {}),
           UNCHANGED <<latest, cache, imported, checkpoint, attempt, transient, active, sent, answered,
                       beside>>
    PROVE  Inv'
<1>1. \A d \in CallIds : Rests(d) \/ GivesUp(d)
  BY FailedRows
<1>2. LatestStep
  BY <1>1, NoNewRow
<1>3. latest' \in Attempts \cup {0} /\ transient' \in [Chunks -> Nat]
      /\ \A k \in Chunks : transient[k] = 0 => transient'[k] = 0
  BY TypeFacts DEF Inv
<1> QED BY <1>2, <1>3, FailedGroup

LEMMA DropQueuedKeeps ==
    ASSUME Inv, NEW c \in CallIds, DropQueued(c)
    PROVE  Inv'
  BY FailedAlone DEF DropQueued

LEMMA ExpireGroupKeeps ==
    ASSUME Inv, NEW a \in Attempts, ExpireGroup(a)
    PROVE  Inv'
<1>1. <<a, First>> \in CallIds
  BY CallIdFacts, FinalJournalAssumption
<1>2. {<<a, First>>} \ awaiting \in SUBSET CallIds
  BY <1>1
<1> QED BY <1>1, <1>2, FailedAlone DEF ExpireGroup

LEMMA SessionStep ==
    ASSUME Inv, BeginSession
    PROVE  /\ journal' \in [CallIds -> JournalStates]
           /\ outbox \subseteq outbox' /\ outbox' \subseteq CallIds
           /\ canceled' \subseteq CallIds /\ awaiting' \subseteq CallIds
           /\ \A c \in CallIds : Rests(c) \/ GivesUp(c)
<1>1. PICK r \in AbandonFinal(InFlight) :
         /\ journal' = With(journal, r.rows, "Abandoned")
         /\ outbox' = outbox \cup r.terminals
         /\ canceled' = canceled \cup active
         /\ awaiting' = {}
  BY DEF BeginSession, Rows, Publish
<1>2. InFlight \in SUBSET CallIds
  BY TypeFacts DEF Inv, InFlight
<1>3. /\ journal' \in [CallIds -> JournalStates] /\ r.terminals \subseteq CallIds
      /\ \A c \in CallIds : journal'[c] = journal[c] \/ GivesUp(c)
  <2> HIDE DEF InFlight
  <2> QED BY <1>1, <1>2, AbandonStep, JournalIsABase
<1> QED BY <1>1, <1>3, TypeFacts DEF Inv, Rests

\* Rows that are given up say nothing of a checkpoint.
LEMMA CheckpointStays ==
    ASSUME Inv, \A c \in CallIds : Rests(c) \/ GivesUp(c) \/ Applies(c) \/ Files(c),
           checkpoint.text = "hosted" => checkpoint'.text = "hosted"
    PROVE  CheckpointInv'
  BY DEF Inv, RowInv, CheckpointInv, Rests, GivesUp, Applies, Files

\* Groups end and rows are given up: what a change of the controls, the session of
\* another recording and a crash have in common.
LEMMA EndedStep ==
    ASSUME Inv,
           journal' \in [CallIds -> JournalStates],
           \A c \in CallIds : Rests(c) \/ GivesUp(c),
           outbox \subseteq outbox', outbox' \subseteq CallIds,
           canceled' \subseteq CallIds, awaiting' \subseteq CallIds,
           NEW ended \in SUBSET pending, EndsOnly(ended),
           owned' \in BOOLEAN, current' \subseteq Attempts,
           UNCHANGED <<latest, cache, imported, checkpoint, attempt, transient, active, history>>
    PROVE  Inv'
<1>0. UNCHANGED <<sent, answered, unrecorded, beside>>
  BY DEF history
<1>1. JournalStep
  <2>1. \A c \in CallIds : RowStep(c)
    BY DEF RowStep
  <2>2. LatestStep
    BY NoNewRow
  <2> QED BY <1>0, <2>1, <2>2, QuietStep
<1>2. CheckpointInv'
  BY CheckpointStays
<1>3. QueueStep /\ SettledInv' /\ phase' \in Phases /\ PhaseInv'
  BY <1>0, EndsKeep
<1>4. TypeOK'
  <2>1. pending' \subseteq Attempts /\ queue' \in [CallIds -> Queued \cup {"out"}]
        /\ settled' \in [CallIds -> CallIds \cup {NoCall}]
    BY TypeFacts DEF Inv, EndsOnly
  <2> QED BY <1>0, <1>3, <2>1, TypeFacts, TypeNext DEF Inv
<1> QED BY <1>1, <1>2, <1>3, <1>4, StepKeeps

LEMMA NewSessionKeeps ==
    ASSUME Inv, NewSession
    PROVE  Inv'
<1>1. /\ journal' \in [CallIds -> JournalStates]
      /\ outbox \subseteq outbox' /\ outbox' \subseteq CallIds
      /\ canceled' \subseteq CallIds /\ awaiting' \subseteq CallIds
      /\ \A c \in CallIds : Rests(c) \/ GivesUp(c)
  BY SessionStep DEF NewSession
<1>2. EndsOnly(pending)
  <2>1. /\ pending' = {} /\ queue' = NoQueue
        /\ settled' = [c \in CallIds |-> IF c[1] \in pending THEN NoCall ELSE settled[c]]
        /\ phase' = IF phase = "waiting" THEN "raw" ELSE phase
    BY DEF NewSession
  <2>2. \A c \in CallIds : queue[c] # "out" => c[1] \in pending
    BY QueuedFacts
  <2>3. \A c \in CallIds : queue'[c] = IF c[1] \in pending THEN "out" ELSE queue[c]
    BY <2>1, <2>2, NoQueueType
  <2>4. settled' \in [CallIds -> CallIds \cup {NoCall}]
    BY <2>1, TypeFacts DEF Inv
  <2> QED BY <2>1, <2>3, <2>4, NoQueueType DEF EndsOnly
<1>3. owned' \in BOOLEAN /\ current' \subseteq Attempts
  BY DEF NewSession
<1>4. UNCHANGED <<latest, cache, imported, checkpoint, attempt, transient, active, history>>
  BY DEF NewSession
<1> QED BY <1>1, <1>2, <1>3, <1>4, EndedStep

LEMMA ChangeControlsKeeps ==
    ASSUME Inv, ChangeControls
    PROVE  Inv'
<1> DEFINE failing == {a \in pending : \E c \in CallsOf(a) : queue[c] \in Queued}
           taken == {settled[c] : c \in {c \in failing \X Chunks : settled[c] # NoCall}}
           all == active \cup {c \in CallIds : queue[c] \in Prepared} \cup taken
<1>1. PICK r \in AbandonFinal(all) :
         /\ journal' = With(journal, r.rows, "Abandoned")
         /\ outbox' = outbox \cup r.terminals
         /\ canceled' = canceled \cup active
         /\ awaiting' = awaiting \ all
         /\ pending' = pending \ failing
         /\ queue' = [c \in CallIds |-> IF c[1] \in failing THEN "out" ELSE queue[c]]
         /\ settled' = [c \in CallIds |-> IF c[1] \in failing THEN NoCall ELSE settled[c]]
         /\ owned' = (owned /\ failing = {})
         /\ phase' = IF phase = "waiting" /\ attempt \in failing THEN "raw" ELSE phase
  BY DEF ChangeControls, Rows, Publish
<1>2. all \in SUBSET CallIds
  <2>1. failing \X Chunks \subseteq CallIds
    BY TypeFacts DEF Inv, CallIds
  <2>2. taken \subseteq CallIds
    BY <2>1, TypeFacts DEF Inv
  <2> QED BY <2>2, TypeFacts DEF Inv
<1> HIDE DEF all
<1>3. /\ journal' \in [CallIds -> JournalStates] /\ r.terminals \subseteq CallIds
      /\ \A c \in CallIds : journal'[c] = journal[c] \/ GivesUp(c)
  BY <1>1, <1>2, AbandonStep, JournalIsABase
<1>4. /\ outbox' \subseteq CallIds /\ canceled' \subseteq CallIds /\ awaiting' \subseteq CallIds
      /\ outbox \subseteq outbox' /\ \A c \in CallIds : Rests(c) \/ GivesUp(c)
  BY <1>1, <1>3, TypeFacts DEF Inv, Rests
<1>5. EndsOnly(failing) /\ failing \in SUBSET pending
  <2>1. failing \in SUBSET pending
    OBVIOUS
  <2> HIDE DEF failing
  <2>2. /\ queue' \in [CallIds -> Queued \cup {"out"}]
        /\ settled' \in [CallIds -> CallIds \cup {NoCall}]
    BY <1>1, TypeFacts DEF Inv
  <2> QED BY <1>1, <2>1, <2>2 DEF EndsOnly
<1>6. owned' \in BOOLEAN
  <2>1. owned \in BOOLEAN
    BY TypeFacts DEF Inv
  <2>2. CASE failing = {}
    <3>1. owned' = owned
      BY <1>1, <2>1, <2>2
    <3> QED BY <2>1, <3>1
  <2>3. CASE failing # {}
    <3>1. owned' = FALSE
      BY <1>1, <2>3
    <3> QED BY <3>1
  <2> QED BY <2>2, <2>3
<1>7. /\ current' \subseteq Attempts
      /\ UNCHANGED <<latest, cache, imported, checkpoint, attempt, transient, active, history>>
  BY DEF ChangeControls
<1> HIDE DEF failing
<1> QED BY <1>3, <1>4, <1>5, <1>6, <1>7, EndedStep

LEMMA CrashKeeps ==
    ASSUME Inv, Crash
    PROVE  Inv'
<1>1. /\ owned' = FALSE /\ current' = {} /\ pending' = {} /\ queue' = NoQueue
      /\ transient' = [k \in Chunks |-> 0]
      /\ active' = {} /\ canceled' = {} /\ awaiting' = {}
      /\ settled' = NoneSettled /\ phase' \in {"filed", "idle"}
      /\ UNCHANGED <<journal, latest, cache, outbox, imported, checkpoint, attempt, sent, answered,
                     unrecorded, beside>>
  BY DEF Crash, durable, history
<1>2. \A c \in CallIds : Rests(c)
  BY <1>1 DEF Rests
<1>3. JournalStep
  <2>1. \A c \in CallIds : RowStep(c)
    BY <1>2 DEF RowStep
  <2>2. LatestStep
    BY <1>1, <1>2, NoNewRow
  <2> QED BY <1>1, <2>1, <2>2, QuietStep
<1>4. CheckpointInv'
  BY <1>1, <1>2, CheckpointStays
<1>5. QueueStep
  BY <1>1, NoQueueType DEF QueueStep
<1>6. SettledInv' /\ PhaseInv'
  BY <1>1, NoQueueType DEF SettledInv, PhaseInv, Hosted
<1>7. TypeOK'
  BY <1>1, TypeFacts, TypeNext, NoQueueType DEF Inv, Phases
<1> QED BY <1>3, <1>4, <1>5, <1>6, <1>7, StepKeeps

\* Steps of the pipeline thread and of a deadline: rows are given up, applied or
\* filed, and the groups go on as they were.
LEMMA RowsOnlyStep ==
    ASSUME Inv,
           journal' \in [CallIds -> JournalStates],
           outbox' \subseteq CallIds, imported' \subseteq CallIds,
           canceled' \subseteq CallIds, awaiting' \subseteq CallIds, phase' \in Phases,
           checkpoint' \in Checkpoints, outbox \cup imported \subseteq outbox' \cup imported',
           checkpoint.text = "hosted" => checkpoint'.text = "hosted",
           phase' \in Hosted => phase \in Hosted, PhaseInv',
           \A c \in CallIds : Rests(c) \/ GivesUp(c) \/ Applies(c) \/ Files(c),
           UNCHANGED <<latest, cache, attempt, owned, pending, current, queue, settled, transient,
                       active, sent, answered, unrecorded, beside>>
    PROVE  Inv'
<1>1. JournalStep
  <2>1. \A c \in CallIds : RowStep(c)
    BY DEF RowStep
  <2>2. LatestStep
    BY NoNewRow
  <2>3. attempt \in Nat
    BY TypeFacts DEF Inv
  <2> QED BY <2>1, <2>2, <2>3 DEF JournalStep, SendStep, AnswerStep, RecordStep
<1>2. CheckpointInv'
  BY CheckpointStays
<1>3. QueueStep
  BY QueuedFacts DEF QueueStep
<1>4. SettledInv'
  BY DEF Inv, SettledInv, Hosted, CallsOf
<1>5. TypeOK'
  BY TypeFacts, TypeNext DEF Inv
<1> QED BY <1>1, <1>2, <1>3, <1>4, <1>5, StepKeeps

LEMMA IdleStepsKeep ==
    ASSUME Inv, SkipFinal \/ GiveUp \/ ImportOutbox
    PROVE  Inv'
<1>1. CASE SkipFinal \/ GiveUp
  <2>1. phase' = "raw" /\ UNCHANGED <<durable, service, history>>
    BY <1>1 DEF SkipFinal, GiveUp
  <2>2. checkpoint.text = "none"
    BY <1>1 DEF SkipFinal, GiveUp, Inv, PhaseInv
  <2>3. PhaseInv' /\ \A c \in CallIds : Rests(c)
    BY <2>1, <2>2 DEF PhaseInv, Hosted, Rests, durable
  <2> QED BY <2>1, <2>3, RowsOnlyStep, TypeFacts
          DEF Inv, durable, service, groups, calls, history, Hosted, Phases
<1>2. CASE ImportOutbox
  <2>1. /\ imported' = imported \cup outbox
        /\ UNCHANGED <<journal, latest, cache, checkpoint, service, phase, history>>
    BY <1>2 DEF ImportOutbox
  <2>2. outbox' \in {{}, outbox}
    BY <1>2 DEF ImportOutbox
  <2>3. outbox' \subseteq CallIds /\ imported' \subseteq CallIds
        /\ outbox \cup imported \subseteq outbox' \cup imported'
    BY <2>1, <2>2, TypeFacts DEF Inv
  <2>4. PhaseInv' /\ \A c \in CallIds : Rests(c)
    BY <2>1 DEF Inv, PhaseInv, Hosted, Rests
  <2> QED BY <2>1, <2>3, <2>4, RowsOnlyStep, TypeFacts DEF Inv, service, groups, calls, history, Hosted
<1> QED BY <1>1, <1>2

LEMMA ExpireActiveKeeps ==
    ASSUME Inv, NEW c \in CallIds, ExpireActive(c)
    PROVE  Inv'
<1>1. c \in active /\ canceled' = canceled \cup {c}
      /\ UNCHANGED <<latest, cache, outbox, imported, checkpoint, attempt, owned, pending, current,
                     queue, settled, transient, active, awaiting, phase, sent, answered, unrecorded,
                     beside>>
  BY DEF ExpireActive, groups, history
<1>2. PICK r \in AbandonFinal({c}) : journal' = With(journal, r.rows, "Abandoned")
  BY DEF ExpireActive, Rows
<1>3. {c} \in SUBSET CallIds
  OBVIOUS
<1>4. /\ r.rows \subseteq {c} /\ \A d \in r.rows : journal[d] \notin {"none", "Checkpointed"}
  BY <1>3, AbandonFacts
<1>5. c \notin answered
  BY <1>1 DEF Inv, PaidInv
<1>6. \A d \in CallIds : Rests(d) \/ GivesUp(d)
  BY <1>2, <1>4, <1>5 DEF With, Rests, GivesUp
<1>7. journal' \in [CallIds -> JournalStates]
  BY <1>2, JournalIsABase DEF With, JournalStates
<1>8. canceled' \subseteq CallIds
  BY <1>1, TypeFacts DEF Inv
<1>9. PhaseInv'
  BY <1>1 DEF Inv, PhaseInv, Hosted
<1> QED BY <1>1, <1>6, <1>7, <1>8, <1>9, RowsOnlyStep, TypeFacts DEF Inv

LEMMA ResultsAreCalls ==
    ASSUME Inv
    PROVE  Results \cap awaiting \in SUBSET CallIds
  BY TypeFacts DEF Inv

LEMMA AbandonResultStep ==
    ASSUME Inv, NEW next, AbandonResult(next)
    PROVE  /\ journal' \in [CallIds -> JournalStates]
           /\ outbox \subseteq outbox' /\ outbox' \subseteq CallIds /\ awaiting' \subseteq CallIds
           /\ phase' = next /\ \A c \in CallIds : Rests(c) \/ GivesUp(c)
<1>1. PICK r \in AbandonFinal(Results \cap awaiting) :
         /\ journal' = With(journal, r.rows, "Abandoned")
         /\ outbox' = outbox \cup r.terminals
         /\ awaiting' = awaiting \ Results
         /\ phase' = next
  BY DEF AbandonResult, Rows, Publish
<1>2. /\ journal' \in [CallIds -> JournalStates] /\ r.terminals \subseteq CallIds
      /\ \A c \in CallIds : journal'[c] = journal[c] \/ GivesUp(c)
  BY <1>1, ResultsAreCalls, AbandonStep, JournalIsABase
<1> QED BY <1>1, <1>2, TypeFacts DEF Inv, Rests

LEMMA MarkAppliedKeeps ==
    ASSUME Inv, MarkApplied
    PROVE  Inv'
<1>0. UNCHANGED <<latest, cache, imported, checkpoint, attempt, owned, pending, current, queue,
                  settled, transient, active, canceled, sent, answered, unrecorded, beside>>
  BY DEF MarkApplied, groups, history
<1>1. phase = "hosted" /\ checkpoint.text = "none"
  BY DEF MarkApplied, Inv, PhaseInv, Hosted
<1>2. CASE /\ \A c \in Results : journal[c] = "Applied" \/ journal[c] = "ResultCached"
           /\ journal' = With(journal, Results, "Applied")
           /\ phase' = "applied" /\ UNCHANGED <<outbox, awaiting>>
  <2>1. \A c \in CallIds : Rests(c) \/ Applies(c)
    BY <1>2 DEF With, Rests, Applies
  <2>2. journal' \in [CallIds -> JournalStates]
    BY <1>2, JournalIsABase DEF With, JournalStates
  <2>3. PhaseInv'
    BY <1>0, <1>1, <1>2 DEF PhaseInv
  <2> QED BY <1>0, <1>1, <1>2, <2>1, <2>2, <2>3, RowsOnlyStep, TypeFacts DEF Inv, Phases, Hosted
<1>3. CASE AbandonResult("raw")
  <2>1. phase' = "raw"
    BY <1>3, AbandonResultStep
  <2>2. PhaseInv'
    BY <1>0, <1>1, <2>1 DEF PhaseInv
  <2> QED BY <1>0, <1>3, <2>1, <2>2, AbandonResultStep, RowsOnlyStep, TypeFacts DEF Inv, Phases, Hosted
<1>4. \/ /\ (\A c \in Results : journal[c] = "Applied") \/ (\A c \in Results : journal[c] = "ResultCached")
         /\ journal' = With(journal, Results, "Applied")
         /\ phase' = "applied" /\ UNCHANGED <<outbox, awaiting>>
      \/ AbandonResult("raw")
  BY DEF MarkApplied, Rows
<1> QED BY <1>2, <1>3, <1>4

LEMMA StoreCheckpointKeeps ==
    ASSUME Inv, StoreCheckpoint
    PROVE  Inv'
<1>0. UNCHANGED <<latest, cache, imported, attempt, owned, pending, current, queue, settled,
                  transient, active, canceled, sent, answered, unrecorded, beside>>
  BY DEF StoreCheckpoint, groups, history
<1>1. \/ /\ phase = "applied" /\ checkpoint' = [text |-> "hosted", calls |-> Results]
         /\ phase' = "stored" /\ UNCHANGED <<journal, outbox, awaiting>>
      \/ /\ phase = "raw" /\ checkpoint' = [text |-> "raw", calls |-> {}]
         /\ phase' = "filed" /\ UNCHANGED <<journal, outbox, awaiting>>
      \/ AbandonResult("idle") /\ UNCHANGED checkpoint
      \/ phase' = "idle" /\ UNCHANGED <<journal, outbox, awaiting, checkpoint>>
  BY DEF StoreCheckpoint
<1>2. UNCHANGED journal => \A c \in CallIds : Rests(c)
  BY DEF Rests
<1>3. CASE /\ phase = "applied" /\ checkpoint' = [text |-> "hosted", calls |-> Results]
           /\ phase' = "stored" /\ UNCHANGED <<journal, outbox, awaiting>>
  <2>1. Results \subseteq CallIds
    <3>1. attempt \in Attempts /\ \A c \in CallsOf(attempt) : settled[c] # NoCall
      BY <1>3 DEF Inv, SettledInv, Hosted
    <3> QED BY <3>1, CallIdFacts, TypeFacts DEF Inv, Results
  <2>2. checkpoint' \in Checkpoints /\ checkpoint'.text = "hosted"
    BY <1>3, <2>1 DEF Checkpoints
  <2>3. PhaseInv'
    BY <1>3, <2>2 DEF PhaseInv, Hosted
  <2> QED BY <1>0, <1>2, <1>3, <2>2, <2>3, RowsOnlyStep, TypeFacts DEF Inv, Phases, Hosted
<1>4. CASE AbandonResult("idle") /\ UNCHANGED checkpoint
  <2>1. phase' = "idle"
    BY <1>4, AbandonResultStep
  <2>2. PhaseInv'
    BY <2>1 DEF PhaseInv, Hosted
  <2> QED BY <1>0, <1>4, <2>1, <2>2, AbandonResultStep, RowsOnlyStep, TypeFacts DEF Inv, Phases, Hosted
<1>5. CASE phase' = "idle" /\ UNCHANGED <<journal, outbox, awaiting, checkpoint>>
  <2>1. PhaseInv'
    BY <1>5 DEF PhaseInv, Hosted
  <2> QED BY <1>0, <1>2, <1>5, <2>1, RowsOnlyStep, TypeFacts DEF Inv, Phases, Hosted
<1>6. CASE /\ phase = "raw" /\ checkpoint' = [text |-> "raw", calls |-> {}]
           /\ phase' = "filed" /\ UNCHANGED <<journal, outbox, awaiting>>
  <2>1. checkpoint' \in Checkpoints
    BY <1>6 DEF Checkpoints
  <2>2. checkpoint.text # "hosted"
    BY <1>6 DEF Inv, PhaseInv
  <2>3. PhaseInv'
    BY <1>6 DEF PhaseInv, Hosted
  <2> QED BY <1>0, <1>2, <1>6, <2>1, <2>2, <2>3, RowsOnlyStep, TypeFacts DEF Inv, Phases, Hosted
<1> QED BY <1>1, <1>3, <1>4, <1>5, <1>6

LEMMA AcknowledgeKeeps ==
    ASSUME Inv, Acknowledge
    PROVE  Inv'
<1> DEFINE called == checkpoint.calls
<1>0. /\ UNCHANGED <<latest, cache, imported, checkpoint, attempt, owned, pending, current, queue,
                     settled, transient, active, canceled, sent, answered, unrecorded, beside>>
      /\ phase' \in {"filed", "idle"}
  BY DEF Acknowledge, groups, history
<1>1. called \subseteq CallIds /\ outbox \subseteq CallIds /\ awaiting \subseteq CallIds
      /\ checkpoint \in Checkpoints
  BY TypeFacts DEF Inv, Checkpoints
<1>2. PhaseInv' /\ phase' \in Phases /\ phase' \notin Hosted
  BY <1>0 DEF PhaseInv, Hosted, Phases
<1>3. CASE /\ \A c \in called : journal[c] = "Checkpointed"
           /\ journal' = With(journal, called, "Checkpointed")
           /\ outbox \subseteq outbox' /\ outbox' \subseteq outbox \cup called
           /\ awaiting' = awaiting \ called
  <2>1. \A c \in CallIds : Rests(c)
    BY <1>3 DEF With, Rests
  <2>2. journal' \in [CallIds -> JournalStates]
    BY <1>3, JournalIsABase DEF With, JournalStates
  <2>3. outbox' \subseteq CallIds /\ awaiting' \subseteq CallIds
    BY <1>1, <1>3
  <2> QED BY <1>0, <1>1, <1>2, <1>3, <2>1, <2>2, <2>3, RowsOnlyStep, TypeFacts DEF Inv
<1>4. CASE /\ \A c \in called : journal[c] = "Applied"
           /\ journal' = With(journal, called, "Checkpointed")
           /\ outbox' = outbox \cup (called \cap sent)
           /\ awaiting' = awaiting \ called
  <2>1. \A c \in CallIds : Rests(c) \/ Files(c)
    <3>1. checkpoint.text = "hosted"
      BY DEF Acknowledge, Inv, PhaseInv
    <3> QED BY <1>4, <3>1 DEF With, Rests, Files
  <2>2. journal' \in [CallIds -> JournalStates]
    BY <1>4, JournalIsABase DEF With, JournalStates
  <2>3. outbox' \subseteq CallIds /\ awaiting' \subseteq CallIds
    BY <1>1, <1>4
  <2> QED BY <1>0, <1>1, <1>2, <1>4, <2>1, <2>2, <2>3, RowsOnlyStep, TypeFacts DEF Inv
<1>5. CASE /\ outbox \subseteq outbox' /\ outbox' \subseteq outbox \cup called
           /\ UNCHANGED <<journal, awaiting>>
  <2>1. \A c \in CallIds : Rests(c)
    BY <1>5 DEF Rests
  <2>2. outbox' \subseteq CallIds
    BY <1>1, <1>5
  <2> QED BY <1>0, <1>1, <1>2, <1>5, <2>1, <2>2, RowsOnlyStep, TypeFacts DEF Inv
<1>6. \/ /\ (\A c \in called : journal[c] = "Checkpointed") \/ (\A c \in called : journal[c] = "Applied")
         /\ journal' = With(journal, called, "Checkpointed")
         /\ outbox' = outbox \cup (IF \A c \in called : journal[c] = "Applied" THEN called \cap sent ELSE {})
         /\ awaiting' = awaiting \ called
      \/ /\ \E terminals \in {{}} \cup Written("outbox", called \cap sent) : outbox' = outbox \cup terminals
         /\ UNCHANGED <<journal, awaiting>>
  BY DEF Acknowledge, Rows, Publish
<1>7. \A terminals \in {{}} \cup Written("outbox", called \cap sent) : terminals \subseteq called
  <2> HIDE DEF called
  <2>1. ASSUME NEW w \in Written("outbox", called \cap sent) PROVE w \subseteq called
    BY <2>1, WrittenFacts
  <2> QED BY <2>1
<1> HIDE DEF called
<1> QED BY <1>3, <1>4, <1>5, <1>6, <1>7

LEMMA StartFinalKeeps ==
    ASSUME Inv, StartFinal
    PROVE  Inv'
<1> DEFINE a == attempt + 1
           kept == IF owned THEN pending ELSE {}
           asked == pending' = kept \cup {a}
           stage == IF RecoverFinal' \in {"ResultCached", "Applied"} THEN "recover" ELSE "lookup"
<1>0. /\ attempt \in Nat /\ attempt < MaxAttempts /\ attempt' = a /\ latest' = latest
      /\ checkpoint.text = "none"
      /\ UNCHANGED <<cache, imported, checkpoint, transient, active, sent, answered, unrecorded>>
      /\ settled' = [c \in CallIds |-> IF c[1] \in kept THEN settled[c] ELSE NoCall]
      /\ IF owned THEN UNCHANGED <<journal, outbox, canceled, awaiting>> ELSE BeginSession
  BY TypeFacts DEF StartFinal, Inv
<1>1. \/ /\ RecoverFinal' \notin {"Dispatched", "Abandoned"}
         /\ phase' = "waiting" /\ owned' = TRUE
         /\ pending' = kept \cup {a}
         /\ current' = (current \cap kept) \cup {a}
         /\ queue' = [c \in CallIds |-> IF c[1] = a THEN stage
                                        ELSE IF c[1] \in kept THEN queue[c] ELSE "out"]
         /\ beside' = IF kept = {} THEN beside ELSE beside \cup {a}
      \/ /\ phase' = "raw" /\ owned' = FALSE
         /\ pending' = kept /\ current' = current \cap kept
         /\ queue' = [c \in CallIds |-> IF c[1] \in kept THEN queue[c] ELSE "out"]
         /\ beside' = beside
  BY DEF StartFinal
<1>2. /\ kept \subseteq pending /\ a \in Attempts /\ a \in Nat /\ stage \in {"recover", "lookup"}
      /\ pending \subseteq 1 .. attempt /\ beside \subseteq 1 .. attempt
      /\ \A c \in CallIds : c[1] \in Nat
  <2>1. a \in Attempts /\ a \in Nat
    BY <1>0, FinalJournalAssumption DEF Attempts
  <2>2. stage \in {"recover", "lookup"} /\ kept \subseteq pending
    OBVIOUS
  <2> QED BY <2>1, <2>2, AttemptFacts
<1>3. /\ journal' \in [CallIds -> JournalStates]
      /\ outbox \subseteq outbox' /\ outbox' \subseteq CallIds
      /\ canceled' \subseteq CallIds /\ awaiting' \subseteq CallIds
      /\ \A c \in CallIds : Rests(c) \/ GivesUp(c)
  <2>1. CASE owned
    BY <1>0, <2>1, TypeFacts DEF Inv, Rests
  <2>2. CASE ~ owned
    BY <1>0, <2>2, SessionStep
  <2> QED BY <2>1, <2>2
<1> HIDE DEF kept, stage
<1>4. JournalStep
  <2>1. beside \subseteq beside' /\ attempt' \in Nat /\ attempt <= attempt'
    BY <1>0, <1>1, <1>2
  <2>2. \A c \in CallIds : RowStep(c)
    BY <1>3 DEF RowStep
  <2>3. LatestStep
    BY <1>0, <1>3, NoNewRow
  <2> QED BY <1>0, <1>3, <2>1, <2>2, <2>3 DEF JournalStep, SendStep, AnswerStep, RecordStep
<1>5. RowInv' /\ PairInv' /\ ActiveInv' /\ PaidInv'
  BY <1>0, <1>3, <1>4, JournalStepKeeps, CheckpointStays DEF RowInv
\* The calls of the new attempt, and those of the groups that are kept
<1>6. ASSUME NEW c \in CallIds
      PROVE  /\ c[1] = a => /\ c[1] \notin kept /\ c \notin sent /\ journal[c] = "none"
                            /\ journal'[c] = "none" /\ settled'[c] = NoCall /\ queue[c] = "out"
             /\ c[1] # a => queue'[c] = "out" \/ (c[1] \in kept /\ queue'[c] = queue[c])
             /\ queue'[c] # "out" /\ c[1] = a => asked /\ queue'[c] = stage
             /\ journal[c] = "none" => journal'[c] = "none"
             /\ c[1] \in kept => settled'[c] = settled[c]
  <2>1. journal[c] = "none" => journal'[c] = "none"
    BY <1>3 DEF Rests, GivesUp
  <2>2. ASSUME c[1] = a
        PROVE  /\ c[1] \notin kept /\ c \notin sent /\ journal[c] = "none" /\ queue[c] = "out"
               /\ settled'[c] = NoCall
    <3>1. c[1] \notin pending /\ c[1] > attempt
      BY <1>0, <1>2, <2>2
    <3>2. journal[c] = "none"
      BY <3>1 DEF Inv, RowInv, FreshInv
    <3>3. c \notin sent
      BY <3>2 DEF Inv, RowInv, SentInv
    <3> QED BY <1>0, <1>2, <3>1, <3>2, <3>3, QueuedFacts
  <2>3. c[1] # a => queue'[c] = "out" \/ (c[1] \in kept /\ queue'[c] = queue[c])
    BY <1>1
  <2>4. queue'[c] # "out" /\ c[1] = a => asked /\ queue'[c] = stage
    BY <1>1, <2>2
  <2> QED BY <1>0, <2>1, <2>2, <2>3, <2>4
<1>7. QueueInv'
  <2> SUFFICES ASSUME NEW c \in CallIds, queue'[c] # "out"
               PROVE  /\ c[1] \in pending' /\ settled'[c] = NoCall /\ c \notin sent'
                      /\ queue'[c] \in Early => journal'[c] = "none"
    BY DEF QueueInv
  <2>1. CASE c[1] = a
    BY <1>0, <1>6, <2>1
  <2>2. CASE c[1] # a
    <3>1. c[1] \in kept /\ queue'[c] = queue[c]
      BY <1>6, <2>2
    <3>2. /\ settled[c] = NoCall /\ c \notin sent
          /\ queue[c] \in Early => journal[c] = "none"
      BY <3>1 DEF Inv, QueueInv
    <3> QED BY <1>0, <1>1, <1>6, <3>1, <3>2
  <2> QED BY <2>1, <2>2
<1>8. PendingInv'
  <2>1. /\ attempt' \in 0 .. MaxAttempts /\ pending' \subseteq 1 .. attempt'
        /\ beside' \subseteq 1 .. attempt'
    <3>1. attempt' \in 0 .. MaxAttempts /\ a \in 1 .. attempt'
      BY <1>0, FinalJournalAssumption
    <3>2. 1 .. attempt \subseteq 1 .. attempt'
      BY <1>0
    <3>3. pending' \subseteq pending \cup {a} /\ beside' \subseteq beside \cup {a}
      BY <1>1, <1>2
    <3> QED BY <1>2, <3>1, <3>2, <3>3
  <2>2. ASSUME NEW c \in CallIds, NEW b \in pending', Begun(c)', Alone(c[1])' PROVE c[1] <= b
    <3>1. CASE c[1] = a
      <4>1. asked /\ journal'[c] = "none"
        BY <1>6, <2>2, <3>1 DEF Begun
      <4>2. kept = {}
        <5>1. CASE beside' = beside \cup {a}
          BY <1>2, <2>2, <3>1, <5>1 DEF Alone
        <5>2. CASE kept # {} /\ beside' # beside \cup {a}
          <6>1. pending' = kept
            BY <1>1, <5>2
          <6>2. a \in kept /\ a \notin 1 .. attempt
            BY <1>0, <4>1, <6>1
          <6> QED BY <1>2, <6>2
        <5> QED BY <5>1, <5>2
      <4> QED BY <1>2, <3>1, <4>1, <4>2
    <3>2. CASE c[1] # a
      <4>1. Begun(c)
        BY <1>6, <2>2, <3>2 DEF Begun
      <4>2. c[1] <= attempt /\ Alone(c[1])
        BY <1>4, <2>2, <4>1, AttemptFacts, AloneBefore
      <4>3. CASE b = a
        BY <1>2, <4>2, <4>3, <1>0
      <4>4. CASE b \in pending
        BY <4>1, <4>2, <4>4 DEF Inv, PendingInv
      <4> QED BY <1>1, <1>2, <4>3, <4>4
    <3> QED BY <3>1, <3>2
  <2>3. ASSUME beside' = {} PROVE /\ \A b, d \in pending' : b = d
                                  /\ \A k \in Chunks : transient'[k] = 0
    <3>1. beside = {}
      BY <1>1, <2>3
    <3>2. (\A b, d \in pending : b = d) /\ \A k \in Chunks : transient[k] = 0
      BY <3>1 DEF Inv, PendingInv
    <3>3. pending' = {a} \/ pending' \subseteq pending
      BY <1>1, <1>2, <2>3
    <3> QED BY <1>0, <3>2, <3>3
  <2> QED BY <2>1, <2>2, <2>3 DEF PendingInv
<1>9. phase' \in {"waiting", "raw"}
  BY <1>1
<1>10. TypeOK'
  <2>1. queue' \in [CallIds -> Queued \cup {"out"}]
    <3>1. queue \in [CallIds -> Queued \cup {"out"}] /\ stage \in Queued
      BY <1>2, TypeFacts DEF Inv, Queued
    <3> QED BY <1>1, <3>1
  <2>2. settled' \in [CallIds -> CallIds \cup {NoCall}]
    BY <1>0, TypeFacts DEF Inv
  <2>3. pending' \subseteq Attempts /\ current' \subseteq Attempts /\ beside' \subseteq Attempts
    BY <1>1, <1>2, TypeFacts DEF Inv
  <2>4. owned' \in BOOLEAN
    BY <1>1
  <2>5. phase' \in Phases /\ attempt' \in Nat
    BY <1>0, <1>9 DEF Phases
  <2> QED BY <1>0, <1>3, <2>1, <2>2, <2>3, <2>4, <2>5, TypeFacts, TypeNext DEF Inv
<1>11. SettledInv' /\ PhaseInv'
  <2>1. ASSUME NEW c \in CallIds, settled'[c] # NoCall PROVE ChunkOf(settled'[c]) = ChunkOf(c)
    <3>1. settled'[c] = settled[c]
      BY <1>0, <2>1
    <3> QED BY <2>1, <3>1 DEF Inv, SettledInv
  <2> QED BY <1>0, <1>9, <2>1 DEF SettledInv, PhaseInv, Hosted, ChunkOf
<1>12. AskInv'
  <2> SUFFICES ASSUME NEW c \in sent', NEW d \in CallIds, c[1] < d[1], queue'[d] \in Asking, Alone(d[1])'
               PROVE  journal'[c] = "Abandoned"
    BY DEF AskInv
  <2>1. c \in sent /\ c \in CallIds /\ queue'[d] # "out"
    BY <1>0, TypeFacts DEF Inv, Asking
  <2>2. CASE d[1] = a
    <3>1. stage \in Asking
      BY <1>6, <2>1, <2>2
    <3>2. RecoverFinal' \notin {"ResultCached", "Applied"} /\ asked
      BY <1>6, <2>1, <2>2, <3>1 DEF stage, Asking
    <3>3. RecoverFinal' \notin {"Dispatched", "Abandoned"}
      <4>1. pending' # kept
        BY <1>2, <1>6, <2>2, <3>2
      <4> QED BY <1>1, <4>1
    <3>4. beside' = {}
      <4>1. ASSUME NEW b \in beside' PROVE FALSE
        <5>1. b \in 1 .. attempt' /\ b > a
          BY <1>8, <2>2, <4>1 DEF PendingInv, Alone
        <5> QED BY <1>0, <5>1
      <4> QED BY <4>1
    <3> QED BY <1>0, <1>5, <1>10, <3>2, <3>3, <3>4, AskingIsSafe
  <2>3. CASE d[1] # a
    <3>1. queue[d] \in Asking /\ Begun(d) /\ Alone(d[1])
      BY <1>4, <1>6, <2>1, <2>3, AloneBefore DEF Asking, Begun
    <3>2. c[1] \notin pending
      BY <2>1, <3>1, EarlierIsOver
    <3> QED BY <1>4, <2>1, <3>1, <3>2, AbandonedStays DEF Inv, SendInv, AskInv
  <2> QED BY <2>2, <2>3
<1> QED BY <1>5, <1>7, <1>8, <1>10, <1>11, <1>12 DEF Inv, SendInv

LEMMA WaitIdenticalKeeps ==
    ASSUME Inv, NEW c \in CallIds, WaitIdentical(c)
    PROVE  Inv'
<1>1. /\ c[1] \in pending /\ queue[c] = "ready" /\ queue' = [queue EXCEPT ![c] = "identical"]
      /\ UNCHANGED <<journal, latest, cache, outbox, imported, checkpoint, attempt, owned, pending,
                     current, settled, transient, active, canceled, awaiting, phase, sent, answered,
                     unrecorded, beside>>
  BY DEF WaitIdentical, durable, calls, history
<1>2. queue \in [CallIds -> Queued \cup {"out"}]
  BY TypeFacts DEF Inv
<1>3. queue'[c] = "identical" /\ \A d \in CallIds \ {c} : queue'[d] = queue[d]
  BY <1>1, <1>2
<1>4. \A d \in CallIds : Rests(d)
  BY <1>1 DEF Rests
<1>5. JournalStep
  <2>1. (\A d \in CallIds : RowStep(d)) /\ LatestStep
    BY <1>1, <1>4, NoNewRow DEF RowStep
  <2> QED BY <1>1, <2>1, QuietStep
<1>6. QueueStep
  <2>1. ASSUME NEW d \in CallIds, queue'[d] # "out"
        PROVE  /\ queue[d] # "out" /\ d[1] \in pending' /\ settled'[d] = NoCall
               /\ queue'[d] \in Early => queue[d] \in Early
               /\ queue'[d] \in Asking => queue[d] \in Asking
    BY <1>1, <1>3, <2>1, QueuedFacts DEF Early, Asking
  <2> QED BY <1>1, <2>1 DEF QueueStep
<1>7. CheckpointInv' /\ SettledInv' /\ PhaseInv'
  BY <1>1 DEF Inv, RowInv, CheckpointInv, SettledInv, PhaseInv, Hosted, CallsOf
<1>8. TypeOK'
  <2>1. queue' \in [CallIds -> Queued \cup {"out"}]
    BY <1>1, <1>2 DEF Queued
  <2> QED BY <1>1, <2>1, TypeFacts, TypeNext DEF Inv
<1> QED BY <1>5, <1>6, <1>7, <1>8, StepKeeps

LEMMA SendKeeps ==
    ASSUME Inv, NEW c \in CallIds, Send(c)
    PROVE  Inv'
<1>0. /\ c[1] \in pending /\ queue[c] = "ready" /\ Identical(c) = {}
      /\ UNCHANGED <<latest, cache, imported, checkpoint, attempt, transient, answered, beside>>
  BY DEF Send
<1>1. CASE FailGroup(c, {c}, {}) /\ UNCHANGED <<active, sent>>
  BY <1>0, <1>1, FailedAlone
<1>2. CASE /\ journal[c] = "Prepared"
           /\ journal' = With(journal, {c}, "Dispatched")
           /\ queue' = [queue EXCEPT ![c] = "out"]
           /\ active' = active \cup {c}
           /\ sent' = sent \cup {c}
           /\ UNCHANGED <<outbox, pending, owned, current, canceled, awaiting, settled, phase,
                          unrecorded>>
  <2>1. \A d \in CallIds : journal'[d] = IF d = c THEN "Dispatched" ELSE journal[d]
    BY <1>2 DEF With
  <2>2. queue \in [CallIds -> Queued \cup {"out"}] /\ attempt \in Nat
    BY TypeFacts DEF Inv
  <2>3. queue'[c] = "out" /\ \A d \in CallIds \ {c} : queue'[d] = queue[d]
    BY <1>2, <2>2
  <2>4. \A d \in CallIds : RowStep(d)
    BY <1>0, <2>1, <2>3 DEF RowStep, Rests, Dispatches
  <2>5. JournalStep
    <3>1. SendStep
      BY <1>0, <1>2, <2>1, <2>3 DEF SendStep
    <3>2. LatestStep
      BY <1>0, <1>2, <2>1 DEF LatestStep, NewRow
    <3> QED BY <1>0, <1>2, <2>2, <2>4, <3>1, <3>2 DEF JournalStep, AnswerStep, RecordStep
  <2>6. QueueStep
    <3>1. ASSUME NEW d \in CallIds, queue'[d] # "out"
          PROVE  /\ queue'[d] = queue[d] /\ d[1] \in pending' /\ settled'[d] = NoCall
      BY <1>2, <2>3, <3>1, QueuedFacts
    <3> QED BY <1>0, <1>2, <3>1 DEF QueueStep
  <2>7. CheckpointInv' /\ SettledInv' /\ PhaseInv'
    <3>1. CheckpointInv'
      BY <1>0, <2>1 DEF Inv, RowInv, CheckpointInv
    <3> QED BY <1>0, <1>2, <3>1 DEF Inv, SettledInv, PhaseInv, Hosted, CallsOf
  <2>8. TypeOK'
    <3>1. journal' \in [CallIds -> JournalStates]
      BY <1>2, JournalIsABase DEF With, JournalStates
    <3>2. active' \subseteq CallIds /\ sent' \subseteq CallIds
      BY <1>2, TypeFacts DEF Inv
    <3>3. queue' \in [CallIds -> Queued \cup {"out"}]
      BY <1>2, <2>2
    <3> QED BY <1>0, <1>2, <3>1, <3>2, <3>3, TypeFacts, TypeNext DEF Inv
  <2> QED BY <2>5, <2>6, <2>7, <2>8, StepKeeps
<1> QED BY <1>1, <1>2 DEF Send, Rows

LEMMA CompleteKeeps ==
    ASSUME Inv, NEW c \in CallIds, NEW ok \in BOOLEAN, Complete(c, ok)
    PROVE  Inv'
<1> DEFINE k == ChunkOf(c)
<1>0. /\ c \in active /\ active' = active \ {c} /\ answered' = answered \cup {c}
      /\ UNCHANGED <<latest, imported, checkpoint, attempt, sent, beside>>
  BY DEF Complete
<1>1. /\ c \in sent /\ k \in Chunks /\ journal[c] # "none" /\ attempt \in Nat /\ queue[c] = "out"
      /\ active \subseteq CallIds /\ answered \subseteq CallIds
  BY <1>0, QueuedFacts, CallIdFacts, TypeFacts DEF Inv, PaidInv, RowInv, SentInv
<1>2. ASSUME \A d \in CallIds : RowStep(d), \A d \in CallIds : ~ NewRow(d),
             outbox \subseteq outbox', unrecorded \subseteq unrecorded',
             journal'[c] = "ResultCached" \/ c \in outbox' \cup unrecorded'
      PROVE  JournalStep
  <2>1. SendStep /\ AnswerStep
    BY <1>0, <1>2 DEF SendStep, AnswerStep
  <2>2. LatestStep
    BY <1>0, <1>2 DEF LatestStep
  <2>3. RecordStep
    BY <1>0, <1>1, <1>2 DEF RecordStep
  <2> QED BY <1>2, <2>1, <2>2, <2>3 DEF JournalStep
<1>3. active' \subseteq CallIds /\ answered' \subseteq CallIds
  BY <1>0, <1>1
<1>4. CASE /\ ~ IsStale(c)
           /\ journal' = With(journal, {c}, "ResultCached")
           /\ cache' = cache \cup {k}
           /\ LET waiters == {d \in CallIds : queue[d] = "identical" /\ ChunkOf(d) = k}
              IN transient' = IF waiters = {} THEN transient
                              ELSE [transient EXCEPT ![k] = Cardinality(waiters)]
           /\ Settle(c, c)
           /\ UNCHANGED <<outbox, queue, canceled, unrecorded>>
  <2> DEFINE waiters == {d \in CallIds : queue[d] = "identical" /\ ChunkOf(d) = k}
  <2>1. c[1] \in pending
    BY <1>4 DEF IsStale
  <2>2. \A d \in CallIds : journal'[d] = IF d = c THEN "ResultCached" ELSE journal[d]
    BY <1>4 DEF With
  <2>3. JournalStep
    <3>1. \A d \in CallIds : RowStep(d)
      BY <1>0, <2>1, <2>2 DEF RowStep, Rests, Commits
    <3>2. \A d \in CallIds : ~ NewRow(d)
      BY <1>1, <2>2 DEF NewRow
    <3> QED BY <1>2, <1>4, <2>2, <3>1, <3>2
  <2>4. /\ settled' \in [CallIds -> CallIds \cup {NoCall}] /\ awaiting' \subseteq CallIds
        /\ pending' \subseteq pending /\ current' = current
        /\ owned' \in BOOLEAN /\ phase' \in Phases /\ SettledInv'
        /\ phase' = phase \/ (phase = "waiting" /\ phase' = "hosted")
        /\ \A d \in CallIds \ {c} : settled'[d] = settled[d]
        /\ \A d \in CallIds \ {c} : queue[d] # "out" => d[1] \in pending'
    BY <1>0, <1>4, <2>1, SettleStep
  <2>5. QueueStep
    <3>1. ASSUME NEW d \in CallIds, queue'[d] # "out"
          PROVE  queue'[d] = queue[d] /\ d[1] \in pending' /\ settled'[d] = NoCall
      <4>1. queue'[d] = queue[d] /\ d # c
        BY <1>1, <1>4, <3>1
      <4> QED BY <2>4, <3>1, <4>1, QueuedFacts
    <3>2. \/ \A j \in Chunks : transient[j] = 0 => transient'[j] = 0
          \/ \E b, d \in CallIds : b[1] \in pending /\ d[1] \in pending /\ b[1] # d[1]
      <4>1. CASE waiters = {}
        BY <1>4, <4>1
      <4>2. CASE waiters # {}
        <5>1. PICK d \in CallIds : queue[d] = "identical" /\ ChunkOf(d) = k
          BY <4>2
        <5>2. d # c /\ d[1] \in pending
          BY <1>1, <5>1, QueuedFacts
        <5>3. d[1] # c[1]
          BY <5>1, <5>2, CallIdFacts DEF ChunkOf
        <5> QED BY <2>1, <5>2, <5>3
      <4> QED BY <4>1, <4>2
    <3> QED BY <1>0, <2>4, <3>1, <3>2 DEF QueueStep
  <2>6. CheckpointInv'
    BY <1>0, <2>2 DEF Inv, RowInv, CheckpointInv
  <2>7. PhaseInv'
    BY <1>0, <2>4 DEF Inv, PhaseInv, Hosted
  <2>8. TypeOK'
    <3>1. journal' \in [CallIds -> JournalStates]
      BY <1>4, JournalIsABase DEF With, JournalStates
    <3>2. cache' \subseteq Chunks
      BY <1>1, <1>4, TypeFacts DEF Inv
    <3>3. transient' \in [Chunks -> Nat]
      <4>1. Cardinality(waiters) \in Nat
        <5>1. waiters \in SUBSET CallIds
          OBVIOUS
        <5> HIDE DEF waiters
        <5> QED BY <5>1, CallsAreFinite
      <4>2. transient \in [Chunks -> Nat]
        BY TypeFacts DEF Inv
      <4>3. transient' = IF waiters = {} THEN transient
                         ELSE [transient EXCEPT ![k] = Cardinality(waiters)]
        BY <1>4
      <4> HIDE DEF waiters, k
      <4> QED BY <4>1, <4>2, <4>3
    <3> QED BY <1>0, <1>3, <1>4, <2>4, <3>1, <3>2, <3>3, TypeFacts, TypeNext DEF Inv, EndsOnly
  <2> QED BY <2>3, <2>4, <2>5, <2>6, <2>7, <2>8, StepKeeps
<1>5. CASE FailGroup(c, {c}, {c}) /\ UNCHANGED <<cache, transient>>
  <2>1. /\ journal' \in [CallIds -> JournalStates]
        /\ \A d \in CallIds : journal'[d] = journal[d] \/ GivesUp(d)
        /\ outbox \subseteq outbox' /\ outbox' \subseteq CallIds
        /\ unrecorded \subseteq unrecorded' /\ unrecorded' \subseteq CallIds
        /\ {c} \subseteq outbox' \cup unrecorded'
        /\ canceled' \subseteq CallIds /\ awaiting' \subseteq CallIds
        /\ owned' \in BOOLEAN /\ current' \subseteq Attempts
        /\ EndsOnly(pending \cap {c[1]})
    <3>1. {c} \in SUBSET CallIds /\ FailGroupFrom(journal, c, {c}, {c})
      BY <1>5 DEF FailGroup
    <3> QED BY <3>1, FailStep, JournalIsABase
  <2>2. \A d \in CallIds : Rests(d) \/ GivesUp(d)
    BY <2>1 DEF Rests
  <2>3. JournalStep
    <3>1. \A d \in CallIds : RowStep(d) /\ ~ NewRow(d)
      BY <2>2 DEF RowStep, NewRow, Rests, GivesUp
    <3> QED BY <1>2, <2>1, <3>1
  <2>4. CheckpointInv'
    BY <1>0, <2>2, CheckpointStays
  <2>5. QueueStep /\ SettledInv' /\ phase' \in Phases /\ PhaseInv'
    <3>1. pending \cap {c[1]} \in SUBSET pending
      OBVIOUS
    <3> QED BY <1>0, <1>5, <2>1, <3>1, EndsKeep
  <2>6. TypeOK'
    <3>1. pending' \subseteq Attempts /\ queue' \in [CallIds -> Queued \cup {"out"}]
          /\ settled' \in [CallIds -> CallIds \cup {NoCall}]
      BY <2>1, TypeFacts DEF Inv, EndsOnly
    <3> QED BY <1>0, <1>3, <1>5, <2>1, <2>5, <3>1, TypeFacts, TypeNext DEF Inv
  <2> QED BY <2>3, <2>4, <2>5, <2>6, StepKeeps
<1> QED BY <1>4, <1>5 DEF Complete, Rows

\* The calls that are reserved together were waiting for it.
LEMMA ReservedFacts ==
    ASSUME NEW q, NEW a \in Attempts, NEW d \in Reserved(q, a)
    PROVE  d \in CallIds /\ d[1] = a /\ q[d] = "reserve"
<1>1. d \in CallsOf(a) /\ q[d] = "reserve"
  BY DEF Reserved
<1>2. CallsOf(a) \subseteq CallIds /\ \A c \in CallsOf(a) : c[1] = a
  BY CallIdFacts
<1> QED BY <1>1, <1>2

LEMMA LookupHitKeeps ==
    ASSUME Inv, NEW c \in CallIds, c[1] \in pending, queue[c] \in {"recover", "lookup", "identical"},
           NEW r \in CallIds, ChunkOf(r) = ChunkOf(c), LookupHit(c, r),
           r = c => queue[c] \in Asking \/ beside # {},
           PushedBy(c[1]), transient' \in [Chunks -> Nat],
           \A k \in Chunks : transient[k] = 0 => transient'[k] = 0,
           UNCHANGED <<cache, imported, checkpoint, attempt, active, sent, answered, beside>>
    PROVE  Inv'
<1> DEFINE q == [queue EXCEPT ![c] = "out"]
           R == Reserved(q, c[1])
<1>0. /\ queue \in [CallIds -> Queued \cup {"out"}] /\ TypeOK /\ c[1] \in Attempts
      /\ q \in [CallIds -> Queued \cup {"out"}] /\ q[c] = "out"
      /\ \A d \in CallIds \ {c} : q[d] = queue[d]
  BY TypeFacts DEF Inv
<1>1. /\ R \subseteq CallIds /\ c \notin R
      /\ \A d \in R : queue[d] = "reserve" /\ d[1] = c[1]
  <2> HIDE DEF q
  <2>1. ASSUME NEW d \in R PROVE d \in CallIds /\ d[1] = c[1] /\ q[d] = "reserve"
    BY <1>0, <2>1, ReservedFacts
  <2>2. \A d \in R : d # c
    BY <1>0, <2>1
  <2> HIDE DEF R
  <2> QED BY <1>0, <2>1, <2>2
<1>2. queue[c] \in Early => journal[c] = "none"
  BY DEF Inv, QueueInv
<1> HIDE DEF R, q
<1>3. CASE /\ journal' = [d \in CallIds |-> IF d = c /\ r = c THEN "ResultCached"
                                            ELSE IF d \in R THEN "Prepared"
                                            ELSE journal[d]]
           /\ queue' = [d \in CallIds |-> IF d \in R THEN "ready" ELSE q[d]]
           /\ Settle(c, r)
           /\ UNCHANGED <<outbox, canceled, unrecorded>>
  <2>1. /\ settled' \in [CallIds -> CallIds \cup {NoCall}] /\ awaiting' \subseteq CallIds
        /\ pending' \subseteq pending /\ current' = current
        /\ owned' \in BOOLEAN /\ phase' \in Phases /\ SettledInv'
        /\ phase' = phase \/ (phase = "waiting" /\ phase' = "hosted")
        /\ \A d \in CallIds \ {c} : settled'[d] = settled[d]
        /\ \A d \in CallIds \ {c} : queue[d] # "out" => d[1] \in pending'
    BY <1>3, SettleStep
  <2>2. queue'[c] = "out"
    BY <1>0, <1>1, <1>3
  <2>3. \A d \in CallIds : Rests(d) \/ (Drafts(d) /\ journal'[d] # "Checkpointed" /\ d[1] = c[1])
    <3> SUFFICES ASSUME NEW d \in CallIds
                 PROVE  Rests(d) \/ (Drafts(d) /\ journal'[d] # "Checkpointed" /\ d[1] = c[1])
      OBVIOUS
    <3>1. CASE d = c /\ r = c
      <4>1. journal'[d] = "ResultCached"
        BY <1>3, <3>1
      <4> QED BY <2>2, <3>1, <4>1 DEF Drafts, Early
    <3>2. CASE ~ (d = c /\ r = c) /\ d \in R
      <4>1. journal'[d] = "Prepared" /\ queue'[d] = "ready"
        BY <1>3, <3>2
      <4> QED BY <1>1, <3>2, <4>1 DEF Drafts, Early, Asking
    <3>3. CASE ~ (d = c /\ r = c) /\ d \notin R
      BY <1>3, <3>3 DEF Rests
    <3> QED BY <3>1, <3>2, <3>3
  <2>4. LatestStep /\ latest' \in Attempts \cup {0}
    <3>1. \A d \in CallIds : NewRow(d) => d[1] = c[1]
      BY <2>3 DEF NewRow, Rests
    <3> QED BY <1>0, <3>1, PushedFacts
  <2>5. JournalStep
    <3>1. \A d \in CallIds : RowStep(d)
      BY <2>3 DEF RowStep
    <3> QED BY <1>3, <2>4, <3>1, QuietStep
  <2>6. QueueStep
    <3>1. ASSUME NEW d \in CallIds, queue'[d] # "out"
          PROVE  /\ queue[d] # "out" /\ d[1] \in pending' /\ settled'[d] = NoCall
                 /\ queue'[d] \in Early => queue[d] \in Early
                 /\ queue'[d] \in Asking => queue[d] \in Asking
      <4>1. d # c /\ queue'[d] = IF d \in R THEN "ready" ELSE queue[d]
        BY <1>0, <1>3, <2>2, <3>1
      <4>2. queue[d] # "out"
        BY <1>1, <3>1, <4>1
      <4>3. d[1] \in pending' /\ settled'[d] = NoCall
        BY <2>1, <4>1, <4>2, QueuedFacts
      <4> QED BY <1>1, <4>1, <4>2, <4>3 DEF Early, Asking
    <3> QED BY <2>1, <3>1 DEF QueueStep
  <2>7. CheckpointInv' /\ PhaseInv'
    <3>1. CheckpointInv'
      BY <2>3 DEF Inv, RowInv, CheckpointInv, Rests
    <3> QED BY <2>1, <3>1 DEF Inv, PhaseInv, Hosted
  <2>8. TypeOK'
    <3>1. journal' \in [CallIds -> JournalStates]
      BY <1>3, JournalIsABase DEF JournalStates
    <3>2. queue' \in [CallIds -> Queued \cup {"out"}]
      BY <1>0, <1>3 DEF Queued
    <3> QED BY <1>3, <2>1, <2>4, <3>1, <3>2, TypeFacts, TypeNext DEF Inv
  <2> QED BY <2>1, <2>5, <2>6, <2>7, <2>8, StepKeeps
<1>4. ASSUME NEW state \in JournalStates \ {"Checkpointed"}, NEW S \in SUBSET CallIds,
             FailGroupFrom(With(journal, {r}, state), c, S, {}),
             r # c => state = journal[r],
             r = c /\ state = "none" => journal[c] = "none"
      PROVE  Inv'
  <2> DEFINE base == With(journal, {r}, state)
  <2>1. /\ base \in [CallIds -> JournalStates]
        /\ \A d \in CallIds : base[d] # journal[d] => d = c /\ r = c /\ base[d] = state
    BY <1>4, JournalIsABase DEF With
  <2>2. FailGroupFrom(base, c, S, {}) /\ {} \in SUBSET CallIds
    BY <1>4
  <2> HIDE DEF base
  <2>3. /\ \A d \in CallIds : journal'[d] = base[d] \/ GivesUp(d)
        /\ EndsOnly(pending \cap {c[1]})
    BY <2>1, <2>2, FailStep
  <2>4. queue'[c] = "out"
    BY <2>3 DEF EndsOnly
  <2>5. ASSUME NEW d \in CallIds, base[d] # journal[d], journal'[d] = base[d]
        PROVE  Drafts(d) /\ base[d] # "Checkpointed"
    <3>1. d = c /\ r = c /\ base[d] = state
      BY <2>1, <2>5
    <3> QED BY <1>4, <2>4, <2>5, <3>1 DEF Drafts, Early
  <2>6. LatestStep /\ latest' \in Attempts \cup {0}
    <3>1. \A d \in CallIds : NewRow(d) => d = c
      BY <2>1, <2>3 DEF NewRow, GivesUp
    <3> QED BY <1>0, <3>1, PushedFacts
  <2> QED BY <2>1, <2>2, <2>5, <2>6, FailedStep
<1>5. CASE \E state \in IF r # c THEN {journal[r]}
                        ELSE {"Prepared", "Abandoned"} \cup (IF queue[c] \in Prepared THEN {} ELSE {"none"})
                             \cup IF R # {} THEN {"ResultCached"} ELSE {} :
              FailGroupFrom(With(journal, {r}, state), c,
                            IF queue[c] \in Prepared /\ r # c THEN {c} ELSE {}, {})
  <2> DEFINE S == IF queue[c] \in Prepared /\ r # c THEN {c} ELSE {}
  <2>1. PICK state : /\ r # c => state = journal[r]
                     /\ r = c => state \in {"Prepared", "Abandoned", "none", "ResultCached"}
                     /\ r = c /\ state = "none" => queue[c] \notin Prepared
                     /\ FailGroupFrom(With(journal, {r}, state), c, S, {})
    BY <1>5
  <2>2. S \in SUBSET CallIds
    OBVIOUS
  <2>3. r = c /\ state = "none" => journal[c] = "none"
    BY <1>2, <2>1 DEF Prepared, Early
  <2> HIDE DEF S
  <2>4. CASE r = c
    <3>1. state \in JournalStates \ {"Checkpointed"}
      BY <2>1, <2>4 DEF JournalStates
    <3> QED BY <1>4, <2>1, <2>2, <2>3, <2>4, <3>1
  <2>5. CASE r # c
    <3>1. With(journal, {r}, state) = journal
      BY <2>1, <2>5, JournalIsABase DEF With
    <3>2. FailGroup(c, S, {})
      BY <2>1, <3>1 DEF FailGroup
    <3>3. LatestStep /\ latest' \in Attempts \cup {0}
      <4>1. \A d \in CallIds : ~ NewRow(d)
        BY <2>2, <3>2, FailedRows DEF NewRow, Rests, GivesUp
      <4> QED BY <1>0, <4>1, PushedFacts
    <3> QED BY <2>2, <3>2, <3>3, FailedGroup
  <2> QED BY <2>4, <2>5
<1> QED BY <1>3, <1>5 DEF LookupHit, Reserving, Rows, R, q

LEMMA LookupMissKeeps ==
    ASSUME Inv, NEW c \in CallIds, c[1] \in pending, queue[c] \in {"lookup", "identical"},
           LookupMiss(c), PushedBy(c[1]), transient' \in [Chunks -> Nat],
           \A k \in Chunks : transient[k] = 0 => transient'[k] = 0,
           UNCHANGED <<cache, imported, checkpoint, attempt, active, sent, answered, beside>>
    PROVE  Inv'
<1> DEFINE place == IF queue[c] = "identical" THEN "ready" ELSE "reserve"
           q == [queue EXCEPT ![c] = place]
           R == Reserved(q, c[1])
           S == IF queue[c] \in Prepared THEN {c} ELSE {}
<1>0. /\ queue \in [CallIds -> Queued \cup {"out"}] /\ TypeOK /\ c[1] \in Attempts
      /\ q[c] = place /\ \A d \in CallIds \ {c} : q[d] = queue[d]
      /\ place \in {"ready", "reserve"} /\ S \in SUBSET CallIds
      /\ place = "reserve" => queue[c] = "lookup"
      /\ q = [queue EXCEPT ![c] = IF @ = "identical" THEN "ready" ELSE "reserve"]
  BY TypeFacts DEF Inv
<1>1. \A d \in CallIds : q[d] \in Queued \cup {"out"}
  BY <1>0 DEF Queued
<1> HIDE DEF q, place, S
<1>2. ASSUME NEW d \in R PROVE d \in CallIds /\ d[1] = c[1] /\ queue[d] \in {"reserve", "lookup"}
  <2>0. c[1] \in Attempts
    BY <1>0
  <2>1. d \in CallIds /\ d[1] = c[1] /\ q[d] = "reserve"
    BY <1>2, <2>0, ReservedFacts
  <2> QED BY <1>0, <2>1
<1> HIDE DEF R
<1>3. CASE FailGroup(c, S, {})
  <2>1. LatestStep /\ latest' \in Attempts \cup {0}
    <3>1. \A d \in CallIds : ~ NewRow(d)
      BY <1>0, <1>3, FailedRows DEF NewRow, Rests, GivesUp
    <3> QED BY <1>0, <3>1, PushedFacts
  <2> QED BY <1>0, <1>3, <2>1, FailedGroup
<1>4. CASE /\ queue' = [d \in CallIds |-> IF d \in R THEN "ready" ELSE q[d]]
           /\ journal' = With(journal, R, "Prepared")
           /\ UNCHANGED <<outbox, pending, owned, current, canceled, awaiting, settled, phase,
                          unrecorded>>
  <2>1. \A d \in CallIds : Rests(d) \/ (Drafts(d) /\ d \in R /\ journal'[d] = "Prepared")
    <3> SUFFICES ASSUME NEW d \in CallIds
                 PROVE  Rests(d) \/ (Drafts(d) /\ d \in R /\ journal'[d] = "Prepared")
      OBVIOUS
    <3>1. CASE d \in R
      <4>1. journal'[d] = "Prepared" /\ queue'[d] = "ready"
        BY <1>4, <3>1 DEF With
      <4> QED BY <1>2, <3>1, <4>1 DEF Drafts, Early, Asking
    <3>2. CASE d \notin R
      BY <1>4, <3>2 DEF Rests, With
    <3> QED BY <3>1, <3>2
  <2>2. LatestStep /\ latest' \in Attempts \cup {0}
    <3>1. \A d \in CallIds : NewRow(d) => d[1] = c[1]
      BY <1>2, <2>1 DEF NewRow, Rests
    <3> QED BY <1>0, <3>1, PushedFacts
  <2>3. JournalStep
    <3>1. \A d \in CallIds : RowStep(d)
      BY <2>1 DEF RowStep
    <3> QED BY <1>4, <2>2, <3>1, QuietStep
  <2>4. QueueStep
    <3>1. ASSUME NEW d \in CallIds, queue'[d] # "out"
          PROVE  /\ queue[d] # "out" /\ d[1] \in pending' /\ settled'[d] = NoCall
                 /\ queue'[d] \in Early => queue[d] \in Early
                 /\ queue'[d] \in Asking => queue[d] \in Asking
      <4>1. queue'[d] = IF d \in R THEN "ready" ELSE q[d]
        BY <1>4
      <4>2. CASE d \in R
        BY <1>2, <1>4, <4>1, <4>2, QueuedFacts DEF Early, Asking
      <4>3. CASE d \notin R /\ d = c
        BY <1>0, <1>4, <4>1, <4>3, QueuedFacts DEF Early, Asking
      <4>4. CASE d \notin R /\ d # c
        BY <1>0, <1>4, <3>1, <4>1, <4>4, QueuedFacts
      <4> QED BY <4>2, <4>3, <4>4
    <3> QED BY <1>4, <3>1 DEF QueueStep
  <2>5. CheckpointInv' /\ SettledInv' /\ PhaseInv'
    <3>1. CheckpointInv'
      BY <2>1 DEF Inv, RowInv, CheckpointInv, Rests
    <3> QED BY <1>4, <3>1 DEF Inv, SettledInv, PhaseInv, Hosted, CallsOf
  <2>6. TypeOK'
    <3>1. journal' \in [CallIds -> JournalStates]
      BY <1>4, JournalIsABase DEF JournalStates, With
    <3>2. queue' \in [CallIds -> Queued \cup {"out"}]
      BY <1>1, <1>4 DEF Queued
    <3> QED BY <1>4, <2>2, <3>1, <3>2, TypeFacts, TypeNext DEF Inv
  <2> QED BY <2>3, <2>4, <2>5, <2>6, StepKeeps
<1> QED
  <2>1. \/ FailGroup(c, S, {})
        \/ /\ queue' = Reserving(q, c[1])
           /\ journal' = Rows(Reserved(q, c[1]), "Prepared")
           /\ UNCHANGED <<outbox, pending, owned, current, canceled, awaiting, settled, phase,
                          unrecorded>>
    BY <1>0 DEF LookupMiss, S
  <2> QED BY <1>3, <1>4, <2>1 DEF Reserving, Rows, R

LEMMA LookupKeeps ==
    ASSUME Inv, NEW c \in CallIds, Lookup(c)
    PROVE  Inv'
<1> DEFINE k == ChunkOf(c)
           S == IF queue[c] \in Prepared THEN {c} ELSE {}
<1>0. /\ c[1] \in pending /\ queue[c] \in {"recover", "lookup", "identical"}
      /\ PushedBy(c[1]) /\ TypeOK
      /\ UNCHANGED <<cache, imported, checkpoint, attempt, active, sent, answered, beside>>
  BY DEF Lookup, Inv
<1>1. k \in Chunks /\ transient \in [Chunks -> Nat] /\ S \in SUBSET CallIds
  BY CallIdFacts, TypeFacts DEF Inv
<1>2. /\ transient' \in [Chunks -> Nat]
      /\ \A j \in Chunks : transient[j] = 0 => transient'[j] = 0
  <2>1. transient' = IF transient[k] = 0 THEN transient ELSE [transient EXCEPT ![k] = @ - 1]
    BY DEF Lookup
  <2> HIDE DEF k
  <2>2. transient[k] # 0 => transient[k] - 1 \in Nat
    BY <1>1
  <2> QED BY <1>1, <2>1, <2>2
<1>3. CASE transient[k] # 0 /\ LookupHit(c, c)
  <2>1. beside # {}
    BY <1>1, <1>3 DEF Inv, PendingInv
  <2> HIDE DEF k
  <2> QED BY <1>0, <1>2, <1>3, <2>1, LookupHitKeeps
<1>4. CASE LookupFinalRecovery(k) = "hit" /\ LookupHit(c, <<latest, k>>)
  <2>1. latest # 0 /\ Attached(<<latest, k>>)
    BY <1>4 DEF LookupFinalRecovery
  <2>2. <<latest, k>> \in CallIds /\ ChunkOf(<<latest, k>>) = ChunkOf(c)
    <3>1. latest \in Attempts
      BY <1>0, <2>1, TypeFacts
    <3> QED BY <1>1, <3>1, CallIdFacts DEF ChunkOf
  <2>3. <<latest, k>> = c => queue[c] \in Asking
    <3>1. <<latest, k>> = c => journal[c] # "none"
      BY <2>1 DEF Attached
    <3>2. queue[c] \in Early => journal[c] = "none"
      BY <1>0 DEF Inv, QueueInv
    <3> HIDE DEF k
    <3> QED BY <1>0, <3>1, <3>2 DEF Early, Asking
  <2> HIDE DEF k
  <2> QED BY <1>0, <1>2, <1>4, <2>2, <2>3, LookupHitKeeps
<1>5. CASE FailGroup(c, S, {})
  <2> HIDE DEF S
  <2>1. LatestStep /\ latest' \in Attempts \cup {0}
    <3>1. \A d \in CallIds : ~ NewRow(d)
      BY <1>1, <1>5, FailedRows DEF NewRow, Rests, GivesUp
    <3> QED BY <1>0, <3>1, PushedFacts
  <2> QED BY <1>0, <1>1, <1>2, <1>5, <2>1, FailedGroup
<1>6. CASE queue[c] # "recover" /\ LookupHit(c, c)
  <2>1. queue[c] \in Asking
    BY <1>0, <1>6 DEF Asking
  <2> QED BY <1>0, <1>2, <1>6, <2>1, LookupHitKeeps
<1>7. CASE queue[c] # "recover" /\ LookupMiss(c)
  BY <1>0, <1>2, <1>7, LookupMissKeeps
<1> QED BY <1>3, <1>4, <1>5, <1>6, <1>7 DEF Lookup

-----------------------------------------------------------------------------
(* The theorems                                                             *)

LEMMA InitInv == Init => Inv
<1> SUFFICES ASSUME Init PROVE Inv
  OBVIOUS
<1>1. TypeOK
  <2>1. [c \in CallIds |-> "none"] \in [CallIds -> JournalStates]
    BY DEF JournalStates
  <2>2. [text |-> "none", calls |-> {}] \in Checkpoints
    BY DEF Checkpoints
  <2> QED BY <2>1, <2>2, NoQueueType, TypeFacts DEF Init, Phases
<1>2. QueueInv /\ PendingInv
  BY NoQueueType, FinalJournalAssumption DEF Init, QueueInv, PendingInv
<1>3. RowInv /\ SendInv /\ PaidInv
  BY DEF Init, RowInv, SentInv, FreshInv, CheckpointInv, LatestInv, OrderInv, SendInv, AskInv, PairInv,
         ActiveInv, PaidInv, PaidIsAccounted
<1>4. SettledInv /\ PhaseInv
  BY NoQueueType DEF Init, SettledInv, PhaseInv, Hosted
<1> QED BY <1>1, <1>2, <1>3, <1>4 DEF Inv

LEMMA NextInv == Inv /\ [Next]_vars => Inv'
<1> SUFFICES ASSUME Inv, [Next]_vars PROVE Inv'
  OBVIOUS
<1>1. CASE Next
  <2>1. CASE StartFinal
    BY <2>1, StartFinalKeeps
  <2>2. CASE SkipFinal \/ GiveUp \/ ImportOutbox
    BY <2>2, IdleStepsKeep
  <2>3. CASE \E c \in CallIds : Lookup(c) \/ WaitIdentical(c) \/ Send(c) \/ DropQueued(c)
    BY <2>3, LookupKeeps, WaitIdenticalKeeps, SendKeeps, DropQueuedKeeps
  <2>4. CASE \E c \in CallIds : ExpireActive(c) \/ \E ok \in BOOLEAN : Complete(c, ok)
    BY <2>4, ExpireActiveKeeps, CompleteKeeps
  <2>5. CASE (\E a \in Attempts : ExpireGroup(a)) \/ ChangeControls \/ NewSession
    BY <2>5, ExpireGroupKeeps, ChangeControlsKeeps, NewSessionKeeps
  <2>6. CASE MarkApplied \/ StoreCheckpoint \/ Acknowledge \/ Crash
    BY <2>6, MarkAppliedKeeps, StoreCheckpointKeeps, AcknowledgeKeeps, CrashKeeps
  <2> QED BY <1>1, <2>1, <2>2, <2>3, <2>4, <2>5, <2>6 DEF Next
<1>2. CASE UNCHANGED vars
  <2>1. /\ UNCHANGED journal /\ UNCHANGED latest /\ UNCHANGED cache /\ UNCHANGED outbox
        /\ UNCHANGED imported /\ UNCHANGED checkpoint /\ UNCHANGED attempt /\ UNCHANGED owned
        /\ UNCHANGED pending /\ UNCHANGED current /\ UNCHANGED queue /\ UNCHANGED settled
        /\ UNCHANGED transient /\ UNCHANGED active /\ UNCHANGED canceled /\ UNCHANGED awaiting
        /\ UNCHANGED phase /\ UNCHANGED sent /\ UNCHANGED answered /\ UNCHANGED unrecorded
        /\ UNCHANGED beside
    BY <1>2 DEF vars, durable, service, groups, calls, history
  <2>2. PhaseInv' /\ \A c \in CallIds : Rests(c)
    BY <2>1 DEF Inv, PhaseInv, Hosted, Rests
  <2> QED BY <2>1, <2>2, RowsOnlyStep, TypeFacts DEF Inv
<1> QED BY <1>1, <1>2

\* The inductive invariant holds in every reachable state: of the journal's rows and
\* what was sent, of the queues of the pending groups, and of the accounts.
THEOREM FinalJournalInvariant == Spec => []Inv
  BY InitInv, NextInv, PTL DEF Spec

\* The variables keep their types, whatever the number of chunks and of attempts.
THEOREM FinalJournalTypeOK == Spec => []TypeOK
<1>1. Inv => TypeOK
  BY DEF Inv
<1> QED BY <1>1, FinalJournalInvariant, PTL

\* recover_final never lets an attempt before which no group was joined by another buy
\* a chunk again while an earlier request for it is ambiguous or holds a result: the
\* earlier row was given up on record, through crashes, failed writes and late answers,
\* and a request never runs twice at a time.
THEOREM FinalJournalAmbiguousIsNotRepeated == Spec => []AmbiguousIsNotRepeated
<1>1. Inv => AmbiguousIsNotRepeated
  BY DEF Inv, SendInv, PairInv, ActiveInv, AmbiguousIsNotRepeated
<1> QED BY <1>1, FinalJournalInvariant, PTL

\* abandon_final hands the terminal to the outbox before it clears the row, and
\* mark_final_group_checkpointed does so before it files the rows: the accounting of
\* an answered call is in the row, the outbox or queue.db, unless the outbox itself
\* refused it when the call ended.
THEOREM FinalJournalPaidIsAccounted == Spec => []PaidIsAccounted
<1>1. Inv => PaidIsAccounted
  BY DEF Inv, PaidInv
<1> QED BY <1>1, FinalJournalInvariant, PTL

\* What a failing group, and a result, do to the phase.
LEMMA FailPhase ==
    ASSUME NEW base, NEW c, NEW S, NEW over, FailGroupFrom(base, c, S, over)
    PROVE  phase' = phase \/ phase' = "raw"
  BY DEF FailGroupFrom, Reply

LEMMA SettlePhase ==
    ASSUME NEW c, NEW r, Settle(c, r)
    PROVE  phase' = phase \/ phase' = "hosted"
  BY DEF Settle, Reply

\* mark_final_group_applied: the pipeline goes on with hosted text only when every
\* chunk has a result and the rows of all of them are applied in that same step.
THEOREM FinalJournalAppliedAsAWhole == Spec => AppliedAsAWhole
<1> DEFINE Whole == phase # "applied" /\ phase' = "applied" =>
                       \A c \in CallsOf(attempt) : /\ ChunkOf(settled[c]) = ChunkOf(c)
                                                   /\ journal'[settled[c]] = "Applied"
<1>1. Inv /\ [Next]_vars => [Whole]_vars
  <2> SUFFICES ASSUME Inv, Next, phase # "applied", phase' = "applied", NEW c \in CallsOf(attempt)
               PROVE  ChunkOf(settled[c]) = ChunkOf(c) /\ journal'[settled[c]] = "Applied"
    BY DEF vars
  <2>1. MarkApplied
    <3>1. \A base, d, S, over : ~ FailGroupFrom(base, d, S, over)
      BY FailPhase
    <3>2. \A d, r : ~ Settle(d, r)
      BY SettlePhase
    <3>3. ~ (StartFinal \/ SkipFinal \/ GiveUp \/ ChangeControls \/ NewSession \/ StoreCheckpoint
             \/ Acknowledge \/ Crash \/ ImportOutbox)
      BY DEF StartFinal, SkipFinal, GiveUp, ChangeControls, NewSession, StoreCheckpoint,
             Acknowledge, Crash, ImportOutbox, AbandonResult
    <3>4. \A a \in Attempts : ~ ExpireGroup(a)
      BY <3>1 DEF ExpireGroup, FailGroup
    <3>5. \A d \in CallIds : ~ WaitIdentical(d) /\ ~ Send(d) /\ ~ DropQueued(d)
      BY <3>1 DEF WaitIdentical, Send, DropQueued, FailGroup
    <3>6. ASSUME NEW d \in CallIds, Lookup(d) PROVE FALSE
      <4>1. (\E S : FailGroup(d, S, {})) \/ (\E r : LookupHit(d, r)) \/ LookupMiss(d)
        BY <3>6 DEF Lookup
      <4> QED BY <3>1, <3>2, <4>1 DEF FailGroup, LookupHit, LookupMiss
    <3>7. \A d \in CallIds : ~ ExpireActive(d) /\ \A ok \in BOOLEAN : ~ Complete(d, ok)
      BY <3>1, <3>2 DEF ExpireActive, Complete, FailGroup
    <3> QED BY <3>3, <3>4, <3>5, <3>6, <3>7 DEF Next
  <2>2. /\ settled[c] \in CallIds /\ ChunkOf(settled[c]) = ChunkOf(c) /\ settled[c] \in Results
    <3>1. attempt \in Attempts /\ settled[c] # NoCall /\ c \in CallIds
      BY <2>1, CallIdFacts DEF Inv, SettledInv, Hosted, MarkApplied
    <3> QED BY <3>1, TypeFacts DEF Inv, SettledInv, Results
  <2>3. journal' = With(journal, Results, "Applied")
    BY <2>1 DEF MarkApplied, AbandonResult, Rows
  <2> QED BY <2>2, <2>3 DEF With
<1> QED BY <1>1, FinalJournalInvariant, PTL DEF Spec, AppliedAsAWhole
=============================================================================
