---------------------------- MODULE FinalJournal ----------------------------
(***************************************************************************)
(* The paid final pass over one recording: the encrypted journal and the    *)
(* telemetry outbox (RuntimeStore and TelemetryOutbox of                    *)
(* app/src/postprocess_app.rs), the service and coordinator that drive a    *)
(* group of chunks through them, and the pipeline thread that files the     *)
(* result (app/src/pipeline.rs).                                            *)
(*                                                                          *)
(* An attempt submits one call per chunk as a group.  A retry of the         *)
(* recording whose group is still pending adds a second group beside it: the *)
(* service keeps the pending groups apart, the coordinator does not.  Every *)
(* durable write may fail, and a crash inside a handler is that handler with *)
(* its remaining writes failing, followed by Crash.  Scheduling, credentials *)
(* and capacity are in Coordinator; terminals of calls that were never sent  *)
(* are left out.  A Finalize handled after its caller gave up is one handled *)
(* just before: the caller's next steps touch nothing of the service's.      *)
(***************************************************************************)
EXTENDS Integers, FiniteSets

CONSTANTS
    Chunks,        \* the chunks of the recording's transcript
    First,         \* the chunk that is submitted first
    MaxAttempts,   \* bound on the runs of the final pass
    Faults         \* the writes that may fail: "store", "outbox", "checkpoint"

ASSUME FinalJournalAssumption ==
    First \in Chunks /\ IsFiniteSet(Chunks) /\ MaxAttempts \in Nat

Attempts == 1 .. MaxAttempts
CallIds == Attempts \X Chunks
ChunkOf(c) == c[2]
NoCall == <<0, First>>

VARIABLES
    \* durable
    journal,     \* call -> state of its journal row
    latest,      \* the attempt of the last journal row that was written first, or 0
    cache,       \* chunks whose result has been in the reusable cache
    outbox,      \* calls with a terminal in the outbox
    imported,    \* calls with a row in queue.db
    checkpoint,  \* the filing checkpoint: its text, and the calls it names
    \* the hosted service
    attempt,     \* attempts submitted so far; the pipeline asks for the last one
    owned,       \* the hosted session is this recording's
    pending,     \* attempts whose group the service waits for
    current,     \* attempts whose group, or the text it gave, nothing has overtaken
    queue,       \* call -> its place in the queue
    transient,   \* chunk -> waiters that a fresh result is still kept for
    active,      \* calls with a worker
    canceled,    \* calls whose token is cancelled
    awaiting,    \* calls with a committed result that waits to be applied
    settled,     \* call -> the call whose result its group has for the chunk
    \* the pipeline thread
    phase,
    \* history
    sent,        \* calls handed to a transport
    answered,    \* calls a provider answered
    unrecorded,  \* calls whose terminal the outbox refused at the end of the call
    beside       \* attempts submitted beside a pending group

durable == <<journal, latest, cache, outbox, imported, checkpoint>>
groups == <<pending, current, queue, settled>>
calls == <<transient, active, canceled, awaiting>>
service == <<attempt, owned, groups, calls>>
history == <<sent, answered, unrecorded, beside>>
vars == <<durable, service, phase, history>>

JournalStates == {"none", "Prepared", "Dispatched", "ResultCached", "Applied", "Checkpointed",
                  "Abandoned"}
\* A call that must take its result from the journal looks for it in "recover".
Queued == {"recover", "lookup", "reserve", "ready", "identical"}
Prepared == {"ready", "identical"}    \* stages in which a call has its row

CallsOf(a) == {a} \X Chunks
Attached(c) == journal[c] \in {"ResultCached", "Applied"}   \* output and terminal in the row
Ok(kind) == IF kind \in Faults THEN BOOLEAN ELSE {TRUE}
Written(kind, S) == IF kind \in Faults THEN SUBSET S ELSE {S}

-----------------------------------------------------------------------------
(* The journal                                                             *)

StatesOf(a) == {journal[<<a, k>>] : k \in Chunks} \ {"none"}

\* The most urgent state of the latest group's rows.
Decides(order) ==
    IF latest = 0 THEN "none"
    ELSE order[CHOOSE i \in 1 .. 6 : /\ order[i] \in StatesOf(latest)
                                     /\ \A j \in 1 .. i - 1 : order[j] \notin StatesOf(latest)]

\* Mutant: a row that was not sent yet is looked at first.
PreparedFirst ==
    Decides(<<"Prepared", "Dispatched", "Applied", "ResultCached", "Abandoned", "Checkpointed">>)

\* The worst state of the latest group decides.
RecoverFinal ==
    Decides(<<"Dispatched", "Applied", "ResultCached", "Prepared", "Abandoned", "Checkpointed">>)

LookupFinalRecovery(k) ==
    IF latest = 0 \/ StatesOf(latest) \cap {"ResultCached", "Applied"} = {} THEN "none"
    ELSE IF Attached(<<latest, k>>) THEN "hit" ELSE "mismatch"

\* A row that was not there is pushed behind all others.
PushedBy(a) ==
    latest' = IF \E c \in CallsOf(a) : journal[c] = "none" /\ journal'[c] # "none" THEN a ELSE latest

\* Mutant: the row is cleared whether or not its terminal reached the outbox.
AbandonClearsFirst(S) ==
    {[rows |-> rows, terminals |-> terminals] :
        rows \in Written("store", {c \in S : journal[c] \notin {"none", "Checkpointed"}}),
        terminals \in Written("outbox", {c \in S : Attached(c)} \cap sent)}

\* What abandon_final can do to each call of S: the terminal of a row goes to the
\* outbox first, and only then is the row given up.
AbandonFinal(S) ==
    {[rows |-> rows, terminals |-> terminals] :
        rows \in Written("store", {c \in S : journal[c] \notin {"none", "Checkpointed"}}),
        terminals \in Written("outbox", {c \in S : Attached(c)} \cap sent)}
    \ {r \in [rows : SUBSET S, terminals : SUBSET S] :
          \E c \in r.rows \cap sent : Attached(c) /\ c \notin r.terminals}

With(base, S, state) == [c \in CallIds |-> IF c \in S THEN state ELSE base[c]]
Rows(S, state) == With(journal, S, state)

Publish(terminals) == outbox' = outbox \cup terminals

-----------------------------------------------------------------------------
(* Groups                                                                  *)

NoQueue == [c \in CallIds |-> "out"]
NoneSettled == [c \in CallIds |-> NoCall]
Idle(a) == [c \in CallIds |-> IF c[1] = a THEN "out" ELSE queue[c]]
Unsettled(a) == [c \in CallIds |-> IF c[1] = a THEN NoCall ELSE settled[c]]

\* The reply of a group reaches the pipeline while that still waits for it.
Reply(a, next) == phase' = IF a = attempt /\ phase = "waiting" THEN next ELSE phase

\* The calls fail_final_call cancels when one call ends its group: its peers, and
\* results taken over from an earlier attempt.
CanceledPeers(failed) ==
    LET peers == CallsOf(failed[1]) \ {failed}
        settling == {c \in CallsOf(failed[1]) : settled[c] # NoCall}
    IN {c \in peers : queue[c] \in Prepared \/ c \in active}
       \cup ({settled[c] : c \in settling} \ {failed})

\* A group fails with one of its calls, and gives the batch session back.  `base` is
\* the journal the handler left, S the calls it abandons itself, and `ended` those
\* whose terminal it records.
FailGroupFrom(base, failed, S, ended) ==
    LET a == failed[1]
        peers == IF a \in pending THEN CanceledPeers(failed) ELSE {}
    IN \E r \in AbandonFinal(S \cup peers), recorded \in Written("outbox", ended) :
          /\ journal' = With(base, r.rows, "Abandoned")
          /\ Publish(r.terminals \cup recorded)
          /\ unrecorded' = unrecorded \cup (ended \ recorded)
          /\ canceled' = (canceled \cup ((S \cup peers) \cap active)) \ ended
          /\ awaiting' = awaiting \ peers
          /\ IF a \in pending
             THEN /\ pending' = pending \ {a} /\ owned' = FALSE /\ current' = current \ {a}
                  /\ queue' = Idle(a) /\ settled' = Unsettled(a)
                  /\ Reply(a, "raw")
             ELSE UNCHANGED <<pending, owned, current, queue, settled, phase>>

FailGroup(failed, S, ended) == FailGroupFrom(journal, failed, S, ended)

\* A call has its result, in the row of r.  Once all of the group have, its text goes
\* to the pipeline and the batch session is given back.
Settle(c, r) ==
    /\ settled' = [settled EXCEPT ![c] = r]
    /\ awaiting' = awaiting \cup {r}
    /\ IF \A d \in CallsOf(c[1]) \ {c} : settled[d] # NoCall
       THEN pending' = pending \ {c[1]} /\ owned' = FALSE /\ Reply(c[1], "hosted")
       ELSE UNCHANGED <<pending, owned, phase>>
    /\ UNCHANGED current

\* What begin_session does to everything in flight.
InFlight == active \cup awaiting \cup {c \in CallIds : queue[c] \in Prepared}

BeginSession ==
    \E r \in AbandonFinal(InFlight) :
       /\ journal' = Rows(r.rows, "Abandoned")
       /\ Publish(r.terminals)
       /\ canceled' = canceled \cup active
       /\ awaiting' = {}

-----------------------------------------------------------------------------
(* One attempt                                                             *)

\* Finalize arrives.  A session that this recording still has is kept, with the
\* groups that are pending in it; otherwise one is begun (while another recording has
\* it, the attempt is skipped).  The journal decides whether the provider may be
\* asked; whatever else is in the way has the same end.
StartFinal ==
    LET a == attempt + 1
        kept == IF owned THEN pending ELSE {}
    IN /\ phase = "idle" /\ checkpoint.text = "none"
       /\ attempt < MaxAttempts
       /\ attempt' = a /\ UNCHANGED latest
       /\ IF owned THEN UNCHANGED <<journal, outbox, canceled, awaiting>>
                   ELSE BeginSession
       /\ \/ /\ RecoverFinal' \notin {"Dispatched", "Abandoned"}
             /\ phase' = "waiting" /\ owned' = TRUE
             /\ pending' = kept \cup {a}
             /\ current' = (current \cap kept) \cup {a}
             /\ LET stage == IF RecoverFinal' \in {"ResultCached", "Applied"} THEN "recover"
                                                                            ELSE "lookup"
                IN queue' = [c \in CallIds |-> IF c[1] = a THEN stage
                                               ELSE IF c[1] \in kept THEN queue[c] ELSE "out"]
             /\ beside' = IF kept = {} THEN beside ELSE beside \cup {a}
          \/ /\ phase' = "raw" /\ owned' = FALSE
             /\ pending' = kept /\ current' = current \cap kept
             /\ queue' = [c \in CallIds |-> IF c[1] \in kept THEN queue[c] ELSE "out"]
             /\ UNCHANGED beside
       /\ settled' = [c \in CallIds |-> IF c[1] \in kept THEN settled[c] ELSE NoCall]
       /\ UNCHANGED <<cache, imported, checkpoint, transient, active, sent, answered, unrecorded>>

\* The lane is off, a capture has the session, or there is nothing to rewrite.
SkipFinal ==
    /\ phase = "idle" /\ checkpoint.text = "none"
    /\ phase' = "raw"
    /\ UNCHANGED <<durable, service, history>>

\* The waiting chunks are reserved together once no other chunk is queued.
Reserved(q, a) ==
    IF \A c \in CallsOf(a) : q[c] \in {"reserve", "out"}
    THEN {c \in CallsOf(a) : q[c] = "reserve"} ELSE {}

Reserving(q, a) == [c \in CallIds |-> IF c \in Reserved(q, a) THEN "ready" ELSE q[c]]

\* A recovered result keeps its journal row.  A cached one, or one an identical call
\* left, gets the call's own row: it is prepared, unless it was, committed, and given
\* up again when a later write fails.
LookupHit(c, r) ==
    LET q == [queue EXCEPT ![c] = "out"]
        reserved == Reserved(q, c[1])
        prepared == queue[c] \in Prepared
        left == IF r # c THEN {journal[r]}
                ELSE {"Prepared", "Abandoned"} \cup (IF prepared THEN {} ELSE {"none"})
                     \cup IF reserved # {} THEN {"ResultCached"} ELSE {}
    IN \E ok \in Ok("store") :
          IF ok
          THEN /\ journal' = [d \in CallIds |-> IF d = c /\ r = c THEN "ResultCached"
                                                ELSE IF d \in reserved THEN "Prepared"
                                                ELSE journal[d]]
               /\ queue' = Reserving(q, c[1])
               /\ Settle(c, r)
               /\ UNCHANGED <<outbox, canceled, unrecorded>>
          ELSE \E state \in left :
                  FailGroupFrom(Rows({r}, state), c,
                                IF prepared /\ r # c THEN {c} ELSE {}, {})

\* No result is there: the call waits for the reservation of its group, unless it
\* was reserved and waited for an identical call since.
LookupMiss(c) ==
    LET q == [queue EXCEPT ![c] = IF @ = "identical" THEN "ready" ELSE "reserve"]
    IN \E ok \in Ok("store") :
          IF ok
          THEN /\ queue' = Reserving(q, c[1])
               /\ journal' = Rows(Reserved(q, c[1]), "Prepared")
               /\ UNCHANGED <<outbox, pending, owned, current, canceled, awaiting, settled, phase,
                              unrecorded>>
          ELSE FailGroup(c, IF queue[c] \in Prepared THEN {c} ELSE {}, {})

Identical(c) == {d \in active : ChunkOf(d) = ChunkOf(c)}

\* What the reusable cache has had may have been purged, expired or evicted since.
Lookup(c) ==
    /\ c[1] \in pending
    /\ queue[c] \in {"recover", "lookup"} \/ (queue[c] = "identical" /\ Identical(c) = {})
    /\ LET k == ChunkOf(c)
           found == LookupFinalRecovery(k)
           left == transient[k] = 0
           asks == left /\ found = "none" /\ queue[c] # "recover"
       IN /\ transient' = IF left THEN transient ELSE [transient EXCEPT ![k] = @ - 1]
          /\ \/ ~ left /\ LookupHit(c, c)
             \/ left /\ found = "hit" /\ LookupHit(c, <<latest, k>>)
             \/ /\ left
                /\ found = "mismatch" \/ (found = "none" /\ queue[c] = "recover")
                /\ FailGroup(c, IF queue[c] \in Prepared THEN {c} ELSE {}, {})
             \/ asks /\ k \in cache /\ LookupHit(c, c)
             \/ asks /\ LookupMiss(c)
    /\ PushedBy(c[1])
    /\ UNCHANGED <<cache, imported, checkpoint, attempt, active, sent, answered, beside>>

\* A call whose request is already running waits for it.
WaitIdentical(c) ==
    /\ c[1] \in pending /\ queue[c] = "ready" /\ Identical(c) # {}
    /\ queue' = [queue EXCEPT ![c] = "identical"]
    /\ UNCHANGED <<durable, attempt, owned, pending, current, settled, calls, phase, history>>

\* The row says Dispatched before a transport has the request.
Send(c) ==
    /\ c[1] \in pending /\ queue[c] = "ready" /\ Identical(c) = {}
    /\ \E ok \in Ok("store") :
          IF ok /\ journal[c] = "Prepared"
          THEN /\ journal' = Rows({c}, "Dispatched")
               /\ queue' = [queue EXCEPT ![c] = "out"]
               /\ active' = active \cup {c}
               /\ sent' = sent \cup {c}
               /\ UNCHANGED <<outbox, pending, owned, current, canceled, awaiting, settled, phase,
                              unrecorded>>
          ELSE FailGroup(c, {c}, {}) /\ UNCHANGED <<active, sent>>
    /\ UNCHANGED <<latest, cache, imported, checkpoint, attempt, transient, answered, beside>>

\* The deadline of the group is the deadline of its calls.
IsStale(c) == c \in canceled \/ c[1] \notin current \/ c[1] \notin pending

\* A worker answers.  A result is kept for those who wait for the same request; a
\* stale answer and an error only leave their terminal.
Complete(c, ok) ==
    /\ c \in active
    /\ active' = active \ {c}
    /\ answered' = answered \cup {c}
    /\ \/ /\ ok /\ ~ IsStale(c)
          /\ journal' = Rows({c}, "ResultCached")
          /\ cache' = cache \cup {ChunkOf(c)}
          /\ LET waiters == {d \in CallIds : queue[d] = "identical" /\ ChunkOf(d) = ChunkOf(c)}
             IN transient' = IF waiters = {} THEN transient
                             ELSE [transient EXCEPT ![ChunkOf(c)] = Cardinality(waiters)]
          /\ Settle(c, c)
          /\ UNCHANGED <<outbox, queue, canceled, unrecorded>>
       \/ /\ ~ ok \/ IsStale(c) \/ "store" \in Faults    \* or the commit fails
          /\ FailGroup(c, {c}, {c})
          /\ UNCHANGED <<cache, transient>>
    /\ UNCHANGED <<latest, imported, checkpoint, attempt, sent, beside>>

\* The deadline of a running call: its token is cancelled, its row given up.
ExpireActive(c) ==
    /\ c \in active \ canceled
    /\ canceled' = canceled \cup {c}
    /\ \E r \in AbandonFinal({c}) : journal' = Rows(r.rows, "Abandoned")
    /\ UNCHANGED <<latest, cache, outbox, imported, checkpoint, attempt, owned, groups, transient,
                   active, awaiting, phase, history>>

\* The deadline of a queued call, a failing credential, a cancelled provider.
DropQueued(c) ==
    /\ c[1] \in pending /\ queue[c] \in Queued
    /\ FailGroup(c, {c}, {})
    /\ UNCHANGED <<latest, cache, imported, checkpoint, attempt, transient, active, sent, answered,
                   beside>>

\* The group's own deadline.  The first call stands for the group: it expires if it
\* is queued or running, and keeps a result that it already has.
ExpireGroup(a) ==
    /\ a \in pending
    /\ FailGroup(<<a, First>>, {<<a, First>>} \ awaiting, {})
    /\ UNCHANGED <<latest, cache, imported, checkpoint, attempt, transient, active, sent, answered,
                   beside>>

\* The lane is switched off or its settings change: calls in flight are cancelled, a
\* group that had calls in the queue fails, results that wait are refused later.
ChangeControls ==
    /\ current # {}
    /\ current' = {}
    /\ LET failing == {a \in pending : \E c \in CallsOf(a) : queue[c] \in Queued}
           taken == {settled[c] : c \in {c \in failing \X Chunks : settled[c] # NoCall}}
           all == active \cup {c \in CallIds : queue[c] \in Prepared} \cup taken
       IN \E r \in AbandonFinal(all) :
             /\ journal' = Rows(r.rows, "Abandoned")
             /\ Publish(r.terminals)
             /\ canceled' = canceled \cup active
             /\ awaiting' = awaiting \ all
             /\ pending' = pending \ failing
             /\ queue' = [c \in CallIds |-> IF c[1] \in failing THEN "out" ELSE queue[c]]
             /\ settled' = [c \in CallIds |-> IF c[1] \in failing THEN NoCall ELSE settled[c]]
             /\ owned' = (owned /\ failing = {})
             /\ phase' = IF phase = "waiting" /\ attempt \in failing THEN "raw" ELSE phase
    /\ UNCHANGED <<latest, cache, imported, checkpoint, attempt, transient, active, history>>

\* Another recording begins a hosted session, or ends the one it has.
NewSession ==
    /\ BeginSession
    /\ owned' = FALSE
    /\ current' = {} /\ pending' = {} /\ queue' = NoQueue
    /\ settled' = [c \in CallIds |-> IF c[1] \in pending THEN NoCall ELSE settled[c]]
    /\ phase' = IF phase = "waiting" THEN "raw" ELSE phase
    /\ UNCHANGED <<latest, cache, imported, checkpoint, attempt, transient, active, history>>

-----------------------------------------------------------------------------
(* The pipeline thread                                                     *)

Results == {settled[c] : c \in CallsOf(attempt)}

\* The store's transactions take the rows of one group only.
OneGroup(S) == \A c, d \in S : c[1] = d[1]

\* The wait of finalize times out before the service replies.
GiveUp ==
    /\ phase = "waiting"
    /\ phase' = "raw"
    /\ UNCHANGED <<durable, service, history>>

\* abandon_final_result.
AbandonResult(next) ==
    \E r \in AbandonFinal(Results \cap awaiting) :
       /\ journal' = Rows(r.rows, "Abandoned")
       /\ Publish(r.terminals)
       /\ awaiting' = awaiting \ Results
       /\ phase' = next

\* Mutant: rows are marked one by one, as far as they are still there.
AppliesWhatIsReady ==
    /\ phase = "hosted"
    /\ journal' = Rows({c \in Results : journal[c] = "ResultCached"}, "Applied")
    /\ phase' = "applied"
    /\ UNCHANGED <<latest, cache, outbox, imported, checkpoint, service, history>>

\* The whole group is marked applied in one transaction, or the text is refused.
MarkApplied ==
    /\ phase = "hosted"
    /\ LET allowed == Results \subseteq awaiting /\ attempt \in current /\ OneGroup(Results)
           already == \A c \in Results : journal[c] = "Applied"
           ready == \A c \in Results : journal[c] = "ResultCached"
       IN \/ /\ allowed /\ (already \/ ready)
             /\ journal' = Rows(Results, "Applied")
             /\ phase' = "applied"
             /\ UNCHANGED <<outbox, awaiting>>
          \/ /\ allowed => ~ already /\ (ready => "store" \in Faults)
             /\ AbandonResult("raw")
    /\ UNCHANGED <<latest, cache, imported, checkpoint, attempt, owned, groups, transient, active,
                   canceled, history>>

StoreCheckpoint ==
    /\ phase \in {"applied", "raw"}
    /\ \E ok \in Ok("checkpoint") :
          IF ok
          THEN /\ checkpoint' = IF phase = "applied" THEN [text |-> "hosted", calls |-> Results]
                                                     ELSE [text |-> "raw", calls |-> {}]
               /\ phase' = IF phase = "applied" THEN "stored" ELSE "filed"
               /\ UNCHANGED <<journal, outbox, awaiting>>
          ELSE /\ IF phase = "applied" THEN AbandonResult("idle")
                  ELSE phase' = "idle" /\ UNCHANGED <<journal, outbox, awaiting>>
               /\ UNCHANGED checkpoint
    /\ UNCHANGED <<latest, cache, imported, attempt, owned, groups, transient, active, canceled,
                   history>>

\* mark_final_group_checkpointed, from the attempt itself or from a replay of the
\* checkpoint: terminals first, then the rows.  A failure is retried by the job.
Acknowledge ==
    LET called == checkpoint.calls
        known == /\ OneGroup(called)
                 /\ \/ called \subseteq awaiting
                    \/ \A c \in called : journal[c] \in {"Applied", "Checkpointed"}
        acknowledged == \A c \in called : journal[c] = "Checkpointed"
        applied == \A c \in called : journal[c] = "Applied"
    IN /\ phase = "stored" \/ (phase = "idle" /\ checkpoint.text = "hosted")
       /\ \/ /\ known /\ (acknowledged \/ applied)
             /\ journal' = Rows(called, "Checkpointed")
             /\ Publish(IF applied THEN called \cap sent ELSE {})
             /\ awaiting' = awaiting \ called
             /\ phase' = "filed"
          \/ /\ known => ~ acknowledged /\ (applied => Faults \cap {"store", "outbox"} # {})
             /\ \E terminals \in IF known /\ applied THEN Written("outbox", called \cap sent)
                                                     ELSE {{}} : Publish(terminals)
             /\ phase' = "idle"
             /\ UNCHANGED <<journal, awaiting>>
       /\ UNCHANGED <<latest, cache, imported, checkpoint, attempt, owned, groups, transient,
                      active, canceled, history>>

\* The pipeline imports the outbox, then acknowledges what it imported.
ImportOutbox ==
    /\ outbox # {}
    /\ imported' = imported \cup outbox
    /\ outbox' \in IF "outbox" \in Faults THEN {{}, outbox} ELSE {{}}
    /\ UNCHANGED <<journal, latest, cache, checkpoint, service, phase, history>>

Crash ==
    /\ owned' = FALSE /\ pending' = {} /\ current' = {}
    /\ queue' = NoQueue /\ settled' = NoneSettled
    /\ transient' = [k \in Chunks |-> 0] /\ active' = {} /\ canceled' = {} /\ awaiting' = {}
    /\ phase' = IF phase = "filed" THEN "filed" ELSE "idle"
    /\ UNCHANGED <<durable, attempt, history>>

-----------------------------------------------------------------------------
Init ==
    /\ journal = [c \in CallIds |-> "none"]
    /\ latest = 0
    /\ cache = {} /\ outbox = {} /\ imported = {}
    /\ checkpoint = [text |-> "none", calls |-> {}]
    /\ attempt = 0 /\ owned = FALSE
    /\ pending = {} /\ current = {}
    /\ queue = NoQueue /\ settled = NoneSettled
    /\ transient = [k \in Chunks |-> 0]
    /\ active = {} /\ canceled = {} /\ awaiting = {}
    /\ phase = "idle"
    /\ sent = {} /\ answered = {} /\ unrecorded = {} /\ beside = {}

Next ==
    \/ StartFinal \/ SkipFinal
    \/ \E c \in CallIds : \/ Lookup(c) \/ WaitIdentical(c) \/ Send(c) \/ DropQueued(c)
                          \/ ExpireActive(c) \/ \E ok \in BOOLEAN : Complete(c, ok)
    \/ \E a \in Attempts : ExpireGroup(a)
    \/ ChangeControls \/ NewSession
    \/ GiveUp \/ MarkApplied \/ StoreCheckpoint \/ Acknowledge
    \/ ImportOutbox
    \/ Crash

Spec == Init /\ [][Next]_vars

-----------------------------------------------------------------------------
\* The variables have their types.
TypeOK ==
    /\ journal \in [CallIds -> JournalStates]
    /\ latest \in Attempts \cup {0}
    /\ cache \subseteq Chunks
    /\ {outbox, imported, active, canceled, awaiting, sent, answered, unrecorded}
          \subseteq SUBSET CallIds
    /\ checkpoint \in [text : {"none", "raw", "hosted"}, calls : SUBSET CallIds]
    /\ attempt \in Nat /\ owned \in BOOLEAN
    /\ {pending, current, beside} \subseteq SUBSET Attempts
    /\ queue \in [CallIds -> Queued \cup {"out"}]
    /\ transient \in [Chunks -> Nat]
    /\ settled \in [CallIds -> CallIds \cup {NoCall}]
    /\ phase \in {"idle", "waiting", "hosted", "applied", "stored", "raw", "filed"}

\* No attempt up to a was submitted beside a pending group.
Alone(a) == \A b \in beside : b > a

\* A request that may have left the process is never silently repeated: it does not run
\* twice at a time, and an attempt before which no group was joined by another buys a
\* chunk again only after its earlier row was given up on record, never while that row
\* is ambiguous or holds a result.
AmbiguousIsNotRepeated ==
    /\ \A c, d \in active : ChunkOf(c) = ChunkOf(d) => c = d
    /\ \A c, d \in sent :
          ChunkOf(c) = ChunkOf(d) /\ c[1] < d[1] /\ Alone(d[1]) => journal[c] = "Abandoned"

\* The accounting of an answered call is never lost between the journal and
\* queue.db: it is in the row, in the outbox or imported, unless the outbox
\* refused it when the call ended.
PaidIsAccounted ==
    \A c \in answered : Attached(c) \/ c \in outbox \cup imported \cup unrecorded

\* Hosted text is used as a whole or not at all: the pipeline goes on with it only
\* when every chunk has a result whose row is applied, so text that was refused,
\* superseded or given up meanwhile is not filed.
AppliedAsAWhole ==
    [][phase # "applied" /\ phase' = "applied" =>
          \A c \in CallsOf(attempt) : /\ ChunkOf(settled[c]) = ChunkOf(c)
                                      /\ journal'[settled[c]] = "Applied"]_vars

\* A stored checkpoint with hosted text can be acknowledged, now or after a
\* restart: its rows are still applied.
CheckpointIsAcknowledgeable ==
    checkpoint.text = "hosted" =>
        \A c \in checkpoint.calls : journal[c] \in {"Applied", "Checkpointed"}
=============================================================================
