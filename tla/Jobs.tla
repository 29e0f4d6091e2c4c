-------------------------------- MODULE Jobs --------------------------------
(***************************************************************************)
(* The jobs table (crates/corti-jobs) with the clean-up operations that     *)
(* corti-queue adds to it.  Three kinds of job share the table: recording   *)
(* retries, whose identity is the recording; one-shot chores, deduplicated  *)
(* by payload while active; and periodic singletons.                        *)
(*                                                                          *)
(* The pipeline thread claims one job at a time.  A claim is a snapshot of  *)
(* its row: other operations run while it is held, and a crash drops it.    *)
(* When a pending job comes due is left open, since backoff and periods     *)
(* only delay it.                                                           *)
(***************************************************************************)
EXTENDS RecordingJob, FiniteSets

CONSTANTS
    Recordings,  \* recording ids
    Chores,      \* payloads of one-shot jobs
    Sweeps,      \* kinds of periodic jobs
    Budgets,     \* values of max_attempts that callers pass
    Payloads,    \* payloads that callers pass for a recording
    MaxRows,     \* bound on the table
    MaxAttempts  \* bound on the attempts of one row

Owners == Recordings \cup Chores \cup Sweeps

ASSUME OwnersAssumption ==
    /\ "none" \notin Owners
    /\ Recordings \cap Chores = {} /\ Recordings \cap Sweeps = {} /\ Chores \cap Sweeps = {}
ASSUME TableAssumption ==
    /\ MaxRows \in Nat /\ MaxAttempts \in Nat
    /\ Budgets \subseteq Nat /\ Payloads \subseteq Payload

VARIABLES
    table,   \* row id -> row
    claims,  \* the claim whose handler is running, if any
    runs     \* history: handler runs of a recording since it was last armed

vars == <<table, claims, runs>>

Ids == 1..MaxRows
NoRow == [owner |-> "none", job |-> NoJob]

RowsOf(o) == {i \in Ids : table[i].owner = o}
Active(i) == table[i].job.state \in {"pending", "running"}
ActiveRowsOf(o) == {i \in RowsOf(o) : Active(i)}

Update(i, job) == table' = [table EXCEPT ![i].job = job]

Delete(i) == table' = [table EXCEPT ![i] = NoRow]

\* The database picks an unused id; which one it is makes no difference.
FreeIds == {i \in Ids : table[i] = NoRow}
Insert(o, job) ==
    \E i \in FreeIds : /\ \A j \in FreeIds : i <= j
                       /\ table' = [table EXCEPT ![i] = [owner |-> o, job |-> job]]

-----------------------------------------------------------------------------
(* Arming                                                                  *)

\* The row an enqueue of a recording finds: active rows before failed ones, and
\* the newest first.  Two active rows are a conflict, and nothing is written.
Existing(r) ==
    LET found == IF ActiveRowsOf(r) # {} THEN ActiveRowsOf(r) ELSE RowsOf(r)
    IN CHOOSE i \in found : \A j \in found : j <= i

EnqueueRecording(r, payload, max) ==
    /\ Cardinality(ActiveRowsOf(r)) <= 1
    /\ IF RowsOf(r) = {}
       THEN /\ Insert(r, NewJob(payload, max))
            /\ runs' = [runs EXCEPT ![r] = 0]
       ELSE /\ Update(Existing(r), EnqueueOn(table[Existing(r)].job, payload))
            /\ UNCHANGED runs
    /\ UNCHANGED claims

RearmFailedRecording(r, payload, max) ==
    /\ Cardinality(ActiveRowsOf(r)) <= 1
    /\ IF RowsOf(r) = {}
       THEN /\ Insert(r, NewJob(Consumed(payload), max))
            /\ runs' = [runs EXCEPT ![r] = 0]
       ELSE /\ Update(Existing(r), RearmOn(table[Existing(r)].job, payload, max))
            /\ runs' = IF Active(Existing(r)) THEN runs ELSE [runs EXCEPT ![r] = 0]
    /\ UNCHANGED claims

\* enqueue: the partial unique index ignores an insert of active work.
EnqueueChore(c, max) ==
    /\ ActiveRowsOf(c) = {}
    /\ Insert(c, NewJob(Blank, max))
    /\ UNCHANGED <<claims, runs>>

EnqueuePeriodic(s) ==
    /\ ActiveRowsOf(s) = {}
    /\ Insert(s, NewJob(Blank, 1))
    /\ UNCHANGED <<claims, runs>>

-----------------------------------------------------------------------------
(* Claiming and settling                                                   *)

ClaimDue(i) ==
    LET row == table[i]
    IN /\ claims = {}
       /\ row.job.state = "pending" /\ row.job.attempts < MaxAttempts
       /\ Update(i, Claimed(row.job))
       /\ claims' = {[id |-> i, owner |-> row.owner, attempts |-> row.job.attempts + 1,
                      payload |-> row.job.payload]}
       /\ runs' = IF row.owner \in Recordings
                  THEN [runs EXCEPT ![row.owner] = @ + 1] ELSE runs

Settle(c) == claims' = claims \ {c} /\ UNCHANGED runs

\* A periodic job re-arms with a fresh budget, whether it succeeded or failed.
Rearmed(job) == [job EXCEPT !.state = "pending", !.attempts = 0]

Complete(c) ==
    /\ c \in claims
    /\ IF c.owner \in Sweeps THEN Update(c.id, Rearmed(table[c.id].job)) ELSE Delete(c.id)
    /\ Settle(c)

Fail(c) ==
    /\ c \in claims /\ c.owner \notin Recordings
    /\ Update(c.id, IF c.owner \in Sweeps THEN Rearmed(table[c.id].job)
                                          ELSE Failed(table[c.id].job, c))
    /\ Settle(c)

FailRecording(c, note) ==
    /\ c \in claims /\ c.owner \in Recordings
    /\ table[c.id].owner = c.owner /\ ClaimHolds(table[c.id].job, c)
    /\ Update(c.id, Failed(table[c.id].job, Presented(c, note)))
    /\ Settle(c)

RescheduleRecording(c, note) ==
    /\ c \in claims /\ c.owner \in Recordings
    /\ table[c.id].owner = c.owner /\ ClaimHolds(table[c.id].job, c)
    /\ Update(c.id, Rescheduled(table[c.id].job, Presented(c, note)))
    /\ Settle(c)

-----------------------------------------------------------------------------
(* Restart and clean-up                                                    *)

\* The process dies and starts again: recover_running makes orphaned work due.
CrashAndRecover ==
    /\ table' = [i \in Ids |-> IF table[i] = NoRow THEN NoRow
                               ELSE [table[i] EXCEPT !.job = Recovered(@)]]
    /\ claims' = {}
    /\ UNCHANGED runs

\* delete_recording_jobs, on the thread that would otherwise run its handler.
DeleteRecordingJobs(r) ==
    /\ RowsOf(r) # {} /\ \A c \in claims : c.owner # r
    /\ table' = [i \in Ids |-> IF table[i].owner = r THEN NoRow ELSE table[i]]
    /\ UNCHANGED <<claims, runs>>

\* gc_failed_jobs: parked chores expire, parked recordings stay with their row.
GcFailedJob(i) ==
    /\ table[i].job.state = "failed" /\ table[i].owner \notin Recordings
    /\ Delete(i)
    /\ UNCHANGED <<claims, runs>>

-----------------------------------------------------------------------------

Init == /\ table = [i \in Ids |-> NoRow]
        /\ claims = {}
        /\ runs = [r \in Recordings |-> 0]

Arm == \/ \E r \in Recordings, p \in Payloads, max \in Budgets :
             EnqueueRecording(r, p, max) \/ RearmFailedRecording(r, p, max)
       \/ \E c \in Chores, max \in Budgets : EnqueueChore(c, max)
       \/ \E s \in Sweeps : EnqueuePeriodic(s)

Work == \/ \E i \in Ids : ClaimDue(i)
        \/ \E c \in claims : Complete(c) \/ Fail(c)
        \/ \E c \in claims, note \in Notes \cup {NoNote} :
              FailRecording(c, note) \/ RescheduleRecording(c, note)

Cleanup == \/ CrashAndRecover
           \/ \E r \in Recordings : DeleteRecordingJobs(r)
           \/ \E i \in Ids : GcFailedJob(i)

Next == Arm \/ Work \/ Cleanup

Spec == Init /\ [][Next]_vars

-----------------------------------------------------------------------------
(* Properties                                                              *)

Row == [owner : Owners, job : Job]
Claim == [id : Ids, owner : Owners, attempts : Nat, payload : Payload]

\* Rows, claims and counts stay well formed; a deleted row leaves nothing behind
\* (corti-jobs SCHEMA).
TypeOK == /\ table \in [Ids -> Row \cup {NoRow}]
          /\ claims \in SUBSET Claim
          /\ runs \in [Recordings -> Nat]

\* Work has one owner in the table: a recording has at most one row, parked
\* failures included, and a chore or a sweep at most one active row, however
\* enqueues, manual retries, crashes and settlements interleave
\* (enqueue_recording_in_transaction, idx_jobs_active_dedupe).
OneRowPerOwner ==
    /\ \A r \in Recordings : \A i, j \in RowsOf(r) : i = j
    /\ \A o \in Chores \cup Sweeps : \A i, j \in ActiveRowsOf(o) : i = j

\* The running handler owns its row: no enqueue, manual retry or clean-up that
\* runs while the claim is held puts the row back, parks it or restarts its
\* budget (rearm_failed_recording: "active claims/backoff remain untouched").
HandlerOwnsRow ==
    \A c \in claims : /\ table[c.id].owner = c.owner
                      /\ ClaimHolds(table[c.id].job, c)

\* Every handler run of a recording is charged to its budget, the ones a crash
\* cut short included, and a recording is parked only when the budget is used up
\* (claim_due, recover_running, fail).
RunsAreCharged ==
    \A r \in Recordings : \A i \in RowsOf(r) :
        /\ table[i].job.attempts = runs[r]
        /\ table[i].job.state = "failed" => runs[r] >= table[i].job.max

\* What a recording's payload may do in one step.
Grows(old, new) ==
    /\ old.quality \subseteq new.quality
    /\ old.note # NoNote => new.note # NoNote
    /\ old.canonical /\ old.note # NoNote => new.note = old.note /\ new.canonical
    /\ new.origin = old.origin
    /\ new.first => old.first

\* Evidence and ownership are monotone: while a recording's row lives, quality
\* facts are never lost, an owned note is replaced only by a canonical one, a
\* canonical note is final, the origin is immutable and the first-attempt
\* permission is never restored (merge_recording_payload, fail_recording).
EvidenceOnlyGrows ==
    [][\A i \in Ids : /\ table[i].owner \in Recordings
                      /\ table'[i].owner = table[i].owner
                      => Grows(table[i].job.payload, table'[i].job.payload)]_vars

\* A registered sweep stays scheduled through failures and crashes (fail,
\* complete, recover_running: "a broken sweep must tick at its period").
SweepsStayScheduled ==
    [][\A s \in Sweeps : ActiveRowsOf(s) # {} => ActiveRowsOf(s)' # {}]_vars
=============================================================================
