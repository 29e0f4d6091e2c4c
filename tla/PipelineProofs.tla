--------------------------- MODULE PipelineProofs ---------------------------
(***************************************************************************)
(* What the pipeline thread guarantees about a recording for every number   *)
(* of failures, crashes, retries and notes: work that has started is owned  *)
(* by a job, the row goes through the phases RecordingDelivery promises,    *)
(* data stays with the backend that was first authorized to have it, a done *)
(* recording's note is settled, and ASR runs within its budget and never    *)
(* while a checkpoint survives.                                             *)
(***************************************************************************)
EXTENDS Pipeline, FiniteSetTheorems, TLAPS

-----------------------------------------------------------------------------
(* Types                                                                    *)

Msgs == {"process", "note", "discarded", "leftover", "retry"}
Reasons == {"none", "unarmed", "missing", "exhausted"}
RowType == [status : Statuses, note : Notes \cup {NoNote}, attempted : BOOLEAN]
DiskType == [row : RowType, job : Job \cup {NoJob}, ckpt : Ckpt, audio : BOOLEAN,
             notes : [Notes -> Contents], moved : SUBSET Notes]
WorkerType == [pc : Pcs, claim : Job \cup {NoJob}, note : Owned, err : Owned, ck : Ckpt,
               stored : BOOLEAN, why : Reasons]
LiveType == [call : BOOLEAN, filed : BOOLEAN, note : Notes \cup {NoNote},
             state : {"none", "running", "finishing", "ready", "discarded"}]
SpentType == [faults : Nat, crashes : Nat, manual : Nat]
LogType == [asr : Nat, backends : SUBSET Backends, sent : Nat]

Types ==
    /\ disk \in DiskType /\ w \in WorkerType /\ inbox \in Seq(Msgs) /\ live \in LiveType
    /\ configured \in Backends /\ spent \in SpentType /\ log \in LogType

-----------------------------------------------------------------------------
(* Jobs and notes                                                           *)

\* Whatever is canonical names a note.
WellOwned(x) == x.canonical => x.note # NoNote

JobOk(j) == j \in Job /\ WellOwned(j.payload)

LEMMA JobIsNotNoJob == \A j \in Job : j # NoJob /\ j.state # "none"
  BY DEF Job, NoJob, JobStates

LEMMA NoJobFacts == NoJob.state = "none"
  BY DEF NoJob

LEMMA MergeOk ==
    ASSUME NEW p \in Payload, NEW q \in Payload, WellOwned(p), WellOwned(q)
    PROVE  /\ Merge(p, q) \in Payload /\ WellOwned(Merge(p, q))
           /\ Merge(p, q).origin = p.origin /\ Merge(p, q).first = p.first
  BY DEF Merge, Promotes, Payload, WellOwned

LEMMA ConsumedOk ==
    ASSUME NEW p \in Payload, WellOwned(p)
    PROVE  /\ Consumed(p) \in Payload /\ WellOwned(Consumed(p)) /\ ~ Consumed(p).first
           /\ Consumed(p).origin = p.origin
  BY DEF Consumed, Payload, WellOwned

LEMMA NewJobOk ==
    ASSUME NEW p \in Payload, WellOwned(p), NEW max \in Nat
    PROVE  /\ JobOk(NewJob(p, max)) /\ NewJob(p, max).state = "pending"
           /\ NewJob(p, max).payload = p /\ NewJob(p, max).attempts = 0
           /\ NewJob(p, max).max = max /\ NewJob(p, max) # NoJob
  BY JobIsNotNoJob DEF NewJob, Job, JobStates, JobOk, NoJob

LEMMA EnqueueOk ==
    ASSUME NEW j, JobOk(j), NEW p \in Payload, WellOwned(p)
    PROVE  /\ JobOk(EnqueueOn(j, p)) /\ EnqueueOn(j, p).state = j.state
           /\ EnqueueOn(j, p).attempts = j.attempts /\ EnqueueOn(j, p).max = j.max
           /\ EnqueueOn(j, p).payload.origin = j.payload.origin
           /\ EnqueueOn(j, p).payload.first = j.payload.first
<1>1. j.payload \in Payload /\ WellOwned(j.payload) /\ j \in Job
  BY DEF JobOk, Job
<1>2. /\ EnqueueOn(j, p) = [j EXCEPT !.payload = Merge(j.payload, p)]
      /\ Merge(j.payload, p) \in Payload /\ WellOwned(Merge(j.payload, p))
      /\ Merge(j.payload, p).origin = j.payload.origin /\ Merge(j.payload, p).first = j.payload.first
  BY <1>1, MergeOk DEF EnqueueOn
<1> QED BY <1>1, <1>2 DEF JobOk, Job

LEMMA RearmOk ==
    ASSUME NEW j, JobOk(j), NEW p \in Payload, WellOwned(p), NEW max \in Nat
    PROVE  LET r == RearmOn(j, p, max)
           IN /\ JobOk(r) /\ r.state \in {"pending", "running"} /\ r # NoJob
              /\ r.payload.origin = j.payload.origin /\ ~ r.payload.first
              /\ j.state # "failed" => r.state = j.state /\ r.attempts = j.attempts /\ r.max = j.max
              /\ j.state = "failed" => r.attempts = 0 /\ r.max = max
<1> DEFINE merged == Consumed(Merge(j.payload, p))
<1>1. j.payload \in Payload /\ WellOwned(j.payload) /\ j \in Job
  BY DEF JobOk, Job
<1>2. /\ merged \in Payload /\ WellOwned(merged) /\ ~ merged.first
      /\ merged.origin = j.payload.origin
  BY <1>1, MergeOk, ConsumedOk
<1>3. RearmOn(j, p, max) = IF j.state = "failed" THEN NewJob(merged, max)
                           ELSE [j EXCEPT !.payload = merged]
  BY DEF RearmOn
<1> HIDE DEF merged
<1>4. CASE j.state = "failed"
  BY <1>2, <1>3, <1>4, NewJobOk
<1>5. CASE j.state # "failed"
  <2>1. RearmOn(j, p, max) = [j EXCEPT !.payload = merged]
    BY <1>3, <1>5
  <2> QED BY <1>1, <1>2, <1>5, <2>1, JobIsNotNoJob DEF JobOk, Job, JobStates
<1> QED BY <1>4, <1>5

LEMMA ClaimedOk ==
    ASSUME NEW j, JobOk(j)
    PROVE  /\ JobOk(Claimed(j)) /\ Claimed(j).state = "running" /\ Claimed(j) # NoJob
           /\ Claimed(j).attempts = j.attempts + 1 /\ Claimed(j).max = j.max
           /\ Claimed(j).payload = j.payload
<1>1. j \in Job /\ WellOwned(j.payload) /\ j.attempts + 1 \in Nat
  BY DEF JobOk, Job
<1>2. Claimed(j) \in Job
  BY <1>1 DEF Claimed, Job, JobStates
<1>3. /\ Claimed(j).state = "running" /\ Claimed(j).attempts = j.attempts + 1
      /\ Claimed(j).max = j.max /\ Claimed(j).payload = j.payload
  BY <1>1 DEF Claimed, Job
<1> QED BY <1>1, <1>2, <1>3, JobIsNotNoJob DEF JobOk

LEMMA RecoveredOk ==
    ASSUME NEW j, JobOk(j)
    PROVE  /\ JobOk(Recovered(j)) /\ Recovered(j).attempts = j.attempts /\ Recovered(j).max = j.max
           /\ Recovered(j).payload = j.payload /\ Recovered(j) # NoJob
           /\ Recovered(j).state = IF j.state = "failed" THEN "failed" ELSE "pending"
<1>1. j \in Job /\ WellOwned(j.payload)
  BY DEF JobOk
<1>2. Recovered(j) \in Job
  BY <1>1 DEF Recovered, Job, JobStates
<1> QED BY <1>1, <1>2, JobIsNotNoJob DEF JobOk, Recovered, Job, JobStates

LEMMA PresentedOk ==
    ASSUME NEW j, JobOk(j), NEW n \in Notes \cup {NoNote}
    PROVE  /\ JobOk(Presented(j, n)) /\ Presented(j, n).attempts = j.attempts
           /\ Presented(j, n).max = j.max /\ Presented(j, n).payload.origin = j.payload.origin
           /\ Presented(j, n).payload.first = j.payload.first /\ Presented(j, n) # NoJob
  BY JobIsNotNoJob DEF Presented, JobOk, Job, Payload, WellOwned

LEMMA FailedOk ==
    ASSUME NEW j, JobOk(j), NEW c, JobOk(c)
    PROVE  /\ JobOk(Failed(j, c))
           /\ Failed(j, c).state = IF c.attempts < j.max THEN "pending" ELSE "failed"
           /\ Failed(j, c).attempts = j.attempts /\ Failed(j, c).max = j.max
           /\ Failed(j, c) # NoJob
           /\ Failed(j, c).payload.origin = j.payload.origin
           /\ Failed(j, c).payload.first = j.payload.first
<1>1. /\ j.payload \in Payload /\ WellOwned(j.payload) /\ j \in Job
      /\ c.payload \in Payload /\ WellOwned(c.payload)
  BY DEF JobOk, Job
<1>2. /\ Merge(j.payload, c.payload) \in Payload /\ WellOwned(Merge(j.payload, c.payload))
      /\ Merge(j.payload, c.payload).origin = j.payload.origin
      /\ Merge(j.payload, c.payload).first = j.payload.first
  BY <1>1, MergeOk
<1> QED BY <1>1, <1>2, JobIsNotNoJob DEF Failed, JobOk, Job, JobStates

LEMMA RescheduledOk ==
    ASSUME NEW j, JobOk(j), NEW c, JobOk(c)
    PROVE  /\ JobOk(Rescheduled(j, c)) /\ Rescheduled(j, c).state = "pending"
           /\ Rescheduled(j, c).attempts = j.attempts /\ Rescheduled(j, c).max = j.max
           /\ Rescheduled(j, c) # NoJob
           /\ Rescheduled(j, c).payload.origin = j.payload.origin
           /\ Rescheduled(j, c).payload.first = j.payload.first
<1>1. /\ j.payload \in Payload /\ WellOwned(j.payload) /\ j \in Job
      /\ c.payload \in Payload /\ WellOwned(c.payload)
  BY DEF JobOk, Job
<1>2. /\ Merge(j.payload, c.payload) \in Payload /\ WellOwned(Merge(j.payload, c.payload))
      /\ Merge(j.payload, c.payload).origin = j.payload.origin
      /\ Merge(j.payload, c.payload).first = j.payload.first
  BY <1>1, MergeOk
<1> QED BY <1>1, <1>2, JobIsNotNoJob DEF Rescheduled, JobOk, Job, JobStates

LEMMA BlankOk ==
    /\ Blank \in Payload /\ WellOwned(Blank) /\ ~ Blank.first /\ Blank.origin = Unknown
  BY DEF Blank, Payload, WellOwned

LEMMA OwnedOk ==
    /\ None \in Owned /\ WellOwned(None)
    /\ \A n \in Notes \cup {NoNote} : Partial(n) \in Owned /\ WellOwned(Partial(n)) /\ Partial(n).note = n
    /\ \A c \in Ckpt : OwnedNote(c) \in Owned /\ (WellOwned(c) => WellOwned(OwnedNote(c)))
    /\ \A p \in Payload : OwnedNote(p) \in Owned /\ (WellOwned(p) => WellOwned(OwnedNote(p)))
    /\ \A a, b \in Owned : /\ Or(a, b) \in Owned
                           /\ WellOwned(a) /\ WellOwned(b) => WellOwned(Or(a, b))
    /\ \A a \in Owned : IfCanonical(a) \in Owned /\ (WellOwned(a) => WellOwned(IfCanonical(a)))
  BY DEF None, Owned, WellOwned, Partial, OwnedNote, Ckpt, Payload, Or, IfCanonical

LEMMA AuthorityOk ==
    ASSUME NEW c \in Ckpt, NEW p \in Payload, NEW n \in Notes \cup {NoNote},
           WellOwned(c), WellOwned(p)
    PROVE  AuthoritativeNote(c, p, n) \in Owned /\ WellOwned(AuthoritativeNote(c, p, n))
  BY OwnedOk DEF AuthoritativeNote

-----------------------------------------------------------------------------
(* The inductive invariant                                                  *)

Open == {"Recording"} \cup InProgress
Started(d) ==
    /\ d.row.status \in InProgress
    /\ d.row.attempted \/ d.row.status # "PendingTranscription"
Alive(d) == d.job.state \in {"pending", "running"}

\* What holds of a disk d and a thread v wherever the thread is: only a settled row
\* has a failed job, a recording that is not tracked has none, and work that has
\* started has one that is due or running.
Kept(d, v) ==
    /\ d \in DiskType /\ v \in WorkerType
    /\ d.row.status = "none" => d.row = NoRow /\ d.job = NoJob
    /\ d.job.state = "failed" => d.row.status \in Settled
    /\ Started(d) => Alive(d)
    /\ WellOwned(d.ckpt) /\ WellOwned(v.note) /\ WellOwned(v.err) /\ WellOwned(v.ck)
    /\ (d.job # NoJob => JobOk(d.job)) /\ (v.claim # NoJob => JobOk(v.claim))

\* Places where the row is neither settled nor gone.
OpenPcs == {"collect", "schedule", "scheduleRow", "fileCheckpoint", "completeNote", "legacy",
            "transcribe", "missingAudio", "asr", "refuse", "store", "promote", "clean", "file",
            "keep", "complete", "fail", "resumeRow", "reapRow"}

\* What the row is, by the place the thread has reached.
RowAt(d, v) ==
    /\ v.pc \in OpenPcs => d.row.status \in Open
    /\ v.pc = "noteRow" => d.row = NewRow
    /\ v.pc = "route" => d.row.status \notin {"none", "Failed"}
    /\ v.pc = "leftoverFail" => d.row.status \notin {"none", "Done"}
    /\ v.pc \in {"stale", "settle"} => ~ Started(d)
    /\ v.pc = "tidy" => d.row.status = "Done"
    /\ v.pc = "close" /\ v.why # "unarmed" => d.row.status = "Failed"
    /\ v.pc \in {"keep", "complete"} => v.ck.canonical
    /\ v.pc = "completeNote" => v.note.canonical

\* The thread works for nobody, for the handler of Process, or for a claimed job; a
\* claim is for the job that is running, and completing the live note has no job yet.
Unclaimed == {"idle", "collect", "collectLost", "schedule", "scheduleRow", "noteRow",
              "discardRow", "leftoverRow", "leftoverFail", "startup", "resume", "resumeRow",
              "reap", "reapRow"}
Shared == {"clean", "file", "keep", "complete", "tidy", "fail", "close"}

ClaimAt(d, v) ==
    /\ v.pc \in Unclaimed => v.claim = NoJob
    /\ v.pc \notin Unclaimed \cup Shared => v.claim # NoJob
    /\ v.claim # NoJob /\ v.pc # "backoff" =>
          /\ d.job.state = "running"
          /\ d.job.attempts = v.claim.attempts /\ d.job.max = v.claim.max
    /\ v.claim = NoJob /\ v.pc \in {"collect", "clean", "file", "keep", "complete", "schedule",
                                    "fail"} => d.job = NoJob /\ ~ Started(d)
    /\ v.pc \in {"fail", "close"} => (v.why = "unarmed" <=> v.claim = NoJob) /\ v.why # "none"
    /\ v.pc = "park" => v.claim.attempts < v.claim.max \/ d.row.status \in Settled
    /\ v.pc \in {"scheduleRow", "backoff", "resumeRow", "reapRow"} => Alive(d)

Good(d, v) == Kept(d, v) /\ RowAt(d, v) /\ ClaimAt(d, v)

\* The verdict of the call is given once, and what a discarded session leaves comes
\* behind it.  Until it is taken up the recording is as the live session made it.
Has(m) == \E i \in 1 .. Len(inbox) : inbox[i] = m
Verdicts == {"process", "discarded"}
CallPending == live.call \/ Has("process") \/ Has("discarded")

Untouched(d) ==
    /\ d.row.status \in {"none", "Recording", "PendingTranscription"} /\ ~ d.row.attempted
    /\ d.job = NoJob /\ d.ckpt = NoCkpt

InboxInv ==
    /\ \A i, j \in 1 .. Len(inbox) :
          inbox[i] \in Verdicts \cup {"leftover"} /\ inbox[j] \in Verdicts => j <= i
    /\ live.call => ~ Has("process") /\ ~ Has("discarded") /\ ~ Has("leftover")

SessionInv ==
    /\ live.state = "running" => live.call
    /\ live.state = "discarded" => ~ live.call
    /\ Has("note") \/ Has("leftover") \/ live.filed => live.note \in Notes

CallAt(d, v) ==
    /\ CallPending => Untouched(d) /\ v.pc \in {"idle", "noteRow"}
    /\ v.pc \in {"noteRow", "leftoverRow", "leftoverFail"} => live.note \in Notes

Inv == Types /\ Good(disk, w) /\ InboxInv /\ SessionInv /\ CallAt(disk, w)

-----------------------------------------------------------------------------
(* How a step is put together                                               *)

\* What a step may make of the row: what RecordingDelivery promises.
Delivers(e) ==
    /\ disk.row.status = "none" => e.row \in {NoRow, NewRow}
    /\ disk.row.status \in Open =>
          /\ e.row.status \in Open \cup Settled
          /\ e.row.note \in Notes \cup {disk.row.note}
          /\ e.row.status = "Done" => e.row.note \in Notes
    /\ disk.row.status = "Failed" =>
          \/ e.row.status = "Failed" /\ e.row.note \in Notes \cup {disk.row.note}
          \/ e.row.status \in Open /\ e.row.note = disk.row.note
          \/ e.row = NoRow
    /\ disk.row.status = "Done" =>
          \/ e.row.status = "Done" /\ e.row.note \in Notes \cup {disk.row.note}
          \/ e.row = NoRow

LEMMA SameRow ==
    ASSUME Inv, NEW e, e.row = disk.row
    PROVE  Delivers(e)
<1>1. disk.row.status = "none" => disk.row = NoRow
  BY DEF Inv, Good, Kept
<1> QED BY <1>1 DEF Delivers, Open, InProgress, Settled

LEMMA IdleOk ==
    /\ Idle \in WorkerType /\ Idle.pc = "idle" /\ Idle.claim = NoJob
    /\ WellOwned(Idle.note) /\ WellOwned(Idle.err) /\ WellOwned(Idle.ck)
    /\ NoCkpt \in Ckpt /\ WellOwned(NoCkpt) /\ ~ NoCkpt.valid
    /\ NoCkpt.origin = Unknown /\ Idle.ck = NoCkpt
  BY OwnedOk DEF Idle, WorkerType, Pcs, Reasons, NoCkpt, Ckpt, WellOwned

LEMMA RowsOk ==
    /\ NoRow \in RowType /\ NewRow \in RowType /\ NoRow # NewRow
    /\ NoRow.status = "none" /\ NoRow.note = NoNote /\ NoRow.attempted = FALSE
    /\ NewRow.status = "PendingTranscription" /\ NewRow.note = NoNote /\ NewRow.attempted = FALSE
  BY DEF NoRow, NewRow, RowType, Statuses, InProgress, Settled

\* A step of the thread that leaves the channel and the session alone.
LEMMA InsideStep ==
    ASSUME Inv, UNCHANGED <<inbox, live>>, configured' \in Backends, log' \in LogType,
           spent' \in SpentType, Good(disk', w'),
           \/ ~ CallPending /\ w'.pc \notin {"noteRow", "leftoverRow", "leftoverFail"}
           \/ CallAt(disk', w')
    PROVE  Inv'
<1>1. CallPending' = CallPending /\ \A m : Has(m)' = Has(m)
  BY DEF CallPending, Has
<1>2. InboxInv' /\ SessionInv'
  BY DEF Inv, InboxInv, SessionInv, Has
<1>3. CallAt(disk, w)'
  BY <1>1 DEF CallAt, Inv, Untouched
<1>4. Types'
  BY DEF Types, Inv, Good, Kept
<1>5. Good(disk, w)'
  BY DEF Good, Kept, RowAt, ClaimAt, Started, Alive
<1> QED BY <1>2, <1>3, <1>4, <1>5 DEF Inv

LEMMA SpentOk ==
    ASSUME spent \in SpentType, NEW kind, NEW ok \in BOOLEAN, Outcome(kind, ok)
    PROVE  /\ spent' \in SpentType /\ spent'.crashes = spent.crashes
           /\ spent'.manual = spent.manual
  BY DEF SpentType, Outcome

LEMMA WriteStep ==
    ASSUME Inv, NEW kind, NEW saved, NEW good, NEW bad, Write(kind, saved, good, bad),
           Good(saved, good), Good(disk, bad),
           UNCHANGED <<inbox, live, configured>>, log' \in LogType, Delivers(saved),
           \/ /\ ~ CallPending
              /\ {good.pc, bad.pc} \cap {"noteRow", "leftoverRow", "leftoverFail"} = {}
           \/ CallAt(saved, good) /\ CallAt(disk, bad)
    PROVE  Inv' /\ Delivers(disk')
<1>1. PICK ok \in BOOLEAN : /\ Outcome(kind, ok)
                            /\ disk' = IF ok THEN saved ELSE disk
                            /\ w' = IF ok THEN good ELSE bad
  BY DEF Write
<1>2. spent' \in SpentType
  BY <1>1, SpentOk DEF Inv, Types
<1>3. configured' \in Backends
  BY DEF Inv, Types
<1>4. CASE ok
  <2>1. disk' = saved /\ w' = good
    BY <1>1, <1>4
  <2> QED BY <1>2, <1>3, <2>1, InsideStep
<1>5. CASE ~ ok
  <2>1. disk' = disk /\ w' = bad
    BY <1>1, <1>5
  <2>2. Good(disk', w')
    BY <2>1
  <2>3. CallAt(disk, bad) => CallAt(disk', w')
    BY <2>1
  <2>4. Delivers(disk')
    BY <2>1, SameRow
  <2> QED BY <1>2, <1>3, <2>1, <2>2, <2>3, <2>4, InsideStep
<1> QED BY <1>4, <1>5

LEMMA GotoStep ==
    ASSUME Inv, NEW next, Goto(next), Good(disk, next),
           UNCHANGED <<inbox, live, configured>>, log' \in LogType, ~ CallPending,
           next.pc \notin {"noteRow", "leftoverRow", "leftoverFail"}
    PROVE  Inv' /\ Delivers(disk')
<1>1. w' = next /\ disk' = disk /\ spent' = spent
  BY DEF Goto
<1>2. Good(disk', w')
  BY <1>1
<1>3. configured' \in Backends /\ spent' \in SpentType
  BY <1>1 DEF Inv, Types
<1>4. Delivers(disk')
  BY <1>1, SameRow
<1> QED BY <1>1, <1>2, <1>3, <1>4, InsideStep

\* Away from idle and noteRow the verdict was taken up.
LEMMA Away ==
    ASSUME Inv, w.pc \notin {"idle", "noteRow"}
    PROVE  ~ CallPending
  BY DEF Inv, CallAt

-----------------------------------------------------------------------------
(* What the setters change                                                  *)

LEMMA Moves ==
    ASSUME w \in WorkerType, NEW pc \in Pcs
    PROVE  /\ To(pc) \in WorkerType /\ To(pc).pc = pc /\ To(pc).claim = w.claim
           /\ To(pc).note = w.note /\ To(pc).err = w.err /\ To(pc).ck = w.ck
           /\ To(pc).why = w.why
  BY DEF To, WorkerType

LEMMA Returns ==
    ASSUME w \in WorkerType
    PROVE  /\ Ok = IF w.claim # NoJob THEN To("settle") ELSE Idle
           /\ Error = IF w.claim # NoJob THEN To("failed") ELSE To("schedule")
           /\ {"settle", "failed", "schedule"} \subseteq Pcs
  BY DEF Ok, Error, Pcs

LEMMA FailsWith ==
    ASSUME w \in WorkerType, NEW why \in Reasons, NEW note \in Owned
    PROVE  LET v == FailWith(why, note)
           IN /\ v \in WorkerType /\ v.pc = "fail" /\ v.claim = w.claim /\ v.note = note
              /\ v.err = w.err /\ v.ck = w.ck /\ v.why = why
  BY DEF FailWith, WorkerType, Pcs

LEMMA SetsRow ==
    ASSUME disk \in DiskType, NEW s \in Statuses, NEW n \in Notes \cup {NoNote}
    PROVE  LET d == SetRow(s, n)
           IN /\ d \in DiskType /\ d.job = disk.job /\ d.ckpt = disk.ckpt /\ d.notes = disk.notes
              /\ d.row.status = s /\ d.row.attempted = disk.row.attempted
              /\ d.row.note = IF n = NoNote THEN disk.row.note ELSE n
  BY DEF SetRow, DiskType, RowType

LEMMA SetsStatus ==
    ASSUME disk \in DiskType, NEW s \in Statuses
    PROVE  LET d == SetStatus(s)
           IN /\ d \in DiskType /\ d.job = disk.job /\ d.ckpt = disk.ckpt /\ d.notes = disk.notes
              /\ d.row.status = s /\ d.row.attempted = disk.row.attempted
              /\ d.row.note = disk.row.note
  BY DEF SetStatus, DiskType, RowType

LEMMA SetsNote ==
    ASSUME disk \in DiskType, NEW n, NEW c \in Contents
    PROVE  LET d == SetNote(n, c)
           IN d \in DiskType /\ d.job = disk.job /\ d.ckpt = disk.ckpt /\ d.row = disk.row
  BY DEF SetNote, DiskType

LEMMA SetsJob ==
    ASSUME disk \in DiskType, NEW j \in Job \cup {NoJob}
    PROVE  LET d == [disk EXCEPT !.job = j]
           IN d \in DiskType /\ d.job = j /\ d.ckpt = disk.ckpt /\ d.row = disk.row
  BY DEF DiskType

LEMMA SetsCkpt ==
    ASSUME disk \in DiskType, NEW c \in Ckpt
    PROVE  LET d == [disk EXCEPT !.ckpt = c]
           IN d \in DiskType /\ d.job = disk.job /\ d.ckpt = c /\ d.row = disk.row
  BY DEF DiskType

LEMMA Arms ==
    ASSUME Inv, NEW p \in Payload, WellOwned(p), NEW max \in Nat
    PROVE  LET d == Arm(p, max)
           IN /\ d \in DiskType /\ d.ckpt = disk.ckpt /\ d.row = disk.row /\ JobOk(d.job)
              /\ d.job # NoJob
              /\ d.job.state = IF disk.job = NoJob THEN "pending" ELSE disk.job.state
              /\ disk.job = NoJob => d.job = NewJob(p, max)
<1>1. disk \in DiskType /\ (disk.job # NoJob => JobOk(disk.job))
  BY DEF Inv, Good, Kept
<1>2. CASE disk.job = NoJob
  <2>1. Arm(p, max) = [disk EXCEPT !.job = NewJob(p, max)]
    BY <1>1, <1>2 DEF Arm, DiskType
  <2>2. NewJob(p, max) \in Job
    BY NewJobOk DEF JobOk
  <2> QED BY <1>1, <1>2, <2>1, <2>2, SetsJob, NewJobOk
<1>3. CASE disk.job # NoJob
  <2>1. Arm(p, max) = [disk EXCEPT !.job = EnqueueOn(disk.job, p)]
    BY <1>1, <1>3 DEF Arm, DiskType
  <2>2. EnqueueOn(disk.job, p) \in Job
    BY <1>1, <1>3, EnqueueOk DEF JobOk
  <2> QED BY <1>1, <1>3, <2>1, <2>2, SetsJob, EnqueueOk, JobIsNotNoJob
<1> QED BY <1>2, <1>3

LEMMA Here ==
    ASSUME Inv
    PROVE  /\ Good(disk, w) /\ w \in WorkerType /\ disk \in DiskType /\ log \in LogType
           /\ disk.row.status \in Statuses /\ disk.row.note \in Notes \cup {NoNote}
           /\ disk.ckpt \in Ckpt /\ disk.notes \in [Notes -> Contents]
           /\ (disk.row.status = "none" <=> disk.row = NoRow)
           /\ w.note \in Owned /\ w.err \in Owned /\ w.ck \in Ckpt
           /\ Inside => UNCHANGED <<inbox, live, configured>> /\ log' \in LogType
  BY RowsOk DEF Inv, Types, Good, Kept, DiskType, RowType, WorkerType, Inside

\* An error returns to the job loop or to schedule_retry.
LEMMA ErrorGood ==
    ASSUME Inv, \/ w.claim # NoJob /\ w.pc # "backoff"
                \/ w.pc \in {"clean", "file", "keep", "complete"}
    PROVE  /\ Good(disk, Error) /\ Error.pc \in {"failed", "schedule"} /\ Error \in WorkerType
           /\ Error.claim = w.claim /\ Error.note = w.note /\ Error.ck = w.ck
           /\ w.claim # NoJob => Error.pc = "failed"
<1>1. Good(disk, w) /\ w \in WorkerType
  BY Here
<1>2. CASE w.claim # NoJob
  <2>1. w.pc # "backoff"
    BY <1>2
  <2>2. Error = To("failed") /\ "failed" \in Pcs
    BY <1>1, <1>2, Returns
  <2> QED BY <1>1, <1>2, <2>1, <2>2, Moves DEF Good, Kept, RowAt, ClaimAt, OpenPcs, Unclaimed, Shared
<1>3. CASE w.claim = NoJob
  <2>1. w.pc \in {"clean", "file", "keep", "complete"}
    BY <1>3
  <2>2. Error = To("schedule") /\ "schedule" \in Pcs
    BY <1>1, <1>3, Returns
  <2> QED BY <1>1, <1>3, <2>1, <2>2, Moves DEF Good, Kept, RowAt, ClaimAt, OpenPcs, Unclaimed, Shared
<1> QED BY <1>2, <1>3

-----------------------------------------------------------------------------
(* The retry job: routing                                                   *)

LEMMA StaleKeeps == Inv /\ Stale => Inv' /\ Delivers(disk')
<1> SUFFICES ASSUME Inv, Stale PROVE Inv' /\ Delivers(disk')
  OBVIOUS
<1>1. w.pc = "stale" /\ Good(disk, w) /\ w \in WorkerType /\ Inside /\ Goto(Ok)
  BY DEF Stale, At, Inv, Types
<1>2. ~ CallPending
  BY <1>1, Away
<1>3. w.claim # NoJob /\ Ok = To("settle")
  BY <1>1, Returns DEF Good, ClaimAt, Unclaimed, Shared
<1>4. Good(disk, Ok) /\ Ok.pc = "settle"
  BY <1>1, <1>3, Moves, Returns DEF Good, Kept, RowAt, ClaimAt, OpenPcs, Unclaimed, Shared
<1> QED BY <1>1, <1>2, <1>4, GotoStep DEF Inside, Inv, Types

LEMMA MissingAudioKeeps == Inv /\ MissingAudio => Inv' /\ Delivers(disk')
<1> SUFFICES ASSUME Inv, MissingAudio PROVE Inv' /\ Delivers(disk')
  OBVIOUS
<1> DEFINE v == FailWith("missing", w.note)
<1>1. w.pc = "missingAudio" /\ Good(disk, w) /\ w \in WorkerType /\ Inside /\ Goto(v)
  BY DEF MissingAudio, At, Inv, Types
<1>2. ~ CallPending
  BY <1>1, Away
<1>3. /\ v \in WorkerType /\ v.pc = "fail" /\ v.claim = w.claim /\ v.note = w.note
      /\ v.err = w.err /\ v.ck = w.ck /\ v.why = "missing"
  <2>1. w.note \in Owned /\ "missing" \in Reasons
    BY <1>1 DEF WorkerType, Reasons
  <2> QED BY <1>1, <2>1, FailsWith
<1> HIDE DEF v
<1>4. Good(disk, v)
  BY <1>1, <1>3 DEF Good, Kept, RowAt, ClaimAt, OpenPcs, Unclaimed, Shared
<1> QED BY <1>1, <1>2, <1>3, <1>4, GotoStep DEF Inside, Inv, Types

LEMMA DispatchKeeps == Inv /\ Dispatch => Inv' /\ Delivers(disk')
<1> SUFFICES ASSUME Inv, Dispatch PROVE Inv' /\ Delivers(disk')
  OBVIOUS
<1>1. /\ w.pc = "dispatch" /\ Good(disk, w) /\ w \in WorkerType /\ disk \in DiskType
      /\ UNCHANGED <<inbox, live, configured>> /\ log' \in LogType
  BY DEF Dispatch, At, Inv, Types, Inside
<1>2. ~ CallPending
  BY <1>1, Away
<1>3. w.claim # NoJob /\ Ok = To("settle") /\ Error = To("failed")
  BY <1>1, Returns DEF Good, ClaimAt, Unclaimed, Shared
<1>4. disk.row.status \in Statuses /\ (disk.row.status = "none" <=> disk.row = NoRow)
  BY <1>1, RowsOk DEF DiskType, RowType, Good, Kept
<1>5. CASE disk.row = NoRow /\ Goto(Ok)
  <2>1. Good(disk, Ok) /\ Ok.pc = "settle"
    BY <1>1, <1>3, <1>4, <1>5, Moves, Returns
       DEF Good, Kept, RowAt, ClaimAt, OpenPcs, Unclaimed, Shared, Started, InProgress
  <2> QED BY <1>1, <1>2, <1>5, <2>1, GotoStep
<1>6. CASE Goto(Error)
  <2>1. Good(disk, Error) /\ Error.pc = "failed"
    BY <1>1, <1>3, Moves, Returns DEF Good, Kept, RowAt, ClaimAt, OpenPcs, Unclaimed, Shared
  <2> QED BY <1>1, <1>2, <1>6, <2>1, GotoStep
<1>7. CASE /\ disk.row.status = "Recording"
           /\ Write("row", SetStatus("PendingTranscription"), To("route"), Error)
  <2>1. Good(disk, Error) /\ Error.pc = "failed"
    BY <1>1, <1>3, Moves, Returns DEF Good, Kept, RowAt, ClaimAt, OpenPcs, Unclaimed, Shared
  <2>2. "PendingTranscription" \in Statuses /\ "route" \in Pcs
    BY DEF Statuses, InProgress, Pcs
  <2>3. Good(SetStatus("PendingTranscription"), To("route"))
    BY <1>1, <1>3, <1>7, <2>2, SetsStatus, Moves
       DEF Good, Kept, RowAt, ClaimAt, OpenPcs, Unclaimed, Shared, Started, Alive, InProgress, Settled
  <2>4. Delivers(SetStatus("PendingTranscription"))
    BY <1>1, <1>7, <2>2, SetsStatus DEF Delivers, Open, InProgress, Settled
  <2>5. To("route").pc = "route"
    BY <1>1, <2>2, Moves
  <2> QED BY <1>1, <1>2, <1>7, <2>1, <2>3, <2>4, <2>5, WriteStep
<1>8. CASE disk.row # NoRow /\ disk.row.status # "Failed" /\ Goto(To("route"))
  <2>1. Good(disk, To("route")) /\ To("route").pc = "route"
    <3>1. "route" \in Pcs
      BY DEF Pcs
    <3> QED BY <1>1, <1>3, <1>4, <1>8, <3>1, Moves
       DEF Good, Kept, RowAt, ClaimAt, OpenPcs, Unclaimed, Shared
  <2> QED BY <1>1, <1>2, <1>8, <2>1, GotoStep
<1> QED BY <1>5, <1>6, <1>7, <1>8 DEF Dispatch

LEMMA RouteKeeps == Inv /\ Route => Inv' /\ Delivers(disk')
<1> SUFFICES ASSUME Inv, Route PROVE Inv' /\ Delivers(disk')
  OBVIOUS
<1> DEFINE routed == [To(RetryAction) EXCEPT !.note = ClaimNote]
<1>1. /\ w.pc = "route" /\ Inside
  BY DEF Route, At
<1>2. ~ CallPending /\ w.claim # NoJob /\ JobOk(w.claim) /\ WellOwned(disk.ckpt)
  BY <1>1, Here, Away DEF Good, Kept, ClaimAt, Unclaimed, Shared
<1>3. ClaimNote \in Owned /\ WellOwned(ClaimNote)
  BY <1>2, Here, AuthorityOk DEF ClaimNote, JobOk, Job, Good, Kept
<1>4. disk.row.status \in Open \cup {"Done"}
  BY <1>1, Here DEF Good, RowAt, Statuses, Open, InProgress, Settled
<1>5. /\ RetryAction \in {"stale", "fileCheckpoint", "completeNote", "missingAudio", "legacy", "transcribe"}
      /\ RetryAction = "stale" => ~ Started(disk)
      /\ RetryAction # "stale" => disk.row.status \in Open
      /\ RetryAction = "completeNote" => ClaimNote.canonical
  BY <1>4 DEF RetryAction, Started, InProgress, Settled, CanonicalCompletion, Open
<1>6. /\ routed \in WorkerType /\ routed.pc = RetryAction /\ routed.claim = w.claim
      /\ routed.note = ClaimNote /\ routed.err = w.err /\ routed.ck = w.ck
  <2>1. RetryAction \in Pcs
    BY <1>5 DEF Pcs
  <2> HIDE DEF RetryAction
  <2>2. To(RetryAction) \in WorkerType
    BY <2>1, Here, Moves
  <2> QED BY <1>3, <2>1, <2>2, Here, Moves DEF WorkerType
<1> HIDE DEF routed
<1>7. Good(disk, routed)
  BY <1>1, <1>2, <1>3, <1>5, <1>6, Here DEF Good, Kept, RowAt, ClaimAt, OpenPcs, Unclaimed, Shared
<1>8. CASE Goto(Error)
  BY <1>1, <1>2, <1>8, ErrorGood, GotoStep, Here
<1>9. CASE Goto(routed)
  BY <1>1, <1>2, <1>5, <1>6, <1>7, <1>9, GotoStep, Here
<1>10. CASE RetryAction # "stale" /\ Write("row", SetRow(disk.row.status, ClaimNote.note), routed, Error)
  <2> DEFINE d == SetRow(disk.row.status, ClaimNote.note)
  <2>1. /\ d \in DiskType /\ d.job = disk.job /\ d.ckpt = disk.ckpt
        /\ d.row.status = disk.row.status /\ d.row.attempted = disk.row.attempted
        /\ d.row.note \in Notes \cup {disk.row.note}
    <3>1. ClaimNote.note \in Notes \cup {NoNote}
      BY <1>3 DEF Owned
    <3> QED BY <3>1, Here, SetsRow
  <2> HIDE DEF d
  <2>2. disk.row.status \in Open
    BY <1>5, <1>10
  <2>3. Good(d, routed)
    BY <1>2, <1>5, <1>6, <1>7, <1>10, <2>1, <2>2
       DEF Good, Kept, RowAt, ClaimAt, Unclaimed, Shared, Started, Alive, Open, InProgress
  <2>4. Delivers(d)
    BY <2>1, <2>2 DEF Delivers, Open, InProgress, Settled
  <2>5. Write("row", d, routed, Error)
    BY <1>10 DEF d
  <2> QED BY <1>1, <1>2, <1>5, <1>6, <2>3, <2>4, <2>5, WriteStep, ErrorGood, Here
<1> QED BY <1>8, <1>9, <1>10 DEF Route, routed

LEMMA CompleteNoteKeeps == Inv /\ CompleteNote => Inv' /\ Delivers(disk')
<1> SUFFICES ASSUME Inv, CompleteNote PROVE Inv' /\ Delivers(disk')
  OBVIOUS
<1> DEFINE ck == [disk.ckpt EXCEPT !.valid = TRUE, !.note = w.note.note, !.canonical = TRUE]
           v == [To("clean") EXCEPT !.ck = ck]
<1>1. w.pc = "completeNote" /\ Inside /\ Goto(v)
  BY DEF CompleteNote, At
<1>2. ~ CallPending /\ w.claim # NoJob /\ w.note.canonical /\ w.note.note \in Notes
  BY <1>1, Here, Away DEF Good, Kept, RowAt, ClaimAt, Unclaimed, Shared, WellOwned, Owned
<1>3. ck \in Ckpt /\ WellOwned(ck)
  BY <1>2, Here, NoNoteAssumption DEF Ckpt, WellOwned
<1>4. /\ v \in WorkerType /\ v.pc = "clean" /\ v.claim = w.claim /\ v.note = w.note
      /\ v.err = w.err /\ v.ck = ck
  <2> HIDE DEF ck
  <2>1. "clean" \in Pcs
    BY DEF Pcs
  <2>2. To("clean") \in WorkerType
    BY <2>1, Here, Moves
  <2> QED BY <1>3, <2>1, <2>2, Here, Moves DEF WorkerType
<1> HIDE DEF v, ck
<1>5. Good(disk, v)
  BY <1>1, <1>2, <1>3, <1>4, Here DEF Good, Kept, RowAt, ClaimAt, OpenPcs, Unclaimed, Shared
<1> QED BY <1>1, <1>2, <1>4, <1>5, GotoStep, Here

LEMMA FileCheckpointKeeps == Inv /\ FileCheckpoint => Inv' /\ Delivers(disk')
<1> SUFFICES ASSUME Inv, FileCheckpoint PROVE Inv' /\ Delivers(disk')
  OBVIOUS
<1> DEFINE pc == IF disk.row.status = "PendingNote" THEN "clean" ELSE "promote"
           v == [To(pc) EXCEPT !.ck = disk.ckpt]
<1>1. w.pc = "fileCheckpoint" /\ Inside /\ Goto(v)
  BY DEF FileCheckpoint, At
<1>2. ~ CallPending /\ w.claim # NoJob
  BY <1>1, Here, Away DEF Good, ClaimAt, Unclaimed, Shared
<1>3. pc \in Pcs /\ pc \in {"clean", "promote"}
  BY DEF Pcs
<1> HIDE DEF pc
<1>4. /\ v \in WorkerType /\ v.pc = pc /\ v.claim = w.claim /\ v.note = w.note
      /\ v.err = w.err /\ v.ck = disk.ckpt
  <2>2. To(pc) \in WorkerType
    BY <1>3, Here, Moves
  <2> QED BY <1>3, <2>2, Here, Moves DEF WorkerType
<1> HIDE DEF v
<1>5. Good(disk, v)
  BY <1>1, <1>2, <1>3, <1>4, Here DEF Good, Kept, RowAt, ClaimAt, OpenPcs, Unclaimed, Shared
<1> QED BY <1>1, <1>2, <1>3, <1>4, <1>5, GotoStep, Here

LEMMA LegacyKeeps == Inv /\ Legacy => Inv' /\ Delivers(disk')
<1> SUFFICES ASSUME Inv, Legacy PROVE Inv' /\ Delivers(disk')
  OBVIOUS
<1> DEFINE d == [disk EXCEPT !.row.attempted = TRUE]
<1>1. w.pc = "legacy" /\ Inside /\ Write("row", d, To("transcribe"), Error)
  BY DEF Legacy, At
<1>2. ~ CallPending /\ w.claim # NoJob
  BY <1>1, Here, Away DEF Good, ClaimAt, Unclaimed, Shared
<1>3. /\ d \in DiskType /\ d.job = disk.job /\ d.ckpt = disk.ckpt /\ d.row.note = disk.row.note
      /\ d.row.status = disk.row.status
  BY Here DEF DiskType, RowType
<1> HIDE DEF d
<1>4. To("transcribe").pc = "transcribe" /\ "transcribe" \in Pcs
  BY Here, Moves DEF Pcs
<1>5. disk.row.status \in Open
  BY <1>1, Here DEF Good, RowAt, OpenPcs
<1>6. Good(d, To("transcribe"))
  BY <1>1, <1>2, <1>3, <1>4, <1>5, Here, Moves
     DEF Good, Kept, RowAt, ClaimAt, OpenPcs, Unclaimed, Shared, Alive, Open, InProgress
<1>7. Delivers(d)
  BY <1>3, <1>5 DEF Delivers, Open, InProgress, Settled
<1> QED BY <1>1, <1>2, <1>4, <1>6, <1>7, ErrorGood, WriteStep, Here

-----------------------------------------------------------------------------
(* Transcription                                                            *)

LEMMA TranscribeKeeps == Inv /\ Transcribe => Inv' /\ Delivers(disk')
<1> SUFFICES ASSUME Inv, Transcribe PROVE Inv' /\ Delivers(disk')
  OBVIOUS
<1> DEFINE d == [SetStatus("Transcribing") EXCEPT !.row.attempted = TRUE]
<1>1. /\ w.pc = "transcribe" /\ Inside
      /\ Goto(To("refuse")) \/ Write("row", d, To("asr"), Error)
  BY DEF Transcribe, At
<1>2. ~ CallPending /\ w.claim # NoJob /\ disk.row.status \in Open
  BY <1>1, Here, Away DEF Good, ClaimAt, RowAt, OpenPcs, Unclaimed, Shared
<1>3. /\ d \in DiskType /\ d.job = disk.job /\ d.ckpt = disk.ckpt /\ d.row.note = disk.row.note
      /\ d.row.status = "Transcribing"
  BY Here DEF DiskType, RowType, SetStatus, Statuses, InProgress
<1> HIDE DEF d
<1>4. /\ To("asr").pc = "asr" /\ "asr" \in Pcs
      /\ To("refuse").pc = "refuse" /\ "refuse" \in Pcs
  BY Here, Moves DEF Pcs
<1>5. Good(d, To("asr"))
  BY <1>1, <1>2, <1>3, <1>4, Here, Moves
     DEF Good, Kept, RowAt, ClaimAt, OpenPcs, Unclaimed, Shared, Alive, Open, InProgress
<1>6. Good(disk, To("refuse"))
  BY <1>1, <1>2, <1>4, Here, Moves DEF Good, Kept, RowAt, ClaimAt, OpenPcs, Unclaimed, Shared
<1>7. Delivers(d)
  BY <1>2, <1>3 DEF Delivers, Open, InProgress, Settled
<1>8. CASE Goto(To("refuse"))
  BY <1>1, <1>2, <1>4, <1>6, <1>8, GotoStep, Here
<1>9. CASE Write("row", d, To("asr"), Error)
  BY <1>1, <1>2, <1>4, <1>5, <1>7, <1>9, ErrorGood, WriteStep, Here
<1> QED BY <1>1, <1>8, <1>9

LEMMA CheckpointOk ==
    ASSUME Inv, w.claim # NoJob, NEW full \in BOOLEAN
    PROVE  /\ Checkpoint(full) \in Ckpt /\ WellOwned(Checkpoint(full))
           /\ Checkpoint(full).note = CheckpointNote.note
           /\ CheckpointNote.note \in Notes \cup {NoNote}
<1>1. CheckpointNote \in Owned /\ WellOwned(CheckpointNote)
  BY Here, OwnedOk DEF CheckpointNote, Good, Kept
<1>2. Origin \in Backends \cup {Unknown}
  BY Here DEF Origin, Good, Kept, JobOk, Job, Payload
<1> QED BY <1>1, <1>2 DEF Checkpoint, Ckpt, Owned, WellOwned

\* The thread moves on with the checkpoint c at hand.
LEMMA Carries ==
    ASSUME Inv, NEW pc \in Pcs, NEW c \in Ckpt
    PROVE  LET v == [To(pc) EXCEPT !.ck = c]
           IN /\ v \in WorkerType /\ v.pc = pc /\ v.claim = w.claim /\ v.note = w.note
              /\ v.err = w.err /\ v.ck = c /\ v.why = w.why
<1>1. To(pc) \in WorkerType
  BY Here, Moves
<1> QED BY <1>1, Here, Moves DEF WorkerType

LEMMA RunAsrKeeps == Inv /\ RunAsr => Inv' /\ Delivers(disk')
<1> SUFFICES ASSUME Inv, RunAsr PROVE Inv' /\ Delivers(disk')
  OBVIOUS
<1> DEFINE v == [To("store") EXCEPT !.ck = Checkpoint(TRUE)]
<1>1. /\ w.pc = "asr" /\ UNCHANGED <<inbox, live, configured>>
      /\ Goto(Error) \/ Write("asr", disk, v, Error)
  BY DEF RunAsr, At
<1>2. ~ CallPending /\ w.claim # NoJob
  BY <1>1, Here, Away DEF Good, ClaimAt, Unclaimed, Shared
<1>3. log' \in LogType
  <2>1. PICK sent \in {0, 1} :
          log' = [log EXCEPT !.asr = @ + 1, !.backends = @ \cup {configured}, !.sent = @ + sent]
    BY DEF RunAsr
  <2>2. configured \in Backends
    BY DEF Inv, Types
  <2>3. /\ log \in LogType /\ log.asr + 1 \in Nat /\ log.sent + sent \in Nat
        /\ log.backends \cup {configured} \in SUBSET Backends
    BY <2>2, Here DEF LogType
  <2> QED BY <2>1, <2>3 DEF LogType
<1>4. /\ v \in WorkerType /\ v.pc = "store" /\ v.claim = w.claim /\ v.note = w.note
      /\ v.err = w.err /\ v.ck = Checkpoint(TRUE)
  <2>1. "store" \in Pcs
    BY DEF Pcs
  <2> QED BY <1>2, <2>1, Carries, CheckpointOk
<1> HIDE DEF v
<1>5. Good(disk, v)
  BY <1>1, <1>2, <1>4, Here, CheckpointOk
     DEF Good, Kept, RowAt, ClaimAt, OpenPcs, Unclaimed, Shared
<1>6. Delivers(disk)
  BY SameRow
<1>7. CASE Goto(Error)
  BY <1>1, <1>2, <1>3, <1>7, ErrorGood, GotoStep
<1>8. CASE Write("asr", disk, v, Error)
  BY <1>1, <1>2, <1>3, <1>4, <1>5, <1>6, <1>8, ErrorGood, WriteStep
<1> QED BY <1>1, <1>7, <1>8

LEMMA RefuseKeeps == Inv /\ Refuse => Inv' /\ Delivers(disk')
<1> SUFFICES ASSUME Inv, Refuse PROVE Inv' /\ Delivers(disk')
  OBVIOUS
<1> DEFINE n == CheckpointNote.note
           c1 == [Checkpoint(FALSE) EXCEPT !.canonical = TRUE]
           c2 == [Checkpoint(FALSE) EXCEPT !.canonical = FALSE]
           v1 == [To("store") EXCEPT !.ck = c1]
           v2 == [To("store") EXCEPT !.ck = c2]
           d == SetNote(n, MarkIncomplete(disk.notes[n]))
<1>1. /\ w.pc = "refuse" /\ Inside
      /\ (Exists(n) /\ Write("note", d, v1, Error)) \/ Goto(v2)
  BY DEF Refuse, At
<1>2. ~ CallPending /\ w.claim # NoJob
  BY <1>1, Here, Away DEF Good, ClaimAt, Unclaimed, Shared
<1>3. /\ c1 \in Ckpt /\ c2 \in Ckpt /\ WellOwned(c2) /\ (Exists(n) => WellOwned(c1))
  <2>1. Checkpoint(FALSE) \in Ckpt /\ Checkpoint(FALSE).note = n
    BY <1>2, CheckpointOk
  <2> HIDE DEF n
  <2> QED BY <2>1 DEF Ckpt, WellOwned, Exists
<1>4. "store" \in Pcs
  BY DEF Pcs
<1>5. /\ v1 \in WorkerType /\ v1.pc = "store" /\ v1.claim = w.claim /\ v1.note = w.note
      /\ v1.err = w.err /\ v1.ck = c1
      /\ v2 \in WorkerType /\ v2.pc = "store" /\ v2.claim = w.claim /\ v2.note = w.note
      /\ v2.err = w.err /\ v2.ck = c2
  BY <1>3, <1>4, Carries, ZenonT(30)
<1>6. d \in DiskType /\ d.job = disk.job /\ d.ckpt = disk.ckpt /\ d.row = disk.row
  <2>1. MarkIncomplete(disk.notes[n]) \in Contents
    BY DEF MarkIncomplete, Contents
  <2> QED BY <2>1, Here, SetsNote
<1> HIDE DEF v1, v2, c1, c2, d, n
<1>7. Good(disk, v2)
  BY <1>1, <1>2, <1>3, <1>5, Here DEF Good, Kept, RowAt, ClaimAt, OpenPcs, Unclaimed, Shared
<1>8. Exists(n) => Good(d, v1)
  BY <1>1, <1>2, <1>3, <1>5, <1>6, Here
     DEF Good, Kept, RowAt, ClaimAt, OpenPcs, Unclaimed, Shared, Started, Alive
<1>9. Delivers(d)
  BY <1>6, SameRow
<1>10. CASE Goto(v2)
  BY <1>1, <1>2, <1>5, <1>7, <1>10, GotoStep, Here
<1>11. CASE Exists(n) /\ Write("note", d, v1, Error)
  BY <1>1, <1>2, <1>5, <1>8, <1>9, <1>11, ErrorGood, WriteStep, Here
<1> QED BY <1>1, <1>10, <1>11

LEMMA StoreKeeps == Inv /\ StoreCheckpoint => Inv' /\ Delivers(disk')
<1> SUFFICES ASSUME Inv, StoreCheckpoint PROVE Inv' /\ Delivers(disk')
  OBVIOUS
<1> DEFINE d == [disk EXCEPT !.ckpt = w.ck]
<1>1. w.pc = "store" /\ Inside /\ Write("ckpt", d, To("promote"), Error)
  BY DEF StoreCheckpoint, At
<1>2. ~ CallPending /\ w.claim # NoJob
  BY <1>1, Here, Away DEF Good, ClaimAt, Unclaimed, Shared
<1>3. d \in DiskType /\ d.job = disk.job /\ d.ckpt = w.ck /\ d.row = disk.row
  BY Here, SetsCkpt
<1> HIDE DEF d
<1>4. To("promote").pc = "promote" /\ "promote" \in Pcs
  BY Here, Moves DEF Pcs
<1>5. Good(d, To("promote"))
  BY <1>1, <1>2, <1>3, <1>4, Here, Moves
     DEF Good, Kept, RowAt, ClaimAt, OpenPcs, Unclaimed, Shared, Started, Alive
<1>6. Delivers(d)
  BY <1>3, SameRow
<1> QED BY <1>1, <1>2, <1>4, <1>5, <1>6, ErrorGood, WriteStep, Here

LEMMA PromoteKeeps == Inv /\ Promote => Inv' /\ Delivers(disk')
<1> SUFFICES ASSUME Inv, Promote PROVE Inv' /\ Delivers(disk')
  OBVIOUS
<1> DEFINE d == SetStatus("PendingNote")
<1>1. w.pc = "promote" /\ Inside /\ Write("row", d, To("clean"), Error)
  BY DEF Promote, At
<1>2. ~ CallPending /\ w.claim # NoJob /\ disk.row.status \in Open
  BY <1>1, Here, Away DEF Good, ClaimAt, RowAt, OpenPcs, Unclaimed, Shared
<1>3. /\ d \in DiskType /\ d.job = disk.job /\ d.ckpt = disk.ckpt
      /\ d.row.status = "PendingNote" /\ d.row.note = disk.row.note
  <2>1. "PendingNote" \in Statuses
    BY DEF Statuses, InProgress
  <2> QED BY <2>1, Here, SetsStatus
<1> HIDE DEF d
<1>4. To("clean").pc = "clean" /\ "clean" \in Pcs
  BY Here, Moves DEF Pcs
<1>5. Good(d, To("clean"))
  BY <1>1, <1>2, <1>3, <1>4, Here, Moves
     DEF Good, Kept, RowAt, ClaimAt, OpenPcs, Unclaimed, Shared, Alive, Open, InProgress
<1>6. Delivers(d)
  BY <1>2, <1>3 DEF Delivers, Open, InProgress, Settled
<1> QED BY <1>1, <1>2, <1>4, <1>5, <1>6, ErrorGood, WriteStep, Here

-----------------------------------------------------------------------------
(* Filing                                                                   *)

LEMMA CleanKeeps == Inv /\ CleanStaging => Inv' /\ Delivers(disk')
<1> SUFFICES ASSUME Inv, CleanStaging PROVE Inv' /\ Delivers(disk')
  OBVIOUS
<1>1. w.pc = "clean" /\ Inside /\ Write("cloud", disk, To("file"), Error)
  BY DEF CleanStaging, At
<1>2. ~ CallPending
  BY <1>1, Away
<1>3. To("file").pc = "file" /\ "file" \in Pcs
  BY Here, Moves DEF Pcs
<1>4. Good(disk, To("file"))
  BY <1>1, <1>3, Here, Moves DEF Good, Kept, RowAt, ClaimAt, OpenPcs, Unclaimed, Shared
<1>5. Delivers(disk)
  BY SameRow
<1> QED BY <1>1, <1>2, <1>3, <1>4, <1>5, ErrorGood, WriteStep, Here

LEMMA CanonicalOk ==
    ASSUME Inv, NEW n \in Notes
    PROVE  LET v == Canonical(n)
           IN /\ v \in WorkerType /\ v.pc = "keep" /\ v.claim = w.claim /\ v.note = w.note
              /\ v.err = w.err /\ WellOwned(v.ck) /\ v.ck.canonical /\ v.why = w.why
              /\ v.ck.note = n
<1>1. "keep" \in Pcs
  BY DEF Pcs
<1>2. To("keep") \in WorkerType /\ To("keep").ck = w.ck
  BY <1>1, Here, Moves
<1>3. n # NoNote
  BY NoNoteAssumption
<1> QED BY <1>1, <1>2, <1>3, Here, Moves DEF Canonical, WorkerType, Ckpt, WellOwned

LEMMA FileNoteKeeps == Inv /\ FileNote => Inv' /\ Delivers(disk')
<1> SUFFICES ASSUME Inv, FileNote PROVE Inv' /\ Delivers(disk')
  OBVIOUS
<1> DEFINE target == IF w.ck.note # NoNote THEN w.ck.note ELSE disk.row.note
<1>1. w.pc = "file" /\ Inside
  BY DEF FileNote, At
<1>2. ~ CallPending
  BY <1>1, Away
<1>3. \A n \in Notes : Good(SetNote(n, FiledAs), Canonical(n)) /\ Delivers(SetNote(n, FiledAs))
  <2> SUFFICES ASSUME NEW n \in Notes
               PROVE  Good(SetNote(n, FiledAs), Canonical(n)) /\ Delivers(SetNote(n, FiledAs))
    OBVIOUS
  <2> DEFINE d == SetNote(n, FiledAs)
             v == Canonical(n)
  <2>1. FiledAs \in Contents
    BY DEF FiledAs, Contents
  <2>2. d \in DiskType /\ d.job = disk.job /\ d.ckpt = disk.ckpt /\ d.row = disk.row
    BY <2>1, Here, SetsNote
  <2>3. /\ v \in WorkerType /\ v.pc = "keep" /\ v.claim = w.claim /\ v.note = w.note
        /\ v.err = w.err /\ WellOwned(v.ck) /\ v.ck.canonical
    BY CanonicalOk
  <2> HIDE DEF d, v
  <2>4. Good(d, v)
    BY <1>1, <2>2, <2>3, Here
       DEF Good, Kept, RowAt, ClaimAt, OpenPcs, Unclaimed, Shared, Started, Alive
  <2>5. Delivers(d)
    BY <2>2, SameRow
  <2> QED BY <2>4, <2>5 DEF d, v
<1>4. \A n \in Notes : Canonical(n).pc = "keep"
  BY CanonicalOk
<1>5. CASE w.ck.canonical /\ Goto(To("keep"))
  <2>1. "keep" \in Pcs /\ To("keep").pc = "keep"
    BY Here, Moves DEF Pcs
  <2>2. Good(disk, To("keep"))
    BY <1>1, <1>5, <2>1, Here, Moves DEF Good, Kept, RowAt, ClaimAt, OpenPcs, Unclaimed, Shared
  <2> QED BY <1>1, <1>2, <1>5, <2>1, <2>2, GotoStep, Here
<1>6. CASE Exists(target) /\ Write("note", SetNote(target, FiledAs), Canonical(target), Error)
  <2>1. target \in Notes
    BY <1>6, Here DEF Exists, Ckpt
  <2> HIDE DEF target
  <2> QED BY <1>1, <1>2, <1>3, <1>4, <1>6, <2>1, ErrorGood, WriteStep, Here
<1>7. CASE FreshNotes # {} /\ Write("vagus", SetNote(NewNote, FiledAs), Canonical(NewNote), Error)
  <2>1. NewNote \in Notes
    BY <1>7 DEF NewNote, FreshNotes
  <2> QED BY <1>1, <1>2, <1>3, <1>4, <1>7, <2>1, ErrorGood, WriteStep, Here
<1> QED BY <1>5, <1>6, <1>7 DEF FileNote

LEMMA KeepNoteKeeps == Inv /\ KeepNote => Inv' /\ Delivers(disk')
<1> SUFFICES ASSUME Inv, KeepNote PROVE Inv' /\ Delivers(disk')
  OBVIOUS
<1> DEFINE d == [disk EXCEPT !.ckpt = w.ck]
           v1 == [To("complete") EXCEPT !.stored = TRUE]
           v2 == [To("complete") EXCEPT !.stored = FALSE]
<1>1. w.pc = "keep" /\ Inside /\ Write("ckpt", d, v1, v2)
  BY DEF KeepNote, At
<1>2. ~ CallPending
  BY <1>1, Away
<1>3. d \in DiskType /\ d.job = disk.job /\ d.ckpt = w.ck /\ d.row = disk.row
  BY Here, SetsCkpt
<1>4. "complete" \in Pcs
  BY DEF Pcs
<1>5. /\ v1 \in WorkerType /\ v1.pc = "complete" /\ v1.claim = w.claim /\ v1.note = w.note
      /\ v1.err = w.err /\ v1.ck = w.ck
      /\ v2 \in WorkerType /\ v2.pc = "complete" /\ v2.claim = w.claim /\ v2.note = w.note
      /\ v2.err = w.err /\ v2.ck = w.ck
  <2>1. To("complete") \in WorkerType
    BY <1>4, Here, Moves
  <2> QED BY <1>4, <2>1, Here, Moves DEF WorkerType
<1> HIDE DEF d, v1, v2
<1>6. Good(d, v1) /\ Good(disk, v2)
  BY <1>1, <1>3, <1>5, Here
     DEF Good, Kept, RowAt, ClaimAt, OpenPcs, Unclaimed, Shared, Started, Alive
<1>7. Delivers(d)
  BY <1>3, SameRow
<1> QED BY <1>1, <1>2, <1>5, <1>6, <1>7, WriteStep, Here

LEMMA CompleteKeeps == Inv /\ CompleteWithNote => Inv' /\ Delivers(disk')
<1> SUFFICES ASSUME Inv, CompleteWithNote PROVE Inv' /\ Delivers(disk')
  OBVIOUS
<1> DEFINE d == SetRow("Done", w.ck.note)
           e == IF w.stored THEN None ELSE OwnedNote(w.ck)
           v == [Error EXCEPT !.err = e]
<1>1. w.pc = "complete" /\ Inside /\ Write("row", d, To("tidy"), v)
  BY DEF CompleteWithNote, At
<1>2. ~ CallPending /\ disk.row.status \in Open /\ w.ck.note \in Notes
  BY <1>1, Here, Away DEF Good, Kept, RowAt, OpenPcs, WellOwned, Ckpt
<1>3. /\ d \in DiskType /\ d.job = disk.job /\ d.ckpt = disk.ckpt
      /\ d.row.status = "Done" /\ d.row.note = w.ck.note
  <2>1. "Done" \in Statuses /\ w.ck.note # NoNote
    BY <1>2, NoNoteAssumption DEF Statuses, Settled
  <2> QED BY <1>2, <2>1, Here, SetsRow
<1>4. e \in Owned /\ WellOwned(e)
  BY Here, OwnedOk DEF Good, Kept
<1>5. To("tidy").pc = "tidy" /\ "tidy" \in Pcs
  BY Here, Moves DEF Pcs
<1>6. /\ v \in WorkerType /\ v.pc = Error.pc /\ v.claim = w.claim /\ v.note = w.note
      /\ v.err = e /\ v.ck = w.ck
  <2> HIDE DEF e
  <2> QED BY <1>1, <1>4, ErrorGood DEF WorkerType
<1> HIDE DEF d, v, e
<1>7. Good(d, To("tidy"))
  BY <1>1, <1>3, <1>5, Here, Moves
     DEF Good, Kept, RowAt, ClaimAt, OpenPcs, Unclaimed, Shared, Started, InProgress, Settled
<1>8. Good(disk, v)
  BY <1>1, <1>4, <1>6, ErrorGood DEF Good, Kept, RowAt, ClaimAt, OpenPcs, Unclaimed, Shared
<1>9. Delivers(d)
  BY <1>2, <1>3 DEF Delivers, Open, InProgress, Settled
<1> QED BY <1>1, <1>2, <1>5, <1>6, <1>7, <1>8, <1>9, ErrorGood, WriteStep, Here

LEMMA TidyKeeps == Inv /\ Tidy => Inv' /\ Delivers(disk')
<1> SUFFICES ASSUME Inv, Tidy PROVE Inv' /\ Delivers(disk')
  OBVIOUS
<1> DEFINE d == [disk EXCEPT !.ckpt = NoCkpt]
<1>1. w.pc = "tidy" /\ Inside /\ Write("unlink", d, Ok, Ok)
  BY DEF Tidy, At
<1>2. ~ CallPending /\ disk.row.status = "Done"
  BY <1>1, Here, Away DEF Good, RowAt
<1>3. d \in DiskType /\ d.job = disk.job /\ d.ckpt = NoCkpt /\ d.row = disk.row
  BY Here, SetsCkpt, IdleOk
<1> HIDE DEF d
<1>4. Good(d, Ok) /\ Good(disk, Ok) /\ Ok.pc \in {"idle", "settle"}
  BY <1>1, <1>2, <1>3, Here, Returns, Moves, IdleOk
     DEF Good, Kept, RowAt, ClaimAt, OpenPcs, Unclaimed, Shared, Started, InProgress
<1>5. Delivers(d)
  BY <1>3, SameRow
<1> QED BY <1>1, <1>2, <1>4, <1>5, WriteStep, Here

-----------------------------------------------------------------------------
(* Failure and settlement                                                   *)

LEMMA FailRowKeeps == Inv /\ FailRow => Inv' /\ Delivers(disk')
<1> SUFFICES ASSUME Inv, FailRow PROVE Inv' /\ Delivers(disk')
  OBVIOUS
<1> DEFINE d == SetRow("Failed", Failing.note)
           v == [To("close") EXCEPT !.note = Failing]
           bad == CASE w.why = "unarmed" -> Idle
                    [] w.why = "missing" -> Error
                    [] w.why = "exhausted" -> To("reschedule")
<1>1. w.pc = "fail" /\ Inside /\ Write("row", d, v, bad)
  BY DEF FailRow, At
<1>2. /\ ~ CallPending /\ disk.row.status \in Open
      /\ w.why \in {"unarmed", "missing", "exhausted"} /\ (w.why = "unarmed" <=> w.claim = NoJob)
  BY <1>1, Here, Away DEF Good, RowAt, OpenPcs, ClaimAt, WorkerType, Reasons
<1>3. Failing \in Owned /\ WellOwned(Failing) /\ Failing.note \in Notes \cup {NoNote}
  <2>1. Failing \in Owned /\ WellOwned(Failing)
    BY Here, OwnedOk DEF Failing, Good, Kept
  <2> QED BY <2>1 DEF Owned
<1>4. /\ d \in DiskType /\ d.job = disk.job /\ d.ckpt = disk.ckpt
      /\ d.row.status = "Failed" /\ d.row.note \in Notes \cup {disk.row.note}
  <2>1. "Failed" \in Statuses
    BY DEF Statuses, Settled
  <2> QED BY <1>3, <2>1, Here, SetsRow
<1>5. /\ v \in WorkerType /\ v.pc = "close" /\ v.claim = w.claim /\ v.note = Failing
      /\ v.err = w.err /\ v.ck = w.ck /\ v.why = w.why
  <2>1. "close" \in Pcs
    BY DEF Pcs
  <2>2. To("close") \in WorkerType
    BY <2>1, Here, Moves
  <2> HIDE DEF Failing
  <2> QED BY <1>3, <2>1, <2>2, Here, Moves DEF WorkerType
<1>6. Good(disk, bad) /\ bad.pc \in {"idle", "failed", "reschedule"}
  <2>1. CASE w.why = "unarmed"
    <3>1. bad = Idle
      BY <2>1
    <3> QED BY <1>1, <1>2, <2>1, <3>1, Here, IdleOk
         DEF Good, Kept, RowAt, ClaimAt, OpenPcs, Unclaimed, Shared
  <2>2. CASE w.why = "missing"
    BY <1>1, <1>2, <2>2, ErrorGood
  <2>3. CASE w.why = "exhausted"
    <3>1. bad = To("reschedule") /\ "reschedule" \in Pcs
      BY <2>3 DEF Pcs
    <3> QED BY <1>1, <1>2, <2>3, <3>1, Here, Moves
         DEF Good, Kept, RowAt, ClaimAt, OpenPcs, Unclaimed, Shared
  <2> QED BY <1>2, <2>1, <2>2, <2>3
<1> HIDE DEF d, v, bad
<1>7. Good(d, v)
  BY <1>1, <1>2, <1>3, <1>4, <1>5, Here
     DEF Good, Kept, RowAt, ClaimAt, OpenPcs, Unclaimed, Shared, Started, InProgress, Settled
<1>8. Delivers(d)
  BY <1>2, <1>4 DEF Delivers, Open, InProgress, Settled
<1> QED BY <1>1, <1>2, <1>5, <1>6, <1>7, <1>8, WriteStep, Here

LEMMA CloseNoteKeeps == Inv /\ CloseNote => Inv' /\ Delivers(disk')
<1> SUFFICES ASSUME Inv, CloseNote PROVE Inv' /\ Delivers(disk')
  OBVIOUS
<1> DEFINE n == w.note.note
           d == SetNote(n, MarkIncomplete(disk.notes[n]))
           next == CASE w.why = "unarmed" -> Idle
                     [] w.why = "missing" -> Ok
                     [] w.why = "exhausted" -> To("park")
<1>1. /\ w.pc = "close" /\ Inside
      /\ Goto(next) \/ Write("note", d, next, next)
  BY DEF CloseNote, At
<1>2. /\ ~ CallPending /\ (w.why # "unarmed" => disk.row.status = "Failed")
      /\ w.why \in {"unarmed", "missing", "exhausted"} /\ (w.why = "unarmed" <=> w.claim = NoJob)
  BY <1>1, Here, Away DEF Good, RowAt, ClaimAt, WorkerType, Reasons
<1>3. Good(disk, next) /\ next.pc \in {"idle", "settle", "park"}
  <2>1. CASE w.why = "unarmed"
    <3>1. next = Idle
      BY <2>1
    <3> QED BY <1>1, <1>2, <2>1, <3>1, Here, IdleOk
         DEF Good, Kept, RowAt, ClaimAt, OpenPcs, Unclaimed, Shared
  <2>2. CASE w.why = "missing"
    <3>1. next = To("settle") /\ "settle" \in Pcs
      BY <1>2, <2>2, Returns, Here
    <3> QED BY <1>1, <1>2, <2>2, <3>1, Here, Moves
         DEF Good, Kept, RowAt, ClaimAt, OpenPcs, Unclaimed, Shared, Started, InProgress
  <2>3. CASE w.why = "exhausted"
    <3>1. next = To("park") /\ "park" \in Pcs
      BY <2>3 DEF Pcs
    <3> QED BY <1>1, <1>2, <2>3, <3>1, Here, Moves
         DEF Good, Kept, RowAt, ClaimAt, OpenPcs, Unclaimed, Shared, Settled
  <2> QED BY <1>2, <2>1, <2>2, <2>3
<1>4. d \in DiskType /\ d.job = disk.job /\ d.ckpt = disk.ckpt /\ d.row = disk.row
  <2>1. MarkIncomplete(disk.notes[n]) \in Contents
    BY DEF MarkIncomplete, Contents
  <2> QED BY <2>1, Here, SetsNote
<1> HIDE DEF d, next, n
<1>5. Good(d, next)
  BY <1>3, <1>4, Here DEF Good, Kept, RowAt, ClaimAt, Started, Alive
<1>6. Delivers(d)
  BY <1>4, SameRow
<1>7. CASE Goto(next)
  BY <1>1, <1>2, <1>3, <1>7, GotoStep, Here
<1>8. CASE Write("note", d, next, next)
  BY <1>1, <1>2, <1>3, <1>5, <1>6, <1>8, WriteStep, Here
<1> QED BY <1>1, <1>7, <1>8

LEMMA IdleGood ==
    ASSUME Inv
    PROVE  Good(disk, Idle)
  BY Here, IdleOk DEF Good, Kept, RowAt, ClaimAt, OpenPcs, Unclaimed, Shared

LEMMA SettleOkKeeps == Inv /\ SettleOk => Inv' /\ Delivers(disk')
<1> SUFFICES ASSUME Inv, SettleOk PROVE Inv' /\ Delivers(disk')
  OBVIOUS
<1> DEFINE d == [disk EXCEPT !.job = NoJob]
<1>1. w.pc = "settle" /\ Inside /\ Write("settle", d, Idle, Idle)
  BY DEF SettleOk, At
<1>2. ~ CallPending
  BY <1>1, Away
<1>3. d \in DiskType /\ d.job = NoJob /\ d.ckpt = disk.ckpt /\ d.row = disk.row
  BY Here, SetsJob
<1> HIDE DEF d
<1>4. Good(d, Idle)
  BY <1>1, <1>3, Here, IdleOk, NoJobFacts
     DEF Good, Kept, RowAt, ClaimAt, OpenPcs, Unclaimed, Shared, Started
<1>5. Delivers(d)
  BY <1>3, SameRow
<1> QED BY <1>1, <1>2, <1>4, <1>5, IdleGood, IdleOk, WriteStep, Here

LEMMA SettleErrorKeeps == Inv /\ SettleError => Inv' /\ Delivers(disk')
<1> SUFFICES ASSUME Inv, SettleError PROVE Inv' /\ Delivers(disk')
  OBVIOUS
<1> DEFINE claim == Presented(w.claim, w.err.note)
           known == [w EXCEPT !.claim = claim]
           note == AuthoritativeNote(disk.ckpt, claim.payload, disk.row.note)
           v1 == [known EXCEPT !.pc = "park"]
           v2 == [known EXCEPT !.pc = "fail", !.why = "exhausted", !.note = note]
           parks == claim.attempts < claim.max \/ disk.row.status \in Settled \cup {"none"}
<1>1. w.pc = "failed" /\ Inside /\ Goto(IF parks THEN v1 ELSE v2)
  BY DEF SettleError, At
<1>2. ~ CallPending /\ w.claim # NoJob /\ JobOk(w.claim) /\ w.err.note \in Notes \cup {NoNote}
  BY <1>1, Here, Away DEF Good, Kept, ClaimAt, Unclaimed, Shared, Owned
<1>3. /\ JobOk(claim) /\ claim.attempts = w.claim.attempts /\ claim.max = w.claim.max
      /\ claim # NoJob
  BY <1>2, PresentedOk
<1>4. note \in Owned /\ WellOwned(note)
  BY <1>3, Here, AuthorityOk DEF JobOk, Job, Good, Kept
<1>5. disk.row.status # "none"
  BY <1>1, <1>2, Here, NoJobFacts DEF Good, Kept, ClaimAt
<1> HIDE DEF claim, note
<1>6. /\ v1 \in WorkerType /\ v1.pc = "park" /\ v1.claim = claim /\ v1.note = w.note
      /\ v1.err = w.err /\ v1.ck = w.ck
      /\ v2 \in WorkerType /\ v2.pc = "fail" /\ v2.claim = claim /\ v2.note = note
      /\ v2.err = w.err /\ v2.ck = w.ck /\ v2.why = "exhausted"
  <2>1. claim \in Job /\ "park" \in Pcs /\ "fail" \in Pcs /\ "exhausted" \in Reasons
    BY <1>3 DEF JobOk, Pcs, Reasons
  <2> QED BY <1>4, <2>1, Here DEF WorkerType
<1> HIDE DEF v1, v2
<1>7. CASE parks
  <2>1. Good(disk, v1)
    BY <1>1, <1>2, <1>3, <1>5, <1>6, <1>7, Here
       DEF Good, Kept, RowAt, ClaimAt, OpenPcs, Unclaimed, Shared
  <2> QED BY <1>1, <1>2, <1>6, <1>7, <2>1, GotoStep, Here
<1>8. CASE ~ parks
  <2>1. disk.row.status \in Open
    BY <1>8, Here DEF Statuses, Open
  <2>2. Good(disk, v2)
    BY <1>1, <1>2, <1>3, <1>4, <1>6, <2>1, Here
       DEF Good, Kept, RowAt, ClaimAt, OpenPcs, Unclaimed, Shared
  <2> QED BY <1>1, <1>2, <1>6, <1>8, <2>2, GotoStep, Here
<1> QED BY <1>7, <1>8

LEMMA ParkKeeps == Inv /\ Park => Inv' /\ Delivers(disk')
<1> SUFFICES ASSUME Inv, Park PROVE Inv' /\ Delivers(disk')
  OBVIOUS
<1> DEFINE job == Failed(disk.job, w.claim)
           d == [disk EXCEPT !.job = job]
           v == IF job.state = "pending" THEN To("backoff") ELSE Idle
<1>1. w.pc = "park" /\ Inside /\ Write("settle", d, v, Idle)
  BY DEF Park, At
<1>2. /\ ~ CallPending /\ w.claim # NoJob /\ JobOk(w.claim) /\ disk.job # NoJob /\ JobOk(disk.job)
      /\ disk.job.max = w.claim.max /\ disk.job.state = "running"
      /\ w.claim.attempts < w.claim.max \/ disk.row.status \in Settled
  BY <1>1, Here, Away, NoJobFacts DEF Good, Kept, ClaimAt, Unclaimed, Shared
<1>3. /\ JobOk(job) /\ job # NoJob
      /\ job.state = IF w.claim.attempts < disk.job.max THEN "pending" ELSE "failed"
  BY <1>2, FailedOk
<1> HIDE DEF job
<1>4. d \in DiskType /\ d.job = job /\ d.ckpt = disk.ckpt /\ d.row = disk.row
  <2>1. job \in Job
    BY <1>3 DEF JobOk
  <2> QED BY <2>1, Here, SetsJob
<1>5. disk.row.status # "none"
  BY <1>2, Here DEF Good, Kept
<1> HIDE DEF d
<1>6. Good(d, v) /\ v.pc \in {"backoff", "idle"}
  <2>1. CASE job.state = "pending"
    <3>1. v = To("backoff") /\ "backoff" \in Pcs
      BY <2>1 DEF Pcs
    <3> HIDE DEF v
    <3> QED BY <1>1, <1>2, <1>3, <1>4, <1>5, <2>1, <3>1, Here, Moves
         DEF Good, Kept, RowAt, ClaimAt, OpenPcs, Unclaimed, Shared, Alive
  <2>2. CASE job.state # "pending"
    <3>1. v = Idle /\ job.state = "failed" /\ disk.row.status \in Settled
      BY <1>2, <1>3, <2>2
    <3> HIDE DEF v
    <3> QED BY <1>3, <1>4, <1>5, <3>1, Here, IdleOk
         DEF Good, Kept, RowAt, ClaimAt, OpenPcs, Unclaimed, Shared, Started, InProgress, Settled
  <2> QED BY <2>1, <2>2
<1>7. Delivers(d)
  BY <1>4, SameRow
<1> HIDE DEF v
<1> QED BY <1>1, <1>2, <1>6, <1>7, IdleGood, IdleOk, WriteStep, Here

LEMMA RescheduleKeeps == Inv /\ Reschedule => Inv' /\ Delivers(disk')
<1> SUFFICES ASSUME Inv, Reschedule PROVE Inv' /\ Delivers(disk')
  OBVIOUS
<1> DEFINE job == Rescheduled(disk.job, w.claim)
           d == [disk EXCEPT !.job = job]
<1>1. w.pc = "reschedule" /\ Inside /\ Write("settle", d, To("backoff"), Idle)
  BY Here DEF Reschedule, At, DiskType
<1>2. /\ ~ CallPending /\ w.claim # NoJob /\ JobOk(w.claim) /\ disk.job # NoJob /\ JobOk(disk.job)
  BY <1>1, Here, Away, NoJobFacts DEF Good, Kept, ClaimAt, Unclaimed, Shared
<1>3. JobOk(job) /\ job # NoJob /\ job.state = "pending"
  BY <1>2, RescheduledOk
<1> HIDE DEF job
<1>4. d \in DiskType /\ d.job = job /\ d.ckpt = disk.ckpt /\ d.row = disk.row
  <2>1. job \in Job
    BY <1>3 DEF JobOk
  <2> QED BY <2>1, Here, SetsJob
<1> HIDE DEF d
<1>5. To("backoff").pc = "backoff" /\ "backoff" \in Pcs
  BY Here, Moves DEF Pcs
<1>6. Good(d, To("backoff"))
  BY <1>1, <1>2, <1>3, <1>4, <1>5, Here, Moves
     DEF Good, Kept, RowAt, ClaimAt, OpenPcs, Unclaimed, Shared, Alive
<1>7. Delivers(d)
  BY <1>4, SameRow
<1> QED BY <1>1, <1>2, <1>5, <1>6, <1>7, IdleGood, IdleOk, WriteStep, Here

\* Work that is owned may be put at any status that is in progress.
LEMMA RetryStatusOk == RetryStatus \in InProgress /\ RetryStatus \in Statuses
  BY DEF RetryStatus, InProgress, Statuses

LEMMA OpensRow ==
    ASSUME Inv, NEW s \in InProgress, NEW n \in Notes \cup {NoNote},
           disk.row.status \in Open, Alive(disk)
    PROVE  Good(SetRow(s, n), Idle) /\ Delivers(SetRow(s, n))
<1>1. s \in Statuses
  BY DEF Statuses, InProgress
<1> DEFINE d == SetRow(s, n)
<1>2. /\ d \in DiskType /\ d.job = disk.job /\ d.ckpt = disk.ckpt
      /\ d.row.status = s /\ d.row.note \in Notes \cup {disk.row.note}
  BY <1>1, Here, SetsRow
<1> HIDE DEF d
<1>3. Good(d, Idle)
  BY <1>2, Here, IdleOk
     DEF Good, Kept, RowAt, ClaimAt, OpenPcs, Unclaimed, Shared, Alive, InProgress
<1>4. Delivers(d)
  BY <1>2 DEF Delivers, Open, InProgress, Settled
<1> QED BY <1>3, <1>4 DEF d

LEMMA StatusIsRow ==
    ASSUME disk \in DiskType, NEW s
    PROVE  SetStatus(s) = SetRow(s, NoNote)
  BY DEF SetStatus, SetRow, DiskType, RowType

LEMMA BackoffKeeps == Inv /\ Backoff => Inv' /\ Delivers(disk')
<1> SUFFICES ASSUME Inv, Backoff PROVE Inv' /\ Delivers(disk')
  OBVIOUS
<1>1. /\ w.pc = "backoff" /\ Inside
  BY DEF Backoff, At
<1>2. ~ CallPending /\ Alive(disk)
  BY <1>1, Here, Away DEF Good, ClaimAt
<1>3. CASE Goto(Idle)
  BY <1>1, <1>2, <1>3, IdleGood, IdleOk, GotoStep, Here
<1>4. CASE /\ disk.row.status \notin Settled \cup {"none"}
           /\ Write("row", SetStatus(RetryStatus), Idle, Idle)
  <2>1. disk.row.status \in Open
    BY <1>4, Here DEF Statuses, Open
  <2>2. Good(SetStatus(RetryStatus), Idle) /\ Delivers(SetStatus(RetryStatus))
    BY <1>2, <2>1, RetryStatusOk, OpensRow, StatusIsRow, Here
  <2> QED BY <1>1, <1>2, <1>4, <2>2, IdleGood, IdleOk, WriteStep, Here
<1> QED BY <1>3, <1>4 DEF Backoff

-----------------------------------------------------------------------------
(* Claiming, and restarting                                                 *)

LEMMA ClaimJobKeeps == Inv /\ ClaimJob => Inv' /\ Delivers(disk')
<1> SUFFICES ASSUME Inv, ClaimJob PROVE Inv' /\ Delivers(disk')
  OBVIOUS
<1> DEFINE job == Claimed(disk.job)
           d == [disk EXCEPT !.job = job]
           v == [Idle EXCEPT !.pc = "dispatch", !.claim = job]
<1>1. /\ w.pc = "idle" /\ Inside /\ disk.job.state = "pending" /\ spent' = spent
      /\ disk' = d /\ w' = v
  BY Here DEF ClaimJob, At, DiskType
<1>2. disk.job # NoJob /\ JobOk(disk.job) /\ disk.row.status # "none"
  BY <1>1, Here, NoJobFacts DEF Good, Kept
<1>3. ~ CallPending
  BY <1>2 DEF Inv, CallAt, Untouched
<1>4. JobOk(job) /\ job.state = "running" /\ job # NoJob /\ job \in Job
  BY <1>2, ClaimedOk DEF JobOk
<1> HIDE DEF job
<1>5. d \in DiskType /\ d.job = job /\ d.ckpt = disk.ckpt /\ d.row = disk.row
  BY <1>4, Here, SetsJob
<1>6. /\ v \in WorkerType /\ v.pc = "dispatch" /\ v.claim = job /\ v.note = Idle.note
      /\ v.err = Idle.err /\ v.ck = Idle.ck
  <2>1. "dispatch" \in Pcs
    BY DEF Pcs
  <2> QED BY <1>4, <2>1, IdleOk DEF WorkerType
<1> HIDE DEF d, v
<1>7. Good(d, v)
  BY <1>1, <1>2, <1>4, <1>5, <1>6, Here, IdleOk
     DEF Good, Kept, RowAt, ClaimAt, OpenPcs, Unclaimed, Shared, Started, Alive
<1>8. Delivers(d)
  BY <1>5, SameRow
<1>9. Good(disk', w') /\ Delivers(disk') /\ w'.pc = "dispatch"
  BY <1>1, <1>6, <1>7, <1>8
<1>10. spent' \in SpentType /\ configured' \in Backends
  BY <1>1 DEF Inside, Inv, Types
<1> QED BY <1>1, <1>3, <1>9, <1>10, InsideStep, Here

LEMMA RecoverKeeps == Inv /\ RecoverRunning => Inv' /\ Delivers(disk')
<1> SUFFICES ASSUME Inv, RecoverRunning PROVE Inv' /\ Delivers(disk')
  OBVIOUS
<1> DEFINE job == Recovered(disk.job)
           d == [disk EXCEPT !.job = job]
<1>1. w.pc = "startup" /\ Inside /\ Write("job", d, To("resume"), To("resume"))
  BY Here DEF RecoverRunning, At, DiskType
<1>2. ~ CallPending
  BY <1>1, Away
<1>3. /\ job \in Job \cup {NoJob} /\ (job # NoJob => JobOk(job))
      /\ (job.state = "failed" => disk.job.state = "failed")
      /\ (Alive(disk) => job.state = "pending")
      /\ (disk.job = NoJob => job = NoJob)
  <2>1. CASE disk.job = NoJob
    BY <2>1, NoJobFacts DEF Recovered, Alive
  <2>2. CASE disk.job # NoJob
    <3>1. JobOk(disk.job)
      BY <2>2, Here DEF Good, Kept
    <3> QED BY <2>2, <3>1, RecoveredOk DEF JobOk, Alive
  <2> QED BY <2>1, <2>2
<1> HIDE DEF job
<1>4. d \in DiskType /\ d.job = job /\ d.ckpt = disk.ckpt /\ d.row = disk.row
  BY <1>3, Here, SetsJob
<1> HIDE DEF d
<1>5. To("resume").pc = "resume" /\ "resume" \in Pcs
  BY Here, Moves DEF Pcs
<1>6. Good(d, To("resume")) /\ Good(disk, To("resume"))
  <2>1. Good(disk, To("resume"))
    BY <1>1, <1>5, Here, Moves DEF Good, Kept, RowAt, ClaimAt, OpenPcs, Unclaimed, Shared
  <2>2. w.claim = NoJob
    BY <1>1, Here DEF Good, ClaimAt, Unclaimed
  <2>3. Kept(d, To("resume"))
    BY <1>3, <1>4, <2>1 DEF Good, Kept, Started, Alive
  <2> QED BY <1>5, <2>1, <2>2, <2>3, Here, Moves DEF Good, RowAt, ClaimAt, OpenPcs, Unclaimed, Shared
<1>7. Delivers(d)
  BY <1>4, SameRow
<1> QED BY <1>1, <1>2, <1>5, <1>6, <1>7, WriteStep, Here

\* A recording that is still open is armed with a job that is alive.
LEMMA ArmsOpen ==
    ASSUME Inv, w.claim = NoJob, disk.row.status \in Open, NEW p \in Payload, WellOwned(p),
           NEW max \in Nat, NEW pc \in {"idle", "resumeRow", "reapRow"}
    PROVE  /\ Good(Arm(p, max), To(pc)) /\ To(pc).pc = pc /\ Alive(Arm(p, max))
           /\ Delivers(Arm(p, max))
<1> DEFINE d == Arm(p, max)
<1>1. /\ d \in DiskType /\ d.ckpt = disk.ckpt /\ d.row = disk.row /\ JobOk(d.job)
      /\ d.job # NoJob
      /\ d.job.state = IF disk.job = NoJob THEN "pending" ELSE disk.job.state
  BY Arms
<1> HIDE DEF d
<1>2. Alive(d)
  <2>1. disk.job # NoJob => disk.job.state \in {"pending", "running"}
    BY Here DEF Good, Kept, JobOk, Job, JobStates, Open, InProgress, Settled
  <2> QED BY <1>1, <2>1 DEF Alive
<1>3. pc \in Pcs
  BY DEF Pcs
<1>4. Good(d, To(pc)) /\ To(pc).pc = pc
  BY <1>1, <1>2, <1>3, Here, Moves
     DEF Good, Kept, RowAt, ClaimAt, OpenPcs, Unclaimed, Shared, Alive, Open, InProgress
<1>5. Delivers(d)
  BY <1>1, SameRow
<1> QED BY <1>2, <1>4, <1>5 DEF d

LEMMA ResumeKeeps == Inv /\ Resume => Inv' /\ Delivers(disk')
<1> SUFFICES ASSUME Inv, Resume PROVE Inv' /\ Delivers(disk')
  OBVIOUS
<1>1. w.pc = "resume" /\ Inside
  BY DEF Resume, At
<1>2. ~ CallPending /\ w.claim = NoJob
  BY <1>1, Here, Away DEF Good, ClaimAt, Unclaimed
<1>3. To("reap").pc = "reap" /\ "reap" \in Pcs
  BY Here, Moves DEF Pcs
<1>4. Good(disk, To("reap"))
  BY <1>1, <1>3, Here, Moves DEF Good, Kept, RowAt, ClaimAt, OpenPcs, Unclaimed, Shared
<1>5. CASE Goto(To("reap"))
  BY <1>1, <1>2, <1>3, <1>4, <1>5, GotoStep, Here
<1>6. CASE /\ disk.row.status \in InProgress \cup {"Recording"}
           /\ Write("job", Arm(Blank, Retries), To("resumeRow"), To("reap"))
  <2>1. /\ Good(Arm(Blank, Retries), To("resumeRow")) /\ To("resumeRow").pc = "resumeRow"
        /\ Delivers(Arm(Blank, Retries))
    BY <1>2, <1>6, BlankOk, BoundsAssumption, ArmsOpen DEF Open
  <2> QED BY <1>1, <1>2, <1>3, <1>4, <1>6, <2>1, WriteStep, Here
<1> QED BY <1>5, <1>6 DEF Resume

LEMMA ResumeRowKeeps == Inv /\ ResumeRow => Inv' /\ Delivers(disk')
<1> SUFFICES ASSUME Inv, ResumeRow PROVE Inv' /\ Delivers(disk')
  OBVIOUS
<1> DEFINE d == SetStatus("PendingNote")
<1>1. w.pc = "resumeRow" /\ Inside /\ Write("row", d, To("reap"), To("reap"))
  BY DEF ResumeRow, At
<1>2. /\ ~ CallPending /\ w.claim = NoJob /\ Alive(disk) /\ disk.row.status \in Open
  BY <1>1, Here, Away DEF Good, RowAt, OpenPcs, ClaimAt, Unclaimed
<1>3. To("reap").pc = "reap" /\ "reap" \in Pcs
  BY Here, Moves DEF Pcs
<1>4. Good(disk, To("reap"))
  BY <1>1, <1>3, Here, Moves DEF Good, Kept, RowAt, ClaimAt, OpenPcs, Unclaimed, Shared
<1>5. Good(d, Idle) /\ Delivers(d)
  BY <1>2, OpensRow, StatusIsRow, Here DEF InProgress
<1> HIDE DEF d
<1>6. Good(d, To("reap"))
  BY <1>2, <1>3, <1>4, <1>5, Here, Moves
     DEF Good, Kept, RowAt, ClaimAt, OpenPcs, Unclaimed, Shared
<1> QED BY <1>1, <1>2, <1>3, <1>4, <1>5, <1>6, WriteStep, Here

LEMMA ReapKeeps == Inv /\ Reap => Inv' /\ Delivers(disk')
<1> SUFFICES ASSUME Inv, Reap PROVE Inv' /\ Delivers(disk')
  OBVIOUS
<1> DEFINE d == SetStatus("Failed")
           v == [To("close") EXCEPT !.note = Partial(disk.row.note), !.why = "unarmed"]
<1>1. w.pc = "reap" /\ Inside
  BY DEF Reap, At
<1>2. ~ CallPending /\ w.claim = NoJob
  BY <1>1, Here, Away DEF Good, ClaimAt, Unclaimed
<1>3. CASE Goto(Idle)
  BY <1>1, <1>2, <1>3, IdleGood, IdleOk, GotoStep, Here
<1>4. CASE disk.row.status = "Recording" /\ Write("job", Arm(Blank, Retries), To("reapRow"), Idle)
  <2>1. /\ Good(Arm(Blank, Retries), To("reapRow")) /\ To("reapRow").pc = "reapRow"
        /\ Delivers(Arm(Blank, Retries))
    BY <1>2, <1>4, BlankOk, BoundsAssumption, ArmsOpen DEF Open
  <2> QED BY <1>1, <1>2, <1>4, <2>1, IdleGood, IdleOk, WriteStep, Here
<1>5. CASE disk.row.status = "Recording" /\ Write("row", d, v, Idle)
  <2>1. "Failed" \in Statuses /\ "close" \in Pcs /\ "unarmed" \in Reasons
    BY DEF Statuses, Settled, Pcs, Reasons
  <2>2. /\ d \in DiskType /\ d.job = disk.job /\ d.ckpt = disk.ckpt /\ d.row.status = "Failed"
        /\ d.row.note = disk.row.note
    BY <2>1, Here, SetsStatus
  <2>3. /\ v \in WorkerType /\ v.pc = "close" /\ v.claim = w.claim /\ WellOwned(v.note)
        /\ v.err = w.err /\ v.ck = w.ck /\ v.why = "unarmed"
    <3>1. Partial(disk.row.note) \in Owned /\ WellOwned(Partial(disk.row.note))
      BY Here, OwnedOk
    <3>2. To("close") \in WorkerType
      BY <2>1, Here, Moves
    <3> HIDE DEF Partial
    <3> QED BY <2>1, <3>1, <3>2, Here, Moves DEF WorkerType
  <2> HIDE DEF d, v
  <2>4. Good(d, v)
    BY <1>1, <1>2, <2>2, <2>3, Here
       DEF Good, Kept, RowAt, ClaimAt, OpenPcs, Unclaimed, Shared, Started, InProgress, Settled
  <2>5. Delivers(d)
    BY <1>5, <2>2 DEF Delivers, Open, InProgress, Settled
  <2>6. Write("row", d, v, Idle)
    BY <1>5 DEF d, v
  <2> QED BY <1>1, <1>2, <2>3, <2>4, <2>5, <2>6, IdleGood, IdleOk, WriteStep, Here
<1> QED BY <1>3, <1>4, <1>5 DEF Reap

LEMMA ReapRowKeeps == Inv /\ ReapRow => Inv' /\ Delivers(disk')
<1> SUFFICES ASSUME Inv, ReapRow PROVE Inv' /\ Delivers(disk')
  OBVIOUS
<1> DEFINE d == SetStatus("PendingTranscription")
<1>1. w.pc = "reapRow" /\ Inside /\ Write("row", d, Idle, Idle)
  BY DEF ReapRow, At
<1>2. ~ CallPending /\ Alive(disk) /\ disk.row.status \in Open
  BY <1>1, Here, Away DEF Good, RowAt, OpenPcs, ClaimAt
<1>3. Good(d, Idle) /\ Delivers(d)
  BY <1>2, OpensRow, StatusIsRow, Here DEF InProgress
<1> HIDE DEF d
<1> QED BY <1>1, <1>2, <1>3, IdleGood, IdleOk, WriteStep, Here

-----------------------------------------------------------------------------
(* The channel                                                              *)

LEMMA TakeFacts ==
    ASSUME Inv, NEW m, Take(m)
    PROVE  /\ w.pc = "idle" /\ Has(m) /\ inbox' \in Seq(Msgs)
           /\ \A x : Has(x)' => Has(x)
           /\ m \in Verdicts \cup {"leftover"} => ~ Has("process")' /\ ~ Has("discarded")'
           /\ \A i, j \in 1 .. Len(inbox') :
                 inbox'[i] \in Verdicts \cup {"leftover"} /\ inbox'[j] \in Verdicts => j <= i
<1>1. /\ inbox \in Seq(Msgs) /\ inbox # <<>> /\ inbox' = Tail(inbox) /\ inbox[1] = m
      /\ w.pc = "idle" /\ Len(inbox) \in Nat /\ Len(inbox) >= 1
  BY DEF Take, At, Inv, Types
<1>2. /\ inbox' \in Seq(Msgs) /\ Len(inbox') = Len(inbox) - 1
      /\ \A i \in 1 .. Len(inbox') : inbox'[i] = inbox[i + 1] /\ i + 1 \in 1 .. Len(inbox)
  BY <1>1
<1>3. \A i, j \in 1 .. Len(inbox) :
         inbox[i] \in Verdicts \cup {"leftover"} /\ inbox[j] \in Verdicts => j <= i
  BY DEF Inv, InboxInv
<1>4. \A i, j \in 1 .. Len(inbox') :
         inbox'[i] \in Verdicts \cup {"leftover"} /\ inbox'[j] \in Verdicts => j <= i
  <2> SUFFICES ASSUME NEW i \in 1 .. Len(inbox'), NEW j \in 1 .. Len(inbox'),
                      inbox'[i] \in Verdicts \cup {"leftover"}, inbox'[j] \in Verdicts
               PROVE  j <= i
    OBVIOUS
  <2>1. /\ i + 1 \in 1 .. Len(inbox) /\ j + 1 \in 1 .. Len(inbox)
        /\ inbox[i + 1] \in Verdicts \cup {"leftover"} /\ inbox[j + 1] \in Verdicts
    BY <1>2
  <2>2. j + 1 <= i + 1
    BY <1>3, <2>1
  <2> QED BY <1>1, <1>2, <2>2
<1>5. \A x : Has(x)' => Has(x)
  BY <1>2 DEF Has
<1>6. Has(m) /\ 1 \in 1 .. Len(inbox)
  BY <1>1 DEF Has
<1>7. ASSUME m \in Verdicts \cup {"leftover"}, NEW x \in Verdicts, Has(x)'
      PROVE  FALSE
  <2>1. PICK j \in 1 .. Len(inbox') : inbox'[j] = x
    BY <1>7 DEF Has
  <2>2. j + 1 \in 1 .. Len(inbox) /\ inbox[j + 1] \in Verdicts
    BY <1>2, <1>7, <2>1
  <2>3. j + 1 <= 1
    BY <1>1, <1>3, <1>6, <1>7, <2>2
  <2> QED BY <1>1, <1>2, <2>3
<1> QED BY <1>1, <1>2, <1>4, <1>5, <1>6, <1>7 DEF Verdicts

\* A handler's first step.
LEMMA TakeStep ==
    ASSUME Inv, NEW m, Take(m), live' = live, configured' = configured, log' = log,
           spent' \in SpentType, Good(disk', w'),
           CallPending' => CallAt(disk', w'),
           w'.pc \in {"noteRow", "leftoverRow", "leftoverFail"} => live.note \in Notes
    PROVE  Inv'
<1>1. /\ inbox' \in Seq(Msgs) /\ \A x : Has(x)' => Has(x)
      /\ \A i, j \in 1 .. Len(inbox') :
            inbox'[i] \in Verdicts \cup {"leftover"} /\ inbox'[j] \in Verdicts => j <= i
  BY TakeFacts
<1>2. InboxInv'
  BY <1>1 DEF Inv, InboxInv
<1>3. SessionInv'
  BY <1>1 DEF Inv, SessionInv
<1>4. CallPending' => CallPending
  BY <1>1 DEF CallPending
<1>5. CallAt(disk, w)'
  BY <1>4 DEF CallAt, Untouched
<1>6. Types'
  BY <1>1 DEF Types, Inv, Good, Kept
<1>7. Good(disk, w)'
  BY DEF Good, Kept, RowAt, ClaimAt, Started, Alive
<1> QED BY <1>2, <1>3, <1>5, <1>6, <1>7 DEF Inv

\* A handler that starts with a write.  After a verdict nothing is pending; before
\* it the recording stays as the live session made it.
LEMMA TakeWrite ==
    ASSUME Inv, NEW m, Take(m), UNCHANGED <<live, configured, log>>,
           NEW kind, NEW saved, NEW good, NEW bad, Write(kind, saved, good, bad),
           Good(saved, good), Good(disk, bad), Delivers(saved),
           \/ m \in Verdicts \cup {"leftover"}
           \/ CallPending => CallAt(saved, good) /\ CallAt(disk, bad),
           {good.pc, bad.pc} \cap {"noteRow", "leftoverRow", "leftoverFail"} # {}
              => live.note \in Notes
    PROVE  Inv' /\ Delivers(disk')
<1>1. PICK ok \in BOOLEAN : /\ Outcome(kind, ok)
                            /\ disk' = IF ok THEN saved ELSE disk
                            /\ w' = IF ok THEN good ELSE bad
  BY DEF Write
<1>2. spent' \in SpentType
  BY <1>1, SpentOk DEF Inv, Types
<1>3. CallPending' => CallPending /\ m \notin Verdicts \cup {"leftover"}
  <2>1. \A x : Has(x)' => Has(x)
    BY TakeFacts
  <2>2. m \in Verdicts \cup {"leftover"} => ~ Has("process")' /\ ~ Has("discarded")' /\ ~ live.call
    BY TakeFacts DEF Inv, InboxInv, Verdicts
  <2> QED BY <2>1, <2>2 DEF CallPending
<1>4. CASE ok
  <2>1. disk' = saved /\ w' = good
    BY <1>1, <1>4
  <2>2. CallPending' => CallAt(disk', w')
    BY <1>3, <2>1
  <2> QED BY <1>2, <2>1, <2>2, TakeStep
<1>5. CASE ~ ok
  <2>1. disk' = disk /\ w' = bad
    BY <1>1, <1>5
  <2>2. CallPending' => CallAt(disk', w')
    BY <1>3, <2>1
  <2>3. Good(disk', w')
    BY <2>1
  <2>4. Delivers(disk')
    BY <2>1, SameRow
  <2> QED BY <1>2, <2>1, <2>2, <2>3, <2>4, TakeStep
<1> QED BY <1>4, <1>5

\* A message with nothing to do.
LEMMA TakeIdle ==
    ASSUME Inv, NEW m, Take(m), UNCHANGED <<live, configured, log>>, Goto(Idle)
    PROVE  Inv' /\ Delivers(disk')
<1>1. w' = Idle /\ disk' = disk /\ spent' = spent
  BY DEF Goto
<1>2. Good(disk', w') /\ Delivers(disk') /\ w'.pc = "idle"
  BY <1>1, IdleGood, IdleOk, SameRow
<1>3. CallPending' => CallAt(disk', w')
  <2>1. CallPending' => CallPending
    BY TakeFacts DEF CallPending
  <2> QED BY <1>1, <2>1, IdleOk DEF Inv, CallAt
<1> QED BY <1>1, <1>2, <1>3, TakeStep DEF Inv, Types

-----------------------------------------------------------------------------
(* Messages                                                                 *)

\* A row that is made when there is none.
LEMMA MakesRow ==
    ASSUME Inv
    PROVE  LET d == [disk EXCEPT !.row = IF @ = NoRow THEN NewRow ELSE @]
           IN /\ d \in DiskType /\ d.job = disk.job /\ d.ckpt = disk.ckpt
              /\ d.row = (IF disk.row = NoRow THEN NewRow ELSE disk.row)
              /\ d.row.status # "none" /\ Delivers(d)
              /\ (Started(d) => Started(disk)) /\ Kept(d, Idle)
<1> DEFINE d == [disk EXCEPT !.row = IF @ = NoRow THEN NewRow ELSE @]
<1>1. /\ d \in DiskType /\ d.job = disk.job /\ d.ckpt = disk.ckpt
      /\ d.row = IF disk.row = NoRow THEN NewRow ELSE disk.row
  BY Here, RowsOk DEF DiskType
<1> HIDE DEF d
<1>2. d.row.status # "none" /\ (Started(d) => Started(disk))
  BY <1>1, Here, RowsOk DEF Started
<1>3. Delivers(d)
  BY <1>1, Here, SameRow, RowsOk DEF Delivers, Open, InProgress, Settled
<1>4. Kept(d, Idle)
  <2>1. disk.row = NoRow => disk.job = NoJob
    BY Here DEF Good, Kept
  <2> QED BY <1>1, <1>2, <2>1, Here, IdleOk, RowsOk, NoJobFacts DEF Good, Kept, Started, Alive
<1> QED BY <1>1, <1>2, <1>3, <1>4 DEF d

LEMMA ProcessKeeps == Inv /\ Process => Inv' /\ Delivers(disk')
<1> SUFFICES ASSUME Inv, Process PROVE Inv' /\ Delivers(disk')
  OBVIOUS
<1> DEFINE d == [disk EXCEPT !.row = IF @ = NoRow THEN NewRow ELSE @]
<1>1. /\ Take("process") /\ UNCHANGED <<live, configured, log>>
      /\ Write("row", d, To("collect"), To("collectLost"))
  BY DEF Process
<1>2. w.pc = "idle" /\ Untouched(disk)
  BY <1>1, TakeFacts DEF Inv, CallAt, CallPending
<1>3. /\ d \in DiskType /\ d.job = disk.job /\ d.ckpt = disk.ckpt
      /\ d.row = (IF disk.row = NoRow THEN NewRow ELSE disk.row)
      /\ d.row.status # "none" /\ Delivers(d) /\ (Started(d) => Started(disk)) /\ Kept(d, Idle)
  BY MakesRow
<1> HIDE DEF d
<1>4. "collect" \in Pcs /\ "collectLost" \in Pcs /\ w.claim = NoJob /\ ~ Started(disk)
  BY <1>2, Here DEF Pcs, Good, ClaimAt, Unclaimed, Untouched, Started, InProgress
<1>5. d.row.status \in Open
  BY <1>2, <1>3, RowsOk DEF Untouched, Open, InProgress
<1>6. Good(d, To("collect")) /\ To("collect").pc = "collect"
  BY <1>2, <1>3, <1>4, <1>5, Here, Moves
     DEF Good, Kept, RowAt, ClaimAt, OpenPcs, Unclaimed, Shared, Untouched
<1>7. Good(disk, To("collectLost")) /\ To("collectLost").pc = "collectLost"
  BY <1>4, Here, Moves DEF Good, Kept, RowAt, ClaimAt, OpenPcs, Unclaimed, Shared
<1> QED BY <1>1, <1>3, <1>6, <1>7, TakeWrite DEF Verdicts

\* The session is joined: it is gone, its note is not.
LEMMA CollectStep ==
    ASSUME Inv, Collected, inbox' = inbox, configured' = configured, log' = log,
           spent' \in SpentType, Good(disk', w'), ~ CallPending,
           w'.pc \notin {"noteRow", "leftoverRow", "leftoverFail"}
    PROVE  Inv'
<1>1. /\ live \in LiveType /\ live' = [live EXCEPT !.state = "none"]
  BY DEF Collected, Inv, Types
<1>2. /\ live' \in LiveType /\ live'.call = live.call /\ live'.note = live.note
      /\ live'.filed = live.filed /\ live'.state = "none"
  BY <1>1 DEF LiveType
<1>3. InboxInv' /\ SessionInv' /\ CallPending' = CallPending
  BY <1>2 DEF Inv, InboxInv, SessionInv, CallPending, Has
<1>4. Types'
  BY <1>2 DEF Types, Inv, Good, Kept
<1>5. Good(disk, w)'
  BY DEF Good, Kept, RowAt, ClaimAt, Started, Alive
<1>6. CallAt(disk, w)'
  BY <1>3 DEF CallAt
<1> QED BY <1>3, <1>4, <1>5, <1>6 DEF Inv

LEMMA CollectFiledKeeps == Inv /\ CollectFiled => Inv' /\ Delivers(disk')
<1> SUFFICES ASSUME Inv, CollectFiled PROVE Inv' /\ Delivers(disk')
  OBVIOUS
<1> DEFINE note == [note |-> live.note, canonical |-> TRUE]
           ck == [disk.ckpt EXCEPT !.valid = TRUE, !.note = live.note, !.canonical = TRUE]
           v == [To("clean") EXCEPT !.note = note, !.ck = ck]
<1>1. /\ w.pc = "collect" /\ Collected /\ live.filed /\ UNCHANGED <<inbox, configured, log>>
      /\ w' = v /\ disk' = disk /\ spent' = spent
  BY DEF CollectFiled, At, Goto
<1>2. ~ CallPending /\ w.claim = NoJob /\ live.note \in Notes
  BY <1>1, Here, Away DEF Good, ClaimAt, Unclaimed, Inv, SessionInv
<1>3. note \in Owned /\ WellOwned(note) /\ ck \in Ckpt /\ WellOwned(ck)
  BY <1>2, Here, NoNoteAssumption DEF Owned, WellOwned, Ckpt
<1> HIDE DEF note, ck
<1>4. /\ v \in WorkerType /\ v.pc = "clean" /\ v.claim = w.claim /\ v.note = note
      /\ v.err = w.err /\ v.ck = ck
  <2>1. "clean" \in Pcs
    BY DEF Pcs
  <2>2. To("clean") \in WorkerType
    BY <2>1, Here, Moves
  <2> QED BY <1>3, <2>1, <2>2, Here, Moves DEF WorkerType
<1> HIDE DEF v
<1>5. Good(disk, v)
  BY <1>1, <1>2, <1>3, <1>4, Here DEF Good, Kept, RowAt, ClaimAt, OpenPcs, Unclaimed, Shared
<1>6. Good(disk', w') /\ w'.pc = "clean" /\ Delivers(disk')
  BY <1>1, <1>4, <1>5, SameRow
<1> QED BY <1>1, <1>2, <1>6, CollectStep DEF Inv, Types

LEMMA CollectBatchKeeps == Inv /\ CollectBatch => Inv' /\ Delivers(disk')
<1> SUFFICES ASSUME Inv, CollectBatch PROVE Inv' /\ Delivers(disk')
  OBVIOUS
<1> DEFINE note == IF HadSession THEN live.note ELSE NoNote
           payload == [Blank EXCEPT !.note = note, !.origin = FirstOrigin,
                                    !.first = FreshBatch, !.finished = TRUE]
           max == IF HadSession \/ FreshBatch THEN Retries + 1 ELSE Retries
           d == Arm(payload, max)
           v == FailWith("unarmed", Partial(note))
<1>1. /\ w.pc = "collect" /\ Collected /\ UNCHANGED <<inbox, configured, log>>
      /\ Write("job", d, Idle, v)
  BY DEF CollectBatch, At
<1>2. /\ ~ CallPending /\ w.claim = NoJob /\ disk.job = NoJob /\ ~ Started(disk)
      /\ disk.row.status \in Open
  BY <1>1, Here, Away DEF Good, RowAt, OpenPcs, ClaimAt, Unclaimed
<1>3. note \in Notes \cup {NoNote} /\ max \in Nat
  BY BoundsAssumption DEF Inv, Types, LiveType
<1>4. payload \in Payload /\ WellOwned(payload)
  <2>1. FirstOrigin \in Backends \cup {Unknown} /\ FreshBatch \in BOOLEAN
    BY BackendsAssumption, Here
       DEF FirstOrigin, FreshBatch, HadSession, Inv, Types, DiskType, RowType
  <2> HIDE DEF note
  <2> QED BY <1>3, <2>1 DEF Blank, Payload, WellOwned
<1> HIDE DEF payload, max
<1>5. /\ d \in DiskType /\ d.ckpt = disk.ckpt /\ d.row = disk.row /\ JobOk(d.job)
      /\ d.job # NoJob /\ d.job.state = "pending"
  BY <1>2, <1>3, <1>4, Arms
<1>6. /\ v \in WorkerType /\ v.pc = "fail" /\ v.claim = w.claim /\ WellOwned(v.note)
      /\ v.err = w.err /\ v.ck = w.ck /\ v.why = "unarmed"
  <2>1. Partial(note) \in Owned /\ WellOwned(Partial(note)) /\ "unarmed" \in Reasons
    BY <1>3, OwnedOk DEF Reasons
  <2> QED BY <2>1, Here, FailsWith
<1> HIDE DEF d, v
<1>7. Good(d, Idle)
  BY <1>2, <1>5, Here, IdleOk
     DEF Good, Kept, RowAt, ClaimAt, OpenPcs, Unclaimed, Shared, Alive, Open, InProgress
<1>8. Good(disk, v)
  BY <1>1, <1>2, <1>6, Here DEF Good, Kept, RowAt, ClaimAt, OpenPcs, Unclaimed, Shared
<1>9. PICK ok \in BOOLEAN : /\ Outcome("job", ok)
                            /\ disk' = IF ok THEN d ELSE disk
                            /\ w' = IF ok THEN Idle ELSE v
  BY <1>1 DEF Write
<1>10. spent' \in SpentType
  BY <1>9, SpentOk DEF Inv, Types
<1>11. Good(disk', w') /\ Delivers(disk') /\ w'.pc \in {"idle", "fail"}
  BY <1>5, <1>6, <1>7, <1>8, <1>9, SameRow, IdleOk
<1> QED BY <1>1, <1>2, <1>10, <1>11, CollectStep

LEMMA CollectLostKeeps == Inv /\ CollectLost => Inv' /\ Delivers(disk')
<1> SUFFICES ASSUME Inv, CollectLost PROVE Inv' /\ Delivers(disk')
  OBVIOUS
<1> DEFINE v == [To("close") EXCEPT !.note = Partial(live.note), !.why = "unarmed"]
<1>1. /\ w.pc = "collectLost" /\ Collected /\ UNCHANGED <<inbox, configured, log>>
      /\ w' \in {v, Idle} /\ disk' = disk /\ spent' = spent
  BY DEF CollectLost, At, Goto
<1>2. ~ CallPending /\ w.claim = NoJob /\ live.note \in Notes \cup {NoNote}
  BY <1>1, Here, Away DEF Good, ClaimAt, Unclaimed, Inv, Types, LiveType
<1>3. /\ v \in WorkerType /\ v.pc = "close" /\ v.claim = w.claim /\ WellOwned(v.note)
      /\ v.err = w.err /\ v.ck = w.ck /\ v.why = "unarmed"
  <2>1. "close" \in Pcs /\ "unarmed" \in Reasons
    BY DEF Pcs, Reasons
  <2>2. To("close") \in WorkerType
    BY <2>1, Here, Moves
  <2>3. Partial(live.note) \in Owned /\ WellOwned(Partial(live.note))
    BY <1>2, OwnedOk
  <2> HIDE DEF Partial
  <2> QED BY <2>1, <2>2, <2>3, Here, Moves DEF WorkerType
<1> HIDE DEF v
<1>4. Good(disk, v)
  BY <1>2, <1>3, Here DEF Good, Kept, RowAt, ClaimAt, OpenPcs, Unclaimed, Shared
<1>5. Good(disk', w') /\ w'.pc \in {"idle", "close"} /\ Delivers(disk')
  BY <1>1, <1>3, <1>4, IdleGood, IdleOk, SameRow
<1> QED BY <1>1, <1>2, <1>5, CollectStep DEF Inv, Types

LEMMA ScheduleKeeps == Inv /\ Schedule => Inv' /\ Delivers(disk')
<1> SUFFICES ASSUME Inv, Schedule PROVE Inv' /\ Delivers(disk')
  OBVIOUS
<1> DEFINE note == Or(w.err, Or(OwnedNote(disk.ckpt), w.note))
           payload == [Blank EXCEPT !.note = note.note, !.canonical = note.canonical,
                                    !.origin = Local]
           d == Arm(payload, Retries)
           v == [To("scheduleRow") EXCEPT !.note = note]
           u == FailWith("unarmed", note)
<1>1. w.pc = "schedule" /\ Inside /\ Write("job", d, v, u)
  BY DEF Schedule, At
<1>2. /\ ~ CallPending /\ w.claim = NoJob /\ disk.job = NoJob /\ ~ Started(disk)
      /\ disk.row.status \in Open
  BY <1>1, Here, Away DEF Good, RowAt, OpenPcs, ClaimAt, Unclaimed
<1>3. note \in Owned /\ WellOwned(note)
  BY Here, OwnedOk DEF Good, Kept
<1> HIDE DEF note
<1>4. payload \in Payload /\ WellOwned(payload)
  BY <1>3, BackendsAssumption DEF Blank, Payload, WellOwned, Owned
<1> HIDE DEF payload
<1>5. /\ d \in DiskType /\ d.ckpt = disk.ckpt /\ d.row = disk.row /\ JobOk(d.job)
      /\ d.job # NoJob /\ d.job.state = "pending"
  BY <1>2, <1>4, Arms, BoundsAssumption
<1>6. /\ u \in WorkerType /\ u.pc = "fail" /\ u.claim = w.claim /\ u.note = note
      /\ u.err = w.err /\ u.ck = w.ck /\ u.why = "unarmed"
  <2>1. "unarmed" \in Reasons
    BY DEF Reasons
  <2> QED BY <1>3, <2>1, Here, FailsWith
<1>7. /\ v \in WorkerType /\ v.pc = "scheduleRow" /\ v.claim = w.claim /\ v.note = note
      /\ v.err = w.err /\ v.ck = w.ck
  <2>1. "scheduleRow" \in Pcs
    BY DEF Pcs
  <2>2. To("scheduleRow") \in WorkerType
    BY <2>1, Here, Moves
  <2> QED BY <1>3, <2>1, <2>2, Here, Moves DEF WorkerType
<1> HIDE DEF d, u, v
<1>8. Good(d, v)
  BY <1>2, <1>3, <1>5, <1>7, Here
     DEF Good, Kept, RowAt, ClaimAt, OpenPcs, Unclaimed, Shared, Alive, Open, InProgress
<1>9. Good(disk, u)
  BY <1>1, <1>2, <1>3, <1>6, Here DEF Good, Kept, RowAt, ClaimAt, OpenPcs, Unclaimed, Shared
<1>10. Delivers(d)
  BY <1>5, SameRow
<1> QED BY <1>1, <1>2, <1>6, <1>7, <1>8, <1>9, <1>10, WriteStep, Here

LEMMA ScheduleRowKeeps == Inv /\ ScheduleRow => Inv' /\ Delivers(disk')
<1> SUFFICES ASSUME Inv, ScheduleRow PROVE Inv' /\ Delivers(disk')
  OBVIOUS
<1> DEFINE d == SetRow(RetryStatus, w.note.note)
<1>1. w.pc = "scheduleRow" /\ Inside /\ Write("row", d, Idle, Idle)
  BY DEF ScheduleRow, At
<1>2. ~ CallPending /\ Alive(disk) /\ disk.row.status \in Open /\ w.note.note \in Notes \cup {NoNote}
  BY <1>1, Here, Away DEF Good, RowAt, OpenPcs, ClaimAt, Owned
<1>3. Good(d, Idle) /\ Delivers(d)
  BY <1>2, RetryStatusOk, OpensRow
<1> HIDE DEF d
<1> QED BY <1>1, <1>2, <1>3, IdleGood, IdleOk, WriteStep, Here

LEMMA NoteCreatedKeeps == Inv /\ NoteCreated => Inv' /\ Delivers(disk')
<1> SUFFICES ASSUME Inv, NoteCreated PROVE Inv' /\ Delivers(disk')
  OBVIOUS
<1>1. Take("note") /\ UNCHANGED <<live, configured, log>>
  BY DEF NoteCreated
<1>2. w.pc = "idle" /\ live.note \in Notes /\ w.claim = NoJob
  BY <1>1, TakeFacts, Here DEF Inv, SessionInv, Good, ClaimAt, Unclaimed
<1>3. CallPending => CallAt(disk, Idle)
  BY IdleOk DEF Inv, CallAt
<1>4. CASE disk.row # NoRow /\ Write("row", SetRow(disk.row.status, live.note), Idle, Idle)
  <2> DEFINE d == SetRow(disk.row.status, live.note)
  <2>1. /\ d \in DiskType /\ d.job = disk.job /\ d.ckpt = disk.ckpt
        /\ d.row.status = disk.row.status /\ d.row.attempted = disk.row.attempted
        /\ d.row.note = live.note
    BY <1>2, Here, SetsRow, NoNoteAssumption
  <2> HIDE DEF d
  <2>2. Good(d, Idle)
    BY <1>4, <2>1, Here, IdleOk
       DEF Good, Kept, RowAt, ClaimAt, OpenPcs, Unclaimed, Shared, Started, Alive
  <2>3. Delivers(d)
    BY <1>2, <1>4, <2>1, Here DEF Delivers, Open, InProgress, Settled
  <2>4. CallPending => CallAt(d, Idle)
    BY <2>1, IdleOk DEF Inv, CallAt, Untouched
  <2>5. Write("row", d, Idle, Idle)
    BY <1>4 DEF d
  <2> QED BY <1>1, <1>2, <1>3, <2>2, <2>3, <2>4, <2>5, IdleGood, TakeWrite
<1>5. CASE disk.row = NoRow /\ Write("row", [disk EXCEPT !.row = NewRow], To("noteRow"), Idle)
  <2> DEFINE d == [disk EXCEPT !.row = NewRow]
  <2>1. d \in DiskType /\ d.job = disk.job /\ d.ckpt = disk.ckpt /\ d.row = NewRow
    BY Here, RowsOk DEF DiskType
  <2> HIDE DEF d
  <2>2. disk.job = NoJob
    BY <1>5, Here DEF Good, Kept
  <2>3. "noteRow" \in Pcs /\ To("noteRow").pc = "noteRow"
    BY Here, Moves DEF Pcs
  <2>4. Good(d, To("noteRow"))
    BY <1>2, <2>1, <2>2, <2>3, Here, Moves, RowsOk, NoJobFacts
       DEF Good, Kept, RowAt, ClaimAt, OpenPcs, Unclaimed, Shared, Started
  <2>5. Delivers(d)
    BY <1>5, <2>1, RowsOk DEF Delivers, Open, InProgress, Settled
  <2>6. CallPending => CallAt(d, To("noteRow"))
    BY <1>2, <2>1, <2>2, <2>3, RowsOk DEF Inv, CallAt, Untouched
  <2>7. Write("row", d, To("noteRow"), Idle)
    BY <1>5 DEF d
  <2> QED BY <1>1, <1>2, <1>3, <2>4, <2>5, <2>6, <2>7, IdleGood, TakeWrite
<1>6. CASE Goto(Idle)
  BY <1>1, <1>6, TakeIdle
<1> QED BY <1>4, <1>5, <1>6 DEF NoteCreated

LEMMA NoteRowKeeps == Inv /\ NoteRow => Inv' /\ Delivers(disk')
<1> SUFFICES ASSUME Inv, NoteRow PROVE Inv' /\ Delivers(disk')
  OBVIOUS
<1> DEFINE d == SetRow("Recording", live.note)
<1>1. w.pc = "noteRow" /\ Inside /\ Write("row", d, Idle, Idle)
  BY DEF NoteRow, At
<1>2. live.note \in Notes /\ disk.row = NewRow /\ "Recording" \in Statuses
  BY <1>1, Here DEF Inv, CallAt, Good, RowAt, Statuses
<1>3. /\ d \in DiskType /\ d.job = disk.job /\ d.ckpt = disk.ckpt
      /\ d.row.status = "Recording" /\ d.row.attempted = disk.row.attempted
      /\ d.row.note = live.note
  BY <1>2, Here, SetsRow, NoNoteAssumption
<1> HIDE DEF d
<1>4. Good(d, Idle)
  <2>1. disk.job.state # "failed"
    BY <1>2, Here, RowsOk DEF Good, Kept, Settled
  <2> QED BY <1>3, <2>1, Here, IdleOk
       DEF Good, Kept, RowAt, ClaimAt, OpenPcs, Unclaimed, Shared, Started, InProgress
<1>5. Delivers(d)
  BY <1>2, <1>3, RowsOk DEF Delivers, Open, InProgress, Settled
<1>6. CallAt(d, Idle) /\ CallAt(disk, Idle)
  BY <1>1, <1>3, IdleOk DEF Inv, CallAt, Untouched
<1> QED BY <1>1, <1>4, <1>5, <1>6, IdleGood, WriteStep, Here

LEMMA DiscardedKeeps == Inv /\ Discarded => Inv' /\ Delivers(disk')
<1> SUFFICES ASSUME Inv, Discarded PROVE Inv' /\ Delivers(disk')
  OBVIOUS
<1> DEFINE d == [disk EXCEPT !.job = NoJob]
<1>1. /\ Take("discarded") /\ UNCHANGED <<live, configured, log>>
      /\ Write("job", d, To("discardRow"), To("discardRow"))
  BY DEF Discarded
<1>2. w.pc = "idle" /\ Untouched(disk)
  BY <1>1, TakeFacts DEF Inv, CallAt, CallPending
<1>3. d \in DiskType /\ d.job = NoJob /\ d.ckpt = disk.ckpt /\ d.row = disk.row
  BY Here, SetsJob
<1> HIDE DEF d
<1>4. "discardRow" \in Pcs /\ w.claim = NoJob /\ To("discardRow").pc = "discardRow"
  BY <1>2, Here, Moves DEF Pcs, Good, ClaimAt, Unclaimed
<1>5. Good(disk, To("discardRow"))
  BY <1>4, Here, Moves DEF Good, Kept, RowAt, ClaimAt, OpenPcs, Unclaimed, Shared
<1>6. Good(d, To("discardRow"))
  BY <1>2, <1>3, <1>4, Here, Moves, NoJobFacts
     DEF Good, Kept, RowAt, ClaimAt, OpenPcs, Unclaimed, Shared, Untouched, Started, InProgress
<1>7. Delivers(d)
  BY <1>3, SameRow
<1> QED BY <1>1, <1>4, <1>5, <1>6, <1>7, TakeWrite DEF Verdicts

\* The row becomes terminal, and the job does not matter any more.
LEMMA FailsRow ==
    ASSUME Inv, disk.row.status \notin {"none", "Done"}, NEW n \in Notes \cup {NoNote}
    PROVE  Good(SetRow("Failed", n), Idle) /\ Delivers(SetRow("Failed", n))
<1> DEFINE d == SetRow("Failed", n)
<1>1. /\ d \in DiskType /\ d.job = disk.job /\ d.ckpt = disk.ckpt
      /\ d.row.status = "Failed" /\ d.row.note \in Notes \cup {disk.row.note}
  <2>1. "Failed" \in Statuses
    BY DEF Statuses, Settled
  <2> QED BY <2>1, Here, SetsRow
<1> HIDE DEF d
<1>2. Good(d, Idle)
  BY <1>1, Here, IdleOk
     DEF Good, Kept, RowAt, ClaimAt, OpenPcs, Unclaimed, Shared, Started, InProgress, Settled
<1>3. Delivers(d)
  BY <1>1, Here DEF Delivers, Open, InProgress, Settled, Statuses
<1> QED BY <1>2, <1>3 DEF d

LEMMA DiscardRowKeeps == Inv /\ DiscardRow => Inv' /\ Delivers(disk')
<1> SUFFICES ASSUME Inv, DiscardRow PROVE Inv' /\ Delivers(disk')
  OBVIOUS
<1>1. w.pc = "discardRow" /\ Inside
  BY DEF DiscardRow, At
<1>2. ~ CallPending
  BY <1>1, Away
<1>3. CASE Goto(Idle)
  BY <1>1, <1>2, <1>3, IdleGood, IdleOk, GotoStep, Here
<1>4. CASE /\ disk.row.status \notin Settled \cup {"none"}
           /\ Write("row", SetStatus("Failed"), Idle, Idle)
  <2>1. Good(SetStatus("Failed"), Idle) /\ Delivers(SetStatus("Failed"))
    BY <1>4, FailsRow, StatusIsRow, Here DEF Settled
  <2> QED BY <1>1, <1>2, <1>4, <2>1, IdleGood, IdleOk, WriteStep, Here
<1> QED BY <1>3, <1>4 DEF DiscardRow

LEMMA LeftoverKeeps == Inv /\ Leftover => Inv' /\ Delivers(disk')
<1> SUFFICES ASSUME Inv, Leftover PROVE Inv' /\ Delivers(disk')
  OBVIOUS
<1> DEFINE d == SetNote(live.note, "absent")
<1>1. /\ Take("leftover") /\ UNCHANGED <<live, configured, log>>
      /\ Write("note", d, Idle, To("leftoverRow"))
  BY DEF Leftover
<1>2. w.pc = "idle" /\ live.note \in Notes
  BY <1>1, TakeFacts DEF Inv, SessionInv
<1>3. d \in DiskType /\ d.job = disk.job /\ d.ckpt = disk.ckpt /\ d.row = disk.row
  BY Here, SetsNote DEF Contents
<1> HIDE DEF d
<1>4. "leftoverRow" \in Pcs /\ w.claim = NoJob /\ To("leftoverRow").pc = "leftoverRow"
  BY <1>2, Here, Moves DEF Pcs, Good, ClaimAt, Unclaimed
<1>5. Good(disk, To("leftoverRow"))
  BY <1>4, Here, Moves DEF Good, Kept, RowAt, ClaimAt, OpenPcs, Unclaimed, Shared
<1>6. Good(d, Idle)
  BY <1>3, Here, IdleOk
     DEF Good, Kept, RowAt, ClaimAt, OpenPcs, Unclaimed, Shared, Started, Alive
<1>7. Delivers(d)
  BY <1>3, SameRow
<1> QED BY <1>1, <1>2, <1>5, <1>6, <1>7, TakeWrite DEF Verdicts

LEMMA ClosesLeftoverOk ==
    ASSUME Inv, w.claim = NoJob
    PROVE  LET v == ClosesLeftover
           IN /\ v \in WorkerType /\ v.pc = "close" /\ v.claim = NoJob /\ WellOwned(v.note)
              /\ v.err = w.err /\ v.ck = w.ck /\ v.why = "unarmed" /\ Good(disk, v)
<1> DEFINE v == ClosesLeftover
<1>1. /\ v \in WorkerType /\ v.pc = "close" /\ v.claim = NoJob /\ WellOwned(v.note)
      /\ v.err = w.err /\ v.ck = w.ck /\ v.why = "unarmed"
  <2>1. "close" \in Pcs /\ "unarmed" \in Reasons
    BY DEF Pcs, Reasons
  <2>2. To("close") \in WorkerType
    BY <2>1, Here, Moves
  <2>3. Partial(live.note) \in Owned /\ WellOwned(Partial(live.note))
    BY OwnedOk DEF Inv, Types, LiveType
  <2> QED BY <2>1, <2>2, <2>3, Here, Moves DEF WorkerType, ClosesLeftover
<1> HIDE DEF v
<1>2. Good(disk, v)
  BY <1>1, Here DEF Good, Kept, RowAt, ClaimAt, OpenPcs, Unclaimed, Shared
<1> QED BY <1>1, <1>2 DEF v

LEMMA LeftoverRowKeeps == Inv /\ LeftoverRow => Inv' /\ Delivers(disk')
<1> SUFFICES ASSUME Inv, LeftoverRow PROVE Inv' /\ Delivers(disk')
  OBVIOUS
<1> DEFINE d == [disk EXCEPT !.row = IF @ = NoRow THEN NewRow ELSE @]
           v == IF disk.row.status = "Done" THEN ClosesLeftover ELSE To("leftoverFail")
<1>1. w.pc = "leftoverRow" /\ Inside /\ Write("row", d, v, ClosesLeftover)
  BY DEF LeftoverRow, At
<1>2. ~ CallPending /\ live.note \in Notes /\ w.claim = NoJob
  BY <1>1, Away, Here DEF Inv, CallAt, Good, ClaimAt, Unclaimed
<1>3. /\ d \in DiskType /\ d.job = disk.job /\ d.ckpt = disk.ckpt
      /\ d.row = (IF disk.row = NoRow THEN NewRow ELSE disk.row)
      /\ d.row.status # "none" /\ Delivers(d) /\ Kept(d, Idle)
  BY MakesRow
<1> HIDE DEF d
<1>4. /\ v \in WorkerType /\ v.pc \in {"close", "leftoverFail"} /\ v.claim = NoJob
      /\ WellOwned(v.note) /\ v.err = w.err /\ v.ck = w.ck
      /\ v.pc = "close" => v.why = "unarmed"
      /\ v.pc = "leftoverFail" => disk.row.status # "Done"
  <2>1. "leftoverFail" \in Pcs /\ WellOwned(w.note)
    BY Here DEF Pcs, Good, Kept
  <2> QED BY <1>2, <2>1, Here, Moves, ClosesLeftoverOk
<1> HIDE DEF v
<1>5. Good(d, v)
  BY <1>3, <1>4, Here, RowsOk
     DEF Good, Kept, RowAt, ClaimAt, OpenPcs, Unclaimed, Shared
<1>6. CallAt(d, v) /\ CallAt(disk, ClosesLeftover)
  BY <1>2, <1>4, ClosesLeftoverOk DEF CallAt
<1> QED BY <1>1, <1>2, <1>3, <1>5, <1>6, ClosesLeftoverOk, WriteStep, Here

LEMMA LeftoverFailKeeps == Inv /\ LeftoverFail => Inv' /\ Delivers(disk')
<1> SUFFICES ASSUME Inv, LeftoverFail PROVE Inv' /\ Delivers(disk')
  OBVIOUS
<1> DEFINE d == SetRow("Failed", live.note)
<1>1. w.pc = "leftoverFail" /\ Inside /\ Write("row", d, ClosesLeftover, ClosesLeftover)
  BY DEF LeftoverFail, At
<1>2. /\ ~ CallPending /\ live.note \in Notes /\ w.claim = NoJob
      /\ disk.row.status \notin {"none", "Done"}
  BY <1>1, Away, Here DEF Inv, CallAt, Good, RowAt, ClaimAt, Unclaimed
<1>3. Good(d, Idle) /\ Delivers(d)
  BY <1>2, FailsRow
<1> HIDE DEF d
<1>4. Good(d, ClosesLeftover) /\ ClosesLeftover.pc = "close"
  BY <1>2, <1>3, Here, ClosesLeftoverOk
     DEF Good, Kept, RowAt, ClaimAt, OpenPcs, Unclaimed, Shared
<1> QED BY <1>1, <1>2, <1>3, <1>4, ClosesLeftoverOk, WriteStep, Here

LEMMA RearmedOk ==
    ASSUME Inv
    PROVE  /\ JobOk(Rearmed) /\ Rearmed.state \in {"pending", "running"} /\ Rearmed # NoJob
           /\ ~ Rearmed.payload.first
           /\ Rearmed.payload.origin = IF disk.job = NoJob THEN DurableOrigin
                                       ELSE disk.job.payload.origin
           /\ \/ Rearmed.attempts = 0 /\ Rearmed.max = Retries
              \/ /\ disk.job # NoJob /\ Rearmed.attempts = disk.job.attempts
                 /\ Rearmed.max = disk.job.max
<1> DEFINE payload == [Blank EXCEPT !.origin = DurableOrigin]
<1>1. DurableOrigin \in Backends \cup {Unknown}
  BY Here DEF DurableOrigin, Ckpt, Good, Kept, JobOk, Job, Payload
<1>2. payload \in Payload /\ WellOwned(payload) /\ payload.origin = DurableOrigin
  BY <1>1, BlankOk DEF Payload, WellOwned, Blank
<1> HIDE DEF payload
<1>3. Rearmed = IF disk.job = NoJob THEN NewJob(Consumed(payload), Retries)
                                    ELSE RearmOn(disk.job, payload, Retries)
  BY DEF Rearmed, payload
<1>4. CASE disk.job = NoJob
  BY <1>2, <1>3, <1>4, ConsumedOk, NewJobOk, BoundsAssumption
<1>5. CASE disk.job # NoJob
  <2>1. JobOk(disk.job)
    BY <1>5, Here DEF Good, Kept
  <2> QED BY <1>2, <1>3, <1>5, <2>1, RearmOk, BoundsAssumption
<1> QED BY <1>4, <1>5

LEMMA ManualRetryKeeps == Inv /\ ManualRetry => Inv' /\ Delivers(disk')
<1> SUFFICES ASSUME Inv, ManualRetry PROVE Inv' /\ Delivers(disk')
  OBVIOUS
<1> DEFINE d == [disk EXCEPT !.job = Rearmed, !.row.status = RetryStatus]
<1>1. Take("retry") /\ UNCHANGED <<live, configured, log>>
  BY DEF ManualRetry
<1>2. CASE Goto(Idle)
  BY <1>1, <1>2, TakeIdle
<1>3. CASE disk.row.status = "Failed" /\ Write("job", d, Idle, Idle)
  <2>1. ~ CallPending
    BY <1>3 DEF Inv, CallAt, Untouched
  <2>2. /\ d \in DiskType /\ d.job = Rearmed /\ d.ckpt = disk.ckpt
        /\ d.row.status = RetryStatus /\ d.row.note = disk.row.note
    <3>1. Rearmed \in Job
      BY RearmedOk DEF JobOk
    <3> HIDE DEF Rearmed, RetryStatus
    <3> QED BY <3>1, RetryStatusOk, Here DEF DiskType, RowType
  <2> HIDE DEF d
  <2>3. Good(d, Idle)
    BY <2>2, RearmedOk, RetryStatusOk, Here, IdleOk
       DEF Good, Kept, RowAt, ClaimAt, OpenPcs, Unclaimed, Shared, Alive, InProgress
  <2>4. Delivers(d)
    BY <1>3, <2>2, RetryStatusOk DEF Delivers, Open, InProgress, Settled
  <2>5. Write("job", d, Idle, Idle)
    BY <1>3
  <2> QED BY <1>1, <2>1, <2>3, <2>4, <2>5, IdleGood, IdleOk, TakeWrite
<1> QED BY <1>2, <1>3 DEF ManualRetry

-----------------------------------------------------------------------------
(* The call, the session, the user, the vault and retention                 *)

LEMMA AppendFacts ==
    ASSUME Inv, NEW m \in Msgs, inbox' = Append(inbox, m)
    PROVE  /\ inbox' \in Seq(Msgs)
           /\ \A x : Has(x)' <=> Has(x) \/ x = m
           /\ m \notin Verdicts \/ live.call =>
                \A i, j \in 1 .. Len(inbox') :
                   inbox'[i] \in Verdicts \cup {"leftover"} /\ inbox'[j] \in Verdicts => j <= i
<1>1. inbox \in Seq(Msgs) /\ Len(inbox) \in Nat
  BY DEF Inv, Types
<1>2. /\ inbox' \in Seq(Msgs) /\ Len(inbox') = Len(inbox) + 1 /\ inbox'[Len(inbox) + 1] = m
      /\ \A i \in 1 .. Len(inbox) : inbox'[i] = inbox[i]
  BY <1>1
<1>3. 1 .. Len(inbox') = (1 .. Len(inbox)) \cup {Len(inbox) + 1}
  BY <1>1, <1>2
<1>4. \A x : Has(x)' <=> Has(x) \/ x = m
  BY <1>2, <1>3 DEF Has
<1>5. ASSUME m \notin Verdicts \/ live.call,
             NEW i \in 1 .. Len(inbox'), NEW j \in 1 .. Len(inbox'),
             inbox'[i] \in Verdicts \cup {"leftover"}, inbox'[j] \in Verdicts
      PROVE  j <= i
  <2>1. CASE i = Len(inbox) + 1
    BY <1>1, <1>2, <2>1
  <2>2. CASE i \in 1 .. Len(inbox) /\ j \in 1 .. Len(inbox)
    BY <1>2, <1>5, <2>2 DEF Inv, InboxInv
  <2>3. CASE i \in 1 .. Len(inbox) /\ j = Len(inbox) + 1
    <3>1. live.call /\ inbox[i] \in Verdicts \cup {"leftover"}
      BY <1>2, <1>5, <2>3
    <3>2. Has("process") \/ Has("discarded") \/ Has("leftover")
      BY <2>3, <3>1 DEF Has, Verdicts
    <3> QED BY <3>1, <3>2 DEF Inv, InboxInv
  <2> QED BY <1>3, <2>1, <2>2, <2>3
<1> QED BY <1>2, <1>4, <1>5

\* Notes and audio do not matter to the invariant.
LEMMA OtherFiles ==
    ASSUME Inv, NEW d \in DiskType, d.row = disk.row, d.job = disk.job, d.ckpt = disk.ckpt
    PROVE  /\ Good(d, w) /\ Delivers(d)
           /\ Untouched(disk) => Untouched(d)
<1>1. Good(d, w)
  BY Here DEF Good, Kept, RowAt, ClaimAt, Started, Alive
<1>2. Delivers(d)
  BY SameRow
<1> QED BY <1>1, <1>2 DEF Untouched

\* Steps that leave the thread alone and touch other files at most.
LEMMA AroundStep ==
    ASSUME Inv, w' = w, disk' \in DiskType, disk'.row = disk.row, disk'.job = disk.job,
           disk'.ckpt = disk.ckpt, inbox' \in Seq(Msgs), live' \in LiveType,
           configured' \in Backends, spent' \in SpentType, log' \in LogType,
           InboxInv', SessionInv', CallPending' => CallPending,
           live.note \in Notes => live'.note \in Notes
    PROVE  Inv' /\ Delivers(disk')
<1>1. Good(disk', w) /\ Delivers(disk') /\ (Untouched(disk) => Untouched(disk'))
  BY OtherFiles
<1>2. Good(disk, w)'
  BY <1>1 DEF Good, Kept, RowAt, ClaimAt, Started, Alive
<1>3. CallAt(disk, w)'
  BY <1>1 DEF Inv, CallAt, Untouched
<1>4. Types'
  BY DEF Types, Inv
<1> QED BY <1>1, <1>2, <1>3, <1>4 DEF Inv

LEMMA LiveCreatesKeeps == Inv /\ LiveCreatesNote => Inv' /\ Delivers(disk')
<1> SUFFICES ASSUME Inv, LiveCreatesNote PROVE Inv' /\ Delivers(disk')
  OBVIOUS
<1>1. /\ FreshNotes # {} /\ disk' = SetNote(NewNote, "open")
      /\ live' = [live EXCEPT !.note = NewNote] /\ inbox' = Append(inbox, "note")
      /\ log' = [log EXCEPT !.backends = @ \cup {Local}]
      /\ UNCHANGED <<w, configured, spent>>
  BY DEF LiveCreatesNote
<1>2. NewNote \in Notes
  BY <1>1 DEF NewNote, FreshNotes
<1>3. disk' \in DiskType /\ disk'.row = disk.row /\ disk'.job = disk.job /\ disk'.ckpt = disk.ckpt
  BY <1>1, Here, SetsNote DEF Contents
<1>4. /\ live' \in LiveType /\ live'.note \in Notes /\ live'.call = live.call
      /\ live'.state = live.state /\ live'.filed = live.filed
  BY <1>1, <1>2 DEF Inv, Types, LiveType
<1>5. log' \in LogType
  BY <1>1, Here, BackendsAssumption DEF LogType
<1>6. "note" \in Msgs /\ "note" \notin Verdicts
  BY DEF Msgs, Verdicts
<1>7. /\ inbox' \in Seq(Msgs) /\ \A x : Has(x)' <=> Has(x) \/ x = "note"
      /\ \A i, j \in 1 .. Len(inbox') :
            inbox'[i] \in Verdicts \cup {"leftover"} /\ inbox'[j] \in Verdicts => j <= i
  BY <1>1, <1>6, AppendFacts
<1>8. InboxInv' /\ SessionInv' /\ (CallPending' => CallPending)
  BY <1>4, <1>7 DEF Inv, InboxInv, SessionInv, CallPending
<1> QED BY <1>1, <1>3, <1>4, <1>5, <1>7, <1>8, AroundStep DEF Inv, Types

LEMMA LiveSettlesKeeps ==
    ASSUME NEW filed \in BOOLEAN, Inv, LiveSettles(filed)
    PROVE  Inv' /\ Delivers(disk')
<1>1. /\ live.state = "finishing" /\ (filed => live.note # NoNote)
      /\ disk' = IF filed THEN SetNote(live.note, "whole") ELSE disk
      /\ live' = [live EXCEPT !.state = "ready", !.filed = filed]
      /\ UNCHANGED <<w, inbox, configured, spent, log>>
  BY DEF LiveSettles
<1>2. disk' \in DiskType /\ disk'.row = disk.row /\ disk'.job = disk.job /\ disk'.ckpt = disk.ckpt
  BY <1>1, Here, SetsNote DEF Contents
<1>3. /\ live' \in LiveType /\ live'.note = live.note /\ live'.call = live.call
      /\ live'.state = "ready" /\ live'.filed = filed /\ live.note \in Notes \cup {NoNote}
  BY <1>1 DEF Inv, Types, LiveType
<1>4. InboxInv' /\ SessionInv' /\ (CallPending' => CallPending)
  BY <1>1, <1>3 DEF Inv, InboxInv, SessionInv, CallPending, Has
<1> QED BY <1>1, <1>2, <1>3, <1>4, AroundStep DEF Inv, Types

LEMMA LiveDeletesKeeps == Inv /\ LiveDeletesNote => Inv' /\ Delivers(disk')
<1> SUFFICES ASSUME Inv, LiveDeletesNote PROVE Inv' /\ Delivers(disk')
  OBVIOUS
<1>1. /\ live.state = "discarded" /\ live' = [live EXCEPT !.state = "none"]
      /\ UNCHANGED <<w, configured, log>>
  BY DEF LiveDeletesNote
<1>2. PICK ok \in BOOLEAN :
         /\ Outcome("note", ok)
         /\ disk' = IF ok /\ live.note # NoNote THEN SetNote(live.note, "absent") ELSE disk
         /\ inbox' = IF ok \/ live.note = NoNote THEN inbox ELSE Append(inbox, "leftover")
  BY DEF LiveDeletesNote
<1>3. disk' \in DiskType /\ disk'.row = disk.row /\ disk'.job = disk.job /\ disk'.ckpt = disk.ckpt
  BY <1>2, Here, SetsNote DEF Contents
<1>4. /\ live' \in LiveType /\ live'.note = live.note /\ live'.call = live.call /\ ~ live.call
      /\ live'.state = "none" /\ live'.filed = live.filed /\ live.note \in Notes \cup {NoNote}
  BY <1>1 DEF Inv, Types, LiveType, SessionInv
<1>5. spent' \in SpentType
  BY <1>2, SpentOk DEF Inv, Types
<1>6. /\ inbox' \in Seq(Msgs) /\ InboxInv' /\ SessionInv' /\ (CallPending' => CallPending)
  <2>1. CASE inbox' = inbox
    BY <1>4, <2>1 DEF Inv, Types, InboxInv, SessionInv, CallPending, Has
  <2>2. CASE inbox' = Append(inbox, "leftover") /\ live.note # NoNote
    <3>1. "leftover" \in Msgs /\ "leftover" \notin Verdicts
      BY DEF Msgs, Verdicts
    <3>2. /\ inbox' \in Seq(Msgs) /\ \A x : Has(x)' <=> Has(x) \/ x = "leftover"
          /\ \A i, j \in 1 .. Len(inbox') :
                inbox'[i] \in Verdicts \cup {"leftover"} /\ inbox'[j] \in Verdicts => j <= i
      BY <2>2, <3>1, AppendFacts
    <3> QED BY <1>4, <2>2, <3>2 DEF Inv, InboxInv, SessionInv, CallPending
  <2> QED BY <1>2, <2>1, <2>2
<1> QED BY <1>1, <1>3, <1>4, <1>5, <1>6, AroundStep DEF Inv, Types

LEMMA CallEndsKeeps ==
    ASSUME NEW verdict \in {"process", "discarded"}, Inv, CallEnds(verdict)
    PROVE  Inv' /\ Delivers(disk')
<1> DEFINE state == IF live.state # "running" THEN live.state
                    ELSE IF verdict = "process" THEN "finishing" ELSE "discarded"
<1>1. /\ live.call /\ live' = [live EXCEPT !.call = FALSE, !.state = state]
      /\ disk' = [disk EXCEPT !.audio = (verdict = "process")]
      /\ inbox' = Append(inbox, verdict)
      /\ UNCHANGED <<w, configured, spent, log>>
  BY DEF CallEnds, Inv, Types, LiveType
<1>2. disk' \in DiskType /\ disk'.row = disk.row /\ disk'.job = disk.job /\ disk'.ckpt = disk.ckpt
  BY <1>1, Here DEF DiskType
<1>3. /\ live' \in LiveType /\ live'.note = live.note /\ ~ live'.call
      /\ live'.state = state /\ live'.filed = live.filed /\ state # "running"
  BY <1>1 DEF Inv, Types, LiveType
<1>4. verdict \in Msgs /\ verdict \in Verdicts
  BY DEF Msgs, Verdicts
<1>5. /\ inbox' \in Seq(Msgs) /\ \A x : Has(x)' <=> Has(x) \/ x = verdict
      /\ \A i, j \in 1 .. Len(inbox') :
            inbox'[i] \in Verdicts \cup {"leftover"} /\ inbox'[j] \in Verdicts => j <= i
  BY <1>1, <1>4, AppendFacts
<1> HIDE DEF state
<1>6. InboxInv' /\ SessionInv' /\ CallPending
  BY <1>1, <1>3, <1>5 DEF Inv, InboxInv, SessionInv, CallPending
<1> QED BY <1>1, <1>2, <1>3, <1>5, <1>6, AroundStep DEF Inv, Types

LEMMA UserRetriesKeeps == Inv /\ UserRetries => Inv' /\ Delivers(disk')
<1> SUFFICES ASSUME Inv, UserRetries PROVE Inv' /\ Delivers(disk')
  OBVIOUS
<1>1. /\ inbox' = Append(inbox, "retry") /\ spent' = [spent EXCEPT !.manual = @ + 1]
      /\ UNCHANGED <<disk, w, live, configured, log>>
  BY DEF UserRetries
<1>2. "retry" \in Msgs /\ "retry" \notin Verdicts
  BY DEF Msgs, Verdicts
<1>3. /\ inbox' \in Seq(Msgs) /\ \A x : Has(x)' <=> Has(x) \/ x = "retry"
      /\ \A i, j \in 1 .. Len(inbox') :
            inbox'[i] \in Verdicts \cup {"leftover"} /\ inbox'[j] \in Verdicts => j <= i
  BY <1>1, <1>2, AppendFacts
<1>4. InboxInv' /\ SessionInv' /\ (CallPending' => CallPending)
  BY <1>1, <1>3 DEF Inv, InboxInv, SessionInv, CallPending
<1>5. spent' \in SpentType
  BY <1>1 DEF Inv, Types, SpentType
<1> QED BY <1>1, <1>3, <1>4, <1>5, AroundStep DEF Inv, Types

LEMMA VaultMovesKeeps ==
    ASSUME NEW n \in Notes, Inv, VaultMovesNote(n)
    PROVE  Inv' /\ Delivers(disk')
<1>1. /\ disk' = [disk EXCEPT !.moved = @ \cup {n}]
      /\ UNCHANGED <<w, inbox, live, configured, spent, log>>
  BY DEF VaultMovesNote
<1>2. disk' \in DiskType /\ disk'.row = disk.row /\ disk'.job = disk.job /\ disk'.ckpt = disk.ckpt
  BY <1>1, Here DEF DiskType
<1>3. InboxInv' /\ SessionInv' /\ (CallPending' => CallPending)
  BY <1>1 DEF Inv, InboxInv, SessionInv, CallPending, Has
<1> QED BY <1>1, <1>2, <1>3, AroundStep DEF Inv, Types

LEMMA AudioVanishesKeeps == Inv /\ AudioVanishes => Inv' /\ Delivers(disk')
<1> SUFFICES ASSUME Inv, AudioVanishes PROVE Inv' /\ Delivers(disk')
  OBVIOUS
<1>1. /\ disk' = [disk EXCEPT !.audio = FALSE] /\ Outcome("audio", FALSE)
      /\ UNCHANGED <<w, inbox, live, configured, log>>
  BY DEF AudioVanishes
<1>2. disk' \in DiskType /\ disk'.row = disk.row /\ disk'.job = disk.job /\ disk'.ckpt = disk.ckpt
  BY <1>1, Here DEF DiskType
<1>3. InboxInv' /\ SessionInv' /\ (CallPending' => CallPending)
  BY <1>1 DEF Inv, InboxInv, SessionInv, CallPending, Has
<1>4. spent' \in SpentType
  BY <1>1, SpentOk DEF Inv, Types
<1> QED BY <1>1, <1>2, <1>3, <1>4, AroundStep DEF Inv, Types

LEMMA ReloadKeeps == Inv /\ ReloadConfig => Inv' /\ Delivers(disk')
<1> SUFFICES ASSUME Inv, ReloadConfig PROVE Inv' /\ Delivers(disk')
  OBVIOUS
<1>1. configured' \in Backends /\ UNCHANGED <<disk, w, inbox, live, spent, log>>
  BY DEF ReloadConfig
<1>2. InboxInv' /\ SessionInv' /\ (CallPending' => CallPending)
  BY <1>1 DEF Inv, InboxInv, SessionInv, CallPending, Has
<1> QED BY <1>1, <1>2, AroundStep DEF Inv, Types

LEMMA CrashKeeps == Inv /\ Crash => Inv' /\ Delivers(disk')
<1> SUFFICES ASSUME Inv, Crash PROVE Inv' /\ Delivers(disk')
  OBVIOUS
<1> DEFINE v == [Idle EXCEPT !.pc = "startup"]
<1>1. /\ spent' = [spent EXCEPT !.crashes = @ + 1] /\ w' = v /\ inbox' = <<>>
      /\ live' = [live EXCEPT !.call = FALSE, !.state = "none", !.filed = FALSE]
      /\ UNCHANGED <<configured, log>>
  BY DEF Crash
<1>2. disk' \in DiskType /\ disk'.row = disk.row /\ disk'.job = disk.job /\ disk'.ckpt = disk.ckpt
  BY Here DEF Crash, DiskType
<1>3. /\ live' \in LiveType /\ ~ live'.call /\ live'.state = "none" /\ ~ live'.filed
  BY <1>1 DEF Inv, Types, LiveType
<1>4. spent' \in SpentType
  BY <1>1 DEF Inv, Types, SpentType
<1>5. inbox' \in Seq(Msgs) /\ \A x : ~ Has(x)'
  BY <1>1 DEF Has
<1>6. InboxInv' /\ SessionInv' /\ ~ CallPending'
  BY <1>1, <1>3, <1>5 DEF InboxInv, SessionInv, CallPending
<1>7. /\ v \in WorkerType /\ v.pc = "startup" /\ v.claim = NoJob /\ v.note = Idle.note
      /\ v.err = Idle.err /\ v.ck = Idle.ck
  <2>1. "startup" \in Pcs
    BY DEF Pcs
  <2> QED BY <2>1, IdleOk DEF WorkerType
<1> HIDE DEF v
<1>8. Good(disk', v) /\ Delivers(disk')
  <2>1. Good(disk', w) /\ Delivers(disk')
    BY <1>2, OtherFiles
  <2> QED BY <1>7, <2>1, IdleOk DEF Good, Kept, RowAt, ClaimAt, OpenPcs, Unclaimed, Shared
<1>9. Good(disk, w)'
  BY <1>1, <1>8 DEF Good, Kept, RowAt, ClaimAt, Started, Alive
<1>10. CallAt(disk, w)'
  BY <1>1, <1>6, <1>7 DEF CallAt
<1>11. Types'
  BY <1>1, <1>2, <1>3, <1>4, <1>5, <1>7 DEF Types, Inv
<1> QED BY <1>6, <1>8, <1>9, <1>10, <1>11 DEF Inv

LEMMA SweepKeeps ==
    ASSUME NEW left \in SUBSET {"audio", "ckpt"}, NEW forget \in BOOLEAN, Inv, Sweep(left, forget)
    PROVE  Inv' /\ Delivers(disk')
<1> DEFINE kept == [disk EXCEPT !.audio = @ /\ "audio" \in left,
                                !.ckpt = IF "ckpt" \in left THEN @ ELSE NoCkpt]
           absent == ~kept.audio /\ ~kept.ckpt.valid
           d == [kept EXCEPT !.job = IF absent THEN NoJob ELSE @,
                             !.row = IF forget THEN NoRow ELSE @]
<1>1. /\ w.pc = "idle" /\ disk.row.status \in Settled /\ Outcome("sweep", absent)
      /\ (forget => absent) /\ disk' = d /\ w' = w /\ Inside
  BY DEF Sweep, At
<1>2. /\ kept \in DiskType /\ kept.row = disk.row /\ kept.job = disk.job
      /\ kept.ckpt \in {disk.ckpt, NoCkpt} /\ absent \in BOOLEAN
  BY Here, IdleOk DEF DiskType
<1> HIDE DEF kept
<1>3. /\ d \in DiskType /\ d.ckpt = kept.ckpt /\ d.job = (IF absent THEN NoJob ELSE disk.job)
      /\ d.row = (IF forget THEN NoRow ELSE disk.row)
  <2> HIDE DEF absent
  <2> QED BY <1>2, RowsOk DEF DiskType
<1> HIDE DEF d, absent
<1>4. ~ CallPending
  BY <1>1 DEF Inv, CallAt, Untouched, Settled
<1>5. spent' \in SpentType
  BY <1>1, <1>2, SpentOk DEF Inv, Types
<1>6. Good(d, w)
  BY <1>1, <1>2, <1>3, Here, IdleOk, RowsOk, NoJobFacts
     DEF Good, Kept, RowAt, ClaimAt, OpenPcs, Unclaimed, Shared, Started, InProgress, Settled
<1>7. Delivers(d)
  BY <1>1, <1>3, RowsOk DEF Delivers, Open, InProgress, Settled
<1>8. Good(disk', w') /\ Delivers(disk') /\ w'.pc = "idle"
  BY <1>1, <1>6, <1>7
<1>9. configured' \in Backends
  BY <1>1 DEF Inside, Inv, Types
<1> QED BY <1>1, <1>4, <1>5, <1>8, <1>9, InsideStep, Here

-----------------------------------------------------------------------------
(* The invariant holds                                                      *)

LEMMA InitGood == Init => Inv
<1> SUFFICES ASSUME Init PROVE Inv
  OBVIOUS
<1>1. /\ configured \in Backends /\ w = Idle /\ inbox = <<>>
      /\ live \in LiveType /\ ~ live.filed /\ live.note = NoNote
      /\ live.state \in {"none", "running"} /\ (live.state = "running" => live.call)
      /\ disk = IF live.call THEN EmptyDisk ELSE LegacyDisk
      /\ spent = [faults |-> 0, crashes |-> 0, manual |-> 0]
      /\ log = [asr |-> 0, backends |-> {}, sent |-> 0]
  BY DEF Init, LiveType
<1>2. /\ JobOk(NewJob(Blank, Retries)) /\ NewJob(Blank, Retries).state = "pending"
      /\ NewJob(Blank, Retries) # NoJob /\ NewJob(Blank, Retries) \in Job
  BY BlankOk, NewJobOk, BoundsAssumption DEF JobOk
<1>3. /\ EmptyDisk \in DiskType /\ EmptyDisk.row = NoRow /\ EmptyDisk.job = NoJob
      /\ EmptyDisk.ckpt = NoCkpt
  BY IdleOk, RowsOk DEF EmptyDisk, DiskType, Contents
<1>4. /\ LegacyDisk \in DiskType /\ LegacyDisk.row.status = "PendingNote"
      /\ LegacyDisk.job = NewJob(Blank, Retries) /\ LegacyDisk.ckpt = NoCkpt
  <2>1. LegacyDisk = [EmptyDisk EXCEPT !.row = [NoRow EXCEPT !.status = "PendingNote",
                                                            !.attempted = TRUE],
                                       !.job = NewJob(Blank, Retries), !.audio = TRUE]
    BY <1>3, RowsOk DEF LegacyDisk, DiskType, RowType
  <2>2. /\ [NoRow EXCEPT !.status = "PendingNote", !.attempted = TRUE] \in RowType
        /\ [NoRow EXCEPT !.status = "PendingNote", !.attempted = TRUE].status = "PendingNote"
    BY RowsOk DEF RowType, Statuses, InProgress
  <2> QED BY <1>2, <1>3, <2>1, <2>2 DEF DiskType
<1>5. Good(disk, w)
  <2>1. CASE live.call
    BY <1>1, <1>3, <2>1, IdleOk, RowsOk, NoJobFacts
       DEF Good, Kept, RowAt, ClaimAt, OpenPcs, Unclaimed, Shared, Started, InProgress
  <2>2. CASE ~ live.call
    BY <1>1, <1>2, <1>4, <2>2, IdleOk
       DEF Good, Kept, RowAt, ClaimAt, OpenPcs, Unclaimed, Shared, Alive
  <2> QED BY <2>1, <2>2
<1>6. inbox \in Seq(Msgs) /\ \A x : ~ Has(x)
  BY <1>1 DEF Has
<1>7. InboxInv /\ SessionInv
  BY <1>1, <1>6 DEF InboxInv, SessionInv
<1>8. CallAt(disk, w)
  BY <1>1, <1>3, <1>6, IdleOk, RowsOk DEF CallAt, CallPending, Untouched
<1>9. Types
  BY <1>1, <1>3, <1>4, <1>6, IdleOk DEF Types, SpentType, LogType
<1> QED BY <1>5, <1>7, <1>8, <1>9 DEF Inv

LEMMA NextKeeps == Inv /\ [Next]_vars => Inv' /\ Delivers(disk')
<1> SUFFICES ASSUME Inv, [Next]_vars PROVE Inv' /\ Delivers(disk')
  OBVIOUS
<1>1. CASE Environment
  BY <1>1, LiveCreatesKeeps, UserRetriesKeeps, ReloadKeeps, AudioVanishesKeeps, CrashKeeps,
     CallEndsKeeps, VaultMovesKeeps DEF Environment
<1>2. CASE Session
  BY <1>2, LiveDeletesKeeps, LiveSettlesKeeps DEF Session
<1>3. CASE Messages
  BY <1>3, ProcessKeeps, CollectFiledKeeps, CollectBatchKeeps, CollectLostKeeps, ScheduleKeeps,
     ScheduleRowKeeps, NoteCreatedKeeps, NoteRowKeeps, DiscardedKeeps, DiscardRowKeeps,
     LeftoverKeeps, LeftoverRowKeeps, LeftoverFailKeeps, ManualRetryKeeps DEF Messages
<1>4. CASE Work
  BY <1>4, ClaimJobKeeps, DispatchKeeps, RouteKeeps, StaleKeeps, MissingAudioKeeps,
     CompleteNoteKeeps, FileCheckpointKeeps, LegacyKeeps, TranscribeKeeps, RunAsrKeeps, RefuseKeeps,
     StoreKeeps, PromoteKeeps, CleanKeeps, FileNoteKeeps, KeepNoteKeeps, CompleteKeeps, TidyKeeps,
     FailRowKeeps, CloseNoteKeeps, SettleOkKeeps, SettleErrorKeeps, ParkKeeps, RescheduleKeeps,
     BackoffKeeps, RecoverKeeps, ResumeKeeps, ResumeRowKeeps, ReapKeeps, ReapRowKeeps DEF Work
<1>5. CASE Retention
  BY <1>5, SweepKeeps DEF Retention
<1>6. CASE UNCHANGED vars
  <2>1. UNCHANGED <<disk, w, inbox, live, configured, spent, log>>
    BY <1>6 DEF vars
  <2>2. InboxInv' /\ SessionInv' /\ CallPending' = CallPending
    BY <2>1 DEF Inv, InboxInv, SessionInv, CallPending, Has
  <2> QED BY <2>1, <2>2, AroundStep DEF Inv, Types
<1> QED BY <1>1, <1>2, <1>3, <1>4, <1>5, <1>6 DEF Next

\* In every reachable state, however many operations failed and however often the
\* process died, the durable row, its job, the claim the thread holds and the messages
\* still queued fit together (jobs.rs, pipeline.rs run_job_loop, recover_running).
THEOREM PipelineInvariant == Spec => []Inv
<1>1. Inv /\ [Next]_vars => Inv'
  BY NextKeeps
<1> QED BY <1>1, InitGood, PTL DEF Spec

\* The durable state, the thread and its channel stay well formed (pipeline.rs Ctx).
THEOREM PipelineTypeOK == Spec => []TypeOK
<1>1. Inv => TypeOK
  <2> SUFFICES ASSUME Inv PROVE TypeOK
    OBVIOUS
  <2> QED BY DEF Inv, Types, TypeOK, DiskType, RowType, WorkerType, Msgs
<1> QED BY <1>1, PipelineInvariant, PTL

\* A recording whose transcription has started is never left without a due or running
\* job: the row is terminal before the only active job is parked (on_exhausted), and a
\* failed settlement leaves the job to the next restart (finish_job, recover_running).
THEOREM PipelineStartedWorkIsOwned == Spec => []StartedWorkIsOwned
<1>1. Inv => StartedWorkIsOwned
  BY DEF Inv, Good, Kept, Started, Alive, StartedWorkIsOwned
<1> QED BY <1>1, PipelineInvariant, PTL

LEMMA PhaseIs ==
    ASSUME Inv
    PROVE  /\ disk.row.status = "none" => Phase = "untracked"
           /\ disk.row.status \in Open => Phase = "open"
           /\ disk.row.status = "Done" => Phase = "done"
           /\ disk.row.status = "Failed" => Phase = "failed"
           /\ disk.row.status \in Open \cup Settled \cup {"none"}
  BY Here DEF Phase, Open, InProgress, Settled, Statuses

LEMMA DeliveryInit == Init => Delivery!Init
<1> SUFFICES ASSUME Init PROVE Delivery!Init
  OBVIOUS
<1>1. Inv
  BY InitGood
<1>2. /\ EmptyDisk.row = NoRow
      /\ LegacyDisk.row.status = "PendingNote" /\ LegacyDisk.row.note = NoNote
  BY DEF EmptyDisk, LegacyDisk, NoRow
<1>3. disk.row = NoRow \/ (disk.row.status = "PendingNote" /\ disk.row.note = NoNote)
  BY <1>2 DEF Init
<1> QED BY <1>1, <1>3, PhaseIs, RowsOk DEF Delivery!Init, Open, InProgress

LEMMA DeliveryNext == Inv /\ Inv' /\ Delivers(disk') => [Delivery!Next]_(Delivery!vars)
<1> SUFFICES ASSUME Inv, Inv', Delivers(disk') PROVE [Delivery!Next]_(Delivery!vars)
  OBVIOUS
<1>1. /\ disk'.row.status = "none" => Phase' = "untracked"
      /\ disk'.row.status \in Open => Phase' = "open"
      /\ disk'.row.status = "Done" => Phase' = "done"
      /\ disk'.row.status = "Failed" => Phase' = "failed"
  BY DEF Phase, Open, InProgress, Settled
<1>2. disk'.row.note \in Notes \cup {NoNote}
  BY DEF Inv, Types, DiskType, RowType
<1>3. CASE disk.row.status = "none"
  <2>1. Phase = "untracked" /\ disk.row.note = NoNote
    BY <1>3, PhaseIs, Here, RowsOk
  <2>2. CASE disk'.row = NoRow
    BY <1>1, <2>1, <2>2, RowsOk DEF Delivery!vars
  <2>3. CASE disk'.row = NewRow
    BY <1>1, <2>1, <2>3, RowsOk DEF Delivery!Next, Delivery!Track, Open, InProgress
  <2> QED BY <1>3, <2>2, <2>3 DEF Delivers
<1>4. CASE disk.row.status \in Open
  <2>1. Phase = "open"
    BY <1>4, PhaseIs
  <2>2. CASE disk'.row.status \in Open
    BY <1>1, <1>4, <2>1, <2>2 DEF Delivers, Delivery!Next, Delivery!Own, Delivery!vars
  <2>3. CASE disk'.row.status = "Done"
    BY <1>1, <1>4, <2>1, <2>3 DEF Delivers, Delivery!Next, Delivery!Finish
  <2>4. CASE disk'.row.status = "Failed"
    BY <1>1, <1>2, <2>1, <2>4 DEF Delivery!Next, Delivery!Fail
  <2> QED BY <1>4, <2>2, <2>3, <2>4 DEF Delivers, Settled
<1>5. CASE disk.row.status = "Failed"
  <2>1. Phase = "failed"
    BY <1>5, PhaseIs
  <2>2. CASE disk'.row.status = "Failed" /\ disk'.row.note \in Notes \cup {disk.row.note}
    BY <1>1, <2>1, <2>2 DEF Delivery!Next, Delivery!Own, Delivery!vars
  <2>3. CASE disk'.row.status \in Open /\ disk'.row.note = disk.row.note
    BY <1>1, <2>1, <2>3 DEF Delivery!Next, Delivery!Retry
  <2>4. CASE disk'.row = NoRow
    BY <1>1, <2>1, <2>4, RowsOk DEF Delivery!Next, Delivery!Forget
  <2> QED BY <1>5, <2>2, <2>3, <2>4 DEF Delivers
<1>6. CASE disk.row.status = "Done"
  <2>1. Phase = "done"
    BY <1>6, PhaseIs
  <2>2. CASE disk'.row.status = "Done" /\ disk'.row.note \in Notes \cup {disk.row.note}
    BY <1>1, <2>1, <2>2 DEF Delivery!Next, Delivery!Own, Delivery!vars
  <2>3. CASE disk'.row = NoRow
    BY <1>1, <2>1, <2>3, RowsOk DEF Delivery!Next, Delivery!Forget
  <2> QED BY <1>6, <2>2, <2>3 DEF Delivers
<1> QED BY <1>3, <1>4, <1>5, <1>6, PhaseIs DEF Settled

\* Every step of the pipeline is a step of the delivery contract, or none: Done is left
\* by retention only and has its note, Failed by a manual retry or retention only
\* (complete_with_note, fail_with_note, manual_retry, sweep_recordings).
THEOREM PipelineImplementsDelivery == Spec => DeliverySpec
<1>1. Init => Delivery!Init
  BY DeliveryInit
<1>2. Inv /\ Inv' /\ [Next]_vars => [Delivery!Next]_(Delivery!vars)
  BY NextKeeps, DeliveryNext
<1>3. Spec => Delivery!Init /\ [][Delivery!Next]_(Delivery!vars)
  BY <1>1, <1>2, PipelineInvariant, PTL DEF Spec
<1> QED BY <1>3 DEF DeliverySpec, Delivery!Spec

-----------------------------------------------------------------------------
(* Where the data may go                                                    *)

\* Completing the note of a live session, for which no job exists yet.
Filing == {"clean", "file", "keep", "complete", "schedule"}
BeforeAsr == {"dispatch", "route", "legacy", "transcribe", "asr"}

\* The permission of the first attempt, before it is claimed and before it is used.
FirstUnused(d) == d.job # NoJob /\ d.job.payload.first /\ d.job.attempts = 0
FirstUsing(v) == v.pc \in BeforeAsr /\ v.claim.payload.first /\ v.claim.attempts <= 1

\* All that is known of the recording's origin names the backend x, which alone has
\* decoded it; and when x is local, no transcript has left the machine while the
\* permission of the first attempt is unused.
Data(x, d, v, c, g) ==
    /\ d.job # NoJob => d.job.payload.origin \in {x, Unknown}
    /\ v.claim # NoJob => v.claim.payload.origin \in {x, Unknown} /\ v.claim.attempts > 0
    /\ d.ckpt.origin \in {x, Unknown} /\ v.ck.origin \in {x, Unknown}
    /\ g.backends \subseteq {x}
    /\ v.pc = "asr" => v.claim.payload.origin = c
    /\ v.pc \in {"idle", "noteRow", "collect"} => v.ck = NoCkpt
    /\ v.pc = "collect" => d.ckpt = NoCkpt /\ g.sent = 0
    /\ v.claim = NoJob /\ v.pc \in Filing => x = Local
    /\ x = Local => /\ g.sent <= 1
                    /\ FirstUnused(d) \/ FirstUsing(v) => g.sent = 0

\* A live session decodes locally; before the verdict is taken up nothing was sent.
LiveData(x) ==
    /\ live.state # "none" \/ live.filed => x = Local
    /\ CallPending => log.sent = 0
    /\ (CallPending \/ w.pc = "collect") /\ live.state = "none" /\ ~ Has("discarded")
          => log.backends = {}
    /\ live.state = "discarded" => ~ Has("process") /\ w.pc # "collect"

DataInv == \E x \in Backends : Data(x, disk, w, configured, log) /\ LiveData(x)

\* What a step may make of the disk and of the thread that learns nothing new of the
\* origin and gives no permission.
TameDisk(d) ==
    /\ d.job # NoJob =>
          \/ /\ disk.job # NoJob /\ d.job.payload.origin = disk.job.payload.origin
             /\ FirstUnused(d) => FirstUnused(disk)
          \/ d.job.payload.origin \in {Unknown, disk.ckpt.origin} /\ ~ d.job.payload.first
    /\ d.ckpt.origin \in {disk.ckpt.origin, w.ck.origin, Unknown}
TameThread(v) ==
    /\ v.claim # NoJob => /\ w.claim # NoJob /\ v.claim.attempts = w.claim.attempts
                          /\ v.claim.payload.origin = w.claim.payload.origin
    /\ v.ck.origin \in {w.ck.origin, disk.ckpt.origin, Unknown}
          \cup (IF w.claim # NoJob THEN {w.claim.payload.origin} ELSE {})
    /\ FirstUsing(v) => FirstUsing(w)
    /\ v.pc \in {"idle", "noteRow"} => v.ck = NoCkpt \/ (w.pc = "idle" /\ v.ck = w.ck)
    /\ v.pc \notin {"asr", "collect"}
    /\ v.claim = NoJob /\ v.pc \in Filing => w.claim = NoJob /\ w.pc \in Filing

LEMMA TameKeepsData ==
    ASSUME NEW x, NEW d, NEW v, NEW c, NEW g, Data(x, disk, w, c, g), TameDisk(d), TameThread(v)
    PROVE  Data(x, d, v, c, g)
  BY DEF Data, TameDisk, TameThread, FirstUnused

LEMMA SameIsTame ==
    ASSUME NEW d, d.job \in {disk.job, NoJob}, d.ckpt \in {disk.ckpt, w.ck, NoCkpt}
    PROVE  TameDisk(d)
  BY IdleOk DEF TameDisk, FirstUnused

LEMMA RowsAreTame ==
    ASSUME Inv
    PROVE  /\ TameDisk(disk)
           /\ \A s \in Statuses : TameDisk(SetStatus(s))
           /\ \A s \in Statuses, n \in Notes \cup {NoNote} : TameDisk(SetRow(s, n))
           /\ \A n : \A c \in Contents : TameDisk(SetNote(n, c))
           /\ TameDisk([disk EXCEPT !.ckpt = w.ck]) /\ TameDisk([disk EXCEPT !.ckpt = NoCkpt])
           /\ TameDisk([disk EXCEPT !.job = NoJob])
<1>1. \A s \in Statuses : TameDisk(SetStatus(s))
  BY Here, SetsStatus, SameIsTame
<1>2. \A s \in Statuses, n \in Notes \cup {NoNote} : TameDisk(SetRow(s, n))
  BY Here, SetsRow, SameIsTame
<1>3. \A n : \A c \in Contents : TameDisk(SetNote(n, c))
  BY Here, SetsNote, SameIsTame
<1>4. TameDisk([disk EXCEPT !.ckpt = w.ck]) /\ TameDisk([disk EXCEPT !.ckpt = NoCkpt])
  <2> DEFINE d1 == [disk EXCEPT !.ckpt = w.ck]
             d2 == [disk EXCEPT !.ckpt = NoCkpt]
  <2>1. d1.job = disk.job /\ d1.ckpt = w.ck /\ d2.job = disk.job /\ d2.ckpt = NoCkpt
    BY Here, IdleOk, SetsCkpt
  <2> HIDE DEF d1, d2
  <2>2. TameDisk(d1) /\ TameDisk(d2)
    BY <2>1, SameIsTame
  <2> QED BY <2>2 DEF d1, d2
<1>5. TameDisk([disk EXCEPT !.job = NoJob])
  <2> DEFINE d == [disk EXCEPT !.job = NoJob]
  <2>1. d.job = NoJob /\ d.ckpt = disk.ckpt
    BY Here, SetsJob
  <2> HIDE DEF d
  <2>2. TameDisk(d)
    BY <2>1, SameIsTame
  <2> QED BY <2>2 DEF d
<1> QED BY <1>1, <1>2, <1>3, <1>4, <1>5, SameIsTame

LEMMA IdleIsTame == TameThread(Idle)
  BY IdleOk DEF TameThread, FirstUsing, BeforeAsr, Filing

\* Away from the places that matter.
LEMMA WentIsTame ==
    ASSUME NEW v, v.claim = w.claim, v.ck = w.ck,
           v.pc \notin {"asr", "collect", "idle", "noteRow"} \cup Filing,
           v.pc \in BeforeAsr => w.pc \in BeforeAsr
    PROVE  TameThread(v)
  BY DEF TameThread, FirstUsing, BeforeAsr, Filing

LEMMA FiledIsTame ==
    ASSUME NEW v, v.claim = w.claim, v.ck.origin = w.ck.origin, v.pc \in Filing,
           w.claim # NoJob \/ w.pc \in Filing
    PROVE  TameThread(v)
  BY DEF TameThread, FirstUsing, BeforeAsr, Filing

LEMMA ErrorIsTame ==
    ASSUME Inv, w.claim # NoJob \/ w.pc \in Filing
    PROVE  TameThread(Error)
<1>1. /\ Error.claim = w.claim /\ Error.ck = w.ck
      /\ Error.pc = IF w.claim # NoJob THEN "failed" ELSE "schedule"
  BY Here, Returns, Moves
<1> QED BY <1>1, WentIsTame, FiledIsTame DEF Filing, BeforeAsr

LEMMA OkIsTame ==
    ASSUME Inv
    PROVE  TameThread(Ok)
<1>1. Ok = Idle \/ (Ok.claim = w.claim /\ Ok.ck = w.ck /\ Ok.pc = "settle")
  BY Here, Returns, Moves
<1> QED BY <1>1, WentIsTame, IdleIsTame DEF Filing, BeforeAsr

LEMMA ToIsTame ==
    ASSUME Inv, NEW pc \in Pcs, pc \notin {"asr", "collect", "idle", "noteRow"},
           pc \in Filing => w.claim # NoJob \/ w.pc \in Filing,
           pc \in BeforeAsr => w.pc \in BeforeAsr
    PROVE  TameThread(To(pc))
<1>1. To(pc).claim = w.claim /\ To(pc).ck = w.ck /\ To(pc).pc = pc
  BY Here, Moves
<1>2. CASE pc \in Filing
  BY <1>1, <1>2, FiledIsTame
<1>3. CASE pc \notin Filing
  BY <1>1, <1>3, WentIsTame
<1> QED BY <1>2, <1>3

LEMMA FailIsTame ==
    ASSUME Inv, NEW why \in Reasons, NEW note \in Owned
    PROVE  TameThread(FailWith(why, note))
<1>1. LET v == FailWith(why, note) IN v.claim = w.claim /\ v.ck = w.ck /\ v.pc = "fail"
  BY Here, FailsWith
<1> QED BY <1>1, WentIsTame DEF Filing, BeforeAsr

TameStep == TameDisk(disk') /\ TameThread(w')

LEMMA WriteIsTame ==
    ASSUME Inv, NEW kind, NEW saved, NEW good, NEW bad, Write(kind, saved, good, bad),
           TameDisk(saved), TameThread(good), TameThread(bad)
    PROVE  TameStep
<1>1. disk' \in {saved, disk} /\ w' \in {good, bad}
  BY DEF Write
<1> QED BY <1>1, RowsAreTame DEF TameStep

LEMMA GotoIsTame ==
    ASSUME Inv, NEW next, Goto(next), TameThread(next)
    PROVE  TameStep
<1>1. disk' = disk /\ w' = next
  BY DEF Goto
<1> QED BY <1>1, RowsAreTame DEF TameStep

LEMMA ClaimedThere ==
    ASSUME Inv, w.pc \notin Unclaimed \cup Shared
    PROVE  w.claim # NoJob
  BY Here DEF Good, ClaimAt

LEMMA RoutingIsTame ==
    ASSUME Inv, \/ Dispatch \/ Route \/ Stale \/ MissingAudio \/ CompleteNote \/ FileCheckpoint
                \/ Legacy
    PROVE  TameStep
<1>1. CASE Dispatch
  <2>1. w.pc = "dispatch" /\ w.claim # NoJob
    BY <1>1, ClaimedThere DEF Dispatch, At, Unclaimed, Shared
  <2>2. TameThread(To("route")) /\ TameThread(Error) /\ TameThread(Ok)
    BY <2>1, ToIsTame, ErrorIsTame, OkIsTame DEF Pcs, Filing, BeforeAsr
  <2>3. TameDisk(SetStatus("PendingTranscription"))
    BY RowsAreTame DEF Statuses, InProgress
  <2>4. \/ Goto(Ok) \/ Goto(Error) \/ Goto(To("route"))
        \/ Write("row", SetStatus("PendingTranscription"), To("route"), Error)
    BY <1>1 DEF Dispatch
  <2> QED BY <2>2, <2>3, <2>4, WriteIsTame, GotoIsTame
<1>2. CASE Route
  <2> DEFINE routed == [To(RetryAction) EXCEPT !.note = ClaimNote]
             d == SetRow(disk.row.status, ClaimNote.note)
  <2>1. w.pc = "route" /\ w.claim # NoJob /\ JobOk(w.claim) /\ WellOwned(disk.ckpt)
    BY <1>2, ClaimedThere, Here DEF Route, At, Unclaimed, Shared, Good, Kept
  <2>2. ClaimNote \in Owned
    BY <2>1, Here, AuthorityOk DEF ClaimNote, JobOk, Job
  <2>3. RetryAction \in {"stale", "fileCheckpoint", "completeNote", "missingAudio", "legacy", "transcribe"}
    BY DEF RetryAction
  <2>4. routed.pc = RetryAction /\ routed.claim = w.claim /\ routed.ck = w.ck
    <3>1. RetryAction \in Pcs
      BY <2>3 DEF Pcs
    <3> HIDE DEF RetryAction, ClaimNote
    <3>2. To(RetryAction) \in WorkerType
      BY <3>1, Here, Moves
    <3> QED BY <3>1, <3>2, Here, Moves DEF WorkerType
  <2> HIDE DEF routed
  <2>5. TameThread(routed) /\ TameThread(Error)
    BY <2>1, <2>3, <2>4, WentIsTame, ErrorIsTame DEF Filing, BeforeAsr
  <2>6. TameDisk(d)
    <3>1. ClaimNote.note \in Notes \cup {NoNote}
      BY <2>2 DEF Owned
    <3> QED BY <3>1, Here, RowsAreTame
  <2>7. \/ Goto(Error) \/ Goto(routed) \/ Write("row", d, routed, Error)
    BY <1>2 DEF Route, routed
  <2> QED BY <2>5, <2>6, <2>7, WriteIsTame, GotoIsTame
<1>3. CASE Stale
  BY <1>3, OkIsTame, GotoIsTame DEF Stale
<1>4. CASE MissingAudio
  <2>1. TameThread(FailWith("missing", w.note))
    BY Here, FailIsTame DEF Reasons
  <2> QED BY <1>4, <2>1, GotoIsTame DEF MissingAudio
<1>5. CASE CompleteNote
  <2> DEFINE ck == [disk.ckpt EXCEPT !.valid = TRUE, !.note = w.note.note, !.canonical = TRUE]
             v == [To("clean") EXCEPT !.ck = ck]
  <2>1. w.pc = "completeNote" /\ w.claim # NoJob /\ Goto(v)
    BY <1>5, ClaimedThere DEF CompleteNote, At, Unclaimed, Shared
  <2>2. ck \in Ckpt /\ ck.origin = disk.ckpt.origin /\ "clean" \in Pcs
    BY Here DEF Ckpt, Owned, Pcs
  <2> HIDE DEF ck
  <2>3. v.pc = "clean" /\ v.claim = w.claim /\ v.ck = ck
    BY <2>2, Carries
  <2> HIDE DEF v
  <2>4. TameThread(v)
    BY <2>1, <2>2, <2>3 DEF TameThread, FirstUsing, BeforeAsr, Filing
  <2> QED BY <2>1, <2>4, GotoIsTame
<1>6. CASE FileCheckpoint
  <2> DEFINE pc == IF disk.row.status = "PendingNote" THEN "clean" ELSE "promote"
             v == [To(pc) EXCEPT !.ck = disk.ckpt]
  <2>1. w.pc = "fileCheckpoint" /\ w.claim # NoJob /\ Goto(v)
    BY <1>6, ClaimedThere DEF FileCheckpoint, At, Unclaimed, Shared
  <2>2. pc \in {"clean", "promote"} /\ pc \in Pcs
    BY DEF Pcs
  <2> HIDE DEF pc
  <2>3. v.pc = pc /\ v.claim = w.claim /\ v.ck = disk.ckpt
    BY <2>2, Carries, Here
  <2> HIDE DEF v
  <2>4. TameThread(v)
    BY <2>1, <2>2, <2>3 DEF TameThread, FirstUsing, BeforeAsr, Filing
  <2> QED BY <2>1, <2>4, GotoIsTame
<1>7. CASE Legacy
  <2> DEFINE d == [disk EXCEPT !.row.attempted = TRUE]
  <2>1. w.pc = "legacy" /\ w.claim # NoJob /\ Write("row", d, To("transcribe"), Error)
    BY <1>7, ClaimedThere DEF Legacy, At, Unclaimed, Shared
  <2>2. d.job = disk.job /\ d.ckpt = disk.ckpt
    BY Here DEF DiskType
  <2> HIDE DEF d
  <2>3. TameThread(To("transcribe")) /\ TameThread(Error) /\ TameDisk(d)
    BY <2>1, <2>2, ToIsTame, ErrorIsTame, SameIsTame DEF Pcs, Filing, BeforeAsr
  <2> QED BY <2>1, <2>3, WriteIsTame
<1> QED BY <1>1, <1>2, <1>3, <1>4, <1>5, <1>6, <1>7

LEMMA FilingIsTame ==
    ASSUME Inv, \/ Refuse \/ StoreCheckpoint \/ Promote \/ CleanStaging \/ FileNote \/ KeepNote
                \/ CompleteWithNote \/ Tidy
    PROVE  TameStep
<1>1. CASE Refuse
  <2> DEFINE n == CheckpointNote.note
             c1 == [Checkpoint(FALSE) EXCEPT !.canonical = TRUE]
             c2 == [Checkpoint(FALSE) EXCEPT !.canonical = FALSE]
             v1 == [To("store") EXCEPT !.ck = c1]
             v2 == [To("store") EXCEPT !.ck = c2]
             d == SetNote(n, MarkIncomplete(disk.notes[n]))
  <2>1. w.pc = "refuse" /\ w.claim # NoJob /\ (Write("note", d, v1, Error) \/ Goto(v2))
    BY <1>1, ClaimedThere DEF Refuse, At, Unclaimed, Shared
  <2>2. /\ c1 \in Ckpt /\ c1.origin = w.claim.payload.origin
        /\ c2 \in Ckpt /\ c2.origin = w.claim.payload.origin /\ "store" \in Pcs
    <3>1. Checkpoint(FALSE) \in Ckpt /\ Checkpoint(FALSE).origin = w.claim.payload.origin
      BY <2>1, CheckpointOk DEF Checkpoint, Origin
    <3> QED BY <3>1 DEF Ckpt, Pcs
  <2> HIDE DEF c1, c2
  <2>3. /\ v1.pc = "store" /\ v1.claim = w.claim /\ v1.ck = c1
        /\ v2.pc = "store" /\ v2.claim = w.claim /\ v2.ck = c2
    BY <2>2, Carries
  <2> HIDE DEF v1, v2
  <2>4. TameThread(v1) /\ TameThread(v2) /\ TameThread(Error)
    BY <2>1, <2>2, <2>3, ErrorIsTame DEF TameThread, FirstUsing, BeforeAsr, Filing
  <2>5. TameDisk(d)
    BY RowsAreTame DEF MarkIncomplete, Contents
  <2> QED BY <2>1, <2>4, <2>5, WriteIsTame, GotoIsTame
<1>2. CASE StoreCheckpoint
  <2>1. w.pc = "store" /\ w.claim # NoJob
    BY <1>2, ClaimedThere DEF StoreCheckpoint, At, Unclaimed, Shared
  <2>2. TameThread(To("promote")) /\ TameThread(Error) /\ TameDisk([disk EXCEPT !.ckpt = w.ck])
    BY <2>1, ToIsTame, ErrorIsTame, RowsAreTame DEF Pcs, Filing, BeforeAsr
  <2> QED BY <1>2, <2>2, WriteIsTame DEF StoreCheckpoint
<1>3. CASE Promote
  <2>1. w.pc = "promote" /\ w.claim # NoJob
    BY <1>3, ClaimedThere DEF Promote, At, Unclaimed, Shared
  <2>2. TameThread(To("clean")) /\ TameThread(Error)
    BY <2>1, ToIsTame, ErrorIsTame DEF Pcs, Filing, BeforeAsr
  <2>3. TameDisk(SetStatus("PendingNote"))
    BY RowsAreTame DEF Statuses, InProgress
  <2> QED BY <1>3, <2>2, <2>3, WriteIsTame DEF Promote
<1>4. CASE CleanStaging
  <2>1. w.pc = "clean"
    BY <1>4 DEF CleanStaging, At
  <2>2. TameThread(To("file")) /\ TameThread(Error) /\ TameDisk(disk)
    BY <2>1, ToIsTame, ErrorIsTame, RowsAreTame DEF Pcs, Filing, BeforeAsr
  <2> QED BY <1>4, <2>2, WriteIsTame DEF CleanStaging
<1>5. CASE FileNote
  <2> DEFINE target == IF w.ck.note # NoNote THEN w.ck.note ELSE disk.row.note
  <2>1. w.pc = "file"
    BY <1>5 DEF FileNote, At
  <2>2. TameThread(To("keep")) /\ TameThread(Error)
    BY <2>1, ToIsTame, ErrorIsTame DEF Pcs, Filing, BeforeAsr
  <2>3. \A n : TameDisk(SetNote(n, FiledAs)) /\ TameThread(Canonical(n))
    <3> SUFFICES ASSUME NEW n PROVE TameDisk(SetNote(n, FiledAs)) /\ TameThread(Canonical(n))
      OBVIOUS
    <3>1. TameDisk(SetNote(n, FiledAs))
      BY RowsAreTame DEF FiledAs, Contents
    <3> DEFINE v == Canonical(n)
    <3>2. v.pc = "keep" /\ v.claim = w.claim /\ v.ck.origin = w.ck.origin
      <4>1. To("keep") \in WorkerType /\ To("keep").pc = "keep" /\ To("keep").claim = w.claim
            /\ To("keep").ck = w.ck
        BY Here, Moves DEF Pcs
      <4> QED BY <4>1, Here DEF Canonical, WorkerType, Ckpt
    <3> HIDE DEF v
    <3>3. TameThread(v)
      BY <2>1, <3>2, FiledIsTame DEF Filing
    <3> QED BY <3>1, <3>3 DEF v
  <2> HIDE DEF target
  <2>4. \/ Goto(To("keep")) \/ Write("note", SetNote(target, FiledAs), Canonical(target), Error)
        \/ Write("vagus", SetNote(NewNote, FiledAs), Canonical(NewNote), Error)
    BY <1>5 DEF FileNote, target
  <2> QED BY <2>2, <2>3, <2>4, WriteIsTame, GotoIsTame
<1>6. CASE KeepNote
  <2> DEFINE v1 == [To("complete") EXCEPT !.stored = TRUE]
             v2 == [To("complete") EXCEPT !.stored = FALSE]
  <2>1. w.pc = "keep" /\ Write("ckpt", [disk EXCEPT !.ckpt = w.ck], v1, v2)
    BY <1>6 DEF KeepNote, At
  <2>2. /\ v1.pc = "complete" /\ v1.claim = w.claim /\ v1.ck = w.ck
        /\ v2.pc = "complete" /\ v2.claim = w.claim /\ v2.ck = w.ck
    BY Here DEF To, WorkerType
  <2> HIDE DEF v1, v2
  <2>3. TameThread(v1) /\ TameThread(v2) /\ TameDisk([disk EXCEPT !.ckpt = w.ck])
    BY <2>1, <2>2, FiledIsTame, RowsAreTame DEF Filing
  <2> QED BY <2>1, <2>3, WriteIsTame
<1>7. CASE CompleteWithNote
  <2> DEFINE v == [Error EXCEPT !.err = IF w.stored THEN None ELSE OwnedNote(w.ck)]
  <2>1. w.pc = "complete" /\ Write("row", SetRow("Done", w.ck.note), To("tidy"), v)
    BY <1>7 DEF CompleteWithNote, At
  <2>2. v.pc = Error.pc /\ v.claim = Error.claim /\ v.ck = Error.ck
    <3>1. Error \in WorkerType
      BY <2>1, ErrorGood
    <3> QED BY <3>1 DEF WorkerType
  <2> HIDE DEF v
  <2>3. TameThread(v)
    <3>1. TameThread(Error)
      BY <2>1, ErrorIsTame DEF Filing
    <3> QED BY <2>2, <3>1 DEF TameThread, FirstUsing
  <2>4. TameThread(To("tidy"))
    BY <2>1, ToIsTame DEF Pcs, Filing, BeforeAsr
  <2>5. TameDisk(SetRow("Done", w.ck.note))
    BY Here, RowsAreTame DEF Statuses, Settled, Ckpt
  <2> QED BY <2>1, <2>3, <2>4, <2>5, WriteIsTame
<1>8. CASE Tidy
  <2>1. TameDisk([disk EXCEPT !.ckpt = NoCkpt]) /\ TameThread(Ok)
    BY RowsAreTame, OkIsTame
  <2> QED BY <1>8, <2>1, WriteIsTame DEF Tidy
<1> QED BY <1>1, <1>2, <1>3, <1>4, <1>5, <1>6, <1>7, <1>8

\* A job that keeps the origin, the permission and the attempts.
LEMMA JobIsTame ==
    ASSUME Inv, NEW j \in Job, disk.job # NoJob, j.payload.origin = disk.job.payload.origin,
           j.payload.first => disk.job.payload.first /\ j.attempts = disk.job.attempts
    PROVE  TameDisk([disk EXCEPT !.job = j])
<1> DEFINE d == [disk EXCEPT !.job = j]
<1>1. d.job = j /\ d.ckpt = disk.ckpt
  BY Here, SetsJob
<1> HIDE DEF d
<1>2. TameDisk(d)
  BY <1>1 DEF TameDisk, FirstUnused
<1> QED BY <1>2 DEF d

LEMMA ArmIsTame ==
    ASSUME Inv
    PROVE  TameDisk(Arm(Blank, Retries))
<1>1. CASE disk.job = NoJob
  <2> DEFINE d == Arm(Blank, Retries)
  <2>1. d.ckpt = disk.ckpt /\ d.job = NewJob(Blank, Retries)
    BY <1>1, Arms, BlankOk, BoundsAssumption
  <2> HIDE DEF d
  <2>2. TameDisk(d)
    BY <2>1, BlankOk, NewJobOk, BoundsAssumption DEF TameDisk
  <2> QED BY <2>2 DEF d
<1>2. CASE disk.job # NoJob
  <2>1. Arm(Blank, Retries) = [disk EXCEPT !.job = EnqueueOn(disk.job, Blank)] /\ JobOk(disk.job)
    BY <1>2, Here DEF Arm, DiskType, Good, Kept
  <2> DEFINE j == EnqueueOn(disk.job, Blank)
  <2>2. /\ j \in Job /\ j.payload.origin = disk.job.payload.origin
        /\ j.payload.first = disk.job.payload.first /\ j.attempts = disk.job.attempts
    BY <2>1, EnqueueOk, BlankOk DEF JobOk
  <2> HIDE DEF j
  <2>3. TameDisk([disk EXCEPT !.job = j])
    BY <1>2, <2>2, JobIsTame
  <2> QED BY <2>1, <2>3 DEF j
<1> QED BY <1>1, <1>2

LEMMA FailingIsTame ==
    ASSUME Inv, FailRow \/ CloseNote
    PROVE  TameStep
<1>1. CASE FailRow
  <2> DEFINE v == [To("close") EXCEPT !.note = Failing]
             bad == CASE w.why = "unarmed" -> Idle
                      [] w.why = "missing" -> Error
                      [] w.why = "exhausted" -> To("reschedule")
  <2>1. w.pc = "fail" /\ Write("row", SetRow("Failed", Failing.note), v, bad)
    BY <1>1 DEF FailRow, At
  <2>2. /\ w.why \in {"unarmed", "missing", "exhausted"} /\ (w.why = "unarmed" <=> w.claim = NoJob)
    BY <2>1, Here DEF Good, ClaimAt, WorkerType, Reasons
  <2>3. v.pc = "close" /\ v.claim = w.claim /\ v.ck = w.ck
    BY Here DEF To, WorkerType
  <2>4. TameThread(bad)
    BY <2>1, <2>2, IdleIsTame, ErrorIsTame, ToIsTame DEF Pcs, Filing, BeforeAsr
  <2>5. TameDisk(SetRow("Failed", Failing.note))
    <3>1. Failing \in Owned
      BY Here, OwnedOk DEF Failing
    <3> QED BY <3>1, RowsAreTame DEF Statuses, Settled, Owned
  <2> HIDE DEF v, bad
  <2>6. TameThread(v)
    BY <2>3, WentIsTame DEF Filing, BeforeAsr
  <2> QED BY <2>1, <2>4, <2>5, <2>6, WriteIsTame
<1>2. CASE CloseNote
  <2> DEFINE d == SetNote(w.note.note, MarkIncomplete(disk.notes[w.note.note]))
             next == CASE w.why = "unarmed" -> Idle
                       [] w.why = "missing" -> Ok
                       [] w.why = "exhausted" -> To("park")
  <2>1. w.pc = "close" /\ (Goto(next) \/ Write("note", d, next, next))
    BY <1>2 DEF CloseNote, At
  <2>2. w.why \in {"unarmed", "missing", "exhausted"}
    BY <2>1, Here DEF Good, ClaimAt, WorkerType, Reasons
  <2>3. TameThread(next)
    BY <2>2, IdleIsTame, OkIsTame, ToIsTame DEF Pcs, Filing, BeforeAsr
  <2>4. TameDisk(d)
    BY RowsAreTame DEF MarkIncomplete, Contents
  <2> QED BY <2>1, <2>3, <2>4, WriteIsTame, GotoIsTame
<1> QED BY <1>1, <1>2

LEMMA SettlingIsTame ==
    ASSUME Inv, SettleOk \/ SettleError \/ Park \/ Reschedule \/ Backoff
    PROVE  TameStep
<1>1. CASE SettleOk
  BY <1>1, RowsAreTame, IdleIsTame, WriteIsTame DEF SettleOk
<1>2. CASE SettleError
  <2> DEFINE claim == Presented(w.claim, w.err.note)
             known == [w EXCEPT !.claim = claim]
             note == AuthoritativeNote(disk.ckpt, claim.payload, disk.row.note)
             v1 == [known EXCEPT !.pc = "park"]
             v2 == [known EXCEPT !.pc = "fail", !.why = "exhausted", !.note = note]
             parks == claim.attempts < claim.max \/ disk.row.status \in Settled \cup {"none"}
  <2>1. w.pc = "failed" /\ Goto(IF parks THEN v1 ELSE v2)
    BY <1>2 DEF SettleError, At
  <2>2. w.claim # NoJob /\ JobOk(w.claim) /\ w.err.note \in Notes \cup {NoNote}
    BY <2>1, ClaimedThere, Here DEF Good, Kept, Unclaimed, Shared, Owned
  <2>3. claim.attempts = w.claim.attempts /\ claim.payload.origin = w.claim.payload.origin
    BY <2>2, PresentedOk
  <2> HIDE DEF claim, note
  <2>4. /\ v1.pc = "park" /\ v1.claim = claim /\ v1.ck = w.ck
        /\ v2.pc = "fail" /\ v2.claim = claim /\ v2.ck = w.ck
    BY Here DEF WorkerType
  <2> HIDE DEF v1, v2
  <2>5. TameThread(v1) /\ TameThread(v2)
    BY <2>2, <2>3, <2>4 DEF TameThread, FirstUsing, BeforeAsr, Filing
  <2> HIDE DEF parks
  <2> QED BY <2>1, <2>5, GotoIsTame
<1>3. CASE Park
  <2> DEFINE job == Failed(disk.job, w.claim)
             v == IF job.state = "pending" THEN To("backoff") ELSE Idle
  <2>1. w.pc = "park" /\ Write("settle", [disk EXCEPT !.job = job], v, Idle)
    BY <1>3 DEF Park, At
  <2>2. w.claim # NoJob /\ JobOk(w.claim) /\ disk.job # NoJob /\ JobOk(disk.job)
    BY <2>1, ClaimedThere, Here, NoJobFacts DEF Good, Kept, ClaimAt, Unclaimed, Shared
  <2>3. /\ job \in Job /\ job.payload.origin = disk.job.payload.origin
        /\ job.payload.first = disk.job.payload.first /\ job.attempts = disk.job.attempts
    BY <2>2, FailedOk DEF JobOk
  <2>4. TameThread(v)
    BY ToIsTame, IdleIsTame DEF Pcs, Filing, BeforeAsr
  <2> HIDE DEF job, v
  <2>5. TameDisk([disk EXCEPT !.job = job])
    BY <2>2, <2>3, JobIsTame
  <2> QED BY <2>1, <2>4, <2>5, IdleIsTame, WriteIsTame
<1>4. CASE Reschedule
  <2> DEFINE job == Rescheduled(disk.job, w.claim)
  <2>1. w.pc = "reschedule" /\ Write("settle", [disk EXCEPT !.job = job], To("backoff"), Idle)
    BY <1>4, Here DEF Reschedule, At, DiskType
  <2>2. w.claim # NoJob /\ JobOk(w.claim) /\ disk.job # NoJob /\ JobOk(disk.job)
    BY <2>1, ClaimedThere, Here, NoJobFacts DEF Good, Kept, ClaimAt, Unclaimed, Shared
  <2>3. /\ job \in Job /\ job.payload.origin = disk.job.payload.origin
        /\ job.payload.first = disk.job.payload.first /\ job.attempts = disk.job.attempts
    BY <2>2, RescheduledOk DEF JobOk
  <2>4. TameThread(To("backoff"))
    BY ToIsTame DEF Pcs, Filing, BeforeAsr
  <2> HIDE DEF job
  <2>5. TameDisk([disk EXCEPT !.job = job])
    BY <2>2, <2>3, JobIsTame
  <2> QED BY <2>1, <2>4, <2>5, IdleIsTame, WriteIsTame
<1>5. CASE Backoff
  <2>1. TameDisk(SetStatus(RetryStatus))
    BY RetryStatusOk, RowsAreTame
  <2>2. Goto(Idle) \/ Write("row", SetStatus(RetryStatus), Idle, Idle)
    BY <1>5 DEF Backoff
  <2> QED BY <2>1, <2>2, IdleIsTame, WriteIsTame, GotoIsTame
<1> QED BY <1>1, <1>2, <1>3, <1>4, <1>5

LEMMA RestartIsTame ==
    ASSUME Inv, RecoverRunning \/ Resume \/ ResumeRow \/ Reap \/ ReapRow
    PROVE  TameStep
<1>1. /\ TameThread(To("resume")) /\ TameThread(To("reap")) /\ TameThread(To("resumeRow"))
      /\ TameThread(To("reapRow"))
  BY ToIsTame DEF Pcs, Filing, BeforeAsr
<1>2. /\ TameDisk(SetStatus("PendingNote")) /\ TameDisk(SetStatus("PendingTranscription"))
      /\ TameDisk(SetStatus("Failed"))
  BY RowsAreTame DEF Statuses, InProgress, Settled
<1>3. CASE RecoverRunning
  <2> DEFINE job == Recovered(disk.job)
  <2>1. Write("job", [disk EXCEPT !.job = job], To("resume"), To("resume"))
    BY <1>3, Here DEF RecoverRunning, DiskType
  <2>2. TameDisk([disk EXCEPT !.job = job])
    <3>1. CASE disk.job = NoJob
      <4>1. job = NoJob
        BY <3>1, NoJobFacts DEF Recovered
      <4> QED BY <4>1, RowsAreTame
    <3>2. CASE disk.job # NoJob
      <4>1. JobOk(disk.job)
        BY <3>2, Here DEF Good, Kept
      <4>2. /\ job \in Job /\ job.payload.origin = disk.job.payload.origin
            /\ job.payload.first = disk.job.payload.first /\ job.attempts = disk.job.attempts
        BY <4>1, RecoveredOk DEF JobOk
      <4> HIDE DEF job
      <4> QED BY <3>2, <4>2, JobIsTame
    <3> QED BY <3>1, <3>2
  <2> HIDE DEF job
  <2> QED BY <1>1, <2>1, <2>2, WriteIsTame
<1>4. CASE Resume
  <2>1. \/ Write("job", Arm(Blank, Retries), To("resumeRow"), To("reap"))
        \/ Goto(To("reap"))
    BY <1>4 DEF Resume
  <2> QED BY <1>1, <2>1, ArmIsTame, WriteIsTame, GotoIsTame
<1>5. CASE ResumeRow
  BY <1>1, <1>2, <1>5, WriteIsTame DEF ResumeRow
<1>6. CASE Reap
  <2> DEFINE v == [To("close") EXCEPT !.note = Partial(disk.row.note), !.why = "unarmed"]
  <2>1. \/ Goto(Idle) \/ Write("job", Arm(Blank, Retries), To("reapRow"), Idle)
        \/ Write("row", SetStatus("Failed"), v, Idle)
    BY <1>6 DEF Reap
  <2>2. v.pc = "close" /\ v.claim = w.claim /\ v.ck = w.ck
    BY Here DEF To, WorkerType
  <2> HIDE DEF v
  <2>3. TameThread(v)
    BY <2>2, WentIsTame DEF Filing, BeforeAsr
  <2> QED BY <1>1, <1>2, <2>1, <2>3, IdleIsTame, ArmIsTame, WriteIsTame, GotoIsTame
<1>7. CASE ReapRow
  BY <1>2, <1>7, IdleIsTame, WriteIsTame DEF ReapRow
<1> QED BY <1>3, <1>4, <1>5, <1>6, <1>7

LEMMA MessagesAreTame ==
    ASSUME Inv, \/ CollectLost \/ ScheduleRow \/ NoteCreated \/ NoteRow \/ Discarded \/ DiscardRow
                \/ Leftover \/ LeftoverRow \/ LeftoverFail \/ ManualRetry
    PROVE  TameStep
<1>1. /\ TameThread(To("discardRow")) /\ TameThread(To("leftoverRow"))
      /\ TameThread(To("leftoverFail"))
  BY ToIsTame DEF Pcs, Filing, BeforeAsr
<1>2. TameThread([To("close") EXCEPT !.note = Partial(live.note), !.why = "unarmed"])
  <2> DEFINE v == [To("close") EXCEPT !.note = Partial(live.note), !.why = "unarmed"]
  <2>1. v.pc = "close" /\ v.claim = w.claim /\ v.ck = w.ck
    BY Here DEF To, WorkerType
  <2> HIDE DEF v
  <2>2. TameThread(v)
    BY <2>1, WentIsTame DEF Filing, BeforeAsr
  <2> QED BY <2>2 DEF v
<1>3. TameDisk([disk EXCEPT !.row = IF @ = NoRow THEN NewRow ELSE @])
  <2> DEFINE d == [disk EXCEPT !.row = IF @ = NoRow THEN NewRow ELSE @]
  <2>1. d.job = disk.job /\ d.ckpt = disk.ckpt
    BY MakesRow
  <2> HIDE DEF d
  <2>2. TameDisk(d)
    BY <2>1, SameIsTame
  <2> QED BY <2>2 DEF d
<1>4. live.note \in Notes \cup {NoNote}
  BY DEF Inv, Types, LiveType
<1>5. CASE CollectLost
  <2>1. \/ Goto(Idle)
        \/ Goto([To("close") EXCEPT !.note = Partial(live.note), !.why = "unarmed"])
    BY <1>5 DEF CollectLost
  <2> QED BY <1>2, <2>1, IdleIsTame, GotoIsTame
<1>6. CASE ScheduleRow
  <2>1. TameDisk(SetRow(RetryStatus, w.note.note))
    BY RetryStatusOk, RowsAreTame, Here DEF Owned
  <2> QED BY <1>6, <2>1, IdleIsTame, WriteIsTame DEF ScheduleRow
<1>7. CASE NoteCreated
  <2> DEFINE d == [disk EXCEPT !.row = NewRow]
  <2>1. w.pc = "idle" /\ w.claim = NoJob
    BY <1>7, Here DEF NoteCreated, Take, At, Good, ClaimAt, Unclaimed
  <2>2. d.job = disk.job /\ d.ckpt = disk.ckpt
    BY Here DEF DiskType
  <2>3. /\ To("noteRow").pc = "noteRow" /\ To("noteRow").claim = w.claim
        /\ To("noteRow").ck = w.ck
    BY Here, Moves DEF Pcs
  <2>4. TameThread(To("noteRow"))
    BY <2>1, <2>3 DEF TameThread, FirstUsing, BeforeAsr, Filing
  <2> HIDE DEF d
  <2>5. TameDisk(d) /\ TameDisk(SetRow(disk.row.status, live.note))
    BY <1>4, <2>2, SameIsTame, RowsAreTame, Here
  <2>6. \/ Write("row", SetRow(disk.row.status, live.note), Idle, Idle)
        \/ Write("row", d, To("noteRow"), Idle) \/ Goto(Idle)
    BY <1>7 DEF NoteCreated, d
  <2> QED BY <2>4, <2>5, <2>6, IdleIsTame, WriteIsTame, GotoIsTame
<1>8. CASE NoteRow
  <2>1. TameDisk(SetRow("Recording", live.note))
    BY <1>4, RowsAreTame DEF Statuses
  <2> QED BY <1>8, <2>1, IdleIsTame, WriteIsTame DEF NoteRow
<1>9. CASE Discarded
  BY <1>1, <1>9, RowsAreTame, WriteIsTame DEF Discarded
<1>10. CASE DiscardRow
  <2>1. TameDisk(SetStatus("Failed"))
    BY RowsAreTame DEF Statuses, Settled
  <2>2. Goto(Idle) \/ Write("row", SetStatus("Failed"), Idle, Idle)
    BY <1>10 DEF DiscardRow
  <2> QED BY <2>1, <2>2, IdleIsTame, WriteIsTame, GotoIsTame
<1>11. CASE Leftover
  <2>1. TameDisk(SetNote(live.note, "absent"))
    BY RowsAreTame DEF Contents
  <2> QED BY <1>1, <1>11, <2>1, IdleIsTame, WriteIsTame DEF Leftover
<1>12. CASE LeftoverRow
  <2> DEFINE v == IF disk.row.status = "Done" THEN ClosesLeftover ELSE To("leftoverFail")
  <2>1. TameThread(v) /\ TameThread(ClosesLeftover)
    BY <1>1, <1>2 DEF ClosesLeftover
  <2>2. Write("row", [disk EXCEPT !.row = IF @ = NoRow THEN NewRow ELSE @], v, ClosesLeftover)
    BY <1>12 DEF LeftoverRow
  <2> HIDE DEF v
  <2> QED BY <1>3, <2>1, <2>2, WriteIsTame
<1>13. CASE LeftoverFail
  <2>1. TameDisk(SetRow("Failed", live.note)) /\ TameThread(ClosesLeftover)
    BY <1>2, <1>4, RowsAreTame DEF Statuses, Settled, ClosesLeftover
  <2> QED BY <1>13, <2>1, WriteIsTame DEF LeftoverFail
<1>14. CASE ManualRetry
  <2> DEFINE d == [disk EXCEPT !.job = Rearmed, !.row.status = RetryStatus]
  <2>1. d.job = Rearmed /\ d.ckpt = disk.ckpt
    BY Here DEF DiskType
  <2> HIDE DEF d
  <2>2. disk.job = NoJob => DurableOrigin \in {Unknown, disk.ckpt.origin}
    BY DEF DurableOrigin
  <2>3. TameDisk(d)
    BY <2>1, <2>2, RearmedOk DEF TameDisk, FirstUnused
  <2>4. Goto(Idle) \/ Write("job", d, Idle, Idle)
    BY <1>14 DEF ManualRetry, d
  <2> QED BY <2>3, <2>4, IdleIsTame, WriteIsTame, GotoIsTame
<1> QED BY <1>5, <1>6, <1>7, <1>8, <1>9, <1>10, <1>11, <1>12, <1>13, <1>14

-----------------------------------------------------------------------------
(* The data stays where it was first authorized to go                       *)

LEMMA InsideKeepsData ==
    ASSUME Inv, NEW x \in Backends, LiveData(x), UNCHANGED <<inbox, live>>,
           Data(x, disk', w', configured', log'), w'.pc # "collect",
           log' = log \/ ~ CallPending
    PROVE  DataInv'
<1>1. CallPending' = CallPending /\ \A m : Has(m)' = Has(m)
  BY DEF CallPending, Has
<1>2. LiveData(x)'
  BY <1>1 DEF LiveData
<1>3. Data(x, disk, w, configured, log)'
  BY DEF Data, FirstUnused, FirstUsing
<1> QED BY <1>2, <1>3 DEF DataInv

LEMMA TameInside ==
    ASSUME Inv, DataInv, TameStep, Inside
    PROVE  DataInv'
<1>1. PICK x \in Backends : Data(x, disk, w, configured, log) /\ LiveData(x)
  BY DEF DataInv
<1>2. Data(x, disk', w', configured', log')
  BY <1>1, TameKeepsData DEF TameStep, Inside
<1>3. w'.pc # "collect"
  BY DEF TameStep, TameThread
<1> QED BY <1>1, <1>2, <1>3, InsideKeepsData DEF Inside

\* A message that was taken leaves the others in the channel.
LEMMA TakeLeaves ==
    ASSUME Inv, NEW m, Take(m), NEW x, x # m
    PROVE  Has(x)' <=> Has(x)
<1>1. /\ inbox \in Seq(Msgs) /\ inbox # <<>> /\ inbox' = Tail(inbox) /\ inbox[1] = m
      /\ Len(inbox) \in Nat /\ Len(inbox) >= 1
  BY DEF Take, Inv, Types
<1>2. /\ Len(inbox') = Len(inbox) - 1
      /\ \A i \in 1 .. Len(inbox') : inbox'[i] = inbox[i + 1] /\ i + 1 \in 1 .. Len(inbox)
  BY <1>1
<1>3. ASSUME NEW i \in 1 .. Len(inbox), inbox[i] = x
      PROVE  Has(x)'
  <2>1. i - 1 \in 1 .. Len(inbox')
    BY <1>1, <1>2, <1>3
  <2>2. inbox'[i - 1] = x
    BY <1>1, <1>2, <1>3, <2>1
  <2> QED BY <2>1, <2>2 DEF Has
<1> QED BY <1>2, <1>3 DEF Has

LEMMA TakeKeepsLive ==
    ASSUME Inv, NEW m, Take(m), live' = live, log' = log, NEW x, LiveData(x),
           w'.pc = "collect" => m = "process"
    PROVE  LiveData(x)'
<1>1. CallPending' => CallPending /\ m \notin Verdicts
  <2>1. m \in Verdicts => ~ Has("process")' /\ ~ Has("discarded")' /\ ~ live.call
    BY TakeFacts DEF Inv, InboxInv, Verdicts
  <2> QED BY <2>1, TakeFacts DEF CallPending
<1>2. m # "discarded" => (Has("discarded")' <=> Has("discarded"))
  BY TakeLeaves
<1>3. /\ m = "process" => CallPending /\ Has("process")
      /\ Has("process")' => Has("process")
  BY TakeFacts DEF CallPending
<1>4. live.state = "discarded" => ~ Has("process")' /\ w'.pc # "collect"
  BY <1>3 DEF LiveData
<1> QED BY <1>1, <1>2, <1>3, <1>4 DEF LiveData, Verdicts

LEMMA TameTake ==
    ASSUME Inv, DataInv, TameStep, NEW m, Take(m), UNCHANGED <<live, configured, log>>
    PROVE  DataInv'
<1>1. PICK x \in Backends : Data(x, disk, w, configured, log) /\ LiveData(x)
  BY DEF DataInv
<1>2. Data(x, disk', w', configured', log')
  BY <1>1, TameKeepsData DEF TameStep
<1>3. Data(x, disk, w, configured, log)'
  BY <1>2 DEF Data, FirstUnused, FirstUsing
<1>4. w'.pc # "collect"
  BY DEF TameStep, TameThread
<1>5. LiveData(x)'
  BY <1>1, <1>4, TakeKeepsLive
<1> QED BY <1>3, <1>5 DEF DataInv

LEMMA CollectKeepsData ==
    ASSUME Inv, NEW x \in Backends, Collected, UNCHANGED <<inbox, log>>, ~ CallPending,
           Data(x, disk', w', configured', log'), w'.pc # "collect", live.filed => x = Local
    PROVE  DataInv'
<1>1. live' = [live EXCEPT !.state = "none"] /\ live \in LiveType
  BY DEF Collected, Inv, Types
<1>2. live'.call = live.call /\ live'.filed = live.filed /\ live'.state = "none"
  BY <1>1 DEF LiveType
<1>3. CallPending' = CallPending
  BY <1>2 DEF CallPending, Has
<1>4. LiveData(x)'
  BY <1>2, <1>3 DEF LiveData
<1>5. Data(x, disk, w, configured, log)'
  BY DEF Data, FirstUnused, FirstUsing
<1> QED BY <1>4, <1>5 DEF DataInv

LEMMA ProcessData == Inv /\ DataInv /\ Process => DataInv'
<1> SUFFICES ASSUME Inv, DataInv, Process PROVE DataInv'
  OBVIOUS
<1> DEFINE d == [disk EXCEPT !.row = IF @ = NoRow THEN NewRow ELSE @]
<1>1. /\ Take("process") /\ UNCHANGED <<live, configured, log>>
      /\ Write("row", d, To("collect"), To("collectLost"))
  BY DEF Process
<1>2. PICK x \in Backends : Data(x, disk, w, configured, log) /\ LiveData(x)
  BY DEF DataInv
<1>3. w.pc = "idle" /\ Untouched(disk) /\ CallPending /\ w.claim = NoJob
  BY <1>1, TakeFacts, Here DEF Inv, CallAt, CallPending, Good, ClaimAt, Unclaimed
<1>4. d.job = disk.job /\ d.ckpt = disk.ckpt
  BY MakesRow
<1>5. disk' \in {d, disk} /\ w' \in {To("collect"), To("collectLost")}
  BY <1>1 DEF Write
<1> HIDE DEF d
<1>6. disk'.job = NoJob /\ disk'.ckpt = NoCkpt
  BY <1>3, <1>4, <1>5 DEF Untouched
<1>7. w'.claim = NoJob /\ w'.ck = NoCkpt /\ w'.pc \in {"collect", "collectLost"}
  <2>1. "collect" \in Pcs /\ "collectLost" \in Pcs /\ w.ck = NoCkpt
    BY <1>2, <1>3 DEF Pcs, Data
  <2> QED BY <1>3, <1>5, <2>1, Here, Moves
<1>8. log.sent = 0 /\ log.backends \subseteq {x}
  BY <1>2, <1>3 DEF Data, LiveData
<1>9. Data(x, disk', w', configured', log')
  BY <1>1, <1>6, <1>7, <1>8, IdleOk DEF Data, FirstUnused, FirstUsing, BeforeAsr, Filing
<1>10. Data(x, disk, w, configured, log)'
  BY <1>9 DEF Data, FirstUnused, FirstUsing
<1>11. LiveData(x)'
  BY <1>1, <1>2, TakeKeepsLive
<1> QED BY <1>10, <1>11 DEF DataInv

LEMMA CollectFiledData == Inv /\ DataInv /\ CollectFiled => DataInv'
<1> SUFFICES ASSUME Inv, DataInv, CollectFiled PROVE DataInv'
  OBVIOUS
<1> DEFINE note == [note |-> live.note, canonical |-> TRUE]
           ck == [disk.ckpt EXCEPT !.valid = TRUE, !.note = live.note, !.canonical = TRUE]
           v == [To("clean") EXCEPT !.note = note, !.ck = ck]
<1>1. /\ w.pc = "collect" /\ Collected /\ live.filed /\ UNCHANGED <<inbox, configured, log>>
      /\ w' = v /\ disk' = disk
  BY DEF CollectFiled, At, Goto
<1>2. PICK x \in Backends : Data(x, disk, w, configured, log) /\ LiveData(x)
  BY DEF DataInv
<1>3. ~ CallPending /\ w.claim = NoJob /\ disk.job = NoJob /\ x = Local
  BY <1>1, <1>2, Here, Away DEF Good, ClaimAt, Unclaimed, LiveData
<1>4. ck.origin = disk.ckpt.origin
  BY Here DEF Ckpt
<1> HIDE DEF note, ck
<1>5. v.pc = "clean" /\ v.claim = w.claim /\ v.ck = ck
  BY Here DEF To, WorkerType
<1> HIDE DEF v
<1>6. Data(x, disk', w', configured', log')
  BY <1>1, <1>2, <1>3, <1>4, <1>5 DEF Data, FirstUnused, FirstUsing, BeforeAsr, Filing
<1> QED BY <1>1, <1>3, <1>5, <1>6, CollectKeepsData

LEMMA CollectBatchData == Inv /\ DataInv /\ CollectBatch => DataInv'
<1> SUFFICES ASSUME Inv, DataInv, CollectBatch PROVE DataInv'
  OBVIOUS
<1> DEFINE note == IF HadSession THEN live.note ELSE NoNote
           payload == [Blank EXCEPT !.note = note, !.origin = FirstOrigin,
                                    !.first = FreshBatch, !.finished = TRUE]
           max == IF HadSession \/ FreshBatch THEN Retries + 1 ELSE Retries
           d == Arm(payload, max)
           v == FailWith("unarmed", Partial(note))
<1>1. /\ w.pc = "collect" /\ Collected /\ ~ live.filed /\ UNCHANGED <<inbox, configured, log>>
      /\ Write("job", d, Idle, v)
  BY DEF CollectBatch, At
<1>2. PICK x \in Backends : Data(x, disk, w, configured, log) /\ LiveData(x)
  BY DEF DataInv
<1>3. /\ ~ CallPending /\ ~ Has("discarded") /\ w.claim = NoJob /\ disk.job = NoJob
      /\ disk.ckpt = NoCkpt /\ w.ck = NoCkpt /\ log.sent = 0
  BY <1>1, <1>2, Here, Away DEF Good, ClaimAt, Unclaimed, Data, CallPending
<1>4. note \in Notes \cup {NoNote} /\ max \in Nat
  BY BoundsAssumption DEF Inv, Types, LiveType
<1>5. payload \in Payload /\ WellOwned(payload) /\ payload.origin = FirstOrigin
  <2>1. FirstOrigin \in Backends \cup {Unknown} /\ FreshBatch \in BOOLEAN
    BY BackendsAssumption, Here
       DEF FirstOrigin, FreshBatch, HadSession, Inv, Types, DiskType, RowType
  <2> HIDE DEF note
  <2> QED BY <1>4, <2>1 DEF Blank, Payload, WellOwned
<1>6. \E y \in Backends : /\ FirstOrigin \in {y, Unknown} /\ log.backends \subseteq {y}
  <2>1. CASE HadSession
    <3>1. x = Local
      BY <1>2, <2>1 DEF HadSession, LiveData
    <3> QED BY <1>2, <2>1, <3>1 DEF FirstOrigin, Data
  <2>2. CASE ~ HadSession
    <3>1. log.backends = {}
      BY <1>1, <1>2, <1>3, <2>2 DEF HadSession, Collected, LiveData
    <3> QED BY <2>2, <3>1 DEF FirstOrigin, Inv, Types
  <2> QED BY <2>1, <2>2
<1>7. PICK y \in Backends : FirstOrigin \in {y, Unknown} /\ log.backends \subseteq {y}
  BY <1>6
<1> HIDE DEF payload, max
<1>8. d.ckpt = disk.ckpt /\ d.job # NoJob /\ d.job.payload.origin = FirstOrigin
  BY <1>3, <1>4, <1>5, Arms, NewJobOk
<1>9. v.pc = "fail" /\ v.claim = w.claim /\ v.ck = w.ck
  <2>1. Partial(note) \in Owned /\ "unarmed" \in Reasons
    BY <1>4, OwnedOk DEF Reasons
  <2> QED BY <2>1, Here, FailsWith
<1>10. disk' \in {d, disk} /\ w' \in {Idle, v}
  BY <1>1 DEF Write
<1> HIDE DEF d, v
<1>11. Data(y, disk', w', configured', log')
  BY <1>1, <1>3, <1>7, <1>8, <1>9, <1>10, IdleOk DEF Data, FirstUsing, BeforeAsr, Filing
<1>12. w'.pc # "collect"
  BY <1>9, <1>10, IdleOk
<1> QED BY <1>1, <1>3, <1>11, <1>12, CollectKeepsData

LEMMA CollectLostData == Inv /\ DataInv /\ CollectLost => DataInv'
<1> SUFFICES ASSUME Inv, DataInv, CollectLost PROVE DataInv'
  OBVIOUS
<1>1. w.pc = "collectLost" /\ Collected /\ UNCHANGED <<inbox, configured, log>>
  BY DEF CollectLost, At
<1>2. PICK x \in Backends : Data(x, disk, w, configured, log) /\ LiveData(x)
  BY DEF DataInv
<1>3. ~ CallPending
  BY <1>1, Away
<1>4. TameDisk(disk') /\ TameThread(w')
  BY MessagesAreTame DEF TameStep
<1>5. Data(x, disk', w', configured', log') /\ w'.pc # "collect"
  BY <1>1, <1>2, <1>4, TameKeepsData DEF TameThread
<1>6. live.filed => x = Local
  BY <1>2 DEF LiveData
<1> QED BY <1>1, <1>3, <1>5, <1>6, CollectKeepsData

LEMMA ScheduleData == Inv /\ DataInv /\ Schedule => DataInv'
<1> SUFFICES ASSUME Inv, DataInv, Schedule PROVE DataInv'
  OBVIOUS
<1> DEFINE note == Or(w.err, Or(OwnedNote(disk.ckpt), w.note))
           payload == [Blank EXCEPT !.note = note.note, !.canonical = note.canonical,
                                    !.origin = Local]
           d == Arm(payload, Retries)
           v == [To("scheduleRow") EXCEPT !.note = note]
           u == FailWith("unarmed", note)
<1>1. w.pc = "schedule" /\ Inside /\ Write("job", d, v, u)
  BY DEF Schedule, At
<1>2. PICK x \in Backends : Data(x, disk, w, configured, log) /\ LiveData(x)
  BY DEF DataInv
<1>3. ~ CallPending /\ w.claim = NoJob /\ disk.job = NoJob /\ x = Local
  BY <1>1, <1>2, Here, Away DEF Good, ClaimAt, Unclaimed, Data, Filing
<1>4. note \in Owned /\ WellOwned(note)
  BY Here, OwnedOk DEF Good, Kept
<1> HIDE DEF note
<1>5. payload \in Payload /\ WellOwned(payload) /\ payload.origin = Local /\ ~ payload.first
  BY <1>4, BackendsAssumption DEF Blank, Payload, WellOwned, Owned
<1> HIDE DEF payload
<1>6. d.ckpt = disk.ckpt /\ d.job # NoJob /\ d.job.payload = payload
  BY <1>3, <1>5, Arms, NewJobOk, BoundsAssumption
<1>7. /\ u.pc = "fail" /\ u.claim = w.claim /\ u.ck = w.ck
      /\ v.pc = "scheduleRow" /\ v.claim = w.claim /\ v.ck = w.ck
  <2>1. "unarmed" \in Reasons
    BY DEF Reasons
  <2>2. u.pc = "fail" /\ u.claim = w.claim /\ u.ck = w.ck
    BY <1>4, <2>1, Here, FailsWith
  <2> QED BY <2>2, Here DEF To, WorkerType
<1>8. disk' \in {d, disk} /\ w' \in {v, u}
  BY <1>1 DEF Write
<1> HIDE DEF d, v, u
<1>9. Data(x, disk', w', configured', log') /\ w'.pc # "collect"
  BY <1>1, <1>2, <1>3, <1>5, <1>6, <1>7, <1>8
     DEF Data, FirstUnused, FirstUsing, BeforeAsr, Filing, Inside
<1> QED BY <1>1, <1>2, <1>9, InsideKeepsData DEF Inside

LEMMA ClaimJobData == Inv /\ DataInv /\ ClaimJob => DataInv'
<1> SUFFICES ASSUME Inv, DataInv, ClaimJob PROVE DataInv'
  OBVIOUS
<1> DEFINE job == Claimed(disk.job)
           d == [disk EXCEPT !.job = job]
           v == [Idle EXCEPT !.pc = "dispatch", !.claim = job]
<1>1. Inside /\ disk.job.state = "pending" /\ disk' = d /\ w' = v
  BY Here DEF ClaimJob, DiskType
<1>2. PICK x \in Backends : Data(x, disk, w, configured, log) /\ LiveData(x)
  BY DEF DataInv
<1>3. disk.job # NoJob /\ JobOk(disk.job)
  BY <1>1, Here, NoJobFacts DEF Good, Kept
<1>4. /\ job # NoJob /\ job.attempts = disk.job.attempts + 1 /\ job.payload = disk.job.payload
      /\ disk.job.attempts \in Nat
  BY <1>3, ClaimedOk DEF JobOk, Job
<1> HIDE DEF job
<1>5. d.job = job /\ d.ckpt = disk.ckpt
  BY Here DEF DiskType
<1>6. v.pc = "dispatch" /\ v.claim = job /\ v.ck = NoCkpt
  BY IdleOk DEF WorkerType
<1> HIDE DEF d, v
<1>7. FirstUsing(v) => FirstUnused(disk)
  BY <1>3, <1>4, <1>6 DEF FirstUsing, FirstUnused
<1>8. Data(x, disk', w', configured', log') /\ w'.pc # "collect"
  BY <1>1, <1>2, <1>3, <1>4, <1>5, <1>6, <1>7, IdleOk DEF Data, FirstUnused, Filing, Inside
<1> QED BY <1>1, <1>2, <1>8, InsideKeepsData DEF Inside

LEMMA TranscribeData == Inv /\ DataInv /\ Transcribe => DataInv'
<1> SUFFICES ASSUME Inv, DataInv, Transcribe PROVE DataInv'
  OBVIOUS
<1> DEFINE d == [SetStatus("Transcribing") EXCEPT !.row.attempted = TRUE]
<1>1. /\ w.pc = "transcribe" /\ Inside
      /\ Goto(To("refuse")) \/ (Origin = configured /\ Write("row", d, To("asr"), Error))
  BY DEF Transcribe, At, Authorized
<1>2. PICK x \in Backends : Data(x, disk, w, configured, log) /\ LiveData(x)
  BY DEF DataInv
<1>3. w.claim # NoJob
  BY <1>1, ClaimedThere DEF Unclaimed, Shared
<1>4. CASE Goto(To("refuse"))
  <2>1. TameStep
    BY <1>4, ToIsTame, GotoIsTame DEF Pcs, Filing, BeforeAsr
  <2> QED BY <1>1, <2>1, TameInside
<1>5. CASE Origin = configured /\ Write("row", d, To("asr"), Error)
  <2>1. d.job = disk.job /\ d.ckpt = disk.ckpt
    BY Here DEF DiskType, RowType, SetStatus
  <2> HIDE DEF d
  <2>2. To("asr").pc = "asr" /\ To("asr").claim = w.claim /\ To("asr").ck = w.ck
    BY Here, Moves DEF Pcs
  <2>3. Error.pc = "failed" /\ Error.claim = w.claim /\ Error.ck = w.ck
    BY <1>1, <1>3, ErrorGood
  <2>4. disk' \in {d, disk} /\ w' \in {To("asr"), Error}
    BY <1>5 DEF Write
  <2>5. Data(x, disk', w', configured', log') /\ w'.pc # "collect"
    BY <1>1, <1>2, <1>3, <1>5, <2>1, <2>2, <2>3, <2>4
       DEF Data, FirstUnused, FirstUsing, BeforeAsr, Filing, Inside, Origin
  <2> QED BY <1>1, <1>2, <2>5, InsideKeepsData DEF Inside
<1> QED BY <1>1, <1>4, <1>5

LEMMA RunAsrData == Inv /\ DataInv /\ RunAsr => DataInv'
<1> SUFFICES ASSUME Inv, DataInv, RunAsr PROVE DataInv'
  OBVIOUS
<1> DEFINE v == [To("store") EXCEPT !.ck = Checkpoint(TRUE)]
<1>1. /\ w.pc = "asr" /\ UNCHANGED <<inbox, live, configured>>
      /\ Goto(Error) \/ Write("asr", disk, v, Error)
  BY DEF RunAsr, At
<1>2. PICK x \in Backends : Data(x, disk, w, configured, log) /\ LiveData(x)
  BY DEF DataInv
<1>3. ~ CallPending /\ w.claim # NoJob /\ disk.job.attempts = w.claim.attempts
  BY <1>1, Away, ClaimedThere, Here DEF Unclaimed, Shared, Good, ClaimAt
<1>4. Origin = configured /\ x = configured
  BY <1>1, <1>2, <1>3, UnknownAssumption DEF Data, Origin, Inv, Types
<1>5. PICK sent \in IF PermitsHostedFinal THEN {0, 1} ELSE {0} :
         log' = [log EXCEPT !.asr = @ + 1, !.backends = @ \cup {configured}, !.sent = @ + sent]
  BY DEF RunAsr
<1>6. /\ log'.backends = log.backends \cup {configured} /\ log'.sent = log.sent + sent
      /\ log.sent \in Nat /\ sent \in {0, 1}
  BY <1>5, Here DEF LogType
<1>7. sent = 1 /\ x = Local => FirstUsing(w)
  BY <1>1, <1>4, <1>5, BackendsAssumption
     DEF PermitsHostedFinal, RecordedFirst, FirstUsing, BeforeAsr
<1>8. disk' = disk /\ w' \in {v, Error}
  BY <1>1 DEF Goto, Write
<1>9. v.pc = "store" /\ v.claim = w.claim /\ v.ck.origin = Origin
  <2>1. "store" \in Pcs /\ Checkpoint(TRUE).origin = Origin
    BY DEF Pcs, Checkpoint
  <2> QED BY <1>3, <2>1, Carries, CheckpointOk
<1>10. Error.pc = "failed" /\ Error.claim = w.claim /\ Error.ck = w.ck
  BY <1>1, <1>3, ErrorGood
<1> HIDE DEF v
<1>11. x = Local => log'.sent <= 1
  BY <1>2, <1>6, <1>7 DEF Data
<1>12. ~ FirstUnused(disk)
  BY <1>2, <1>3, Here DEF FirstUnused, Data, Good, Kept, JobOk, Job
<1>13. Data(x, disk', w', configured', log') /\ w'.pc # "collect"
  BY <1>1, <1>2, <1>3, <1>4, <1>6, <1>8, <1>9, <1>10, <1>11, <1>12
     DEF Data, FirstUsing, BeforeAsr, Filing
<1> QED BY <1>1, <1>2, <1>3, <1>13, InsideKeepsData

\* Steps of the call, the session, the user and the vault.
LEMMA AroundKeepsData ==
    ASSUME Inv, NEW x \in Backends, Data(x, disk, w, configured, log), w' = w,
           disk'.job = disk.job, disk'.ckpt = disk.ckpt, log'.backends \subseteq {x},
           log'.sent = log.sent, configured' = configured \/ w.pc = "idle", LiveData(x)'
    PROVE  DataInv'
<1>1. Data(x, disk, w, configured, log)'
  BY DEF Data, FirstUnused, FirstUsing
<1> QED BY <1>1 DEF DataInv

LEMMA LiveCreatesData == Inv /\ DataInv /\ LiveCreatesNote => DataInv'
<1> SUFFICES ASSUME Inv, DataInv, LiveCreatesNote PROVE DataInv'
  OBVIOUS
<1>1. /\ live.state \in {"running", "finishing"} /\ disk' = SetNote(NewNote, "open")
      /\ live' = [live EXCEPT !.note = NewNote] /\ inbox' = Append(inbox, "note")
      /\ log' = [log EXCEPT !.backends = @ \cup {Local}]
      /\ UNCHANGED <<w, configured, spent>>
  BY DEF LiveCreatesNote
<1>2. PICK x \in Backends : Data(x, disk, w, configured, log) /\ LiveData(x)
  BY DEF DataInv
<1>3. disk'.job = disk.job /\ disk'.ckpt = disk.ckpt
  BY <1>1, Here, SetsNote DEF Contents
<1>4. x = Local
  BY <1>1, <1>2 DEF LiveData
<1>5. live'.state = live.state /\ live'.call = live.call /\ live'.filed = live.filed
  BY <1>1 DEF Inv, Types, LiveType
<1>6. log'.backends \subseteq {x} /\ log'.sent = log.sent
  BY <1>1, <1>2, <1>4, Here DEF Data, LogType
<1>7. \A m : Has(m)' <=> Has(m) \/ m = "note"
  BY <1>1, AppendFacts DEF Msgs
<1>8. LiveData(x)'
  BY <1>1, <1>2, <1>4, <1>5, <1>6, <1>7 DEF LiveData, CallPending
<1> QED BY <1>1, <1>2, <1>3, <1>6, <1>8, AroundKeepsData

LEMMA SessionData ==
    ASSUME Inv, DataInv, LiveDeletesNote \/ \E filed \in BOOLEAN : LiveSettles(filed)
    PROVE  DataInv'
<1>1. PICK x \in Backends : Data(x, disk, w, configured, log) /\ LiveData(x)
  BY DEF DataInv
<1>2. ASSUME NEW filed \in BOOLEAN, LiveSettles(filed)
      PROVE  DataInv'
  <2>1. /\ live.state = "finishing" /\ disk' = (IF filed THEN SetNote(live.note, "whole") ELSE disk)
        /\ live' = [live EXCEPT !.state = "ready", !.filed = filed]
        /\ UNCHANGED <<w, inbox, configured, spent, log>>
    BY <1>2 DEF LiveSettles
  <2>2. disk'.job = disk.job /\ disk'.ckpt = disk.ckpt
    BY <2>1, Here, SetsNote DEF Contents
  <2>3. live'.state = "ready" /\ live'.call = live.call
    BY <2>1 DEF Inv, Types, LiveType
  <2>4. LiveData(x)'
    BY <1>1, <2>1, <2>3 DEF LiveData, CallPending, Has
  <2> QED BY <1>1, <2>1, <2>2, <2>4, AroundKeepsData DEF Data
<1>3. ASSUME LiveDeletesNote
      PROVE  DataInv'
  <2>1. /\ live.state = "discarded" /\ live' = [live EXCEPT !.state = "none"]
        /\ UNCHANGED <<w, configured, log>>
    BY <1>3 DEF LiveDeletesNote
  <2>2. PICK ok \in BOOLEAN :
           /\ disk' = IF ok /\ live.note # NoNote THEN SetNote(live.note, "absent") ELSE disk
           /\ inbox' = IF ok \/ live.note = NoNote THEN inbox ELSE Append(inbox, "leftover")
    BY <1>3 DEF LiveDeletesNote
  <2>3. disk'.job = disk.job /\ disk'.ckpt = disk.ckpt
    BY <2>2, Here, SetsNote DEF Contents
  <2>4. /\ live'.state = "none" /\ live'.call = live.call /\ live'.filed = live.filed /\ ~ live.call
    BY <2>1 DEF Inv, Types, LiveType, SessionInv
  <2>5. \A m \in Verdicts : Has(m)' <=> Has(m)
    <3>1. CASE inbox' = inbox
      BY <3>1 DEF Has
    <3>2. CASE inbox' = Append(inbox, "leftover")
      BY <3>2, AppendFacts DEF Msgs, Verdicts
    <3> QED BY <2>2, <3>1, <3>2
  <2>6. ~ Has("process") /\ w.pc # "collect"
    BY <1>1, <2>1 DEF LiveData
  <2>7. LiveData(x)'
    BY <1>1, <2>1, <2>4, <2>5, <2>6 DEF LiveData, CallPending, Verdicts
  <2> QED BY <1>1, <2>1, <2>3, <2>7, AroundKeepsData DEF Data
<1> QED BY <1>2, <1>3

LEMMA CallEndsData ==
    ASSUME Inv, DataInv, NEW verdict \in {"process", "discarded"}, CallEnds(verdict)
    PROVE  DataInv'
<1> DEFINE state == IF live.state # "running" THEN live.state
                    ELSE IF verdict = "process" THEN "finishing" ELSE "discarded"
<1>1. /\ live.call /\ live' = [live EXCEPT !.call = FALSE, !.state = state]
      /\ disk' = [disk EXCEPT !.audio = (verdict = "process")]
      /\ inbox' = Append(inbox, verdict)
      /\ UNCHANGED <<w, configured, spent, log>>
  BY DEF CallEnds, Inv, Types, LiveType
<1>2. PICK x \in Backends : Data(x, disk, w, configured, log) /\ LiveData(x)
  BY DEF DataInv
<1>3. disk'.job = disk.job /\ disk'.ckpt = disk.ckpt
  BY <1>1, Here DEF DiskType
<1>4. live'.state = state /\ live'.filed = live.filed /\ ~ live'.call
  BY <1>1 DEF Inv, Types, LiveType
<1>5. \A m : Has(m)' <=> Has(m) \/ m = verdict
  BY <1>1, AppendFacts DEF Msgs
<1>6. ~ Has("process") /\ ~ Has("discarded") /\ w.pc # "collect" /\ live.state # "discarded"
  BY <1>1, Away DEF Inv, InboxInv, SessionInv, Verdicts, CallPending
<1>7. LiveData(x)'
  BY <1>1, <1>2, <1>4, <1>5, <1>6 DEF LiveData, CallPending
<1> QED BY <1>1, <1>2, <1>3, <1>7, AroundKeepsData DEF Data

LEMMA AroundData ==
    ASSUME Inv, DataInv, \/ UserRetries \/ ReloadConfig \/ AudioVanishes
                         \/ \E n \in Notes : VaultMovesNote(n)
    PROVE  DataInv'
<1>1. PICK x \in Backends : Data(x, disk, w, configured, log) /\ LiveData(x)
  BY DEF DataInv
<1>2. UNCHANGED <<w, live, log>> /\ (configured' = configured \/ w.pc = "idle")
  BY DEF UserRetries, ReloadConfig, AudioVanishes, VaultMovesNote, At
<1>3. disk'.job = disk.job /\ disk'.ckpt = disk.ckpt
  BY Here DEF UserRetries, ReloadConfig, AudioVanishes, VaultMovesNote, DiskType
<1>4. \A m \in Verdicts : Has(m)' <=> Has(m)
  <2>1. inbox' = inbox \/ inbox' = Append(inbox, "retry")
    BY DEF UserRetries, ReloadConfig, AudioVanishes, VaultMovesNote
  <2>2. CASE inbox' = inbox
    BY <2>2 DEF Has
  <2>3. CASE inbox' = Append(inbox, "retry")
    BY <2>3, AppendFacts DEF Msgs, Verdicts
  <2> QED BY <2>1, <2>2, <2>3
<1>5. LiveData(x)'
  BY <1>1, <1>2, <1>4 DEF LiveData, CallPending, Verdicts
<1> QED BY <1>1, <1>2, <1>3, <1>5, AroundKeepsData DEF Data

LEMMA CrashData == Inv /\ DataInv /\ Crash => DataInv'
<1> SUFFICES ASSUME Inv, DataInv, Crash PROVE DataInv'
  OBVIOUS
<1> DEFINE v == [Idle EXCEPT !.pc = "startup"]
<1>1. /\ w' = v /\ inbox' = <<>> /\ UNCHANGED <<configured, log>>
      /\ live' = [live EXCEPT !.call = FALSE, !.state = "none", !.filed = FALSE]
  BY DEF Crash
<1>2. PICK x \in Backends : Data(x, disk, w, configured, log) /\ LiveData(x)
  BY DEF DataInv
<1>3. disk'.job = disk.job /\ disk'.ckpt = disk.ckpt
  BY Here DEF Crash, DiskType
<1>4. ~ live'.call /\ live'.state = "none" /\ ~ live'.filed
  BY <1>1 DEF Inv, Types, LiveType
<1>5. v.pc = "startup" /\ v.claim = NoJob /\ v.ck = NoCkpt
  BY IdleOk DEF WorkerType
<1> HIDE DEF v
<1>6. TameDisk(disk') /\ TameThread(w')
  BY <1>1, <1>3, <1>5, SameIsTame, IdleOk DEF TameThread, FirstUsing, BeforeAsr, Filing
<1>7. Data(x, disk', w', configured, log)
  BY <1>2, <1>6, TameKeepsData
<1>8. Data(x, disk, w, configured, log)'
  BY <1>1, <1>7 DEF Data, FirstUnused, FirstUsing
<1>9. ~ CallPending' /\ w'.pc # "collect"
  BY <1>1, <1>4, <1>5 DEF CallPending, Has
<1>10. LiveData(x)'
  BY <1>4, <1>9 DEF LiveData
<1> QED BY <1>8, <1>10 DEF DataInv

LEMMA SweepData ==
    ASSUME Inv, DataInv, NEW left \in SUBSET {"audio", "ckpt"}, NEW forget \in BOOLEAN,
           Sweep(left, forget)
    PROVE  DataInv'
<1> DEFINE kept == [disk EXCEPT !.audio = @ /\ "audio" \in left,
                                !.ckpt = IF "ckpt" \in left THEN @ ELSE NoCkpt]
           absent == ~kept.audio /\ ~kept.ckpt.valid
           d == [kept EXCEPT !.job = IF absent THEN NoJob ELSE @,
                             !.row = IF forget THEN NoRow ELSE @]
<1>1. w.pc = "idle" /\ disk' = d /\ w' = w /\ Inside
  BY DEF Sweep, At
<1>2. kept \in DiskType /\ kept.job = disk.job /\ kept.ckpt \in {disk.ckpt, NoCkpt}
  BY Here, IdleOk DEF DiskType
<1> HIDE DEF kept
<1>3. d.ckpt = kept.ckpt /\ d.job \in {disk.job, NoJob}
  <2> HIDE DEF absent
  <2> QED BY <1>2, RowsOk DEF DiskType
<1> HIDE DEF d
<1>4. TameDisk(disk')
  BY <1>1, <1>2, <1>3, SameIsTame
<1>5. TameThread(w')
  BY <1>1 DEF TameThread, FirstUsing, BeforeAsr, Filing
<1> QED BY <1>1, <1>4, <1>5, TameInside DEF TameStep

LEMMA InitData == Init => DataInv
<1> SUFFICES ASSUME Init PROVE DataInv
  OBVIOUS
<1>1. /\ configured \in Backends /\ w = Idle /\ inbox = <<>> /\ ~ live.filed
      /\ live.state # "none" => configured = Local
      /\ disk = IF live.call THEN EmptyDisk ELSE LegacyDisk
      /\ log = [asr |-> 0, backends |-> {}, sent |-> 0]
  BY DEF Init
<1>2. live.state # "discarded"
  BY DEF Init
<1>3. disk.ckpt = NoCkpt /\ (disk.job # NoJob => disk.job = NewJob(Blank, Retries))
  BY <1>1 DEF EmptyDisk, LegacyDisk
<1>4. NewJob(Blank, Retries).payload = Blank /\ Blank.origin = Unknown /\ ~ Blank.first
  BY DEF NewJob, Blank
<1>5. Data(configured, disk, w, configured, log)
  BY <1>1, <1>3, <1>4, IdleOk DEF Data, FirstUnused, FirstUsing, BeforeAsr, Filing, NoCkpt
<1>6. LiveData(configured)
  BY <1>1, <1>2 DEF LiveData
<1> QED BY <1>1, <1>5, <1>6 DEF DataInv

LEMMA NextData == Inv /\ DataInv /\ [Next]_vars => DataInv'
<1> SUFFICES ASSUME Inv, DataInv, [Next]_vars PROVE DataInv'
  OBVIOUS
<1>1. CASE Environment
  BY <1>1, LiveCreatesData, AroundData, CrashData, CallEndsData DEF Environment
<1>2. CASE Session
  BY <1>2, SessionData DEF Session
<1>3. CASE Messages
  <2>1. CASE Process \/ CollectFiled \/ CollectBatch \/ CollectLost \/ Schedule
    BY <2>1, ProcessData, CollectFiledData, CollectBatchData, CollectLostData, ScheduleData
  <2>2. CASE ScheduleRow \/ NoteRow \/ DiscardRow \/ LeftoverRow \/ LeftoverFail
    <3>1. TameStep
      BY <2>2, MessagesAreTame
    <3>2. Inside
      BY <2>2 DEF ScheduleRow, NoteRow, DiscardRow, LeftoverRow, LeftoverFail
    <3> QED BY <3>1, <3>2, TameInside
  <2>3. CASE NoteCreated \/ Discarded \/ Leftover \/ ManualRetry
    <3>1. TameStep
      BY <2>3, MessagesAreTame
    <3>2. /\ Take("note") \/ Take("discarded") \/ Take("leftover") \/ Take("retry")
          /\ UNCHANGED <<live, configured, log>>
      BY <2>3 DEF NoteCreated, Discarded, Leftover, ManualRetry
    <3> QED BY <3>1, <3>2, TameTake
  <2> QED BY <1>3, <2>1, <2>2, <2>3 DEF Messages
<1>4. CASE Work
  <2>1. CASE ClaimJob \/ Transcribe \/ RunAsr
    BY <2>1, ClaimJobData, TranscribeData, RunAsrData
  <2>2. CASE Dispatch \/ Route \/ Stale \/ MissingAudio \/ CompleteNote \/ FileCheckpoint \/ Legacy
    <3>1. TameStep
      BY <2>2, RoutingIsTame
    <3>2. Inside
      BY <2>2 DEF Dispatch, Route, Stale, MissingAudio, CompleteNote, FileCheckpoint, Legacy
    <3> QED BY <3>1, <3>2, TameInside
  <2>3. CASE \/ Refuse \/ StoreCheckpoint \/ Promote \/ CleanStaging \/ FileNote \/ KeepNote
             \/ CompleteWithNote \/ Tidy
    <3>1. TameStep
      BY <2>3, FilingIsTame
    <3>2. Inside
      BY <2>3 DEF Refuse, StoreCheckpoint, Promote, CleanStaging, FileNote, KeepNote,
                  CompleteWithNote, Tidy
    <3> QED BY <3>1, <3>2, TameInside
  <2>4. CASE \/ FailRow \/ CloseNote \/ SettleOk \/ SettleError \/ Park \/ Reschedule \/ Backoff
             \/ RecoverRunning \/ Resume \/ ResumeRow \/ Reap \/ ReapRow
    <3>1. TameStep
      BY <2>4, FailingIsTame, SettlingIsTame, RestartIsTame
    <3>2. Inside
      BY <2>4 DEF FailRow, CloseNote, SettleOk, SettleError, Park, Reschedule, Backoff,
                  RecoverRunning, Resume, ResumeRow, Reap, ReapRow
    <3> QED BY <3>1, <3>2, TameInside
  <2> QED BY <1>4, <2>1, <2>2, <2>3, <2>4 DEF Work
<1>5. CASE Retention
  BY <1>5, SweepData DEF Retention
<1>6. CASE UNCHANGED vars
  <2>1. UNCHANGED <<disk, w, inbox, live, configured, spent, log>>
    BY <1>6 DEF vars
  <2>2. \A m : Has(m)' <=> Has(m)
    BY <2>1 DEF Has
  <2> QED BY <2>1, <2>2 DEF DataInv, Data, LiveData, CallPending, FirstUnused, FirstUsing
<1> QED BY <1>1, <1>2, <1>3, <1>4, <1>5, <1>6 DEF Next

LEMMA DataIsAuthorized == Inv /\ DataInv => DataStaysAuthorized
<1> SUFFICES ASSUME Inv, DataInv PROVE DataStaysAuthorized
  OBVIOUS
<1>1. PICK x \in Backends : Data(x, disk, w, configured, log) /\ LiveData(x)
  BY DEF DataInv
<1>2. log.backends = {} \/ log.backends = {x}
  BY <1>1 DEF Data
<1>3. Cardinality({}) = 0 /\ Cardinality({x}) = 1
  BY FS_EmptySet, FS_Singleton
<1>4. Local \in log.backends => x = Local
  BY <1>2
<1> QED BY <1>1, <1>2, <1>3, <1>4 DEF Data, DataStaysAuthorized

\* Automatic work never takes a recording's audio to a second backend, and a transcript
\* decoded locally leaves the machine at most once, across crashes, reloads of the
\* Settings and retries (RetryOrigin::selected_backend, permits_hosted_final).
THEOREM PipelineDataStaysAuthorized == Spec => []DataStaysAuthorized
<1>1. Spec => []DataInv
  BY InitData, NextData, PipelineInvariant, PTL DEF Spec
<1> QED BY <1>1, PipelineInvariant, DataIsAuthorized, PTL

-----------------------------------------------------------------------------
(* Notes                                                                    *)

Ended == {"closed", "whole", "spoiled"}

\* What is canonical names a note that was settled.
Sound(d, x) == x.canonical => d.notes[x.note] \in Ended

Idling == {"idle", "noteRow", "discardRow"}
Completing == {"clean", "file", "keep", "complete", "schedule", "scheduleRow"}
Undecoded == {"legacy", "transcribe", "asr", "refuse", "store"}
Restarting == {"startup", "resume", "resumeRow", "reap", "reapRow"}

SoundAt(d, v) ==
    /\ Sound(d, d.ckpt) /\ Sound(d, v.note) /\ Sound(d, v.ck) /\ Sound(d, v.err)
    /\ d.job # NoJob => Sound(d, d.job.payload)
    /\ v.claim # NoJob => Sound(d, v.claim.payload)
    /\ d.row.status = "Done" => d.row.note \in Notes /\ d.notes[d.row.note] \in Ended
    /\ live.filed => d.notes[live.note] \in Ended
    /\ v.err.note # NoNote => v.err.canonical
    /\ v.pc \in Idling => ~ v.note.canonical /\ ~ v.ck.canonical /\ ~ v.err.canonical
    /\ v.pc \in Completing /\ v.claim = NoJob => live.filed

\* A checkpoint is filed where there is one, and nothing is decoded where there is.
CkptAt(d, v) ==
    /\ v.pc = "fileCheckpoint" => d.ckpt.valid
    /\ v.pc \in Undecoded => ~ d.ckpt.valid

\* While the note of a discarded call may still be deleted nothing relies on it.
Discarding == live.state = "discarded" \/ Has("discarded") \/ Has("leftover")
DiscardAt(d, v) ==
    /\ Discarding => /\ d.job = NoJob /\ d.ckpt = NoCkpt /\ ~ d.audio
                     /\ d.row.status # "Done" /\ v.pc \in Idling
    /\ v.pc \in Restarting \cup {"discardRow"}
          => ~ Has("note") /\ live.state \notin {"running", "finishing"}
    /\ v.pc = "collect" => live.note = NoNote \/ live.state # "none"

MovedInv(d) ==
    \A n \in d.moved : d.notes[n] # "open" /\ (d.notes[n] = "absent" => n = live.note)

\* While the announcement of the live note is queued and the note is open, it is the only
\* note of the recording, and whatever would end the recording knows it.
Routed == {"fileCheckpoint", "missingAudio", "completeNote", "legacy", "transcribe", "asr",
           "refuse", "fail"}
Carrying == {"store", "promote", "clean", "file", "keep", "complete"}
May == {NoNote, live.note}
Only(d, v) ==
    /\ d.row.note \in May /\ d.ckpt.note \in May /\ v.err.note = NoNote
    /\ d.ckpt.valid => d.ckpt.note = live.note
    /\ d.row.status = "Failed" => d.row.note = live.note
    /\ d.job # NoJob => /\ d.job.payload.note \in May
                        /\ d.job.payload.note = live.note \/ d.row.note = live.note
    /\ v.claim # NoJob /\ v.pc # "backoff" =>
                        /\ v.claim.payload.note \in May
                        /\ v.claim.payload.note = live.note \/ d.row.note = live.note
    /\ v.pc \in Routed => v.note.note = live.note
    /\ v.pc \in Carrying => v.ck.note = live.note
QueuedAt(d, v) ==
    /\ d.row.status = "Done" => d.notes[live.note] \in Ended
    /\ d.notes[live.note] = "absent" => Has("discarded")
    /\ d.notes[live.note] = "open" => Only(d, v)

NotesAt(d, v) ==
    /\ SoundAt(d, v) /\ CkptAt(d, v) /\ DiscardAt(d, v) /\ MovedInv(d)
    /\ Has("note") => QueuedAt(d, v)

\* What comes behind what in the channel, and what the session is by then.
OrderInv ==
    /\ \A i, j \in 1 .. Len(inbox) :
          \/ inbox[i] \in {"discarded", "leftover"} /\ inbox[j] = "note"
          \/ inbox[i] = "leftover" /\ inbox[j] = "leftover"
          => j <= i
    /\ live.filed => live.state \in {"ready", "none"}
    /\ live.call => live.state \in {"none", "running"} /\ ~ live.filed
    /\ Discarding => live.state \in {"none", "discarded"} /\ ~ live.filed /\ ~ Has("process")
    /\ Has("leftover") => live.state = "none"
    /\ live.state = "discarded" /\ Has("note") => Has("discarded")
    /\ live.call \/ Has("process") => live.note = NoNote \/ live.state # "none"

NoteInv == NotesAt(disk, w) /\ OrderInv

\* Until the live session has filed its note nothing is known of any note.
UnbornInv ==
    live.note = NoNote /\ live.state \in {"running", "finishing"} =>
        /\ disk.row.note = NoNote /\ disk.row.status \in {"none", "PendingTranscription"}
        /\ disk.job = NoJob /\ disk.ckpt = NoCkpt
        /\ w.claim = NoJob /\ w.err.note = NoNote /\ w.pc \in {"idle", "collect", "collectLost"}

-----------------------------------------------------------------------------
(* How a step is put together                                               *)

LEMMA InsideNotes ==
    ASSUME NoteInv, UNCHANGED <<inbox, live>>, NotesAt(disk', w')
    PROVE  NoteInv'
<1>1. OrderInv'
  BY DEF NoteInv, OrderInv, Discarding, Has
<1>2. NotesAt(disk, w)'
  BY DEF NotesAt, SoundAt, Sound, CkptAt, DiscardAt, Discarding, MovedInv, QueuedAt, Only, May, Has
<1> QED BY <1>1, <1>2 DEF NoteInv

LEMMA WriteNotes ==
    ASSUME NoteInv, NEW kind, NEW saved, NEW good, NEW bad, Write(kind, saved, good, bad),
           UNCHANGED <<inbox, live>>, NotesAt(saved, good), NotesAt(disk, bad)
    PROVE  NoteInv'
<1>0. PICK ok \in BOOLEAN : disk' = (IF ok THEN saved ELSE disk) /\ w' = (IF ok THEN good ELSE bad)
  BY DEF Write
<1>1. (disk' = saved /\ w' = good) \/ (disk' = disk /\ w' = bad)
  BY <1>0
<1>2. NotesAt(disk', w')
  <2>1. CASE disk' = saved /\ w' = good
    BY <2>1
  <2>2. CASE disk' = disk /\ w' = bad
    BY <2>2
  <2> QED BY <1>1, <2>1, <2>2
<1> QED BY <1>2, InsideNotes

LEMMA GotoNotes ==
    ASSUME NoteInv, NEW next, Goto(next), UNCHANGED <<inbox, live>>, NotesAt(disk, next)
    PROVE  NoteInv'
<1>1. disk' = disk /\ w' = next
  BY DEF Goto
<1>2. NotesAt(disk', w')
  BY <1>1
<1> QED BY <1>2, InsideNotes

\* The thread goes to another place with what it has.
LEMMA MovedOn ==
    ASSUME NoteInv, NEW v, v.claim = w.claim, v.note = w.note, v.err = w.err, v.ck = w.ck,
           v.pc \notin {"fileCheckpoint", "collect"},
           w.pc = "backoff" => v.pc = "backoff",
           v.pc \in Idling => w.pc \in Idling,
           w.pc \in Idling => v.pc \in Idling \/ ~ Discarding,
           v.pc \in Completing /\ w.claim = NoJob => w.pc \in Completing,
           v.pc \in Undecoded => w.pc \in Undecoded,
           v.pc \in Restarting \cup {"discardRow"} => w.pc \in Restarting \cup {"discardRow"},
           v.pc \in Routed => w.pc \in Routed, v.pc \in Carrying => w.pc \in Carrying
    PROVE  NotesAt(disk, v)
  BY DEF NoteInv, NotesAt, SoundAt, CkptAt, DiscardAt, QueuedAt, Only

LEMMA IdleNotes ==
    ASSUME NoteInv
    PROVE  NotesAt(disk, Idle)
<1>1. /\ Idle.pc = "idle" /\ Idle.claim = NoJob /\ ~ Idle.note.canonical /\ ~ Idle.err.canonical
      /\ ~ Idle.ck.canonical /\ Idle.err.note = NoNote
  BY DEF Idle, None, NoCkpt
<1> QED BY <1>1
        DEF NoteInv, NotesAt, SoundAt, Sound, CkptAt, DiscardAt, QueuedAt, Only, Idling, Completing,
            Undecoded, Restarting, Routed, Carrying

LEMMA ErrorNotes ==
    ASSUME Inv, NoteInv, \/ w.claim # NoJob /\ w.pc # "backoff"
                         \/ w.pc \in {"clean", "file", "keep", "complete"}
    PROVE  NotesAt(disk, Error)
<1>1. /\ Error.claim = w.claim /\ Error.note = w.note /\ Error.ck = w.ck /\ Error.err = w.err
      /\ Error.pc = IF w.claim # NoJob THEN "failed" ELSE "schedule"
  BY Here, Returns, Moves
<1>2. ~ Discarding
  <2>1. w.pc \notin Idling
    BY Here DEF Idling, Good, ClaimAt, Unclaimed
  <2> QED BY <2>1 DEF NoteInv, NotesAt, DiscardAt
<1> QED BY <1>1, <1>2, MovedOn DEF Idling, Completing, Undecoded, Restarting, Routed, Carrying

\* A write to the row that leaves the rest alone.
Files(d) ==
    /\ d.job = disk.job /\ d.ckpt = disk.ckpt /\ d.audio = disk.audio
    /\ d.notes = disk.notes /\ d.moved = disk.moved

LEMMA RowNotes ==
    ASSUME NEW d, NEW v, NotesAt(disk, v), Files(d),
           d.row.status = "Done" => disk.row = d.row,
           d.row.note \in {disk.row.note, live.note},
           d.row.status = "Failed" => d.row.note = live.note \/ disk.row.status = "Failed"
                                      \/ ~ Has("note")
    PROVE  NotesAt(d, v)
  BY SMTT(30) DEF NotesAt, SoundAt, Sound, CkptAt, DiscardAt, MovedInv, QueuedAt, Only, May, Files

LEMMA RowFiles ==
    ASSUME Inv
    PROVE  /\ \A s \in Statuses, n \in Notes \cup {NoNote} :
                 LET d == SetRow(s, n)
                 IN /\ Files(d) /\ d.row.status = s
                    /\ d.row.note = IF n = NoNote THEN disk.row.note ELSE n
           /\ \A s \in Statuses : LET d == SetStatus(s)
                                  IN Files(d) /\ d.row.status = s /\ d.row.note = disk.row.note
  BY Here DEF SetRow, SetStatus, Files, DiskType, RowType


\* Facts that an action of the job loop starts with.
LEMMA Working ==
    ASSUME Inv, NoteInv, w.pc \notin Unclaimed
    PROVE  /\ ~ Discarding /\ ~ CallPending /\ (w.pc \notin Shared => w.claim # NoJob)
           /\ Inside => UNCHANGED <<inbox, live>>
<1>1. w.pc \notin Idling
  BY DEF Idling, Unclaimed
<1> QED BY <1>1, Away, Here DEF NoteInv, NotesAt, DiscardAt, Good, ClaimAt, Idling, Inside

LEMMA MayAuthority ==
    ASSUME NEW c, NEW p, NEW n, WellOwned(c), WellOwned(p),
           c.note \in May, p.note \in May, n \in May,
           c.note = live.note \/ p.note = live.note \/ n = live.note
    PROVE  AuthoritativeNote(c, p, n).note = live.note
  BY DEF AuthoritativeNote, Or, IfCanonical, OwnedNote, Partial, None, WellOwned, May

LEMMA SoundAuthority ==
    ASSUME NEW d, NEW c, NEW p, NEW n, Sound(d, c), Sound(d, p)
    PROVE  Sound(d, AuthoritativeNote(c, p, n))
  BY DEF AuthoritativeNote, Or, IfCanonical, OwnedNote, Partial, None, Sound

-----------------------------------------------------------------------------
(* Routing                                                                  *)

LEMMA StaleNotes == Inv /\ NoteInv /\ Stale => NoteInv'
<1> SUFFICES ASSUME Inv, NoteInv, Stale PROVE NoteInv'
  OBVIOUS
<1>1. w.pc = "stale" /\ Inside /\ Goto(Ok)
  BY DEF Stale, At
<1>2. ~ Discarding /\ w.claim # NoJob /\ UNCHANGED <<inbox, live>>
  BY <1>1, Working DEF Unclaimed, Shared
<1>3. NotesAt(disk, Ok)
  <2>1. Ok.claim = w.claim /\ Ok.note = w.note /\ Ok.ck = w.ck /\ Ok.err = w.err /\ Ok.pc = "settle"
    BY <1>2, Here, Returns, Moves
  <2> QED BY <1>1, <1>2, <2>1, MovedOn DEF Idling, Completing, Undecoded, Restarting, Routed, Carrying
<1> QED BY <1>1, <1>2, <1>3, GotoNotes

LEMMA MissingAudioNotes == Inv /\ NoteInv /\ MissingAudio => NoteInv'
<1> SUFFICES ASSUME Inv, NoteInv, MissingAudio PROVE NoteInv'
  OBVIOUS
<1> DEFINE v == FailWith("missing", w.note)
<1>1. w.pc = "missingAudio" /\ Inside /\ Goto(v)
  BY DEF MissingAudio, At
<1>2. ~ Discarding /\ w.claim # NoJob /\ UNCHANGED <<inbox, live>>
  BY <1>1, Working DEF Unclaimed, Shared
<1>3. NotesAt(disk, v)
  <2>1. v.claim = w.claim /\ v.note = w.note /\ v.ck = w.ck /\ v.err = w.err /\ v.pc = "fail"
    BY Here, FailsWith DEF Reasons
  <2> HIDE DEF v
  <2> QED BY <1>1, <1>2, <2>1, MovedOn DEF Idling, Completing, Undecoded, Restarting, Routed, Carrying
<1> QED BY <1>1, <1>2, <1>3, GotoNotes

LEMMA DispatchNotes == Inv /\ NoteInv /\ Dispatch => NoteInv'
<1> SUFFICES ASSUME Inv, NoteInv, Dispatch PROVE NoteInv'
  OBVIOUS
<1> DEFINE d == SetStatus("PendingTranscription")
<1>1. /\ w.pc = "dispatch" /\ Inside
      /\ Goto(Ok) \/ Goto(Error) \/ Goto(To("route")) \/ Write("row", d, To("route"), Error)
  BY DEF Dispatch, At
<1>2. ~ Discarding /\ w.claim # NoJob /\ UNCHANGED <<inbox, live>>
  BY <1>1, Working DEF Unclaimed, Shared
<1>3. NotesAt(disk, Ok) /\ NotesAt(disk, To("route"))
  <2>1. /\ Ok.claim = w.claim /\ Ok.note = w.note /\ Ok.ck = w.ck /\ Ok.err = w.err
        /\ Ok.pc = "settle"
    BY <1>2, Here, Returns, Moves
  <2>2. LET v == To("route") IN /\ v.claim = w.claim /\ v.note = w.note /\ v.ck = w.ck
                                /\ v.err = w.err /\ v.pc = "route"
    BY Here, Moves DEF Pcs
  <2> QED BY <1>1, <1>2, <2>1, <2>2, MovedOn
          DEF Idling, Completing, Undecoded, Restarting, Routed, Carrying
<1>4. NotesAt(disk, Error)
  BY <1>1, <1>2, ErrorNotes
<1>5. NotesAt(d, To("route"))
  <2>1. Files(d) /\ d.row.status = "PendingTranscription" /\ d.row.note = disk.row.note
    BY RowFiles DEF Statuses, InProgress
  <2> HIDE DEF d
  <2> QED BY <1>3, <2>1, RowNotes
<1> QED BY <1>1, <1>2, <1>3, <1>4, <1>5, GotoNotes, WriteNotes

LEMMA RouteNotes == Inv /\ NoteInv /\ Route => NoteInv'
<1> SUFFICES ASSUME Inv, NoteInv, Route PROVE NoteInv'
  OBVIOUS
<1> DEFINE v == [To(RetryAction) EXCEPT !.note = ClaimNote]
           d == SetRow(disk.row.status, ClaimNote.note)
<1>1. /\ w.pc = "route" /\ Inside
      /\ \/ Goto(Error)
         \/ Goto(v) /\ (RetryAction = "stale" \/ ClaimNote = None)
         \/ RetryAction # "stale" /\ Write("row", d, v, Error)
  BY DEF Route, At
<1>2. ~ Discarding /\ w.claim # NoJob /\ UNCHANGED <<inbox, live>> /\ JobOk(w.claim) /\ WellOwned(disk.ckpt)
  BY <1>1, Working, Here DEF Unclaimed, Shared, Good, Kept
<1>3. /\ RetryAction \in {"stale", "fileCheckpoint", "completeNote", "missingAudio", "legacy",
                          "transcribe"}
      /\ RetryAction = "fileCheckpoint" => disk.ckpt.valid
      /\ RetryAction \in {"legacy", "transcribe"} => ~ disk.ckpt.valid
      /\ RetryAction # "stale" => disk.row.status # "Done"
  BY DEF RetryAction, Settled
<1>4. ClaimNote \in Owned /\ ClaimNote.note \in Notes \cup {NoNote} /\ Sound(disk, ClaimNote)
  <2>1. ClaimNote \in Owned
    BY <1>2, Here, AuthorityOk DEF ClaimNote, JobOk, Job, Good, Kept
  <2>2. Sound(disk, ClaimNote)
    BY <1>2, SoundAuthority DEF ClaimNote, NoteInv, NotesAt, SoundAt
  <2> QED BY <2>1, <2>2 DEF Owned
<1>5. Has("note") /\ disk.notes[live.note] = "open" => ClaimNote.note = live.note
  <2> SUFFICES ASSUME Has("note"), disk.notes[live.note] = "open" PROVE ClaimNote.note = live.note
    OBVIOUS
  <2>1. Only(disk, w) /\ WellOwned(w.claim.payload)
    BY <1>2 DEF NoteInv, NotesAt, QueuedAt, JobOk
  <2> QED BY <1>1, <1>2, <2>1, MayAuthority DEF ClaimNote, Only
<1>6. /\ v.claim = w.claim /\ v.note = ClaimNote /\ v.err = w.err /\ v.ck = w.ck /\ v.pc = RetryAction
  <2>1. RetryAction \in Pcs
    BY <1>3 DEF Pcs
  <2>2. To(RetryAction) \in WorkerType
    BY <2>1, Here, Moves
  <2> QED BY <2>1, <2>2, Here, Moves DEF WorkerType
<1>7. NotesAt(disk, v)
  <2> HIDE DEF v
  <2> QED BY <1>1, <1>2, <1>3, <1>4, <1>5, <1>6
       DEF NoteInv, NotesAt, SoundAt, CkptAt, DiscardAt, QueuedAt, Only, Idling, Completing,
           Undecoded, Restarting, Routed, Carrying
<1>8. RetryAction # "stale" => NotesAt(d, v)
  <2> SUFFICES ASSUME RetryAction # "stale" PROVE NotesAt(d, v)
    OBVIOUS
  <2>1. /\ Files(d) /\ d.row.status = disk.row.status
        /\ d.row.note = IF ClaimNote.note = NoNote THEN disk.row.note ELSE ClaimNote.note
    BY <1>4, RowFiles, Here
  <2> HIDE DEF d, v
  <2> QED BY <1>3, <1>5, <1>7, <2>1
      DEF NotesAt, SoundAt, Sound, CkptAt, DiscardAt, MovedInv, QueuedAt, Only, May, Files
<1>9. NotesAt(disk, Error)
  BY <1>1, <1>2, ErrorNotes
<1> HIDE DEF v, d
<1> QED BY <1>1, <1>2, <1>7, <1>8, <1>9, GotoNotes, WriteNotes


LEMMA CompleteNoteNotes == Inv /\ NoteInv /\ CompleteNote => NoteInv'
<1> SUFFICES ASSUME Inv, NoteInv, CompleteNote PROVE NoteInv'
  OBVIOUS
<1> DEFINE ck == [disk.ckpt EXCEPT !.valid = TRUE, !.note = w.note.note, !.canonical = TRUE]
           v == [To("clean") EXCEPT !.ck = ck]
<1>1. w.pc = "completeNote" /\ Inside /\ Goto(v)
  BY DEF CompleteNote, At
<1>2. ~ Discarding /\ w.claim # NoJob /\ UNCHANGED <<inbox, live>> /\ w.note.canonical
  BY <1>1, Working, Here DEF Unclaimed, Shared, Good, RowAt
<1>3. ck \in Ckpt /\ ck.note = w.note.note /\ "clean" \in Pcs
  BY Here DEF Ckpt, Owned, Pcs
<1> HIDE DEF ck
<1>4. v.claim = w.claim /\ v.note = w.note /\ v.err = w.err /\ v.ck = ck /\ v.pc = "clean"
  BY <1>3, Carries
<1> HIDE DEF v
<1>5. NotesAt(disk, v)
  BY <1>1, <1>2, <1>3, <1>4
     DEF NoteInv, NotesAt, SoundAt, Sound, CkptAt, DiscardAt, QueuedAt, Only, Idling, Completing,
         Undecoded, Restarting, Routed, Carrying
<1> QED BY <1>1, <1>2, <1>5, GotoNotes

LEMMA FileCheckpointNotes == Inv /\ NoteInv /\ FileCheckpoint => NoteInv'
<1> SUFFICES ASSUME Inv, NoteInv, FileCheckpoint PROVE NoteInv'
  OBVIOUS
<1> DEFINE pc == IF disk.row.status = "PendingNote" THEN "clean" ELSE "promote"
           v == [To(pc) EXCEPT !.ck = disk.ckpt]
<1>1. w.pc = "fileCheckpoint" /\ Inside /\ Goto(v)
  BY DEF FileCheckpoint, At
<1>2. ~ Discarding /\ w.claim # NoJob /\ UNCHANGED <<inbox, live>>
  BY <1>1, Working DEF Unclaimed, Shared
<1>3. pc \in Pcs /\ pc \in {"clean", "promote"}
  BY DEF Pcs
<1> HIDE DEF pc
<1>4. v.claim = w.claim /\ v.note = w.note /\ v.err = w.err /\ v.ck = disk.ckpt /\ v.pc = pc
  BY <1>3, Here, Carries
<1> HIDE DEF v
<1>5. NotesAt(disk, v)
  BY <1>1, <1>2, <1>3, <1>4
     DEF NoteInv, NotesAt, SoundAt, CkptAt, DiscardAt, QueuedAt, Only, Idling, Completing,
         Undecoded, Restarting, Routed, Carrying
<1> QED BY <1>1, <1>2, <1>5, GotoNotes

LEMMA LegacyNotes == Inv /\ NoteInv /\ Legacy => NoteInv'
<1> SUFFICES ASSUME Inv, NoteInv, Legacy PROVE NoteInv'
  OBVIOUS
<1> DEFINE d == [disk EXCEPT !.row.attempted = TRUE]
           v == To("transcribe")
<1>1. w.pc = "legacy" /\ Inside /\ Write("row", d, v, Error)
  BY DEF Legacy, At
<1>2. /\ ~ Discarding /\ w.claim # NoJob /\ UNCHANGED <<inbox, live>>
      /\ disk.row.status \in Open
  BY <1>1, Working, Here DEF Unclaimed, Shared, Good, RowAt, OpenPcs
<1>3. v.claim = w.claim /\ v.note = w.note /\ v.err = w.err /\ v.ck = w.ck /\ v.pc = "transcribe"
  BY Here, Moves DEF Pcs
<1>4. Files(d) /\ d.row.status = disk.row.status /\ d.row.note = disk.row.note
  BY Here DEF Files, DiskType, RowType
<1> HIDE DEF d, v
<1>5. NotesAt(disk, v)
  BY <1>1, <1>2, <1>3, MovedOn DEF Idling, Completing, Undecoded, Restarting, Routed, Carrying
<1>6. NotesAt(d, v)
  BY <1>2, <1>4, <1>5, RowNotes DEF Open, InProgress
<1>7. NotesAt(disk, Error)
  BY <1>1, <1>2, ErrorNotes
<1> QED BY <1>1, <1>2, <1>6, <1>7, WriteNotes

-----------------------------------------------------------------------------
(* Transcription                                                            *)

LEMMA TranscribeNotes == Inv /\ NoteInv /\ Transcribe => NoteInv'
<1> SUFFICES ASSUME Inv, NoteInv, Transcribe PROVE NoteInv'
  OBVIOUS
<1> DEFINE d == [SetStatus("Transcribing") EXCEPT !.row.attempted = TRUE]
           v1 == To("asr")
           v2 == To("refuse")
<1>1. w.pc = "transcribe" /\ Inside /\ (Goto(v2) \/ Write("row", d, v1, Error))
  BY DEF Transcribe, At
<1>2. ~ Discarding /\ w.claim # NoJob /\ UNCHANGED <<inbox, live>>
  BY <1>1, Working DEF Unclaimed, Shared
<1>3. /\ v1.claim = w.claim /\ v1.note = w.note /\ v1.err = w.err /\ v1.ck = w.ck /\ v1.pc = "asr"
      /\ v2.claim = w.claim /\ v2.note = w.note /\ v2.err = w.err /\ v2.ck = w.ck
      /\ v2.pc = "refuse"
  BY Here, Moves DEF Pcs
<1>4. Files(d) /\ d.row.status = "Transcribing" /\ d.row.note = disk.row.note
  BY Here DEF Files, DiskType, RowType, SetStatus
<1> HIDE DEF d, v1, v2
<1>5. NotesAt(disk, v1) /\ NotesAt(disk, v2)
  BY <1>1, <1>2, <1>3, MovedOn DEF Idling, Completing, Undecoded, Restarting, Routed, Carrying
<1>6. NotesAt(d, v1)
  BY <1>4, <1>5, RowNotes
<1>7. NotesAt(disk, Error)
  BY <1>1, <1>2, ErrorNotes
<1> QED BY <1>1, <1>2, <1>5, <1>6, <1>7, WriteNotes, GotoNotes

\* The checkpoint that an attempt makes names the note it was routed with.
LEMMA CheckpointNotes ==
    ASSUME Inv, NoteInv, w.claim # NoJob, w.pc \in Routed
    PROVE  /\ \A full \in BOOLEAN : Sound(disk, Checkpoint(full))
           /\ Has("note") /\ disk.notes[live.note] = "open" => CheckpointNote.note = live.note
<1>1. Sound(disk, w.note)
  BY DEF NoteInv, NotesAt, SoundAt
<1>2. \A full \in BOOLEAN : Sound(disk, Checkpoint(full))
  BY <1>1 DEF Checkpoint, CheckpointNote, Or, Partial, Sound
<1>3. Has("note") /\ disk.notes[live.note] = "open" => CheckpointNote.note = live.note
  <2>1. Has("note") => live.note # NoNote
    BY NoNoteAssumption DEF Inv, SessionInv
  <2> QED BY <2>1 DEF NoteInv, NotesAt, QueuedAt, Only, CheckpointNote, Or
<1> QED BY <1>2, <1>3

LEMMA RunAsrNotes == Inv /\ NoteInv /\ RunAsr => NoteInv'
<1> SUFFICES ASSUME Inv, NoteInv, RunAsr PROVE NoteInv'
  OBVIOUS
<1> DEFINE v == [To("store") EXCEPT !.ck = Checkpoint(TRUE)]
<1>1. /\ w.pc = "asr" /\ UNCHANGED <<inbox, live>>
      /\ Goto(Error) \/ Write("asr", disk, v, Error)
  BY DEF RunAsr, At
<1>2. ~ Discarding /\ w.claim # NoJob
  BY <1>1, Working DEF Unclaimed, Shared
<1>3. /\ v.claim = w.claim /\ v.note = w.note /\ v.err = w.err /\ v.ck = Checkpoint(TRUE)
      /\ v.pc = "store" /\ v.ck.note = CheckpointNote.note
  <2>1. "store" \in Pcs
    BY DEF Pcs
  <2> QED BY <1>2, <2>1, Carries, CheckpointOk
<1> HIDE DEF v
<1>4. NotesAt(disk, v)
  <2>1. /\ Sound(disk, v.ck)
        /\ Has("note") /\ disk.notes[live.note] = "open" => v.ck.note = live.note
    BY <1>1, <1>2, <1>3, CheckpointNotes DEF Routed
  <2> QED BY <1>1, <1>2, <1>3, <2>1
     DEF NoteInv, NotesAt, SoundAt, CkptAt, DiscardAt, QueuedAt, Only, Idling, Completing,
         Undecoded, Restarting, Routed, Carrying
<1>5. NotesAt(disk, Error)
  BY <1>1, <1>2, ErrorNotes
<1> QED BY <1>1, <1>4, <1>5, WriteNotes, GotoNotes

\* A note is written: whatever was settled stays so.
LEMMA NoteWritten ==
    ASSUME Inv, NoteInv, NEW n \in Notes, NEW c \in Ended, NEW v, NotesAt(disk, v)
    PROVE  LET d == SetNote(n, c)
           IN /\ NotesAt(d, v) /\ d.row = disk.row /\ d.ckpt = disk.ckpt /\ d.job = disk.job
              /\ d.moved = disk.moved /\ d.audio = disk.audio
              /\ \A m \in Notes : d.notes[m] = IF m = n THEN c ELSE disk.notes[m]
<1> DEFINE d == SetNote(n, c)
<1>1. /\ d.row = disk.row /\ d.ckpt = disk.ckpt /\ d.job = disk.job /\ d.moved = disk.moved
      /\ d.audio = disk.audio /\ d.notes = [disk.notes EXCEPT ![n] = c]
  BY Here DEF SetNote, DiskType
<1> HIDE DEF d
<1>2. \A m : d.notes[m] = disk.notes[m] \/ (m = n /\ d.notes[m] = c)
  BY <1>1, Here
<1>3. \A m : disk.notes[m] \in Ended => d.notes[m] \in Ended
  BY <1>2
<1>4. \A m : d.notes[m] = "open" => disk.notes[m] = "open"
  BY <1>2 DEF Ended
<1>5. \A m : d.notes[m] = "absent" => disk.notes[m] = "absent"
  BY <1>2 DEF Ended
<1>6. SoundAt(d, v)
  BY <1>1, <1>3 DEF NotesAt, SoundAt, Sound
<1>7. CkptAt(d, v) /\ DiscardAt(d, v) /\ MovedInv(d)
  BY <1>1, <1>4, <1>5 DEF NotesAt, CkptAt, DiscardAt, MovedInv
<1>8. Has("note") => QueuedAt(d, v)
  BY <1>1, <1>3, <1>4, <1>5 DEF NotesAt, QueuedAt, Only
<1>9. \A m \in Notes : d.notes[m] = IF m = n THEN c ELSE disk.notes[m]
  BY <1>1, Here
<1> QED BY <1>1, <1>6, <1>7, <1>8, <1>9 DEF NotesAt, d


LEMMA RefuseNotes == Inv /\ NoteInv /\ Refuse => NoteInv'
<1> SUFFICES ASSUME Inv, NoteInv, Refuse PROVE NoteInv'
  OBVIOUS
<1> DEFINE n == CheckpointNote.note
           c1 == [Checkpoint(FALSE) EXCEPT !.canonical = TRUE]
           c2 == [Checkpoint(FALSE) EXCEPT !.canonical = FALSE]
           v1 == [To("store") EXCEPT !.ck = c1]
           v2 == [To("store") EXCEPT !.ck = c2]
           c == MarkIncomplete(disk.notes[n])
           d == SetNote(n, c)
<1>1. /\ w.pc = "refuse" /\ Inside
      /\ (Exists(n) /\ Write("note", d, v1, Error)) \/ (~ Exists(n) /\ Goto(v2))
  BY DEF Refuse, At
<1>2. ~ Discarding /\ ~ Has("discarded") /\ w.claim # NoJob /\ UNCHANGED <<inbox, live>>
  BY <1>1, Working DEF Unclaimed, Shared, CallPending
<1>3. /\ c1 \in Ckpt /\ c2 \in Ckpt /\ c1.note = n /\ c2.note = n /\ ~ c2.canonical
      /\ n \in Notes \cup {NoNote} /\ (Exists(n) => n \in Notes) /\ c \in Ended /\ "store" \in Pcs
  <2>1. Checkpoint(FALSE) \in Ckpt /\ Checkpoint(FALSE).note = n /\ n \in Notes \cup {NoNote}
    BY <1>2, CheckpointOk
  <2>2. c \in Ended /\ "store" \in Pcs
    BY DEF MarkIncomplete, Ended, Pcs
  <2> HIDE DEF n, c
  <2> QED BY <2>1, <2>2 DEF Ckpt, Exists
<1>4. /\ v1.claim = w.claim /\ v1.note = w.note /\ v1.err = w.err /\ v1.ck = c1 /\ v1.pc = "store"
      /\ v2.claim = w.claim /\ v2.note = w.note /\ v2.err = w.err /\ v2.ck = c2 /\ v2.pc = "store"
  BY <1>3, Carries
<1>5. Has("note") /\ disk.notes[live.note] = "open" => n = live.note
  BY <1>1, <1>2, CheckpointNotes DEF Routed
<1> HIDE DEF v1, v2, c1, c2, n, c
<1>6. NotesAt(disk, Error)
  BY <1>1, <1>2, ErrorNotes
<1>7. CASE ~ Exists(n) /\ Goto(v2)
  <2>1. ~ (Has("note") /\ disk.notes[live.note] = "open")
    <3> SUFFICES ASSUME Has("note"), disk.notes[live.note] = "open" PROVE FALSE
      OBVIOUS
    <3>1. live.note \in Notes /\ n = live.note
      BY <1>5 DEF Inv, SessionInv
    <3> QED BY <1>7, <3>1, NoNoteAssumption DEF Exists, NoteInv, NotesAt, MovedInv
  <2>2. NotesAt(disk, v2)
    BY <1>1, <1>2, <1>3, <1>4, <2>1
     DEF NoteInv, NotesAt, SoundAt, Sound, CkptAt, DiscardAt, QueuedAt, Idling, Completing,
         Undecoded, Restarting
  <2> QED BY <1>2, <1>7, <2>2, GotoNotes
<1>8. CASE Exists(n) /\ Write("note", d, v1, Error)
  <2>1. NotesAt(disk, w)
    BY DEF NoteInv
  <2>2. /\ NotesAt(d, w) /\ d.row = disk.row /\ d.ckpt = disk.ckpt /\ d.job = disk.job
        /\ \A m \in Notes : d.notes[m] = IF m = n THEN c ELSE disk.notes[m]
    BY <1>3, <1>8, <2>1, NoteWritten
  <2> HIDE DEF d
  <2>3. Has("note") => d.notes[live.note] # "open"
    <3> SUFFICES ASSUME Has("note"), d.notes[live.note] = "open" PROVE FALSE
      OBVIOUS
    <3>1. live.note \in Notes
      BY DEF Inv, SessionInv
    <3> QED BY <1>3, <1>5, <2>2, <3>1 DEF Ended
  <2>4. NotesAt(d, v1)
    BY <1>1, <1>2, <1>3, <1>4, <1>8, <2>2, <2>3
     DEF NotesAt, SoundAt, Sound, CkptAt, DiscardAt, QueuedAt, Idling, Completing,
         Undecoded, Restarting
  <2> QED BY <1>2, <1>6, <1>8, <2>4, WriteNotes
<1> QED BY <1>1, <1>7, <1>8

LEMMA StoreNotes == Inv /\ NoteInv /\ StoreCheckpoint => NoteInv'
<1> SUFFICES ASSUME Inv, NoteInv, StoreCheckpoint PROVE NoteInv'
  OBVIOUS
<1> DEFINE d == [disk EXCEPT !.ckpt = w.ck]
           v == To("promote")
<1>1. w.pc = "store" /\ Inside /\ Write("ckpt", d, v, Error)
  BY DEF StoreCheckpoint, At
<1>2. ~ Discarding /\ w.claim # NoJob /\ UNCHANGED <<inbox, live>>
  BY <1>1, Working DEF Unclaimed, Shared
<1>3. v.claim = w.claim /\ v.note = w.note /\ v.err = w.err /\ v.ck = w.ck /\ v.pc = "promote"
  BY Here, Moves DEF Pcs
<1>4. /\ d.job = disk.job /\ d.ckpt = w.ck /\ d.row = disk.row /\ d.notes = disk.notes
      /\ d.moved = disk.moved /\ d.audio = disk.audio
  BY Here DEF DiskType
<1> HIDE DEF d, v
<1>5. NotesAt(d, v)
  BY <1>1, <1>2, <1>3, <1>4
     DEF NoteInv, NotesAt, SoundAt, Sound, CkptAt, DiscardAt, MovedInv, QueuedAt, Only, May, Idling,
         Completing, Undecoded, Restarting, Routed, Carrying
<1>6. NotesAt(disk, Error)
  BY <1>1, <1>2, ErrorNotes
<1> QED BY <1>1, <1>2, <1>5, <1>6, WriteNotes

LEMMA PromoteNotes == Inv /\ NoteInv /\ Promote => NoteInv'
<1> SUFFICES ASSUME Inv, NoteInv, Promote PROVE NoteInv'
  OBVIOUS
<1> DEFINE d == SetStatus("PendingNote")
           v == To("clean")
<1>1. w.pc = "promote" /\ Inside /\ Write("row", d, v, Error)
  BY DEF Promote, At
<1>2. ~ Discarding /\ w.claim # NoJob /\ UNCHANGED <<inbox, live>>
  BY <1>1, Working DEF Unclaimed, Shared
<1>3. v.claim = w.claim /\ v.note = w.note /\ v.err = w.err /\ v.ck = w.ck /\ v.pc = "clean"
  BY Here, Moves DEF Pcs
<1>4. Files(d) /\ d.row.status = "PendingNote" /\ d.row.note = disk.row.note
  BY RowFiles DEF Statuses, InProgress
<1> HIDE DEF d, v
<1>5. NotesAt(disk, v)
  BY <1>1, <1>2, <1>3, MovedOn DEF Idling, Completing, Undecoded, Restarting, Routed, Carrying
<1>6. NotesAt(d, v) /\ NotesAt(disk, Error)
  BY <1>1, <1>2, <1>4, <1>5, RowNotes, ErrorNotes
<1> QED BY <1>1, <1>2, <1>6, WriteNotes

-----------------------------------------------------------------------------
(* Filing                                                                   *)

LEMMA CleanNotes == Inv /\ NoteInv /\ CleanStaging => NoteInv'
<1> SUFFICES ASSUME Inv, NoteInv, CleanStaging PROVE NoteInv'
  OBVIOUS
<1> DEFINE v == To("file")
<1>1. w.pc = "clean" /\ Inside /\ Write("cloud", disk, v, Error)
  BY DEF CleanStaging, At
<1>2. ~ Discarding /\ UNCHANGED <<inbox, live>>
  BY <1>1, Working DEF Unclaimed
<1>3. v.claim = w.claim /\ v.note = w.note /\ v.err = w.err /\ v.ck = w.ck /\ v.pc = "file"
  BY Here, Moves DEF Pcs
<1> HIDE DEF v
<1>4. NotesAt(disk, v) /\ NotesAt(disk, Error)
  BY <1>1, <1>2, <1>3, MovedOn, ErrorNotes
     DEF Idling, Completing, Undecoded, Restarting, Routed, Carrying
<1> QED BY <1>1, <1>2, <1>4, WriteNotes

LEMMA FiledNotes ==
    ASSUME Inv, NoteInv, w.pc = "file", NEW n \in Notes,
           Has("note") /\ disk.notes[live.note] = "open" => n = live.note
    PROVE  NotesAt(SetNote(n, FiledAs), Canonical(n))
<1> DEFINE d == SetNote(n, FiledAs)
           v == Canonical(n)
<1>1. ~ Discarding
  BY Working DEF Unclaimed
<1>2. FiledAs \in Ended /\ NotesAt(disk, w)
  BY DEF FiledAs, Ended, NoteInv
<1>3. /\ NotesAt(d, w) /\ d.row = disk.row /\ d.ckpt = disk.ckpt /\ d.job = disk.job
      /\ \A m \in Notes : d.notes[m] = IF m = n THEN FiledAs ELSE disk.notes[m]
  BY <1>2, NoteWritten
<1>4. /\ v.pc = "keep" /\ v.claim = w.claim /\ v.note = w.note /\ v.err = w.err
      /\ v.ck.canonical /\ v.ck.note = n
  BY CanonicalOk
<1> HIDE DEF d, v
<1>5. Has("note") => d.notes[live.note] # "open"
  <2> SUFFICES ASSUME Has("note"), d.notes[live.note] = "open" PROVE FALSE
    OBVIOUS
  <2>1. live.note \in Notes
    BY DEF Inv, SessionInv
  <2> QED BY <1>2, <1>3, <2>1 DEF Ended
<1>6. NotesAt(d, v)
  BY <1>1, <1>2, <1>3, <1>4, <1>5
     DEF NotesAt, SoundAt, Sound, CkptAt, DiscardAt, QueuedAt, Idling, Completing,
         Undecoded, Restarting
<1> QED BY <1>6 DEF d, v

LEMMA FileNoteNotes == Inv /\ NoteInv /\ FileNote => NoteInv'
<1> SUFFICES ASSUME Inv, NoteInv, FileNote PROVE NoteInv'
  OBVIOUS
<1> DEFINE target == IF w.ck.note # NoNote THEN w.ck.note ELSE disk.row.note
<1>1. w.pc = "file" /\ Inside
  BY DEF FileNote, At
<1>2. ~ Discarding /\ UNCHANGED <<inbox, live>>
  BY <1>1, Working DEF Unclaimed
<1>3. Has("note") /\ disk.notes[live.note] = "open" =>
         target = live.note /\ live.note \in Notes /\ live.note \notin disk.moved
  BY <1>1, NoNoteAssumption
     DEF NoteInv, NotesAt, QueuedAt, Only, Carrying, MovedInv, Inv, SessionInv
<1> HIDE DEF target
<1>4. NotesAt(disk, Error)
  BY <1>1, ErrorNotes
<1>5. CASE w.ck.canonical /\ Goto(To("keep"))
  <2> DEFINE v == To("keep")
  <2>1. v.claim = w.claim /\ v.note = w.note /\ v.err = w.err /\ v.ck = w.ck /\ v.pc = "keep"
    BY Here, Moves DEF Pcs
  <2> HIDE DEF v
  <2>2. NotesAt(disk, v)
    BY <1>1, <1>2, <2>1, MovedOn DEF Idling, Completing, Undecoded, Restarting, Routed, Carrying
  <2> QED BY <1>2, <1>5, <2>2, GotoNotes DEF v
<1>6. CASE Exists(target) /\ Write("note", SetNote(target, FiledAs), Canonical(target), Error)
  <2>1. target \in Notes
    BY <1>6, Here DEF Exists, Ckpt, target
  <2>2. NotesAt(SetNote(target, FiledAs), Canonical(target))
    BY <1>1, <1>3, <2>1, FiledNotes
  <2> QED BY <1>2, <1>4, <1>6, <2>2, WriteNotes
<1>7. CASE /\ ~ Exists(target) /\ FreshNotes # {}
           /\ Write("vagus", SetNote(NewNote, FiledAs), Canonical(NewNote), Error)
  <2>1. NewNote \in Notes
    BY <1>7 DEF NewNote, FreshNotes
  <2>2. ~ (Has("note") /\ disk.notes[live.note] = "open")
    BY <1>3, <1>7, NoNoteAssumption DEF Exists
  <2>3. NotesAt(SetNote(NewNote, FiledAs), Canonical(NewNote))
    BY <1>1, <2>1, <2>2, FiledNotes
  <2> QED BY <1>2, <1>4, <1>7, <2>3, WriteNotes
<1> QED BY <1>5, <1>6, <1>7 DEF FileNote, target


LEMMA KeepNotes == Inv /\ NoteInv /\ KeepNote => NoteInv'
<1> SUFFICES ASSUME Inv, NoteInv, KeepNote PROVE NoteInv'
  OBVIOUS
<1> DEFINE d == [disk EXCEPT !.ckpt = w.ck]
           v1 == [To("complete") EXCEPT !.stored = TRUE]
           v2 == [To("complete") EXCEPT !.stored = FALSE]
<1>1. w.pc = "keep" /\ Inside /\ Write("ckpt", d, v1, v2)
  BY DEF KeepNote, At
<1>2. ~ Discarding /\ UNCHANGED <<inbox, live>> /\ w.ck.canonical
  BY <1>1, Working, Here DEF Unclaimed, Good, RowAt
<1>3. /\ v1.claim = w.claim /\ v1.note = w.note /\ v1.err = w.err /\ v1.ck = w.ck
      /\ v2.claim = w.claim /\ v2.note = w.note /\ v2.err = w.err /\ v2.ck = w.ck
      /\ v1.pc = "complete" /\ v2.pc = "complete"
  <2>1. To("complete") \in WorkerType /\ "complete" \in Pcs
    BY Here, Moves DEF Pcs
  <2> QED BY <2>1, Here, Moves DEF WorkerType
<1>4. /\ d.job = disk.job /\ d.ckpt = w.ck /\ d.row = disk.row /\ d.notes = disk.notes
      /\ d.moved = disk.moved /\ d.audio = disk.audio
  BY Here DEF DiskType
<1> HIDE DEF d, v1, v2
<1>5. NotesAt(disk, v2)
  BY <1>1, <1>2, <1>3, MovedOn DEF Idling, Completing, Undecoded, Restarting, Routed, Carrying
<1>6. NotesAt(d, v1)
  BY <1>1, <1>2, <1>3, <1>4
     DEF NoteInv, NotesAt, SoundAt, Sound, CkptAt, DiscardAt, MovedInv, QueuedAt, Only, Ended,
         Idling, Completing, Undecoded, Restarting, Carrying
<1> QED BY <1>1, <1>2, <1>5, <1>6, WriteNotes

LEMMA CompleteNotes == Inv /\ NoteInv /\ CompleteWithNote => NoteInv'
<1> SUFFICES ASSUME Inv, NoteInv, CompleteWithNote PROVE NoteInv'
  OBVIOUS
<1> DEFINE d == SetRow("Done", w.ck.note)
           e == IF w.stored THEN None ELSE OwnedNote(w.ck)
           v == [Error EXCEPT !.err = e]
           t == To("tidy")
<1>1. w.pc = "complete" /\ Inside /\ Write("row", d, t, v)
  BY DEF CompleteWithNote, At
<1>2. /\ ~ Discarding /\ ~ CallPending /\ UNCHANGED <<inbox, live>> /\ w.ck.canonical
      /\ w.ck.note \in Notes
  BY <1>1, Working, Here DEF Unclaimed, Good, Kept, RowAt, WellOwned, Ckpt
<1>3. t.claim = w.claim /\ t.note = w.note /\ t.err = w.err /\ t.ck = w.ck /\ t.pc = "tidy"
  BY Here, Moves DEF Pcs
<1>4. Files(d) /\ d.row.status = "Done" /\ d.row.note = w.ck.note
  BY <1>2, RowFiles, NoNoteAssumption DEF Statuses, Settled
<1>5. /\ v.claim = w.claim /\ v.note = w.note /\ v.err = e /\ v.ck = w.ck
      /\ v.pc = IF w.claim # NoJob THEN "failed" ELSE "schedule"
  <2> HIDE DEF e
  <2>1. /\ Error.claim = w.claim /\ Error.note = w.note /\ Error.ck = w.ck
        /\ Error.pc = IF w.claim # NoJob THEN "failed" ELSE "schedule"
    BY Here, Returns, Moves
  <2>2. Error \in WorkerType
    BY <1>1, ErrorGood
  <2> QED BY <2>1, <2>2 DEF WorkerType
<1>6. /\ e.canonical => e.note = w.ck.note
      /\ e.note # NoNote => e.canonical
  BY <1>2 DEF None, OwnedNote
<1> HIDE DEF d, e, v, t
<1>7. disk.notes[w.ck.note] \in Ended
  BY <1>2 DEF NoteInv, NotesAt, SoundAt, Sound
<1>8. Has("note") => disk.notes[live.note] \in Ended
  <2> SUFFICES ASSUME Has("note"), disk.notes[live.note] \notin Ended PROVE FALSE
    OBVIOUS
  <2>1. live.note \in Notes /\ disk.notes[live.note] \in Contents
    BY Here DEF Inv, SessionInv
  <2>2. disk.notes[live.note] # "absent"
    BY <1>2 DEF NoteInv, NotesAt, QueuedAt, CallPending
  <2>3. disk.notes[live.note] = "open"
    BY <2>1, <2>2 DEF Contents, Ended
  <2>4. w.ck.note = live.note
    BY <1>1, <2>3 DEF NoteInv, NotesAt, QueuedAt, Only, Carrying
  <2> QED BY <1>7, <2>4
<1>9. NotesAt(disk, v)
  BY <1>1, <1>2, <1>5, <1>6, <1>7, <1>8
     DEF NoteInv, NotesAt, SoundAt, Sound, CkptAt, DiscardAt, QueuedAt, Ended,
         Idling, Completing, Undecoded, Restarting
<1>10. NotesAt(d, t)
  BY <1>1, <1>2, <1>3, <1>4, <1>7, <1>8
     DEF NoteInv, NotesAt, SoundAt, Sound, CkptAt, DiscardAt, MovedInv, QueuedAt, Ended, Files,
         Idling, Completing, Undecoded, Restarting
<1> QED BY <1>1, <1>2, <1>9, <1>10, WriteNotes

LEMMA OkNotes ==
    ASSUME Inv, NoteInv, w.pc \notin Unclaimed, w.pc # "backoff"
    PROVE  NotesAt(disk, Ok)
<1>1. CASE w.claim = NoJob
  BY <1>1, Here, Returns, IdleNotes
<1>2. CASE w.claim # NoJob
  <2>1. Ok.claim = w.claim /\ Ok.note = w.note /\ Ok.ck = w.ck /\ Ok.err = w.err /\ Ok.pc = "settle"
    BY <1>2, Here, Returns, Moves
  <2>2. ~ Discarding
    BY Working
  <2> QED BY <1>2, <2>1, <2>2, MovedOn DEF Idling, Completing, Undecoded, Restarting, Routed, Carrying
<1> QED BY <1>1, <1>2

LEMMA TidyNotes == Inv /\ NoteInv /\ Tidy => NoteInv'
<1> SUFFICES ASSUME Inv, NoteInv, Tidy PROVE NoteInv'
  OBVIOUS
<1> DEFINE d == [disk EXCEPT !.ckpt = NoCkpt]
<1>1. w.pc = "tidy" /\ Inside /\ Write("unlink", d, Ok, Ok)
  BY DEF Tidy, At
<1>2. ~ Discarding /\ UNCHANGED <<inbox, live>> /\ disk.row.status = "Done"
  BY <1>1, Working, Here DEF Unclaimed, Good, RowAt
<1>3. /\ d.job = disk.job /\ d.ckpt = NoCkpt /\ d.row = disk.row /\ d.notes = disk.notes
      /\ d.moved = disk.moved /\ d.audio = disk.audio /\ ~ NoCkpt.canonical
  BY Here DEF DiskType, NoCkpt
<1> HIDE DEF d
<1>4. NotesAt(disk, Ok)
  BY <1>1, OkNotes DEF Unclaimed
<1>5. Ok.pc # "fileCheckpoint"
  BY Here, Returns, Moves, IdleOk
<1>6. NotesAt(d, Ok)
  BY <1>2, <1>3, <1>4, <1>5, IdleOk
     DEF NotesAt, SoundAt, Sound, CkptAt, DiscardAt, MovedInv, QueuedAt, Ended
<1> QED BY <1>1, <1>2, <1>4, <1>6, WriteNotes

-----------------------------------------------------------------------------
(* Failure and settlement                                                   *)

LEMMA FailRowNotes == Inv /\ NoteInv /\ FailRow => NoteInv'
<1> SUFFICES ASSUME Inv, NoteInv, FailRow PROVE NoteInv'
  OBVIOUS
<1> DEFINE d == SetRow("Failed", Failing.note)
           v == [To("close") EXCEPT !.note = Failing]
           bad == CASE w.why = "unarmed" -> Idle
                    [] w.why = "missing" -> Error
                    [] w.why = "exhausted" -> To("reschedule")
<1>1. w.pc = "fail" /\ Inside /\ Write("row", d, v, bad)
  BY DEF FailRow, At
<1>2. /\ ~ Discarding /\ UNCHANGED <<inbox, live>> /\ (w.why = "unarmed" <=> w.claim = NoJob)
      /\ w.why \in {"unarmed", "missing", "exhausted"} /\ WellOwned(disk.ckpt) /\ WellOwned(w.note)
  BY <1>1, Working, Here DEF Unclaimed, Good, Kept, ClaimAt, WorkerType, Reasons
<1>3. /\ Failing \in Owned /\ Failing.note \in Notes \cup {NoNote} /\ Sound(disk, Failing)
      /\ Has("note") /\ disk.notes[live.note] = "open" => Failing.note = live.note
  <2>1. Failing \in Owned
    BY Here, OwnedOk DEF Failing
  <2>2. Sound(disk, disk.ckpt) /\ Sound(disk, w.note)
    BY DEF NoteInv, NotesAt, SoundAt
  <2>3. Sound(disk, Failing)
    BY <2>2 DEF Failing, Or, OwnedNote, Partial, Sound
  <2>4. Has("note") /\ disk.notes[live.note] = "open" => Failing.note = live.note
    <3> SUFFICES ASSUME Has("note"), disk.notes[live.note] = "open" PROVE Failing.note = live.note
      OBVIOUS
    <3>1. Only(disk, w)
      BY DEF NoteInv, NotesAt, QueuedAt
    <3>2. disk.ckpt.note \in May /\ w.note.note = live.note /\ disk.row.note \in May
      BY <1>1, <3>1 DEF Only, Routed
    <3> QED BY <3>2 DEF May, Failing, Or, OwnedNote, Partial
  <2> QED BY <2>1, <2>3, <2>4 DEF Owned
<1>4. v.claim = w.claim /\ v.note = Failing /\ v.err = w.err /\ v.ck = w.ck /\ v.pc = "close"
  <2>1. To("close") \in WorkerType /\ "close" \in Pcs
    BY Here, Moves DEF Pcs
  <2> HIDE DEF Failing
  <2> QED BY <1>3, <2>1, Here, Moves DEF WorkerType
<1>5. NotesAt(disk, bad)
  <2>1. CASE w.why = "unarmed"
    BY <2>1, IdleNotes
  <2>2. CASE w.why = "missing"
    BY <1>1, <1>2, <2>2, ErrorNotes
  <2>3. CASE w.why = "exhausted"
    <3> DEFINE r == To("reschedule")
    <3>1. r.claim = w.claim /\ r.note = w.note /\ r.err = w.err /\ r.ck = w.ck /\ r.pc = "reschedule"
      BY Here, Moves DEF Pcs
    <3> HIDE DEF r
    <3>2. NotesAt(disk, r)
      BY <1>1, <1>2, <3>1, MovedOn DEF Idling, Completing, Undecoded, Restarting, Routed, Carrying
    <3> QED BY <2>3, <3>2 DEF r
  <2> QED BY <1>2, <2>1, <2>2, <2>3
<1>6. /\ Files(d) /\ d.row.status = "Failed"
      /\ d.row.note = IF Failing.note = NoNote THEN disk.row.note ELSE Failing.note
  BY <1>3, RowFiles DEF Statuses, Settled
<1> HIDE DEF d, v, bad, Failing
<1>7. NotesAt(d, v)
  BY <1>1, <1>2, <1>3, <1>4, <1>6
     DEF NoteInv, NotesAt, SoundAt, Sound, CkptAt, DiscardAt, MovedInv, QueuedAt, Only, May, Files,
         Idling, Completing, Undecoded, Restarting, Routed, Carrying
<1> QED BY <1>1, <1>2, <1>5, <1>7, WriteNotes


LEMMA CloseNotes == Inv /\ NoteInv /\ CloseNote => NoteInv'
<1> SUFFICES ASSUME Inv, NoteInv, CloseNote PROVE NoteInv'
  OBVIOUS
<1> DEFINE n == w.note.note
           c == MarkIncomplete(disk.notes[n])
           next == CASE w.why = "unarmed" -> Idle
                     [] w.why = "missing" -> Ok
                     [] w.why = "exhausted" -> To("park")
<1>1. /\ w.pc = "close" /\ Inside
      /\ Goto(next) \/ (Exists(n) /\ Write("note", SetNote(n, c), next, next))
  BY DEF CloseNote, At
<1>2. /\ ~ Discarding /\ UNCHANGED <<inbox, live>> /\ (w.why = "unarmed" <=> w.claim = NoJob)
      /\ w.why \in {"unarmed", "missing", "exhausted"}
  BY <1>1, Working, Here DEF Unclaimed, Good, ClaimAt, WorkerType, Reasons
<1>3. NotesAt(disk, next)
  <2>1. CASE w.why = "unarmed"
    BY <2>1, IdleNotes
  <2>2. CASE w.why = "missing"
    BY <1>1, <2>2, OkNotes DEF Unclaimed
  <2>3. CASE w.why = "exhausted"
    <3> DEFINE r == To("park")
    <3>1. r.claim = w.claim /\ r.note = w.note /\ r.err = w.err /\ r.ck = w.ck /\ r.pc = "park"
      BY Here, Moves DEF Pcs
    <3> HIDE DEF r
    <3>2. NotesAt(disk, r)
      BY <1>1, <1>2, <3>1, MovedOn DEF Idling, Completing, Undecoded, Restarting, Routed, Carrying
    <3> QED BY <2>3, <3>2 DEF r
  <2> QED BY <1>2, <2>1, <2>2, <2>3
<1>4. c \in Ended /\ (Exists(n) => n \in Notes)
  BY Here DEF MarkIncomplete, Ended, Exists, Owned
<1> HIDE DEF next, c, n
<1>5. Exists(n) => NotesAt(SetNote(n, c), next)
  BY <1>3, <1>4, NoteWritten
<1> QED BY <1>1, <1>2, <1>3, <1>5, GotoNotes, WriteNotes

\* A job is written.
LEMMA JobNotes ==
    ASSUME Inv, NoteInv, NEW d, NEW v, NotesAt(disk, v), ~ Discarding \/ d.job = NoJob,
           d.row = disk.row, d.ckpt = disk.ckpt, d.notes = disk.notes, d.moved = disk.moved,
           d.audio = disk.audio,
           d.job # NoJob => Sound(disk, d.job.payload),
           d.job # NoJob /\ Has("note") /\ disk.notes[live.note] = "open" =>
              /\ d.job.payload.note \in May
              /\ d.job.payload.note = live.note \/ disk.row.note = live.note
    PROVE  NotesAt(d, v)
  BY DEF NotesAt, SoundAt, Sound, CkptAt, DiscardAt, MovedInv, QueuedAt, Only

LEMMA WithJob ==
    ASSUME Inv, NEW j
    PROVE  LET d == [disk EXCEPT !.job = j]
           IN /\ d.row = disk.row /\ d.ckpt = disk.ckpt /\ d.notes = disk.notes
              /\ d.moved = disk.moved /\ d.audio = disk.audio /\ d.job = j
  BY Here DEF DiskType

LEMMA MergeNotes ==
    ASSUME NEW p \in Payload, NEW q \in Payload
    PROVE  /\ \A d : Sound(d, p) /\ Sound(d, q) => Sound(d, Merge(p, q))
           /\ p.note \in May /\ q.note \in May =>
                 /\ Merge(p, q).note \in May
                 /\ p.note = live.note => Merge(p, q).note = live.note
  BY DEF Merge, Promotes, Payload, Sound, May

LEMMA SettleOkNotes == Inv /\ NoteInv /\ SettleOk => NoteInv'
<1> SUFFICES ASSUME Inv, NoteInv, SettleOk PROVE NoteInv'
  OBVIOUS
<1> DEFINE d == [disk EXCEPT !.job = NoJob]
<1>1. w.pc = "settle" /\ Inside /\ Write("settle", d, Idle, Idle)
  BY DEF SettleOk, At
<1>2. UNCHANGED <<inbox, live>>
  BY <1>1, Working DEF Unclaimed
<1>3. NotesAt(disk, Idle)
  BY IdleNotes
<1>4. NotesAt(d, Idle)
  <2>1. /\ d.row = disk.row /\ d.ckpt = disk.ckpt /\ d.notes = disk.notes
        /\ d.moved = disk.moved /\ d.audio = disk.audio /\ d.job = NoJob
    BY WithJob
  <2> HIDE DEF d
  <2> QED BY <1>3, <2>1, JobNotes
<1> QED BY <1>1, <1>2, <1>3, <1>4, WriteNotes

LEMMA SettleErrorNotes == Inv /\ NoteInv /\ SettleError => NoteInv'
<1> SUFFICES ASSUME Inv, NoteInv, SettleError PROVE NoteInv'
  OBVIOUS
<1> DEFINE claim == Presented(w.claim, w.err.note)
           known == [w EXCEPT !.claim = claim]
           note == AuthoritativeNote(disk.ckpt, claim.payload, disk.row.note)
           v1 == [known EXCEPT !.pc = "park"]
           v2 == [known EXCEPT !.pc = "fail", !.why = "exhausted", !.note = note]
<1>1. w.pc = "failed" /\ Inside /\ (Goto(v1) \/ Goto(v2))
  BY DEF SettleError, At
<1>2. /\ ~ Discarding /\ UNCHANGED <<inbox, live>> /\ w.claim # NoJob /\ JobOk(w.claim)
      /\ WellOwned(disk.ckpt) /\ w.claim \in Job
  BY <1>1, Working, Here DEF Unclaimed, Shared, Good, Kept, JobOk
<1>3. JobOk(claim) /\ claim \in Job /\ claim # NoJob
  BY <1>2, Here, PresentedOk DEF JobOk, Owned
<1>4. /\ Sound(disk, claim.payload)
      /\ w.err.note = NoNote => claim = w.claim
  <2>1. Sound(disk, w.claim.payload) /\ Sound(disk, w.err) /\ (w.err.note # NoNote => w.err.canonical)
    BY <1>2 DEF NoteInv, NotesAt, SoundAt
  <2>2. w.claim.payload \in Payload
    BY <1>2 DEF Job
  <2>3. w.err.note # NoNote => claim.payload.note = w.err.note
    BY <1>2, <2>2 DEF Presented, Job, Payload
  <2> QED BY <2>1, <2>3 DEF Presented, Sound
<1> HIDE DEF claim
<1>5. note \in Owned /\ Sound(disk, note)
  <2>1. Sound(disk, disk.ckpt)
    BY DEF NoteInv, NotesAt, SoundAt
  <2> QED BY <1>2, <1>3, <1>4, <2>1, Here, AuthorityOk, SoundAuthority DEF JobOk, Job
<1>6. Has("note") /\ disk.notes[live.note] = "open" =>
         /\ claim = w.claim /\ claim.payload.note \in May
         /\ claim.payload.note = live.note \/ disk.row.note = live.note
         /\ note.note = live.note
  <2> SUFFICES ASSUME Has("note"), disk.notes[live.note] = "open"
               PROVE  /\ claim = w.claim /\ claim.payload.note \in May
                      /\ claim.payload.note = live.note \/ disk.row.note = live.note
                      /\ note.note = live.note
    OBVIOUS
  <2>1. Only(disk, w)
    BY DEF NoteInv, NotesAt, QueuedAt
  <2>2. /\ claim = w.claim /\ claim.payload.note \in May
        /\ claim.payload.note = live.note \/ disk.row.note = live.note
        /\ disk.ckpt.note \in May /\ disk.row.note \in May
    BY <1>1, <1>2, <1>4, <2>1 DEF Only
  <2> QED BY <1>2, <1>3, <2>2, MayAuthority DEF JobOk
<1> HIDE DEF note
<1>7. /\ v1.claim = claim /\ v1.note = w.note /\ v1.err = w.err /\ v1.ck = w.ck /\ v1.pc = "park"
      /\ v2.claim = claim /\ v2.note = note /\ v2.err = w.err /\ v2.ck = w.ck /\ v2.pc = "fail"
  <2>1. known \in WorkerType /\ known.claim = claim /\ known.note = w.note /\ known.err = w.err
        /\ known.ck = w.ck
    BY <1>3, Here DEF WorkerType
  <2> HIDE DEF known
  <2> QED BY <1>5, <2>1 DEF WorkerType
<1> HIDE DEF v1, v2
<1>8. NotesAt(disk, v1)
  BY <1>1, <1>2, <1>3, <1>4, <1>6, <1>7
     DEF NoteInv, NotesAt, SoundAt, CkptAt, DiscardAt, QueuedAt, Only,
         Idling, Completing, Undecoded, Restarting, Routed, Carrying
<1>9. NotesAt(disk, v2)
  BY <1>1, <1>2, <1>3, <1>4, <1>5, <1>6, <1>7
     DEF NoteInv, NotesAt, SoundAt, CkptAt, DiscardAt, QueuedAt, Only,
         Idling, Completing, Undecoded, Restarting, Routed, Carrying
<1> QED BY <1>1, <1>2, <1>8, <1>9, GotoNotes

LEMMA ParkedNotes ==
    ASSUME Inv, NoteInv, w.pc \in {"park", "reschedule"}, NEW s,
           s = Failed(disk.job, w.claim) \/ s = Rescheduled(disk.job, w.claim)
    PROVE  \A v : NotesAt(disk, v) => NotesAt([disk EXCEPT !.job = s], v)
<1> DEFINE d == [disk EXCEPT !.job = s]
           p == Merge(disk.job.payload, w.claim.payload)
<1>1. /\ ~ Discarding /\ w.claim # NoJob /\ JobOk(w.claim) /\ disk.job.state = "running"
  BY Working, Here DEF Unclaimed, Shared, Good, Kept, ClaimAt
<1>2. disk.job # NoJob /\ JobOk(disk.job)
  BY <1>1, NoJobFacts, Here DEF Good, Kept
<1>3. /\ disk.job.payload \in Payload /\ w.claim.payload \in Payload
      /\ disk.job \in Job /\ Merge(disk.job.payload, w.claim.payload) \in Payload
  BY <1>1, <1>2, MergeOk DEF JobOk, Job
<1>4. s.payload = p
  <2> HIDE DEF p
  <2>1. s.payload = Merge(disk.job.payload, w.claim.payload)
    BY <1>3 DEF Failed, Rescheduled, Job
  <2> QED BY <2>1 DEF p
<1>5. Sound(disk, p)
  BY <1>1, <1>2, <1>3, MergeNotes DEF NoteInv, NotesAt, SoundAt
<1>6. Has("note") /\ disk.notes[live.note] = "open" =>
         p.note \in May /\ (p.note = live.note \/ disk.row.note = live.note)
  <2> SUFFICES ASSUME Has("note"), disk.notes[live.note] = "open"
               PROVE  p.note \in May /\ (p.note = live.note \/ disk.row.note = live.note)
    OBVIOUS
  <2>1. Only(disk, w)
    BY DEF NoteInv, NotesAt, QueuedAt
  <2>2. /\ disk.job.payload.note \in May /\ w.claim.payload.note \in May
        /\ disk.job.payload.note = live.note \/ disk.row.note = live.note
    BY <1>1, <1>2, <2>1 DEF Only
  <2> QED BY <1>3, <2>2, MergeNotes
<1>7. /\ d.row = disk.row /\ d.ckpt = disk.ckpt /\ d.notes = disk.notes
      /\ d.moved = disk.moved /\ d.audio = disk.audio /\ d.job = s
  BY WithJob
<1> HIDE DEF d, p
<1>8. \A v : NotesAt(disk, v) => NotesAt(d, v)
  BY <1>1, <1>4, <1>5, <1>6, <1>7, JobNotes
<1> QED BY <1>8 DEF d

LEMMA ParkNotes == Inv /\ NoteInv /\ Park => NoteInv'
<1> SUFFICES ASSUME Inv, NoteInv, Park PROVE NoteInv'
  OBVIOUS
<1> DEFINE job == Failed(disk.job, w.claim)
           d == [disk EXCEPT !.job = job]
           v == To("backoff")
<1>1. w.pc = "park" /\ Inside /\ (Write("settle", d, v, Idle) \/ Write("settle", d, Idle, Idle))
  BY DEF Park, At
<1>2. ~ Discarding /\ UNCHANGED <<inbox, live>>
  BY <1>1, Working DEF Unclaimed
<1>3. v.claim = w.claim /\ v.note = w.note /\ v.err = w.err /\ v.ck = w.ck /\ v.pc = "backoff"
  BY Here, Moves DEF Pcs
<1>4. NotesAt(disk, Idle)
  BY IdleNotes
<1>5. NotesAt(disk, v)
  <2> HIDE DEF v
  <2> QED BY <1>1, <1>2, <1>3, MovedOn DEF Idling, Completing, Undecoded, Restarting, Routed, Carrying
<1>6. \A x : NotesAt(disk, x) => NotesAt(d, x)
  BY <1>1, ParkedNotes
<1> HIDE DEF d, v, job
<1>7. NotesAt(d, v) /\ NotesAt(d, Idle)
  BY <1>4, <1>5, <1>6
<1> QED BY <1>1, <1>2, <1>4, <1>7, WriteNotes

LEMMA RescheduleNotes == Inv /\ NoteInv /\ Reschedule => NoteInv'
<1> SUFFICES ASSUME Inv, NoteInv, Reschedule PROVE NoteInv'
  OBVIOUS
<1> DEFINE s == Rescheduled(disk.job, w.claim)
           d == [disk EXCEPT !.job = s]
           v == To("backoff")
<1>1. w.pc = "reschedule" /\ Inside /\ Write("settle", d, v, Idle)
  BY Here DEF Reschedule, At, DiskType
<1>2. ~ Discarding /\ UNCHANGED <<inbox, live>>
  BY <1>1, Working DEF Unclaimed
<1>3. v.claim = w.claim /\ v.note = w.note /\ v.err = w.err /\ v.ck = w.ck /\ v.pc = "backoff"
  BY Here, Moves DEF Pcs
<1>4. NotesAt(disk, Idle)
  BY IdleNotes
<1>5. NotesAt(disk, v)
  <2> HIDE DEF v
  <2> QED BY <1>1, <1>2, <1>3, MovedOn DEF Idling, Completing, Undecoded, Restarting, Routed, Carrying
<1>6. \A x : NotesAt(disk, x) => NotesAt(d, x)
  BY <1>1, ParkedNotes
<1> HIDE DEF d, v, s
<1> QED BY <1>1, <1>2, <1>4, <1>5, <1>6, WriteNotes

LEMMA BackoffNotes == Inv /\ NoteInv /\ Backoff => NoteInv'
<1> SUFFICES ASSUME Inv, NoteInv, Backoff PROVE NoteInv'
  OBVIOUS
<1> DEFINE d == SetStatus(RetryStatus)
<1>1. w.pc = "backoff" /\ Inside /\ (Goto(Idle) \/ Write("row", d, Idle, Idle))
  BY DEF Backoff, At
<1>2. UNCHANGED <<inbox, live>>
  BY <1>1, Working DEF Unclaimed
<1>3. NotesAt(disk, Idle)
  BY IdleNotes
<1>4. Files(d) /\ d.row.status \in InProgress /\ d.row.note = disk.row.note
  BY RowFiles, RetryStatusOk
<1> HIDE DEF d
<1>5. NotesAt(d, Idle)
  BY <1>3, <1>4, RowNotes DEF InProgress
<1> QED BY <1>1, <1>2, <1>3, <1>5, GotoNotes, WriteNotes

LEMMA ClaimJobNotes == Inv /\ NoteInv /\ ClaimJob => NoteInv'
<1> SUFFICES ASSUME Inv, NoteInv, ClaimJob PROVE NoteInv'
  OBVIOUS
<1> DEFINE j == Claimed(disk.job)
           d == [disk EXCEPT !.job = j]
           v == [Idle EXCEPT !.pc = "dispatch", !.claim = j]
<1>1. w.pc = "idle" /\ UNCHANGED <<inbox, live>> /\ disk.job.state = "pending" /\ disk' = d /\ w' = v
  BY Here DEF ClaimJob, At, Inside, DiskType
<1>2. disk.job # NoJob /\ JobOk(disk.job)
  BY <1>1, NoJobFacts, Here DEF Good, Kept
<1>3. JobOk(j) /\ j # NoJob /\ j.payload = disk.job.payload
  BY <1>2, ClaimedOk
<1>4. ~ Discarding
  BY <1>2 DEF NoteInv, NotesAt, DiscardAt
<1>5. /\ d.row = disk.row /\ d.ckpt = disk.ckpt /\ d.notes = disk.notes
      /\ d.moved = disk.moved /\ d.audio = disk.audio /\ d.job = j
  BY WithJob
<1>6. /\ v.pc = "dispatch" /\ v.claim = j /\ ~ v.note.canonical /\ ~ v.err.canonical
      /\ ~ v.ck.canonical /\ v.err.note = NoNote
  BY DEF Idle, None, NoCkpt
<1> HIDE DEF d, v, j
<1>7. NotesAt(d, v)
  BY <1>1, <1>2, <1>3, <1>4, <1>5, <1>6
     DEF NoteInv, NotesAt, SoundAt, Sound, CkptAt, DiscardAt, MovedInv, QueuedAt, Only,
         Idling, Completing, Undecoded, Restarting, Routed, Carrying
<1>8. NotesAt(disk', w')
  BY <1>1, <1>7
<1> QED BY <1>1, <1>8, InsideNotes

-----------------------------------------------------------------------------
(* Restart                                                                  *)

LEMMA ArmNotes ==
    ASSUME Inv, NoteInv, NEW p \in Payload, WellOwned(p), NEW max \in Nat, Sound(disk, p),
           ~ Discarding,
           Has("note") /\ disk.notes[live.note] = "open" =>
              p.note \in May /\ (p.note = live.note \/ disk.row.note = live.note)
    PROVE  \A v : NotesAt(disk, v) => NotesAt(Arm(p, max), v)
<1> DEFINE j == IF disk.job = NoJob THEN NewJob(p, max) ELSE EnqueueOn(disk.job, p)
           d == [disk EXCEPT !.job = j]
<1>1. Arm(p, max) = d
  BY Here DEF Arm, DiskType
<1>2. /\ Sound(disk, j.payload)
      /\ Has("note") /\ disk.notes[live.note] = "open" =>
            j.payload.note \in May /\ (j.payload.note = live.note \/ disk.row.note = live.note)
  <2>1. CASE disk.job = NoJob
    BY <2>1 DEF NewJob
  <2>2. CASE disk.job # NoJob
    <3> DEFINE q == disk.job.payload
    <3>1. disk.job \in Job /\ q \in Payload /\ Sound(disk, q)
      BY <2>2, Here DEF Good, Kept, JobOk, Job, NoteInv, NotesAt, SoundAt
    <3>2. j.payload = Merge(q, p)
      BY <2>2, <3>1 DEF EnqueueOn, Job
    <3>3. Has("note") /\ disk.notes[live.note] = "open" =>
             q.note \in May /\ (q.note = live.note \/ disk.row.note = live.note)
      BY <2>2 DEF NoteInv, NotesAt, QueuedAt, Only
    <3> HIDE DEF q, j
    <3> QED BY <3>1, <3>2, <3>3, MergeNotes
  <2> QED BY <2>1, <2>2
<1>3. /\ d.row = disk.row /\ d.ckpt = disk.ckpt /\ d.notes = disk.notes
      /\ d.moved = disk.moved /\ d.audio = disk.audio /\ d.job = j
  BY WithJob
<1> HIDE DEF d, j
<1>4. \A v : NotesAt(disk, v) => NotesAt(d, v)
  BY <1>2, <1>3, JobNotes
<1> QED BY <1>1, <1>4

\* While the process starts up there is no session and nothing is queued.
LEMMA StartingUp ==
    ASSUME Inv, NoteInv, w.pc \in Restarting, Inside
    PROVE  /\ ~ Discarding /\ ~ Has("note") /\ UNCHANGED <<inbox, live>> /\ w.claim = NoJob
           /\ NotesAt(disk, Idle)
           /\ \A pc \in Restarting : NotesAt(disk, To(pc))
           /\ \A v : NotesAt(disk, v) => NotesAt(Arm(Blank, Retries), v)
<1>1. ~ Discarding /\ ~ Has("note")
  BY DEF NoteInv, NotesAt, DiscardAt, Restarting, Idling
<1>2. UNCHANGED <<inbox, live>> /\ w.claim = NoJob
  BY Here DEF Good, ClaimAt, Unclaimed, Restarting
<1>3. ASSUME NEW pc \in Restarting
      PROVE  NotesAt(disk, To(pc))
  <2> DEFINE v == To(pc)
  <2>1. pc \in Pcs
    BY DEF Restarting, Pcs
  <2>2. v.claim = w.claim /\ v.note = w.note /\ v.err = w.err /\ v.ck = w.ck /\ v.pc = pc
    BY <2>1, Here, Moves
  <2> HIDE DEF v
  <2>3. NotesAt(disk, v)
    BY <2>2, MovedOn DEF Idling, Completing, Undecoded, Restarting, Routed, Carrying
  <2> QED BY <2>3 DEF v
<1>4. Sound(disk, Blank)
  BY DEF Sound, Blank
<1> QED BY <1>1, <1>2, <1>3, <1>4, IdleNotes, ArmNotes, BlankOk, BoundsAssumption

LEMMA RecoverNotes == Inv /\ NoteInv /\ RecoverRunning => NoteInv'
<1> SUFFICES ASSUME Inv, NoteInv, RecoverRunning PROVE NoteInv'
  OBVIOUS
<1> DEFINE j == Recovered(disk.job)
           d == [disk EXCEPT !.job = j]
           v == To("resume")
<1>1. w.pc = "startup" /\ Inside /\ Write("job", d, v, v)
  BY Here DEF RecoverRunning, At, DiskType
<1>2. ~ Discarding /\ ~ Has("note") /\ UNCHANGED <<inbox, live>> /\ NotesAt(disk, v)
  BY <1>1, StartingUp DEF Restarting
<1>3. j # NoJob => disk.job # NoJob /\ j.payload = disk.job.payload
  <2>1. CASE disk.job = NoJob
    BY <2>1, NoJobFacts DEF Recovered
  <2>2. CASE disk.job # NoJob
    BY <2>2, Here, RecoveredOk DEF Good, Kept
  <2> QED BY <2>1, <2>2
<1>4. j # NoJob => Sound(disk, j.payload)
  BY <1>3 DEF NoteInv, NotesAt, SoundAt
<1>5. /\ d.row = disk.row /\ d.ckpt = disk.ckpt /\ d.notes = disk.notes
      /\ d.moved = disk.moved /\ d.audio = disk.audio /\ d.job = j
  BY WithJob
<1> HIDE DEF d, j, v
<1>6. NotesAt(d, v)
  BY <1>2, <1>4, <1>5, JobNotes
<1> QED BY <1>1, <1>2, <1>6, WriteNotes

LEMMA ResumeNotes == Inv /\ NoteInv /\ Resume => NoteInv'
<1> SUFFICES ASSUME Inv, NoteInv, Resume PROVE NoteInv'
  OBVIOUS
<1> DEFINE d == Arm(Blank, Retries)
<1>1. w.pc = "resume" /\ Inside /\ (Goto(To("reap")) \/ Write("job", d, To("resumeRow"), To("reap")))
  BY DEF Resume, At
<1>2. /\ UNCHANGED <<inbox, live>> /\ NotesAt(disk, To("reap")) /\ NotesAt(disk, To("resumeRow"))
      /\ NotesAt(d, To("resumeRow"))
  BY <1>1, StartingUp DEF Restarting
<1> HIDE DEF d
<1> QED BY <1>1, <1>2, GotoNotes, WriteNotes

LEMMA ResumeRowNotes == Inv /\ NoteInv /\ ResumeRow => NoteInv'
<1> SUFFICES ASSUME Inv, NoteInv, ResumeRow PROVE NoteInv'
  OBVIOUS
<1> DEFINE d == SetStatus("PendingNote")
<1>1. w.pc = "resumeRow" /\ Inside /\ Write("row", d, To("reap"), To("reap"))
  BY DEF ResumeRow, At
<1>2. UNCHANGED <<inbox, live>> /\ NotesAt(disk, To("reap"))
  BY <1>1, StartingUp DEF Restarting
<1>3. Files(d) /\ d.row.status = "PendingNote" /\ d.row.note = disk.row.note
  BY RowFiles DEF Statuses, InProgress
<1> HIDE DEF d
<1>4. NotesAt(d, To("reap"))
  BY <1>2, <1>3, RowNotes
<1> QED BY <1>1, <1>2, <1>4, WriteNotes

LEMMA ReapNotes == Inv /\ NoteInv /\ Reap => NoteInv'
<1> SUFFICES ASSUME Inv, NoteInv, Reap PROVE NoteInv'
  OBVIOUS
<1> DEFINE a == Arm(Blank, Retries)
           d == SetStatus("Failed")
           n == Partial(disk.row.note)
           v == [To("close") EXCEPT !.note = n, !.why = "unarmed"]
<1>1. /\ w.pc = "reap" /\ Inside
      /\ Goto(Idle) \/ Write("job", a, To("reapRow"), Idle) \/ Write("row", d, v, Idle)
  BY DEF Reap, At
<1>2. /\ ~ Discarding /\ ~ Has("note") /\ UNCHANGED <<inbox, live>> /\ w.claim = NoJob
      /\ NotesAt(disk, Idle) /\ NotesAt(a, To("reapRow"))
  BY <1>1, StartingUp DEF Restarting
<1>3. n \in Owned /\ ~ n.canonical
  BY Here, OwnedOk DEF Partial
<1> HIDE DEF n
<1>4. v.pc = "close" /\ v.claim = w.claim /\ v.note = n /\ v.err = w.err /\ v.ck = w.ck
  <2>1. To("close") \in WorkerType /\ "close" \in Pcs
    BY Here, Moves DEF Pcs
  <2> QED BY <1>3, <2>1, Here, Moves DEF WorkerType, Reasons
<1>5. Files(d) /\ d.row.status = "Failed" /\ d.row.note = disk.row.note
  BY RowFiles DEF Statuses, Settled
<1> HIDE DEF d, v, a
<1>6. NotesAt(disk, v)
  BY <1>1, <1>2, <1>3, <1>4
     DEF NoteInv, NotesAt, SoundAt, Sound, CkptAt, DiscardAt, Idling, Completing, Undecoded,
         Restarting
<1>7. NotesAt(d, v)
  BY <1>2, <1>5, <1>6, RowNotes
<1> QED BY <1>1, <1>2, <1>7, GotoNotes, WriteNotes

LEMMA ReapRowNotes == Inv /\ NoteInv /\ ReapRow => NoteInv'
<1> SUFFICES ASSUME Inv, NoteInv, ReapRow PROVE NoteInv'
  OBVIOUS
<1> DEFINE d == SetStatus("PendingTranscription")
<1>1. w.pc = "reapRow" /\ Inside /\ Write("row", d, Idle, Idle)
  BY DEF ReapRow, At
<1>2. UNCHANGED <<inbox, live>> /\ NotesAt(disk, Idle)
  BY <1>1, StartingUp DEF Restarting
<1>3. Files(d) /\ d.row.status = "PendingTranscription" /\ d.row.note = disk.row.note
  BY RowFiles DEF Statuses, InProgress
<1> HIDE DEF d
<1>4. NotesAt(d, Idle)
  BY <1>2, <1>3, RowNotes
<1> QED BY <1>1, <1>2, <1>4, WriteNotes


-----------------------------------------------------------------------------
(* Messages                                                                 *)

\* What is behind a message that was taken.
LEMMA TakeOrder ==
    ASSUME Inv, NoteInv, NEW m, Take(m), live' = live
    PROVE  /\ OrderInv' /\ (Discarding' => Discarding)
           /\ m \in {"discarded", "leftover"} => ~ Has("note")'
           /\ m = "leftover" => ~ Discarding'
           /\ m # "discarded" => (Has("discarded")' <=> Has("discarded"))
<1>1. /\ inbox \in Seq(Msgs) /\ inbox # <<>> /\ inbox' = Tail(inbox) /\ inbox[1] = m
      /\ Len(inbox) \in Nat /\ Len(inbox) >= 1
  BY DEF Take, Inv, Types
<1>2. /\ Len(inbox') = Len(inbox) - 1
      /\ \A i \in 1 .. Len(inbox') : inbox'[i] = inbox[i + 1] /\ i + 1 \in 1 .. Len(inbox)
  BY <1>1
<1>3. \A i, j \in 1 .. Len(inbox) :
         \/ inbox[i] \in {"discarded", "leftover"} /\ inbox[j] = "note"
         \/ inbox[i] = "leftover" /\ inbox[j] = "leftover"
         => j <= i
  BY DEF NoteInv, OrderInv
<1>4. \A i, j \in 1 .. Len(inbox') :
         \/ inbox'[i] \in {"discarded", "leftover"} /\ inbox'[j] = "note"
         \/ inbox'[i] = "leftover" /\ inbox'[j] = "leftover"
         => j <= i
  <2> SUFFICES ASSUME NEW i \in 1 .. Len(inbox'), NEW j \in 1 .. Len(inbox'),
                      \/ inbox'[i] \in {"discarded", "leftover"} /\ inbox'[j] = "note"
                      \/ inbox'[i] = "leftover" /\ inbox'[j] = "leftover"
               PROVE  j <= i
    OBVIOUS
  <2>1. i + 1 \in 1 .. Len(inbox) /\ j + 1 \in 1 .. Len(inbox) /\ j + 1 <= i + 1
    BY <1>2, <1>3
  <2> QED BY <1>1, <1>2, <2>1
<1>5. ASSUME NEW x, Has(x)',
             \/ m \in {"discarded", "leftover"} /\ x = "note"
             \/ m = "leftover" /\ x = "leftover"
      PROVE  FALSE
  <2>1. PICK j \in 1 .. Len(inbox') : inbox'[j] = x
    BY <1>5 DEF Has
  <2>2. j + 1 \in 1 .. Len(inbox) /\ inbox[j + 1] = x /\ 1 \in 1 .. Len(inbox)
    BY <1>1, <1>2, <2>1
  <2>3. j + 1 <= 1
    BY <1>1, <1>3, <1>5, <2>2
  <2> QED BY <1>1, <1>2, <2>3
<1>6. \A x : Has(x)' => Has(x)
  BY TakeFacts
<1>7. m # "discarded" => (Has("discarded")' <=> Has("discarded"))
  BY TakeLeaves
<1>8. /\ m \in {"discarded", "leftover"} => ~ Has("note")'
      /\ m = "leftover" => ~ Has("leftover")'
  BY <1>5
<1>9. m = "leftover" => ~ Discarding'
  <2> SUFFICES ASSUME m = "leftover" PROVE ~ Discarding'
    OBVIOUS
  <2>1. live.state = "none" /\ ~ Has("discarded")' /\ ~ Has("leftover")'
    BY <1>8, TakeFacts DEF NoteInv, OrderInv, Verdicts
  <2> QED BY <2>1 DEF Discarding
<1>10. Discarding' => Discarding
  BY <1>6 DEF Discarding
<1>11. OrderInv'
  BY <1>4, <1>6, <1>7, <1>8, <1>10 DEF NoteInv, OrderInv
<1> QED BY <1>7, <1>8, <1>9, <1>10, <1>11

LEMMA TakenNotes ==
    ASSUME Inv, NoteInv, NEW m, Take(m), live' = live, NotesAt(disk', w'), m # "discarded"
    PROVE  NoteInv'
<1>1. /\ OrderInv' /\ (Discarding' => Discarding) /\ (Has("note")' => Has("note"))
      /\ (Has("discarded")' <=> Has("discarded"))
  BY TakeOrder, TakeFacts
<1>2. NotesAt(disk, w)'
  BY <1>1 DEF NotesAt, SoundAt, Sound, CkptAt, DiscardAt, MovedInv, QueuedAt, Only, May
<1> QED BY <1>1, <1>2 DEF NoteInv

LEMMA TakeWriteNotes ==
    ASSUME Inv, NoteInv, NEW m, Take(m), live' = live, m # "discarded",
           NEW kind, NEW saved, NEW good, NEW bad, Write(kind, saved, good, bad),
           NotesAt(saved, good), NotesAt(disk, bad)
    PROVE  NoteInv'
<1>1. (disk' = saved /\ w' = good) \/ (disk' = disk /\ w' = bad)
  BY DEF Write
<1>2. NotesAt(disk', w')
  <2>1. CASE disk' = saved /\ w' = good
    BY <2>1
  <2>2. CASE disk' = disk /\ w' = bad
    BY <2>2
  <2> QED BY <1>1, <2>1, <2>2
<1> QED BY <1>2, TakenNotes

LEMMA MadeRow ==
    ASSUME Inv, NEW v, NotesAt(disk, v)
    PROVE  NotesAt([disk EXCEPT !.row = IF @ = NoRow THEN NewRow ELSE @], v)
<1> DEFINE d == [disk EXCEPT !.row = IF @ = NoRow THEN NewRow ELSE @]
<1>1. Files(d) /\ d.row = IF disk.row = NoRow THEN NewRow ELSE disk.row
  BY Here DEF Files, DiskType
<1> HIDE DEF d
<1>2. d.row.note = disk.row.note
  BY <1>1, RowsOk
<1>3. NotesAt(d, v)
  BY <1>1, <1>2, RowNotes, RowsOk
<1> QED BY <1>3 DEF d

LEMMA ProcessNotes == Inv /\ NoteInv /\ Process => NoteInv'
<1> SUFFICES ASSUME Inv, NoteInv, Process PROVE NoteInv'
  OBVIOUS
<1> DEFINE d == [disk EXCEPT !.row = IF @ = NoRow THEN NewRow ELSE @]
           v == To("collect")
           u == To("collectLost")
<1>1. Take("process") /\ live' = live /\ Write("row", d, v, u)
  BY DEF Process
<1>2. /\ w.pc = "idle" /\ ~ Discarding /\ w.claim = NoJob
      /\ live.note = NoNote \/ live.state # "none"
  BY <1>1, TakeFacts, Here DEF NoteInv, OrderInv, Good, ClaimAt, Unclaimed
<1>3. /\ v.claim = w.claim /\ v.note = w.note /\ v.err = w.err /\ v.ck = w.ck /\ v.pc = "collect"
      /\ u.claim = w.claim /\ u.note = w.note /\ u.err = w.err /\ u.ck = w.ck
      /\ u.pc = "collectLost"
  BY Here, Moves DEF Pcs
<1> HIDE DEF u, v
<1>4. NotesAt(disk, u)
  BY <1>2, <1>3, MovedOn DEF Idling, Completing, Undecoded, Restarting, Routed, Carrying
<1>5. NotesAt(disk, v)
  BY <1>2, <1>3
     DEF NoteInv, NotesAt, SoundAt, CkptAt, DiscardAt, QueuedAt, Only, Idling, Completing, Undecoded,
         Restarting, Routed, Carrying
<1>6. NotesAt(d, v)
  BY <1>5, MadeRow
<1> HIDE DEF d
<1> QED BY <1>1, <1>4, <1>6, TakeWriteNotes

LEMMA NoteCreatedNotes == Inv /\ NoteInv /\ NoteCreated => NoteInv'
<1> SUFFICES ASSUME Inv, NoteInv, NoteCreated PROVE NoteInv'
  OBVIOUS
<1> DEFINE d == SetRow(disk.row.status, live.note)
           e == [disk EXCEPT !.row = NewRow]
           v == To("noteRow")
<1>1. /\ Take("note") /\ live' = live
      /\ \/ Write("row", d, Idle, Idle)
         \/ disk.row = NoRow /\ Write("row", e, v, Idle)
         \/ Goto(Idle)
  BY DEF NoteCreated
<1>2. w.pc = "idle" /\ Has("note") /\ live.note \in Notes /\ NotesAt(disk, Idle)
  BY <1>1, TakeFacts, IdleNotes DEF Inv, SessionInv
<1>3. CASE Write("row", d, Idle, Idle)
  <2>1. Files(d) /\ d.row.status = disk.row.status /\ d.row.note = live.note
    BY <1>2, RowFiles, Here, NoNoteAssumption
  <2> HIDE DEF d
  <2>2. NotesAt(d, Idle)
    BY <1>2, <2>1
       DEF NotesAt, SoundAt, Sound, CkptAt, DiscardAt, MovedInv, QueuedAt, Only, May, Files
  <2> QED BY <1>1, <1>2, <1>3, <2>2, TakeWriteNotes
<1>4. CASE disk.row = NoRow /\ Write("row", e, v, Idle)
  <2>1. Files(e) /\ e.row = NewRow
    BY Here DEF Files, DiskType
  <2>2. v.claim = w.claim /\ v.note = w.note /\ v.err = w.err /\ v.ck = w.ck /\ v.pc = "noteRow"
    BY Here, Moves DEF Pcs
  <2> HIDE DEF e, v
  <2>3. NotesAt(disk, v)
    BY <1>2, <2>2, MovedOn DEF Idling, Completing, Undecoded, Restarting, Routed, Carrying
  <2>4. NotesAt(e, v)
    BY <1>4, <2>1, <2>3, RowNotes, RowsOk
  <2> QED BY <1>1, <1>2, <1>4, <2>4, TakeWriteNotes
<1>5. CASE Goto(Idle)
  <2>1. NotesAt(disk', w')
    BY <1>2, <1>5 DEF Goto
  <2> QED BY <1>1, <2>1, TakenNotes
<1> QED BY <1>1, <1>3, <1>4, <1>5

LEMMA NoteRowNotes == Inv /\ NoteInv /\ NoteRow => NoteInv'
<1> SUFFICES ASSUME Inv, NoteInv, NoteRow PROVE NoteInv'
  OBVIOUS
<1> DEFINE d == SetRow("Recording", live.note)
<1>1. w.pc = "noteRow" /\ UNCHANGED <<inbox, live>> /\ Write("row", d, Idle, Idle)
  BY DEF NoteRow, At, Inside
<1>2. live.note \in Notes /\ NotesAt(disk, Idle)
  BY <1>1, IdleNotes DEF Inv, CallAt
<1>3. Files(d) /\ d.row.status = "Recording" /\ d.row.note = live.note
  BY <1>2, RowFiles, NoNoteAssumption DEF Statuses
<1> HIDE DEF d
<1>4. NotesAt(d, Idle)
  BY <1>2, <1>3, RowNotes
<1> QED BY <1>1, <1>2, <1>4, WriteNotes

LEMMA DiscardedNotes == Inv /\ NoteInv /\ Discarded => NoteInv'
<1> SUFFICES ASSUME Inv, NoteInv, Discarded PROVE NoteInv'
  OBVIOUS
<1> DEFINE d == [disk EXCEPT !.job = NoJob]
           v == To("discardRow")
<1>1. Take("discarded") /\ live' = live /\ Write("job", d, v, v)
  BY DEF Discarded
<1>2. /\ w.pc = "idle" /\ Discarding /\ disk.job = NoJob /\ live.state \notin {"running", "finishing"}
      /\ w.claim = NoJob
  BY <1>1, TakeFacts, Here
     DEF NoteInv, NotesAt, DiscardAt, OrderInv, Discarding, Good, ClaimAt, Unclaimed
<1>3. d = disk
  BY <1>2, Here DEF DiskType
<1>4. disk' = disk /\ w' = v
  BY <1>1, <1>3 DEF Write
<1>5. v.claim = w.claim /\ v.note = w.note /\ v.err = w.err /\ v.ck = w.ck /\ v.pc = "discardRow"
  BY Here, Moves DEF Pcs
<1> HIDE DEF d, v
<1>6. OrderInv' /\ ~ Has("note")'
  BY <1>1, TakeOrder
<1>7. NotesAt(disk, w)'
  BY <1>1, <1>2, <1>4, <1>5, <1>6
     DEF NoteInv, NotesAt, SoundAt, Sound, CkptAt, DiscardAt, MovedInv, Idling, Completing, Undecoded,
         Restarting
<1> QED BY <1>6, <1>7 DEF NoteInv

LEMMA DiscardRowNotes == Inv /\ NoteInv /\ DiscardRow => NoteInv'
<1> SUFFICES ASSUME Inv, NoteInv, DiscardRow PROVE NoteInv'
  OBVIOUS
<1> DEFINE d == SetStatus("Failed")
<1>1. /\ w.pc = "discardRow" /\ UNCHANGED <<inbox, live>>
      /\ Goto(Idle) \/ Write("row", d, Idle, Idle)
  BY DEF DiscardRow, At, Inside
<1>2. ~ Has("note") /\ NotesAt(disk, Idle)
  BY <1>1, IdleNotes DEF NoteInv, NotesAt, DiscardAt
<1>3. Files(d) /\ d.row.status = "Failed" /\ d.row.note = disk.row.note
  BY RowFiles DEF Statuses, Settled
<1> HIDE DEF d
<1>4. NotesAt(d, Idle)
  BY <1>2, <1>3, RowNotes
<1> QED BY <1>1, <1>2, <1>4, GotoNotes, WriteNotes


LEMMA LeftoverNotes == Inv /\ NoteInv /\ Leftover => NoteInv'
<1> SUFFICES ASSUME Inv, NoteInv, Leftover PROVE NoteInv'
  OBVIOUS
<1> DEFINE d == SetNote(live.note, "absent")
           v == To("leftoverRow")
<1>1. Take("leftover") /\ live' = live /\ Write("note", d, Idle, v)
  BY DEF Leftover
<1>2. /\ w.pc = "idle" /\ Discarding /\ live.note \in Notes /\ disk.job = NoJob /\ disk.ckpt = NoCkpt
      /\ disk.row.status # "Done" /\ ~ live.filed /\ ~ NoCkpt.canonical /\ w.claim = NoJob
  BY <1>1, TakeFacts, Here
     DEF NoteInv, NotesAt, DiscardAt, OrderInv, Discarding, Inv, SessionInv, NoCkpt, Good, ClaimAt,
         Unclaimed
<1>3. OrderInv' /\ ~ Has("note")' /\ ~ Discarding'
  BY <1>1, TakeOrder
<1>4. CASE disk' = d /\ w' = Idle
  <2>1. /\ d.row = disk.row /\ d.ckpt = disk.ckpt /\ d.job = disk.job /\ d.moved = disk.moved
        /\ d.notes = [disk.notes EXCEPT ![live.note] = "absent"]
    BY Here DEF SetNote, DiskType
  <2>2. /\ Idle.pc = "idle" /\ Idle.claim = NoJob /\ ~ Idle.note.canonical /\ ~ Idle.err.canonical
        /\ ~ Idle.ck.canonical /\ Idle.err.note = NoNote
    BY DEF Idle, None, NoCkpt
  <2> HIDE DEF d
  <2>3. MovedInv(disk)'
    <3>1. \A n : n # live.note => d.notes[n] = disk.notes[n]
      BY <2>1, Here
    <3>2. d.notes[live.note] = "absent"
      BY <1>2, <2>1, Here
    <3> QED BY <1>1, <1>4, <2>1, <3>1, <3>2 DEF NoteInv, NotesAt, MovedInv
  <2>4. SoundAt(disk, w)' /\ CkptAt(disk, w)' /\ DiscardAt(disk, w)'
    BY <1>1, <1>2, <1>3, <1>4, <2>1, <2>2
       DEF SoundAt, Sound, CkptAt, DiscardAt, Idling, Completing, Undecoded, Restarting
  <2> QED BY <1>3, <2>3, <2>4 DEF NoteInv, NotesAt
<1>5. CASE disk' = disk /\ w' = v
  <2>1. v.claim = w.claim /\ v.note = w.note /\ v.err = w.err /\ v.ck = w.ck /\ v.pc = "leftoverRow"
    BY Here, Moves DEF Pcs
  <2> HIDE DEF v
  <2>2. NotesAt(disk, w)'
    BY <1>1, <1>2, <1>3, <1>5, <2>1
       DEF NoteInv, NotesAt, SoundAt, Sound, CkptAt, DiscardAt, MovedInv, Idling, Completing, Undecoded,
           Restarting
  <2> QED BY <1>3, <2>2 DEF NoteInv
<1> QED BY <1>1, <1>4, <1>5 DEF Write

LEMMA ClosingLeftover ==
    ASSUME Inv, NoteInv, w.pc \in {"leftoverRow", "leftoverFail"}
    PROVE  NotesAt(disk, ClosesLeftover) /\ NotesAt(disk, To("leftoverFail"))
<1> DEFINE v == ClosesLeftover
           u == To("leftoverFail")
<1>1. ~ Discarding /\ w.claim = NoJob
  BY Here DEF NoteInv, NotesAt, DiscardAt, Idling, Good, ClaimAt, Unclaimed
<1>2. v.claim = w.claim /\ ~ v.note.canonical /\ v.err = w.err /\ v.ck = w.ck /\ v.pc = "close"
  <2>1. To("close") \in WorkerType /\ "close" \in Pcs
    BY Here, Moves DEF Pcs
  <2>2. Partial(live.note) \in Owned /\ ~ Partial(live.note).canonical
    BY OwnedOk DEF Inv, Types, LiveType, Partial
  <2> HIDE DEF Partial
  <2>3. v.note = Partial(live.note)
    BY <2>1, <2>2 DEF ClosesLeftover, WorkerType
  <2> QED BY <1>1, <2>2, <2>3, ClosesLeftoverOk
<1>3. u.claim = w.claim /\ u.note = w.note /\ u.err = w.err /\ u.ck = w.ck /\ u.pc = "leftoverFail"
  BY Here, Moves DEF Pcs
<1> HIDE DEF u, v
<1>4. NotesAt(disk, v)
  BY <1>1, <1>2
     DEF NoteInv, NotesAt, SoundAt, Sound, CkptAt, DiscardAt, QueuedAt, Only, Idling, Completing,
         Undecoded, Restarting, Routed, Carrying
<1>5. NotesAt(disk, u)
  BY <1>1, <1>3, MovedOn DEF Idling, Completing, Undecoded, Restarting, Routed, Carrying
<1> QED BY <1>4, <1>5 DEF u, v

LEMMA LeftoverRowNotes == Inv /\ NoteInv /\ LeftoverRow => NoteInv'
<1> SUFFICES ASSUME Inv, NoteInv, LeftoverRow PROVE NoteInv'
  OBVIOUS
<1> DEFINE d == [disk EXCEPT !.row = IF @ = NoRow THEN NewRow ELSE @]
<1>1. /\ w.pc = "leftoverRow" /\ UNCHANGED <<inbox, live>>
      /\ \/ Write("row", d, ClosesLeftover, ClosesLeftover)
         \/ Write("row", d, To("leftoverFail"), ClosesLeftover)
  BY DEF LeftoverRow, At, Inside
<1>2. NotesAt(disk, ClosesLeftover) /\ NotesAt(disk, To("leftoverFail"))
  BY <1>1, ClosingLeftover
<1>3. NotesAt(d, ClosesLeftover) /\ NotesAt(d, To("leftoverFail"))
  BY <1>2, MadeRow
<1> HIDE DEF d
<1> QED BY <1>1, <1>2, <1>3, WriteNotes

LEMMA LeftoverFailNotes == Inv /\ NoteInv /\ LeftoverFail => NoteInv'
<1> SUFFICES ASSUME Inv, NoteInv, LeftoverFail PROVE NoteInv'
  OBVIOUS
<1> DEFINE d == SetRow("Failed", live.note)
<1>1. /\ w.pc = "leftoverFail" /\ UNCHANGED <<inbox, live>>
      /\ Write("row", d, ClosesLeftover, ClosesLeftover)
  BY DEF LeftoverFail, At, Inside
<1>2. NotesAt(disk, ClosesLeftover) /\ live.note \in Notes
  BY <1>1, ClosingLeftover DEF Inv, CallAt
<1>3. Files(d) /\ d.row.status = "Failed" /\ d.row.note = live.note
  BY <1>2, RowFiles, NoNoteAssumption DEF Statuses, Settled
<1> HIDE DEF d
<1>4. NotesAt(d, ClosesLeftover)
  BY <1>2, <1>3, RowNotes
<1> QED BY <1>1, <1>2, <1>4, WriteNotes

LEMMA RearmedNotes ==
    ASSUME Inv, NoteInv
    PROVE  /\ Sound(disk, Rearmed.payload)
           /\ Rearmed.payload.note = IF disk.job = NoJob THEN NoNote ELSE disk.job.payload.note
<1> DEFINE p == [Blank EXCEPT !.origin = DurableOrigin]
<1>1. DurableOrigin \in Backends \cup {Unknown}
  BY Here DEF DurableOrigin, Ckpt, Good, Kept, JobOk, Job, Payload
<1>2. p \in Payload /\ p.note = NoNote /\ ~ p.canonical
  BY <1>1 DEF Blank, Payload
<1>3. Rearmed = IF disk.job = NoJob THEN NewJob(Consumed(p), Retries)
                                    ELSE RearmOn(disk.job, p, Retries)
  BY DEF Rearmed
<1> HIDE DEF p
<1>4. CASE disk.job = NoJob
  <2>1. Rearmed.payload = Consumed(p)
    BY <1>3, <1>4 DEF NewJob
  <2> QED BY <1>2, <1>4, <2>1 DEF Consumed, Payload, Sound
<1>5. CASE disk.job # NoJob
  <2> DEFINE q == disk.job.payload
  <2>1. disk.job \in Job /\ q \in Payload /\ Sound(disk, q)
    BY <1>5, Here DEF Good, Kept, JobOk, Job, NoteInv, NotesAt, SoundAt
  <2>2. Merge(q, p) \in Payload /\ Merge(q, p).note = q.note /\ Merge(q, p).canonical = q.canonical
    BY <1>2, <2>1 DEF Merge, Promotes, Payload
  <2>3. Rearmed.payload = Consumed(Merge(q, p))
    BY <1>3, <1>5, <2>1 DEF RearmOn, NewJob, Job
  <2> HIDE DEF q
  <2>4. Rearmed.payload.note = q.note /\ Rearmed.payload.canonical = q.canonical
    BY <2>2, <2>3 DEF Consumed, Payload
  <2> QED BY <1>5, <2>1, <2>4 DEF Sound, q
<1> QED BY <1>4, <1>5

LEMMA ManualRetryNotes == Inv /\ NoteInv /\ ManualRetry => NoteInv'
<1> SUFFICES ASSUME Inv, NoteInv, ManualRetry PROVE NoteInv'
  OBVIOUS
<1> DEFINE d == [disk EXCEPT !.job = Rearmed, !.row.status = RetryStatus]
<1>1. /\ Take("retry") /\ live' = live
      /\ \/ Goto(Idle)
         \/ /\ disk.row.status = "Failed" /\ (disk.audio \/ disk.ckpt.valid)
            /\ Write("job", d, Idle, Idle)
  BY DEF ManualRetry
<1>2. NotesAt(disk, Idle)
  BY IdleNotes
<1>3. CASE Goto(Idle)
  <2>1. NotesAt(disk', w')
    BY <1>2, <1>3 DEF Goto
  <2> QED BY <1>1, <2>1, TakenNotes
<1>4. CASE /\ disk.row.status = "Failed" /\ (disk.audio \/ disk.ckpt.valid)
           /\ Write("job", d, Idle, Idle)
  <2>1. ~ Discarding
    BY <1>4 DEF NoteInv, NotesAt, DiscardAt, NoCkpt
  <2>2. /\ d.job = Rearmed /\ d.ckpt = disk.ckpt /\ d.audio = disk.audio /\ d.notes = disk.notes
        /\ d.moved = disk.moved /\ d.row.status = RetryStatus /\ d.row.note = disk.row.note
    <3> HIDE DEF Rearmed, RetryStatus
    <3> QED BY Here DEF DiskType, RowType
  <2>3. RetryStatus \notin {"Done", "Failed"} /\ Rearmed # NoJob
    BY RetryStatusOk, RearmedOk DEF InProgress
  <2> HIDE DEF d, Rearmed, RetryStatus
  <2>4. NotesAt(d, Idle)
    BY <1>2, <1>4, <2>1, <2>2, <2>3, RearmedNotes
       DEF NotesAt, SoundAt, Sound, CkptAt, DiscardAt, MovedInv, QueuedAt, Only, May
  <2>5. Write("job", d, Idle, Idle)
    BY <1>4 DEF d
  <2> QED BY <1>1, <1>2, <2>4, <2>5, TakeWriteNotes
<1> QED BY <1>1, <1>3, <1>4


\* The session is joined: it is gone, its note is not.
LEMMA CollectedNotes ==
    ASSUME Inv, NoteInv, w.pc \in {"collect", "collectLost"}, Collected, inbox' = inbox,
           NotesAt(disk', w'), w'.pc # "collect"
    PROVE  NoteInv'
<1>1. /\ live'.call = live.call /\ live'.filed = live.filed /\ live'.note = live.note
      /\ live'.state = "none" /\ live.state \in {"none", "ready"}
  BY DEF Collected, Inv, Types, LiveType
<1>2. ~ Discarding /\ ~ CallPending
  BY Away DEF NoteInv, NotesAt, DiscardAt, Idling
<1>3. (\A m : Has(m)' = Has(m)) /\ ~ Discarding'
  BY <1>1, <1>2 DEF Has, Discarding
<1>4. OrderInv'
  BY <1>1, <1>2, <1>3 DEF NoteInv, OrderInv, Discarding, CallPending
<1>5. NotesAt(disk, w)'
  BY <1>1, <1>2, <1>3
     DEF NotesAt, SoundAt, Sound, CkptAt, DiscardAt, MovedInv, QueuedAt, Only, May
<1> QED BY <1>4, <1>5 DEF NoteInv

LEMMA CollectFiledNotes == Inv /\ NoteInv /\ CollectFiled => NoteInv'
<1> SUFFICES ASSUME Inv, NoteInv, CollectFiled PROVE NoteInv'
  OBVIOUS
<1> DEFINE note == [note |-> live.note, canonical |-> TRUE]
           ck == [disk.ckpt EXCEPT !.valid = TRUE, !.note = live.note, !.canonical = TRUE]
           v == [To("clean") EXCEPT !.note = note, !.ck = ck]
<1>1. /\ w.pc = "collect" /\ Collected /\ live.filed /\ inbox' = inbox /\ w' = v /\ disk' = disk
  BY DEF CollectFiled, At, Goto
<1>2. /\ live.note \in Notes /\ ~ Discarding /\ disk.notes[live.note] \in Ended /\ w.claim = NoJob
  BY <1>1, Here
     DEF Inv, SessionInv, NoteInv, NotesAt, SoundAt, DiscardAt, Idling, Good, ClaimAt, Unclaimed
<1>3. note \in Owned /\ ck \in Ckpt /\ ck.note = live.note /\ note.note = live.note
  BY <1>2, Here DEF Owned, Ckpt
<1> HIDE DEF note, ck
<1>4. v.pc = "clean" /\ v.claim = w.claim /\ v.note = note /\ v.err = w.err /\ v.ck = ck
  <2>1. To("clean") \in WorkerType /\ "clean" \in Pcs
    BY Here, Moves DEF Pcs
  <2> QED BY <1>3, <2>1, Here, Moves DEF WorkerType
<1> HIDE DEF v
<1>5. NotesAt(disk, v)
  BY <1>1, <1>2, <1>3, <1>4
     DEF NoteInv, NotesAt, SoundAt, Sound, CkptAt, DiscardAt, QueuedAt, Only, Idling, Completing,
         Undecoded, Restarting, Routed, Ended
<1>6. NotesAt(disk', w') /\ w'.pc # "collect"
  BY <1>1, <1>4, <1>5
<1> QED BY <1>1, <1>6, CollectedNotes

LEMMA CollectBatchNotes == Inv /\ NoteInv /\ CollectBatch => NoteInv'
<1> SUFFICES ASSUME Inv, NoteInv, CollectBatch PROVE NoteInv'
  OBVIOUS
<1> DEFINE note == IF HadSession THEN live.note ELSE NoNote
           payload == [Blank EXCEPT !.note = note, !.origin = FirstOrigin,
                                    !.first = FreshBatch, !.finished = TRUE]
           max == IF HadSession \/ FreshBatch THEN Retries + 1 ELSE Retries
           d == Arm(payload, max)
           v == FailWith("unarmed", Partial(note))
<1>1. w.pc = "collect" /\ Collected /\ inbox' = inbox /\ Write("job", d, Idle, v)
  BY DEF CollectBatch, At
<1>2. ~ Discarding /\ w.claim = NoJob
  BY <1>1, Here DEF NoteInv, NotesAt, DiscardAt, Idling, Good, ClaimAt, Unclaimed
<1>3. /\ note \in Notes \cup {NoNote} /\ max \in Nat
      /\ Has("note") => note = live.note
  <2>1. live.note \in Notes \cup {NoNote} /\ max \in Nat
    BY BoundsAssumption DEF Inv, Types, LiveType
  <2>2. Has("note") => live.note # NoNote /\ live.state = "ready"
    BY <1>1, NoNoteAssumption DEF Inv, SessionInv, NoteInv, NotesAt, DiscardAt, Collected
  <2> QED BY <2>1, <2>2 DEF HadSession
<1>4. payload \in Payload /\ WellOwned(payload) /\ payload.note = note /\ ~ payload.canonical
  <2>1. FirstOrigin \in Backends \cup {Unknown} /\ FreshBatch \in BOOLEAN
    BY BackendsAssumption, Here
       DEF FirstOrigin, FreshBatch, HadSession, Inv, Types, DiskType, RowType
  <2> HIDE DEF note
  <2> QED BY <1>3, <2>1 DEF Blank, Payload, WellOwned
<1>5. /\ v.pc = "fail" /\ v.claim = w.claim /\ ~ v.note.canonical /\ v.note.note = note
      /\ v.err = w.err /\ v.ck = w.ck
  <2>1. Partial(note) \in Owned /\ Partial(note).note = note /\ ~ Partial(note).canonical
    BY <1>3, OwnedOk DEF Partial
  <2> HIDE DEF note, Partial
  <2> QED BY <2>1, Here, FailsWith DEF Reasons
<1> HIDE DEF payload, max, note, v
<1>6. NotesAt(d, Idle)
  <2>1. Sound(disk, payload)
    BY <1>4 DEF Sound
  <2> QED BY <1>2, <1>3, <1>4, <2>1, ArmNotes, IdleNotes DEF May
<1>7. NotesAt(disk, v)
  BY <1>1, <1>2, <1>3, <1>5
     DEF NoteInv, NotesAt, SoundAt, Sound, CkptAt, DiscardAt, QueuedAt, Only, Idling, Completing,
         Undecoded, Restarting, Carrying
<1> HIDE DEF d
<1>8. (disk' = d /\ w' = Idle) \/ (disk' = disk /\ w' = v)
  BY <1>1 DEF Write
<1>9. NotesAt(disk', w') /\ w'.pc # "collect"
  <2>1. CASE disk' = d /\ w' = Idle
    BY <1>6, <2>1, IdleOk
  <2>2. CASE disk' = disk /\ w' = v
    BY <1>5, <1>7, <2>2
  <2> QED BY <1>8, <2>1, <2>2
<1> QED BY <1>1, <1>9, CollectedNotes

LEMMA CollectLostNotes == Inv /\ NoteInv /\ CollectLost => NoteInv'
<1> SUFFICES ASSUME Inv, NoteInv, CollectLost PROVE NoteInv'
  OBVIOUS
<1> DEFINE n == Partial(live.note)
           v == [To("close") EXCEPT !.note = n, !.why = "unarmed"]
<1>1. w.pc = "collectLost" /\ Collected /\ inbox' = inbox /\ w' \in {v, Idle} /\ disk' = disk
  BY DEF CollectLost, At, Goto
<1>2. ~ Discarding /\ w.claim = NoJob
  BY <1>1, Here DEF NoteInv, NotesAt, DiscardAt, Idling, Good, ClaimAt, Unclaimed
<1>3. n \in Owned /\ ~ n.canonical
  BY OwnedOk DEF Inv, Types, LiveType, Partial
<1> HIDE DEF n
<1>4. v.pc = "close" /\ v.claim = w.claim /\ v.note = n /\ v.err = w.err /\ v.ck = w.ck
  <2>1. To("close") \in WorkerType /\ "close" \in Pcs
    BY Here, Moves DEF Pcs
  <2> QED BY <1>3, <2>1, Here, Moves DEF WorkerType, Reasons
<1> HIDE DEF v
<1>5. NotesAt(disk, v)
  BY <1>1, <1>2, <1>3, <1>4
     DEF NoteInv, NotesAt, SoundAt, Sound, CkptAt, DiscardAt, QueuedAt, Only, Idling, Completing,
         Undecoded, Restarting, Routed, Carrying
<1>6. NotesAt(disk', w') /\ w'.pc # "collect"
  BY <1>1, <1>4, <1>5, IdleNotes, IdleOk
<1> QED BY <1>1, <1>6, CollectedNotes

LEMMA ScheduleNotes == Inv /\ NoteInv /\ Schedule => NoteInv'
<1> SUFFICES ASSUME Inv, NoteInv, Schedule PROVE NoteInv'
  OBVIOUS
<1> DEFINE note == Or(w.err, Or(OwnedNote(disk.ckpt), w.note))
           payload == [Blank EXCEPT !.note = note.note, !.canonical = note.canonical,
                                    !.origin = Local]
           d == Arm(payload, Retries)
           v == [To("scheduleRow") EXCEPT !.note = note]
           u == FailWith("unarmed", note)
<1>1. w.pc = "schedule" /\ UNCHANGED <<inbox, live>> /\ Write("job", d, v, u)
  BY DEF Schedule, At, Inside
<1>2. ~ Discarding /\ w.claim = NoJob /\ live.filed /\ disk.notes[live.note] \in Ended
  BY <1>1, Here
     DEF NoteInv, NotesAt, SoundAt, DiscardAt, Idling, Completing, Good, ClaimAt, Unclaimed
<1>3. note \in Owned /\ WellOwned(note) /\ Sound(disk, note)
  <2>1. Sound(disk, w.err) /\ Sound(disk, disk.ckpt) /\ Sound(disk, w.note)
    BY DEF NoteInv, NotesAt, SoundAt
  <2>2. Sound(disk, note)
    BY <2>1 DEF Or, OwnedNote, Sound
  <2> QED BY <2>2, Here, OwnedOk DEF Good, Kept
<1> HIDE DEF note
<1>4. payload \in Payload /\ WellOwned(payload) /\ Sound(disk, payload)
  BY <1>3, BackendsAssumption DEF Blank, Payload, WellOwned, Owned, Sound
<1> HIDE DEF payload
<1>5. /\ v.pc = "scheduleRow" /\ v.claim = w.claim /\ v.note = note /\ v.err = w.err /\ v.ck = w.ck
      /\ u.pc = "fail" /\ u.claim = w.claim /\ u.note = note /\ u.err = w.err /\ u.ck = w.ck
  <2>1. To("scheduleRow") \in WorkerType /\ "scheduleRow" \in Pcs
    BY Here, Moves DEF Pcs
  <2> QED BY <1>3, <2>1, Here, Moves, FailsWith DEF WorkerType, Reasons
<1> HIDE DEF u, v
<1>6. NotesAt(disk, u) /\ NotesAt(disk, v)
  BY <1>1, <1>2, <1>3, <1>5
     DEF NoteInv, NotesAt, SoundAt, CkptAt, DiscardAt, QueuedAt, Idling, Completing, Undecoded,
         Restarting, Ended
<1>7. NotesAt(d, v)
  BY <1>2, <1>4, <1>6, ArmNotes, BoundsAssumption DEF Ended
<1> HIDE DEF d
<1> QED BY <1>1, <1>6, <1>7, WriteNotes

LEMMA ScheduleRowNotes == Inv /\ NoteInv /\ ScheduleRow => NoteInv'
<1> SUFFICES ASSUME Inv, NoteInv, ScheduleRow PROVE NoteInv'
  OBVIOUS
<1> DEFINE d == SetRow(RetryStatus, w.note.note)
<1>1. w.pc = "scheduleRow" /\ UNCHANGED <<inbox, live>> /\ Write("row", d, Idle, Idle)
  BY DEF ScheduleRow, At, Inside
<1>2. /\ ~ Discarding /\ disk.notes[live.note] \in Ended /\ w.note.note \in Notes \cup {NoNote}
      /\ NotesAt(disk, Idle)
  BY <1>1, Here, IdleNotes
     DEF NoteInv, NotesAt, SoundAt, DiscardAt, Idling, Completing, Good, ClaimAt, Unclaimed, Owned
<1>3. Files(d) /\ d.row.status = RetryStatus /\ RetryStatus # "Done"
  BY <1>2, RowFiles, RetryStatusOk DEF InProgress
<1> HIDE DEF d
<1>4. NotesAt(d, Idle)
  BY <1>2, <1>3
     DEF NotesAt, SoundAt, Sound, CkptAt, DiscardAt, MovedInv, QueuedAt, Files, Ended
<1> QED BY <1>1, <1>2, <1>4, WriteNotes


-----------------------------------------------------------------------------
(* The session, the call, the user and the vault                            *)

LEMMA AppendOrder ==
    ASSUME Inv, NoteInv, NEW m \in Msgs, inbox' = Append(inbox, m),
           m = "note" => ~ Has("discarded") /\ ~ Has("leftover"),
           m = "leftover" => ~ Has("leftover")
    PROVE  \A i, j \in 1 .. Len(inbox') :
              \/ inbox'[i] \in {"discarded", "leftover"} /\ inbox'[j] = "note"
              \/ inbox'[i] = "leftover" /\ inbox'[j] = "leftover"
              => j <= i
<1>1. inbox \in Seq(Msgs) /\ Len(inbox) \in Nat
  BY DEF Inv, Types
<1>2. /\ Len(inbox') = Len(inbox) + 1 /\ inbox'[Len(inbox) + 1] = m
      /\ \A i \in 1 .. Len(inbox) : inbox'[i] = inbox[i]
  BY <1>1
<1>3. 1 .. Len(inbox') = (1 .. Len(inbox)) \cup {Len(inbox) + 1}
  BY <1>1, <1>2
<1> SUFFICES ASSUME NEW i \in 1 .. Len(inbox'), NEW j \in 1 .. Len(inbox'),
                    \/ inbox'[i] \in {"discarded", "leftover"} /\ inbox'[j] = "note"
                    \/ inbox'[i] = "leftover" /\ inbox'[j] = "leftover"
             PROVE  j <= i
  OBVIOUS
<1>4. CASE i = Len(inbox) + 1
  BY <1>1, <1>2, <1>4
<1>5. CASE i \in 1 .. Len(inbox) /\ j \in 1 .. Len(inbox)
  <2>1. inbox'[i] = inbox[i] /\ inbox'[j] = inbox[j]
    BY <1>2, <1>5
  <2> QED BY <1>5, <2>1 DEF NoteInv, OrderInv
<1>6. CASE i \in 1 .. Len(inbox) /\ j = Len(inbox) + 1
  <2>1. inbox'[i] = inbox[i] /\ inbox'[j] = m
    BY <1>2, <1>6
  <2> QED BY <1>6, <2>1 DEF Has
<1> QED BY <1>3, <1>4, <1>5, <1>6

LEMMA LiveCreatesNotes == Inv /\ NoteInv /\ UnbornInv /\ LiveCreatesNote => NoteInv'
<1> SUFFICES ASSUME Inv, NoteInv, UnbornInv, LiveCreatesNote PROVE NoteInv'
  OBVIOUS
<1> DEFINE d == SetNote(NewNote, "open")
<1>1. /\ live.state \in {"running", "finishing"} /\ live.note = NoNote /\ FreshNotes # {}
      /\ disk' = d /\ w' = w /\ inbox' = Append(inbox, "note")
      /\ live' = [live EXCEPT !.note = NewNote]
  BY DEF LiveCreatesNote
<1>2. NewNote \in Notes /\ disk.notes[NewNote] = "absent"
  BY <1>1 DEF NewNote, FreshNotes
<1>3. /\ live'.call = live.call /\ live'.filed = live.filed /\ live'.note = NewNote
      /\ live'.state = live.state
  BY <1>1 DEF Inv, Types, LiveType
<1>4. ~ Discarding /\ ~ Has("note") /\ ~ live.filed
  BY <1>1, NoNoteAssumption DEF NoteInv, OrderInv, Inv, SessionInv
<1>5. \A x : Has(x)' <=> Has(x) \/ x = "note"
  BY <1>1, AppendFacts DEF Msgs
<1>6. ~ Discarding'
  BY <1>3, <1>4, <1>5 DEF Discarding
<1>7. OrderInv'
  <2>1. \A i, j \in 1 .. Len(inbox') :
           \/ inbox'[i] \in {"discarded", "leftover"} /\ inbox'[j] = "note"
           \/ inbox'[i] = "leftover" /\ inbox'[j] = "leftover"
           => j <= i
    BY <1>1, <1>4, AppendOrder DEF Msgs, Discarding
  <2> QED BY <1>1, <1>3, <1>4, <1>5, <1>6, <2>1 DEF NoteInv, OrderInv, Discarding
<1>8. /\ d.row = disk.row /\ d.ckpt = disk.ckpt /\ d.job = disk.job /\ d.moved = disk.moved
      /\ d.audio = disk.audio /\ d.notes = [disk.notes EXCEPT ![NewNote] = "open"]
  BY Here DEF SetNote, DiskType
<1> HIDE DEF d
<1>9. /\ \A m : m # NewNote => d.notes[m] = disk.notes[m]
      /\ d.notes[NewNote] = "open"
  BY <1>2, <1>8, Here
<1>10. \A m : disk.notes[m] \in Ended => d.notes[m] \in Ended
  BY <1>2, <1>9 DEF Ended
<1>11. /\ disk.row.note = NoNote /\ disk.row.status \in {"none", "PendingTranscription"}
       /\ disk.job = NoJob /\ disk.ckpt = NoCkpt /\ w.claim = NoJob /\ w.err.note = NoNote
       /\ w.pc \in {"idle", "collect", "collectLost"} /\ ~ NoCkpt.valid /\ NoCkpt.note = NoNote
  BY <1>1 DEF UnbornInv, NoCkpt
<1>12. SoundAt(disk, w)'
  BY <1>1, <1>3, <1>4, <1>8, <1>10 DEF NoteInv, NotesAt, SoundAt, Sound
<1>13. CkptAt(disk, w)' /\ DiscardAt(disk, w)'
  BY <1>1, <1>3, <1>6, <1>8, <1>11 DEF CkptAt, DiscardAt, Restarting, Undecoded
<1>14. MovedInv(disk)'
  <2>1. \A n \in disk.moved : n \in Notes /\ disk.notes[n] \notin {"open", "absent"}
    BY <1>1, NoNoteAssumption, Here DEF NoteInv, NotesAt, MovedInv, DiskType
  <2> QED BY <1>1, <1>2, <1>8, <1>9, <2>1 DEF MovedInv
<1>15. QueuedAt(disk, w)'
  BY <1>1, <1>3, <1>8, <1>9, <1>11 DEF QueuedAt, Only, May, Routed, Carrying
<1> QED BY <1>7, <1>12, <1>13, <1>14, <1>15 DEF NoteInv, NotesAt

LEMMA LiveSettlesNotes ==
    ASSUME NEW filed \in BOOLEAN, Inv, NoteInv, LiveSettles(filed)
    PROVE  NoteInv'
<1>1. /\ live.state = "finishing" /\ (filed => live.note # NoNote)
      /\ disk' = IF filed THEN SetNote(live.note, "whole") ELSE disk
      /\ live' = [live EXCEPT !.state = "ready", !.filed = filed] /\ UNCHANGED <<w, inbox>>
  BY DEF LiveSettles
<1>2. /\ live'.call = live.call /\ live'.filed = filed /\ live'.note = live.note
      /\ live'.state = "ready" /\ live.note \in Notes \cup {NoNote}
  BY <1>1 DEF Inv, Types, LiveType
<1>3. ~ Discarding /\ ~ live.filed /\ ~ live.call
  BY <1>1 DEF NoteInv, OrderInv
<1>4. (\A m : Has(m)' = Has(m)) /\ ~ Discarding'
  BY <1>1, <1>2, <1>3 DEF Has, Discarding
<1>5. OrderInv'
  BY <1>1, <1>2, <1>3, <1>4 DEF NoteInv, OrderInv
<1>6. NotesAt(disk', w) /\ (filed => disk'.notes[live.note] \in Ended)
  <2>1. CASE filed
    <3>1. "whole" \in Ended /\ live.note \in Notes
      BY <1>1, <1>2, <2>1 DEF Ended
    <3>2. LET d == SetNote(live.note, "whole") IN NotesAt(d, w) /\ d.notes[live.note] \in Ended
      BY <3>1, NoteWritten DEF NoteInv
    <3> QED BY <1>1, <2>1, <3>2
  <2>2. CASE ~ filed
    BY <1>1, <2>2 DEF NoteInv
  <2> QED BY <2>1, <2>2
<1>7. w.pc \in Completing => w.claim # NoJob
  BY <1>3 DEF NoteInv, NotesAt, SoundAt
<1>8. NotesAt(disk, w)'
  BY <1>1, <1>2, <1>3, <1>4, <1>6, <1>7
     DEF NotesAt, SoundAt, Sound, CkptAt, DiscardAt, MovedInv, QueuedAt, Only, May
<1> QED BY <1>5, <1>8 DEF NoteInv

LEMMA LiveDeletesNotes == Inv /\ NoteInv /\ LiveDeletesNote => NoteInv'
<1> SUFFICES ASSUME Inv, NoteInv, LiveDeletesNote PROVE NoteInv'
  OBVIOUS
<1> DEFINE d == SetNote(live.note, "absent")
<1>1. /\ live.state = "discarded" /\ live' = [live EXCEPT !.state = "none"] /\ w' = w
      /\ \/ disk' = disk /\ inbox' = inbox
         \/ disk' = d /\ inbox' = inbox /\ live.note # NoNote
         \/ disk' = disk /\ inbox' = Append(inbox, "leftover")
  BY DEF LiveDeletesNote
<1>2. /\ live'.call = live.call /\ live'.filed = live.filed /\ live'.note = live.note
      /\ live'.state = "none" /\ live.note \in Notes \cup {NoNote}
  BY <1>1 DEF Inv, Types, LiveType
<1>3. /\ Discarding /\ ~ live.call /\ ~ live.filed /\ ~ Has("process") /\ ~ Has("leftover")
      /\ Has("note") => Has("discarded")
  BY <1>1 DEF NoteInv, OrderInv, Discarding, Inv, SessionInv
<1>4. /\ disk.job = NoJob /\ disk.ckpt = NoCkpt /\ ~ disk.audio /\ disk.row.status # "Done"
      /\ w.pc \in Idling /\ w.claim = NoJob /\ ~ NoCkpt.canonical
  BY <1>3, Here DEF NoteInv, NotesAt, DiscardAt, NoCkpt, Good, ClaimAt, Unclaimed, Idling
<1>5. CASE disk' = disk /\ inbox' = inbox
  <2>1. (\A m : Has(m)' = Has(m)) /\ (Discarding' => Discarding)
    BY <1>3, <1>5 DEF Has
  <2>2. OrderInv'
    BY <1>2, <1>3, <1>5, <2>1 DEF NoteInv, OrderInv
  <2>3. NotesAt(disk, w)'
    BY <1>1, <1>2, <1>4, <1>5, <2>1
       DEF NoteInv, NotesAt, SoundAt, Sound, CkptAt, DiscardAt, MovedInv, QueuedAt, Only, May, Idling
  <2> QED BY <2>2, <2>3 DEF NoteInv
<1>6. CASE disk' = d /\ inbox' = inbox /\ live.note # NoNote
  <2>1. (\A m : Has(m)' = Has(m)) /\ (Discarding' => Discarding)
    BY <1>3, <1>6 DEF Has
  <2>2. OrderInv'
    BY <1>2, <1>3, <1>6, <2>1 DEF NoteInv, OrderInv
  <2>3. /\ d.row = disk.row /\ d.ckpt = disk.ckpt /\ d.job = disk.job /\ d.moved = disk.moved
        /\ d.audio = disk.audio /\ d.notes = [disk.notes EXCEPT ![live.note] = "absent"]
    BY Here DEF SetNote, DiskType
  <2> HIDE DEF d
  <2>4. d.notes[live.note] = "absent" /\ \A n : n # live.note => d.notes[n] = disk.notes[n]
    BY <1>2, <1>6, <2>3, Here
  <2>5. SoundAt(disk, w)' /\ CkptAt(disk, w)' /\ DiscardAt(disk, w)' /\ MovedInv(disk)'
    BY <1>1, <1>2, <1>3, <1>4, <1>6, <2>1, <2>3, <2>4
       DEF NoteInv, NotesAt, SoundAt, Sound, CkptAt, DiscardAt, MovedInv, Idling, Completing
  <2>6. Has("note")' => QueuedAt(disk, w)'
    BY <1>1, <1>2, <1>3, <1>4, <1>6, <2>1, <2>3, <2>4 DEF QueuedAt
  <2> QED BY <2>2, <2>5, <2>6 DEF NoteInv, NotesAt
<1>7. CASE disk' = disk /\ inbox' = Append(inbox, "leftover")
  <2>1. \A x : Has(x)' <=> Has(x) \/ x = "leftover"
    BY <1>7, AppendFacts DEF Msgs
  <2>2. \A i, j \in 1 .. Len(inbox') :
           \/ inbox'[i] \in {"discarded", "leftover"} /\ inbox'[j] = "note"
           \/ inbox'[i] = "leftover" /\ inbox'[j] = "leftover"
           => j <= i
    BY <1>3, <1>7, AppendOrder DEF Msgs
  <2>3. OrderInv'
    BY <1>2, <1>3, <2>1, <2>2 DEF OrderInv
  <2>4. NotesAt(disk, w)'
    BY <1>1, <1>2, <1>3, <1>4, <1>7, <2>1
       DEF NoteInv, NotesAt, SoundAt, Sound, CkptAt, DiscardAt, MovedInv, QueuedAt, Only, May, Idling
  <2> QED BY <2>3, <2>4 DEF NoteInv
<1> QED BY <1>1, <1>5, <1>6, <1>7


LEMMA CallEndsNotes ==
    ASSUME NEW verdict \in {"process", "discarded"}, Inv, NoteInv, CallEnds(verdict)
    PROVE  NoteInv'
<1> DEFINE state == IF live.state # "running" THEN live.state
                    ELSE IF verdict = "process" THEN "finishing" ELSE "discarded"
<1>1. /\ live.call /\ live' = [live EXCEPT !.call = FALSE, !.state = state]
      /\ disk' = [disk EXCEPT !.audio = (verdict = "process")]
      /\ inbox' = Append(inbox, verdict) /\ w' = w
  BY DEF CallEnds, Inv, Types, LiveType
<1>2. /\ ~ live'.call /\ live'.filed = live.filed /\ live'.note = live.note /\ live'.state = state
  BY <1>1 DEF Inv, Types, LiveType
<1>3. /\ ~ Has("process") /\ ~ Has("discarded") /\ ~ Has("leftover") /\ live.state \in {"none", "running"}
      /\ ~ live.filed /\ (live.note = NoNote \/ live.state # "none")
  BY <1>1 DEF Inv, InboxInv, NoteInv, OrderInv
<1>4. disk.job = NoJob /\ disk.ckpt = NoCkpt /\ disk.row.status # "Done" /\ w.pc \in {"idle", "noteRow"}
  BY <1>1 DEF Inv, CallAt, CallPending, Untouched
<1>5. /\ disk'.row = disk.row /\ disk'.job = disk.job /\ disk'.ckpt = disk.ckpt
      /\ disk'.notes = disk.notes /\ disk'.moved = disk.moved
      /\ verdict = "discarded" => ~ disk'.audio
  BY <1>1, Here DEF DiskType
<1>6. \A x : Has(x)' <=> Has(x) \/ x = verdict
  BY <1>1, AppendFacts DEF Msgs
<1>7. \A i, j \in 1 .. Len(inbox') :
         \/ inbox'[i] \in {"discarded", "leftover"} /\ inbox'[j] = "note"
         \/ inbox'[i] = "leftover" /\ inbox'[j] = "leftover"
         => j <= i
  BY <1>1, AppendOrder DEF Msgs
<1>8. Discarding' => verdict = "discarded"
  BY <1>2, <1>3, <1>6 DEF Discarding
<1>9. OrderInv'
  BY <1>2, <1>3, <1>6, <1>7, <1>8 DEF OrderInv
<1> HIDE DEF state
<1>10. NotesAt(disk, w)'
  BY <1>1, <1>2, <1>3, <1>4, <1>5, <1>6, <1>8
     DEF NoteInv, NotesAt, SoundAt, Sound, CkptAt, DiscardAt, MovedInv, QueuedAt, Only, May, Idling,
         Restarting
<1> QED BY <1>9, <1>10 DEF NoteInv

LEMMA UserRetriesNotes == Inv /\ NoteInv /\ UserRetries => NoteInv'
<1> SUFFICES ASSUME Inv, NoteInv, UserRetries PROVE NoteInv'
  OBVIOUS
<1>1. inbox' = Append(inbox, "retry") /\ UNCHANGED <<disk, w, live>>
  BY DEF UserRetries
<1>2. \A x : Has(x)' <=> Has(x) \/ x = "retry"
  BY <1>1, AppendFacts DEF Msgs
<1>3. \A i, j \in 1 .. Len(inbox') :
         \/ inbox'[i] \in {"discarded", "leftover"} /\ inbox'[j] = "note"
         \/ inbox'[i] = "leftover" /\ inbox'[j] = "leftover"
         => j <= i
  BY <1>1, AppendOrder DEF Msgs
<1>4. Discarding' <=> Discarding
  BY <1>1, <1>2 DEF Discarding
<1>5. OrderInv'
  BY <1>1, <1>2, <1>3, <1>4 DEF NoteInv, OrderInv
<1>6. NotesAt(disk, w)'
  BY <1>1, <1>2, <1>4
     DEF NoteInv, NotesAt, SoundAt, Sound, CkptAt, DiscardAt, MovedInv, QueuedAt, Only, May
<1> QED BY <1>5, <1>6 DEF NoteInv

LEMMA VaultMovesNotes ==
    ASSUME NEW n \in Notes, Inv, NoteInv, VaultMovesNote(n)
    PROVE  NoteInv'
<1>1. /\ disk' = [disk EXCEPT !.moved = @ \cup {n}] /\ UNCHANGED <<w, inbox, live>>
      /\ disk.notes[n] \notin {"open", "absent"}
  BY DEF VaultMovesNote, Exists
<1>2. /\ disk'.row = disk.row /\ disk'.job = disk.job /\ disk'.ckpt = disk.ckpt
      /\ disk'.audio = disk.audio /\ disk'.notes = disk.notes /\ disk'.moved = disk.moved \cup {n}
  BY <1>1, Here DEF DiskType
<1>3. NotesAt(disk', w)
  BY <1>1, <1>2
     DEF NoteInv, NotesAt, SoundAt, Sound, CkptAt, DiscardAt, MovedInv, QueuedAt, Only
<1>4. NotesAt(disk', w')
  BY <1>1, <1>3
<1> QED BY <1>1, <1>4, InsideNotes

LEMMA AudioVanishesNotes == Inv /\ NoteInv /\ AudioVanishes => NoteInv'
<1> SUFFICES ASSUME Inv, NoteInv, AudioVanishes PROVE NoteInv'
  OBVIOUS
<1>1. disk' = [disk EXCEPT !.audio = FALSE] /\ UNCHANGED <<w, inbox, live>>
  BY DEF AudioVanishes
<1>2. /\ disk'.row = disk.row /\ disk'.job = disk.job /\ disk'.ckpt = disk.ckpt
      /\ ~ disk'.audio /\ disk'.notes = disk.notes /\ disk'.moved = disk.moved
  BY <1>1, Here DEF DiskType
<1>3. NotesAt(disk', w)
  BY <1>1, <1>2
     DEF NoteInv, NotesAt, SoundAt, Sound, CkptAt, DiscardAt, MovedInv, QueuedAt, Only
<1>4. NotesAt(disk', w')
  BY <1>1, <1>3
<1> QED BY <1>1, <1>4, InsideNotes

LEMMA CrashNotes == Inv /\ NoteInv /\ Crash => NoteInv'
<1> SUFFICES ASSUME Inv, NoteInv, Crash PROVE NoteInv'
  OBVIOUS
<1> DEFINE v == [Idle EXCEPT !.pc = "startup"]
<1>1. /\ w' = v /\ inbox' = <<>>
      /\ live' = [live EXCEPT !.call = FALSE, !.state = "none", !.filed = FALSE]
  BY DEF Crash
<1>2. /\ disk'.row = disk.row /\ disk'.job = disk.job /\ disk'.ckpt = disk.ckpt
      /\ disk'.notes = disk.notes /\ disk'.moved = disk.moved
  BY Here DEF Crash, DiskType
<1>3. ~ live'.call /\ live'.state = "none" /\ ~ live'.filed /\ live'.note = live.note
  BY <1>1 DEF Inv, Types, LiveType
<1>4. (\A x : ~ Has(x)') /\ Len(inbox') = 0
  BY <1>1 DEF Has
<1>5. ~ Discarding'
  BY <1>3, <1>4 DEF Discarding
<1>6. OrderInv'
  BY <1>3, <1>4, <1>5 DEF OrderInv
<1>7. /\ v.pc = "startup" /\ v.claim = NoJob /\ ~ v.note.canonical /\ ~ v.err.canonical
      /\ ~ v.ck.canonical /\ v.err.note = NoNote
  BY DEF Idle, None, NoCkpt
<1> HIDE DEF v
<1>8. NotesAt(disk, w)'
  BY <1>1, <1>2, <1>3, <1>4, <1>5, <1>7
     DEF NoteInv, NotesAt, SoundAt, Sound, CkptAt, DiscardAt, MovedInv, Idling, Completing, Undecoded
<1> QED BY <1>6, <1>8 DEF NoteInv

LEMMA SweepNotes ==
    ASSUME NEW left \in SUBSET {"audio", "ckpt"}, NEW forget \in BOOLEAN, Inv, NoteInv,
           Sweep(left, forget)
    PROVE  NoteInv'
<1> DEFINE kept == [disk EXCEPT !.audio = @ /\ "audio" \in left,
                                !.ckpt = IF "ckpt" \in left THEN @ ELSE NoCkpt]
           absent == ~kept.audio /\ ~kept.ckpt.valid
           d == [kept EXCEPT !.job = IF absent THEN NoJob ELSE @,
                             !.row = IF forget THEN NoRow ELSE @]
<1>1. /\ w.pc = "idle" /\ (forget => absent) /\ disk' = d /\ UNCHANGED <<w, inbox, live>>
  BY DEF Sweep, At, Inside
<1>2. /\ kept \in DiskType /\ kept.row = disk.row /\ kept.job = disk.job
      /\ kept.ckpt \in {disk.ckpt, NoCkpt} /\ kept.notes = disk.notes /\ kept.moved = disk.moved
      /\ (kept.audio => disk.audio)
  BY Here, IdleOk DEF DiskType
<1> HIDE DEF kept
<1>3. /\ d.ckpt = kept.ckpt /\ d.job = (IF absent THEN NoJob ELSE disk.job)
      /\ d.row = (IF forget THEN NoRow ELSE disk.row) /\ d.audio = kept.audio
      /\ d.notes = disk.notes /\ d.moved = disk.moved
  <2> HIDE DEF absent
  <2> QED BY <1>2 DEF DiskType
<1> HIDE DEF d, absent
<1>4. NoCkpt.note = NoNote /\ ~ NoCkpt.valid /\ ~ NoCkpt.canonical
  BY DEF NoCkpt
<1>5. /\ d.ckpt \in {disk.ckpt, NoCkpt} /\ d.job \in {disk.job, NoJob}
      /\ d.row = disk.row \/ (d.row = NoRow /\ d.job = NoJob)
  BY <1>1, <1>2, <1>3
<1>6. SoundAt(d, w)
  BY <1>3, <1>4, <1>5, RowsOk DEF NoteInv, NotesAt, SoundAt, Sound
<1>7. CkptAt(d, w) /\ DiscardAt(d, w) /\ MovedInv(d)
  BY <1>1, <1>2, <1>3, <1>4, <1>5, RowsOk
     DEF NoteInv, NotesAt, CkptAt, DiscardAt, MovedInv, Undecoded
<1>8. Has("note") => QueuedAt(d, w)
  <2>1. w.claim = NoJob
    BY <1>1, Here DEF Good, ClaimAt, Unclaimed
  <2> QED BY <1>3, <1>4, <1>5, <2>1, RowsOk DEF NoteInv, NotesAt, QueuedAt, Only, May
<1>9. NotesAt(d, w)
  BY <1>6, <1>7, <1>8 DEF NotesAt
<1>10. NotesAt(disk', w')
  BY <1>1, <1>9
<1> QED BY <1>1, <1>10, InsideNotes


LEMMA UnbornKept == Inv /\ NoteInv /\ UnbornInv /\ [Next]_vars => UnbornInv'
<1> SUFFICES ASSUME Inv, NoteInv, UnbornInv, [Next]_vars,
                    live'.note = NoNote, live'.state \in {"running", "finishing"}
             PROVE  /\ disk'.row.note = NoNote /\ disk'.row.status \in {"none", "PendingTranscription"}
                    /\ disk'.job = NoJob /\ disk'.ckpt = NoCkpt /\ w'.claim = NoJob
                    /\ w'.err.note = NoNote /\ w'.pc \in {"idle", "collect", "collectLost"}
  BY DEF UnbornInv
<1> DEFINE Unborn == /\ disk.row.note = NoNote /\ disk.row.status \in {"none", "PendingTranscription"}
                     /\ disk.job = NoJob /\ disk.ckpt = NoCkpt /\ w.claim = NoJob
                     /\ w.err.note = NoNote /\ w.pc \in {"idle", "collect", "collectLost"}
<1>1. live \in LiveType /\ disk \in DiskType
  BY DEF Inv, Types
<1>2. CASE Environment
  <2>1. CASE LiveCreatesNote
    <3>1. NewNote \in Notes /\ live' = [live EXCEPT !.note = NewNote]
      BY <2>1 DEF LiveCreatesNote, NewNote, FreshNotes
    <3> QED BY <1>1, <3>1, NoNoteAssumption DEF LiveType
  <2>2. CASE UserRetries \/ ReloadConfig
    BY <2>2 DEF UserRetries, ReloadConfig, UnbornInv
  <2>3. CASE AudioVanishes
    BY <1>1, <2>3 DEF AudioVanishes, UnbornInv, DiskType
  <2>4. CASE Crash
    <3>1. live' = [live EXCEPT !.call = FALSE, !.state = "none", !.filed = FALSE]
      BY <2>4 DEF Crash
    <3> QED BY <1>1, <3>1 DEF LiveType
  <2>5. ASSUME NEW verdict \in {"process", "discarded"}, CallEnds(verdict)
        PROVE  Unborn /\ disk'.row = disk.row /\ disk'.job = disk.job /\ disk'.ckpt = disk.ckpt
               /\ w' = w
    <3>1. /\ w' = w /\ disk' = [disk EXCEPT !.audio = (verdict = "process")]
          /\ live' = [live EXCEPT !.call = FALSE,
                         !.state = IF @ # "running" THEN @
                                   ELSE IF verdict = "process" THEN "finishing" ELSE "discarded"]
      BY <2>5 DEF CallEnds
    <3>2. live'.note = live.note /\ live.state \in {"running", "finishing"}
      BY <1>1, <3>1 DEF LiveType
    <3> QED BY <1>1, <3>1, <3>2 DEF UnbornInv, DiskType
  <2>6. ASSUME NEW n \in Notes, VaultMovesNote(n)
        PROVE  Unborn /\ disk'.row = disk.row /\ disk'.job = disk.job /\ disk'.ckpt = disk.ckpt
               /\ w' = w
    BY <1>1, <2>6 DEF VaultMovesNote, UnbornInv, DiskType
  <2> QED BY <1>2, <2>1, <2>2, <2>3, <2>4, <2>5, <2>6 DEF Environment
<1>3. CASE Session
  <2>1. live'.state \in {"none", "ready"}
    BY <1>1, <1>3 DEF Session, LiveDeletesNote, LiveSettles, LiveType
  <2> QED BY <2>1
<1>4. CASE CollectFiled \/ CollectBatch \/ CollectLost
  <2>1. live'.state = "none"
    BY <1>1, <1>4 DEF CollectFiled, CollectBatch, CollectLost, Collected, LiveType
  <2> QED BY <2>1
<1>5. ASSUME live' = live
      PROVE  Unborn /\ live.state \notin {"none", "discarded"} /\ ~ Discarding /\ ~ Has("note")
  <2>1. Unborn /\ live.note = NoNote /\ live.state \notin {"none", "discarded"}
    BY <1>5 DEF UnbornInv
  <2> QED BY <2>1, NoNoteAssumption DEF NoteInv, OrderInv, Inv, SessionInv
<1>6. CASE Process
  <2> DEFINE d == [disk EXCEPT !.row = IF @ = NoRow THEN NewRow ELSE @]
  <2>1. live' = live /\ Write("row", d, To("collect"), To("collectLost"))
    BY <1>6 DEF Process
  <2>2. d.row \in {disk.row, NewRow} /\ d.job = disk.job /\ d.ckpt = disk.ckpt
    BY <1>1 DEF DiskType
  <2>3. \A pc \in {"collect", "collectLost"} :
           To(pc).pc = pc /\ To(pc).claim = w.claim /\ To(pc).err = w.err
    BY Here, Moves DEF Pcs
  <2> HIDE DEF d
  <2>4. (disk' = d /\ w' = To("collect")) \/ (disk' = disk /\ w' = To("collectLost"))
    BY <2>1 DEF Write
  <2> QED BY <1>5, <2>1, <2>2, <2>3, <2>4, RowsOk
<1>7. CASE NoteCreated \/ Discarded \/ Leftover
  <2>1. live' = live /\ (Has("note") \/ Discarding)
    BY <1>7, TakeFacts DEF NoteCreated, Discarded, Leftover, Discarding
  <2> QED BY <1>5, <2>1
<1>8. CASE ManualRetry
  <2>1. live' = live /\ (Goto(Idle) \/ disk.row.status = "Failed")
    BY <1>8 DEF ManualRetry
  <2>2. w' = Idle /\ disk' = disk
    BY <1>5, <2>1 DEF Goto
  <2> QED BY <1>5, <2>1, <2>2, IdleOk DEF Idle, None
<1>9. CASE \/ Schedule \/ ScheduleRow \/ NoteRow \/ DiscardRow \/ LeftoverRow \/ LeftoverFail
  <2>1. live' = live /\ w.pc \notin {"idle", "collect", "collectLost"}
    BY <1>9 DEF Schedule, ScheduleRow, NoteRow, DiscardRow, LeftoverRow, LeftoverFail, At, Inside
  <2> QED BY <1>5, <2>1
<1>10. CASE ClaimJob
  <2>1. live' = live /\ disk.job.state = "pending"
    BY <1>10 DEF ClaimJob, Inside
  <2> QED BY <1>5, <2>1, NoJobFacts
<1>11. CASE Work /\ ~ ClaimJob
  <2>1. live' = live /\ w.pc \notin {"idle", "collect", "collectLost"}
    BY <1>11
       DEF Work, Dispatch, Route, Stale, MissingAudio, CompleteNote, FileCheckpoint, Legacy, Transcribe,
           RunAsr, Refuse, StoreCheckpoint, Promote, CleanStaging, FileNote, KeepNote,
           CompleteWithNote, Tidy, FailRow, CloseNote, SettleOk, SettleError, Park, Reschedule, Backoff,
           RecoverRunning, Resume, ResumeRow, Reap, ReapRow, At, Inside
  <2> QED BY <1>5, <2>1
<1>12. CASE Retention
  <2>1. live' = live /\ disk.row.status \in Settled
    BY <1>12 DEF Retention, Sweep, Inside
  <2> QED BY <1>5, <2>1 DEF Settled
<1>13. CASE UNCHANGED vars
  BY <1>5, <1>13 DEF vars
<1>14. Messages => \/ CollectFiled \/ CollectBatch \/ CollectLost \/ Process \/ ManualRetry
                   \/ NoteCreated \/ Discarded \/ Leftover
                   \/ Schedule \/ ScheduleRow \/ NoteRow \/ DiscardRow \/ LeftoverRow \/ LeftoverFail
  BY DEF Messages
<1> QED BY <1>2, <1>3, <1>4, <1>6, <1>7, <1>8, <1>9, <1>10, <1>11, <1>12, <1>13, <1>14 DEF Next


LEMMA InitNotes == Init => NoteInv /\ UnbornInv
<1> SUFFICES ASSUME Init PROVE NoteInv /\ UnbornInv
  OBVIOUS
<1>1. /\ w = Idle /\ inbox = <<>> /\ ~ live.filed /\ live.note = NoNote
      /\ live.state \in {"none", "running"} /\ (live.state = "running" => live.call)
      /\ disk = IF live.call THEN EmptyDisk ELSE LegacyDisk
  BY DEF Init
<1>2. (\A x : ~ Has(x)) /\ Len(inbox) = 0
  BY <1>1 DEF Has
<1>3. ~ Discarding
  BY <1>1, <1>2 DEF Discarding
<1>4. OrderInv
  BY <1>1, <1>2, <1>3 DEF OrderInv
<1>5. /\ EmptyDisk.row = NoRow /\ EmptyDisk.job = NoJob /\ EmptyDisk.ckpt = NoCkpt
      /\ EmptyDisk.moved = {}
  BY DEF EmptyDisk
<1>6. /\ LegacyDisk.row.status = "PendingNote" /\ LegacyDisk.ckpt = NoCkpt
      /\ LegacyDisk.moved = {} /\ LegacyDisk.job.payload = Blank
  BY DEF LegacyDisk, EmptyDisk, NoRow, NewJob
<1>7. /\ Idle.pc = "idle" /\ Idle.claim = NoJob /\ ~ Idle.note.canonical /\ ~ Idle.err.canonical
      /\ ~ Idle.ck.canonical /\ Idle.err.note = NoNote /\ ~ NoCkpt.canonical /\ ~ Blank.canonical
  BY DEF Idle, None, NoCkpt, Blank
<1>8. NotesAt(disk, w)
  <2>1. CASE live.call
    BY <1>1, <1>2, <1>3, <1>5, <1>7, <2>1, RowsOk
       DEF NotesAt, SoundAt, Sound, CkptAt, DiscardAt, MovedInv, Idling, Completing, Undecoded,
           Restarting
  <2>2. CASE ~ live.call
    BY <1>1, <1>2, <1>3, <1>6, <1>7, <2>2
       DEF NotesAt, SoundAt, Sound, CkptAt, DiscardAt, MovedInv, Idling, Completing, Undecoded,
           Restarting
  <2> QED BY <2>1, <2>2
<1>9. UnbornInv
  BY <1>1, <1>5, <1>7, RowsOk DEF UnbornInv
<1> QED BY <1>4, <1>8, <1>9 DEF NoteInv

LEMMA NextNotes == Inv /\ NoteInv /\ UnbornInv /\ [Next]_vars => NoteInv'
<1> SUFFICES ASSUME Inv, NoteInv, UnbornInv, [Next]_vars PROVE NoteInv'
  OBVIOUS
<1>1. CASE ReloadConfig \/ UNCHANGED vars
  <2>1. UNCHANGED <<disk, w, inbox, live>>
    BY <1>1 DEF ReloadConfig, vars
  <2>2. NotesAt(disk', w')
    BY <2>1 DEF NoteInv
  <2> QED BY <2>1, <2>2, InsideNotes
<1>2. CASE Environment
  BY <1>1, <1>2, LiveCreatesNotes, UserRetriesNotes, AudioVanishesNotes, CrashNotes,
     CallEndsNotes, VaultMovesNotes DEF Environment
<1>3. CASE Session
  BY <1>3, LiveDeletesNotes, LiveSettlesNotes DEF Session
<1>4. CASE Messages
  BY <1>4, ProcessNotes, CollectFiledNotes, CollectBatchNotes, CollectLostNotes, ScheduleNotes,
     ScheduleRowNotes, NoteCreatedNotes, NoteRowNotes, DiscardedNotes, DiscardRowNotes,
     LeftoverNotes, LeftoverRowNotes, LeftoverFailNotes, ManualRetryNotes DEF Messages
<1>5. CASE Work
  BY <1>5, ClaimJobNotes, DispatchNotes, RouteNotes, StaleNotes, MissingAudioNotes,
     CompleteNoteNotes, FileCheckpointNotes, LegacyNotes, TranscribeNotes, RunAsrNotes, RefuseNotes,
     StoreNotes, PromoteNotes, CleanNotes, FileNoteNotes, KeepNotes, CompleteNotes, TidyNotes,
     FailRowNotes, CloseNotes, SettleOkNotes, SettleErrorNotes, ParkNotes, RescheduleNotes,
     BackoffNotes, RecoverNotes, ResumeNotes, ResumeRowNotes, ReapNotes, ReapRowNotes DEF Work
<1>6. CASE Retention
  BY <1>6, SweepNotes DEF Retention
<1> QED BY <1>1, <1>2, <1>3, <1>4, <1>5, <1>6 DEF Next

LEMMA NotesInvariant == Spec => []NoteInv
  BY InitNotes, NextNotes, UnbornKept, PipelineInvariant, PTL DEF Spec

\* A Done recording points at a note that exists and is no longer open, whatever was
\* discarded, queued, filed, moved, retried or lost in a crash on the way
\* (complete_with_note, live_note_created).
THEOREM PipelineDoneNoteIsSettled == Spec => []DoneNoteIsSettled
<1>1. NoteInv => DoneNoteIsSettled
  BY DEF NoteInv, NotesAt, SoundAt, Ended, DoneNoteIsSettled
<1> QED BY <1>1, NotesInvariant, PTL

-----------------------------------------------------------------------------
(* How often ASR runs                                                       *)

\* Manual retries the user has asked for and the thread has not seen yet, and what the
\* others entitle the recording to.
Retrying(q) == {i \in 1 .. Len(q) : q[i] = "retry"}
Queued(q) == Cardinality(Retrying(q))
Allowance(n) == Retries + 1 + Retries * n
Granted(q, s) == Allowance(s.manual - Queued(q))

\* What the job may still spend: an attempt that is claimed counts until it has decoded.
Within(d) == d.job # NoJob /\ d.job.attempts <= d.job.max
Credit(d, v) == (IF Within(d) THEN d.job.max - d.job.attempts ELSE 0)
                + (IF Within(d) /\ v.pc \in BeforeAsr THEN 1 ELSE 0)

\* What comes before the first decode and never after it: the call and its session,
\* their messages and the handlers of these.
Waiting == CallPending \/ Has("leftover") \/ live.state # "none"
Opening == {"collect", "collectLost", "noteRow", "leftoverRow", "leftoverFail"}
Early(v) == Waiting \/ v.pc \in Opening \/ (v.pc \in Filing /\ v.claim = NoJob)

\* Only a row that was marked before the decode can be claimed again.
Marked(d) == d.row = NoRow \/ (d.row.attempted /\ d.row.status # "Recording")

AsrAt(d, v, g) ==
    /\ g.asr + Credit(d, v) <= Granted(inbox, spent)
    /\ v.pc \in {"legacy", "transcribe", "asr"} => Within(d)
    /\ v.pc = "asr" => d.row.attempted /\ d.row.status # "Recording"
    /\ g.asr > 0 => ~ Early(v) /\ Marked(d)
    /\ live.state \in {"finishing", "ready"} => Has("process") \/ v.pc \in {"collect", "collectLost"}
AsrInv == Queued(inbox) <= spent.manual /\ AsrAt(disk, w, log)

-----------------------------------------------------------------------------
(* Counting                                                                 *)

LEMMA RetryingIsFinite ==
    ASSUME NEW q \in Seq(Msgs)
    PROVE  IsFiniteSet(Retrying(q)) /\ Queued(q) \in Nat
<1>1. Len(q) \in Nat /\ IsFiniteSet(1 .. Len(q))
  BY FS_Interval
<1>2. Retrying(q) \in SUBSET (1 .. Len(q))
  BY DEF Retrying
<1>3. IsFiniteSet(Retrying(q))
  BY <1>1, <1>2, FS_Subset
<1> QED BY <1>3, FS_CardinalityType DEF Queued

LEMMA QueuedEmpty == Queued(<<>>) = 0
<1>1. Retrying(<<>>) = {}
  BY DEF Retrying
<1> QED BY <1>1, FS_EmptySet DEF Queued

LEMMA QueuedAppend ==
    ASSUME NEW q \in Seq(Msgs), NEW m \in Msgs
    PROVE  Queued(Append(q, m)) = IF m = "retry" THEN Queued(q) + 1 ELSE Queued(q)
<1> DEFINE n == Len(q) + 1
<1>1. Len(q) \in Nat /\ Len(Append(q, m)) = n /\ Append(q, m)[n] = m
      /\ \A i \in 1 .. Len(q) : Append(q, m)[i] = q[i]
  OBVIOUS
<1>2. 1 .. n = (1 .. Len(q)) \cup {n} /\ n \notin 1 .. Len(q)
  BY <1>1
<1>3. CASE m = "retry"
  <2>1. Retrying(Append(q, m)) = Retrying(q) \cup {n} /\ n \notin Retrying(q)
    BY <1>1, <1>2, <1>3 DEF Retrying
  <2> QED BY <1>3, <2>1, RetryingIsFinite, FS_AddElement DEF Queued
<1>4. CASE m # "retry"
  <2>1. Retrying(Append(q, m)) = Retrying(q)
    BY <1>1, <1>2, <1>4 DEF Retrying
  <2> QED BY <1>4, <2>1 DEF Queued
<1> QED BY <1>3, <1>4

LEMMA QueuedTail ==
    ASSUME NEW q \in Seq(Msgs), q # <<>>
    PROVE  Queued(Tail(q)) <= IF Head(q) = "retry" THEN Queued(q) - 1 ELSE Queued(q)
<1> DEFINE S == Retrying(q) \ {1}
           T == Retrying(Tail(q))
           f == [i \in S |-> i - 1]
<1>1. /\ Len(q) \in Nat /\ Len(q) >= 1 /\ Len(Tail(q)) = Len(q) - 1 /\ Head(q) = q[1]
      /\ Tail(q) \in Seq(Msgs) /\ \A i \in 1 .. Len(Tail(q)) : Tail(q)[i] = q[i + 1]
  OBVIOUS
<1>2. f \in [S -> T]
  <2> SUFFICES ASSUME NEW i \in S PROVE i - 1 \in T
    OBVIOUS
  <2>1. i \in 1 .. Len(q) /\ i # 1 /\ q[i] = "retry"
    BY DEF Retrying
  <2>2. i - 1 \in 1 .. Len(Tail(q)) /\ (i - 1) + 1 = i
    BY <1>1, <2>1
  <2>3. Tail(q)[i - 1] = "retry"
    BY <1>1, <2>1, <2>2
  <2> QED BY <2>2, <2>3 DEF Retrying
<1>3. \A t \in T : \E s \in S : f[s] = t
  <2> SUFFICES ASSUME NEW t \in T PROVE \E s \in S : f[s] = t
    OBVIOUS
  <2>1. t \in 1 .. Len(Tail(q)) /\ Tail(q)[t] = "retry"
    BY DEF Retrying
  <2>2. t + 1 \in 1 .. Len(q) /\ t + 1 # 1 /\ q[t + 1] = "retry" /\ (t + 1) - 1 = t
    BY <1>1, <2>1
  <2>3. t + 1 \in S
    BY <2>2 DEF Retrying
  <2> QED BY <2>2, <2>3
<1>4. f \in Surjection(S, T)
  BY <1>2, <1>3 DEF Surjection
<1>5. IsFiniteSet(Retrying(q)) /\ Queued(q) \in Nat
  BY RetryingIsFinite
<1>6. IsFiniteSet(S) /\ Cardinality(S) = IF 1 \in Retrying(q) THEN Queued(q) - 1 ELSE Queued(q)
  BY <1>5, FS_RemoveElement DEF Queued
<1> HIDE DEF f, S, T
<1>7. Cardinality(T) <= Cardinality(S)
  BY <1>4, <1>6, FS_Surjection
<1>8. 1 \in Retrying(q) <=> Head(q) = "retry"
  BY <1>1 DEF Retrying
<1> QED BY <1>6, <1>7, <1>8 DEF T, Queued

LEMMA AllowanceGrows ==
    ASSUME NEW m \in Nat, NEW n \in Nat, m <= n
    PROVE  /\ Allowance(m) \in Nat /\ Allowance(m) >= Retries + 1 /\ Allowance(m) <= Allowance(n)
           /\ m < n => Allowance(m) + Retries <= Allowance(n)
<1>1. Retries \in Nat
  BY BoundsAssumption
<1>2. \A k \in Nat : Retries * k \in Nat
  BY <1>1
<1>3. PICK k \in Nat : n = m + k
  <2>1. n - m \in Nat /\ n = m + (n - m)
    OBVIOUS
  <2> QED BY <2>1
<1>4. Retries * n = Retries * m + Retries * k
  BY <1>1, <1>3
<1>5. k > 0 => Retries * k >= Retries
  <2> SUFFICES ASSUME k > 0 PROVE Retries * k >= Retries
    OBVIOUS
  <2>1. PICK j \in Nat : k = j + 1
    <3>1. k - 1 \in Nat /\ k = (k - 1) + 1
      OBVIOUS
    <3> QED BY <3>1
  <2>2. Retries * k = Retries * j + Retries
    BY <1>1, <2>1
  <2> QED BY <1>1, <1>2, <2>2
<1> DEFINE a == Retries * m
           b == Retries * n
           c == Retries * k
<1>6. a \in Nat /\ b \in Nat /\ c \in Nat
  BY <1>2
<1>7. Allowance(m) = Retries + 1 + a /\ Allowance(n) = Retries + 1 + b /\ b = a + c
      /\ (k > 0 => c >= Retries)
  BY <1>4, <1>5 DEF Allowance
<1> HIDE DEF a, b, c
<1> QED BY <1>1, <1>3, <1>6, <1>7

-----------------------------------------------------------------------------
(* How a step is put together                                               *)

LEMMA GrantedOk ==
    ASSUME Inv, AsrInv
    PROVE  /\ Queued(inbox) \in Nat /\ spent.manual \in Nat /\ spent.manual - Queued(inbox) \in Nat
           /\ Granted(inbox, spent) \in Nat /\ Granted(inbox, spent) >= Retries + 1
<1>1. Queued(inbox) \in Nat /\ spent.manual \in Nat /\ Queued(inbox) <= spent.manual
  BY RetryingIsFinite DEF Inv, Types, SpentType, AsrInv
<1>2. spent.manual - Queued(inbox) \in Nat
  BY <1>1
<1> QED BY <1>1, <1>2, AllowanceGrows DEF Granted

LEMMA CreditOk ==
    ASSUME NEW d, NEW v, d.job # NoJob => JobOk(d.job)
    PROVE  Credit(d, v) \in Nat
  BY DEF Credit, Within, JobOk, Job

\* A step that leaves the channel, the session and the manual retries alone.
LEMMA InsideAsr ==
    ASSUME AsrInv, UNCHANGED <<inbox, live>>, spent'.manual = spent.manual,
           AsrAt(disk', w', log')
    PROVE  AsrInv'
<1>1. Queued(inbox)' = Queued(inbox) /\ Granted(inbox, spent)' = Granted(inbox, spent)
  BY DEF Queued, Retrying, Granted, Allowance
<1>2. \A m : Has(m)' = Has(m)
  BY DEF Has
<1>3. Waiting' = Waiting
  BY <1>2 DEF Waiting, CallPending
<1> QED BY <1>1, <1>2, <1>3 DEF AsrInv, AsrAt, Early, Credit, Within, Marked

\* A step that takes a message: a retry that was queued is granted now.
LEMMA TakeAsr ==
    ASSUME Inv, AsrInv, NEW m, Take(m), live' = live, log' = log,
           spent'.manual = spent.manual, Inv',
           \/ AsrAt(disk', w', log')
           \/ /\ m = "retry" /\ w'.pc = "idle" /\ (log.asr > 0 => Marked(disk'))
              /\ Credit(disk', w') <= Credit(disk, w) + Retries,
           m = "process" => w'.pc \in {"collect", "collectLost"}
    PROVE  AsrInv'
<1>1. /\ Queued(inbox) \in Nat /\ spent.manual \in Nat /\ Queued(inbox) <= spent.manual
      /\ Granted(inbox, spent) \in Nat /\ log.asr \in Nat
  BY GrantedOk DEF AsrInv, Inv, Types, LogType
<1>2. /\ inbox' \in Seq(Msgs) /\ Queued(inbox') \in Nat
      /\ Queued(inbox') <= IF m = "retry" THEN Queued(inbox) - 1 ELSE Queued(inbox)
  <2>1. inbox \in Seq(Msgs) /\ inbox # <<>> /\ Head(inbox) = m /\ inbox' = Tail(inbox)
    BY DEF Take, Inv, Types
  <2>2. inbox' \in Seq(Msgs)
    BY <2>1
  <2> QED BY <2>1, <2>2, QueuedTail, RetryingIsFinite
<1> DEFINE a == spent.manual - Queued(inbox)
           b == spent.manual - Queued(inbox')
<1>3. a \in Nat /\ b \in Nat /\ a <= b /\ (m = "retry" => a < b) /\ Queued(inbox') <= spent.manual
  BY <1>1, <1>2
<1>4. /\ Granted(inbox', spent') \in Nat /\ Granted(inbox, spent) <= Granted(inbox', spent')
      /\ m = "retry" => Granted(inbox, spent) + Retries <= Granted(inbox', spent')
  <2>1. Granted(inbox, spent) = Allowance(a) /\ Granted(inbox', spent') = Allowance(b)
    BY DEF Granted
  <2> HIDE DEF a, b
  <2> QED BY <1>3, <2>1, AllowanceGrows
<1> HIDE DEF a, b
<1>5. /\ \A x : Has(x)' => Has(x)
      /\ m # "process" => (Has("process")' <=> Has("process"))
      /\ w.pc = "idle"
  BY TakeFacts, TakeLeaves
<1>6. Waiting' => Waiting
  BY <1>5 DEF Waiting, CallPending
<1>7. live.state \in {"finishing", "ready"} => Has("process")' \/ w'.pc \in {"collect", "collectLost"}
  BY <1>5 DEF AsrInv, AsrAt
<1>8. log'.asr + Credit(disk', w') <= Granted(inbox', spent')
  <2>0. Credit(disk', w') \in Nat
    BY CreditOk DEF Inv, Good, Kept
  <2>1. CASE AsrAt(disk', w', log')
    <3>1. log'.asr + Credit(disk', w') <= Granted(inbox, spent)
      BY <2>1 DEF AsrAt
    <3> QED BY <1>1, <1>4, <2>0, <3>1
  <2>2. CASE ~ AsrAt(disk', w', log')
    <3>1. log.asr + Credit(disk, w) <= Granted(inbox, spent)
      BY DEF AsrInv, AsrAt
    <3>2. Credit(disk, w) \in Nat /\ Retries \in Nat
      BY CreditOk, BoundsAssumption, Here DEF Good, Kept
    <3> QED BY <1>1, <1>4, <2>0, <2>2, <3>1, <3>2
  <2> QED BY <2>1, <2>2
<1>9. /\ w'.pc \in {"legacy", "transcribe", "asr"} => Within(disk')
      /\ w'.pc = "asr" => disk'.row.attempted /\ disk'.row.status # "Recording"
  BY DEF AsrAt
<1>10. log'.asr > 0 => ~ Early(w)' /\ Marked(disk')
  <2>1. CASE AsrAt(disk', w', log')
    BY <1>6, <2>1 DEF AsrAt, Early
  <2>2. CASE ~ AsrAt(disk', w', log')
    <3>1. log.asr > 0 => ~ Waiting
      BY DEF AsrInv, AsrAt, Early
    <3> QED BY <1>6, <2>2, <3>1 DEF Early, Opening, Filing
  <2> QED BY <2>1, <2>2
<1>11. Queued(inbox)' <= spent'.manual
  BY <1>3
<1> QED BY <1>7, <1>8, <1>9, <1>10, <1>11
        DEF AsrInv, AsrAt, Credit, Within, Marked, Granted, Queued, Retrying, Allowance

\* What most steps make of the disk and of the thread: nothing is granted, and nothing
\* that comes before the decode begins.
FrugalDisk(d) ==
    /\ d.job # NoJob =>
          disk.job # NoJob /\ d.job.attempts = disk.job.attempts /\ d.job.max = disk.job.max
    /\ \/ d.row \in {NoRow, disk.row}
       \/ /\ disk.row # NoRow /\ (disk.row.attempted => d.row.attempted)
          /\ d.row.status = "Recording" => disk.row.status = "Recording"
FrugalThread(v) ==
    /\ v.pc \notin Opening \cup {"legacy", "transcribe", "asr"}
    /\ v.pc \in BeforeAsr => w.pc \in BeforeAsr
    /\ v.pc \in Filing /\ v.claim = NoJob => w.pc \in Filing /\ w.claim = NoJob

LEMMA FrugalCredit ==
    ASSUME Inv, NEW d, NEW v, FrugalDisk(d), v.pc \in BeforeAsr => w.pc \in BeforeAsr
    PROVE  /\ Credit(d, v) \in Nat /\ Credit(disk, w) \in Nat /\ Credit(d, v) <= Credit(disk, w)
           /\ Within(d) => Within(disk)
<1>1. disk.job # NoJob => disk.job.attempts \in Nat /\ disk.job.max \in Nat
  BY Here DEF Good, Kept, JobOk, Job
<1> QED BY <1>1 DEF FrugalDisk, Credit, Within

LEMMA FrugalMarks ==
    ASSUME NEW d, FrugalDisk(d), Marked(disk)
    PROVE  Marked(d)
  BY DEF FrugalDisk, Marked

LEMMA FrugalAsr ==
    ASSUME Inv, AsrInv, NEW d, NEW v, NEW g, FrugalDisk(d), FrugalThread(v), g.asr = log.asr,
           w.pc \notin {"collect", "collectLost"}
    PROVE  AsrAt(d, v, g)
<1>1. g.asr + Credit(d, v) <= Granted(inbox, spent)
  <2>1. log.asr \in Nat /\ Granted(inbox, spent) \in Nat
    BY GrantedOk, Here DEF LogType
  <2>2. log.asr + Credit(disk, w) <= Granted(inbox, spent)
    BY DEF AsrInv, AsrAt
  <2>3. Credit(d, v) \in Nat /\ Credit(disk, w) \in Nat /\ Credit(d, v) <= Credit(disk, w)
    BY FrugalCredit DEF FrugalThread
  <2> QED BY <2>1, <2>2, <2>3
<1>2. v.pc \notin {"legacy", "transcribe", "asr"}
  BY DEF FrugalThread
<1>3. g.asr > 0 => ~ Early(v) /\ Marked(d)
  BY FrugalMarks DEF FrugalThread, AsrInv, AsrAt, Early
<1> QED BY <1>1, <1>2, <1>3 DEF AsrInv, AsrAt

LEMMA SameIsFrugal ==
    ASSUME NEW d, d.job \in {disk.job, NoJob}, d.row = disk.row
    PROVE  FrugalDisk(d)
  BY DEF FrugalDisk

\* A status or a note path is written to a row that exists.
LEMMA RowsAreFrugal ==
    ASSUME Inv
    PROVE  /\ FrugalDisk(disk)
           /\ \A s \in Statuses : disk.row # NoRow /\ s # "Recording" => FrugalDisk(SetStatus(s))
           /\ \A s \in Statuses, n \in Notes \cup {NoNote} :
                 disk.row # NoRow /\ (s # "Recording" \/ s = disk.row.status) => FrugalDisk(SetRow(s, n))
           /\ \A n : \A c \in Contents : FrugalDisk(SetNote(n, c))
           /\ FrugalDisk([disk EXCEPT !.ckpt = w.ck]) /\ FrugalDisk([disk EXCEPT !.ckpt = NoCkpt])
           /\ FrugalDisk([disk EXCEPT !.job = NoJob])
<1>1. \A s \in Statuses : disk.row # NoRow /\ s # "Recording" => FrugalDisk(SetStatus(s))
  BY Here, SetsStatus DEF FrugalDisk
<1>2. \A s \in Statuses, n \in Notes \cup {NoNote} :
         disk.row # NoRow /\ (s # "Recording" \/ s = disk.row.status) => FrugalDisk(SetRow(s, n))
  BY Here, SetsRow DEF FrugalDisk
<1>3. \A n : \A c \in Contents : FrugalDisk(SetNote(n, c))
  BY Here, SetsNote, SameIsFrugal
<1>4. FrugalDisk([disk EXCEPT !.ckpt = w.ck]) /\ FrugalDisk([disk EXCEPT !.ckpt = NoCkpt])
  <2> DEFINE d1 == [disk EXCEPT !.ckpt = w.ck]
             d2 == [disk EXCEPT !.ckpt = NoCkpt]
  <2>1. d1.job = disk.job /\ d1.row = disk.row /\ d2.job = disk.job /\ d2.row = disk.row
    BY Here, IdleOk, SetsCkpt
  <2> HIDE DEF d1, d2
  <2>2. FrugalDisk(d1) /\ FrugalDisk(d2)
    BY <2>1, SameIsFrugal
  <2> QED BY <2>2 DEF d1, d2
<1>5. FrugalDisk([disk EXCEPT !.job = NoJob])
  <2> DEFINE d == [disk EXCEPT !.job = NoJob]
  <2>1. d.job = NoJob /\ d.row = disk.row
    BY Here, SetsJob
  <2> HIDE DEF d
  <2>2. FrugalDisk(d)
    BY <2>1, SameIsFrugal
  <2> QED BY <2>2 DEF d
<1> QED BY <1>1, <1>2, <1>3, <1>4, <1>5, SameIsFrugal

LEMMA IdleIsFrugal == FrugalThread(Idle)
  BY IdleOk DEF FrugalThread, BeforeAsr, Filing, Opening

\* Away from the places that matter.
LEMMA WentIsFrugal ==
    ASSUME NEW v, v.pc \notin Opening \cup {"legacy", "transcribe", "asr"},
           v.pc \in BeforeAsr => w.pc \in BeforeAsr, v.pc \notin Filing
    PROVE  FrugalThread(v)
  BY DEF FrugalThread

LEMMA FiledIsFrugal ==
    ASSUME NEW v, v.claim = w.claim, v.pc \in Filing, w.claim # NoJob \/ w.pc \in Filing
    PROVE  FrugalThread(v)
  BY DEF FrugalThread, BeforeAsr, Filing, Opening

LEMMA ErrorIsFrugal ==
    ASSUME Inv, w.claim # NoJob \/ w.pc \in Filing
    PROVE  FrugalThread(Error)
<1>1. Error.claim = w.claim /\ Error.pc = IF w.claim # NoJob THEN "failed" ELSE "schedule"
  BY Here, Returns, Moves
<1> QED BY <1>1, WentIsFrugal, FiledIsFrugal DEF Filing, BeforeAsr, Opening

LEMMA OkIsFrugal ==
    ASSUME Inv
    PROVE  FrugalThread(Ok)
<1>1. Ok = Idle \/ Ok.pc = "settle"
  BY Here, Returns, Moves
<1> QED BY <1>1, WentIsFrugal, IdleIsFrugal DEF Filing, BeforeAsr, Opening

LEMMA ToIsFrugal ==
    ASSUME Inv, NEW pc \in Pcs, pc \notin Opening \cup {"legacy", "transcribe", "asr"},
           pc \in Filing => w.claim # NoJob \/ w.pc \in Filing,
           pc \in BeforeAsr => w.pc \in BeforeAsr
    PROVE  FrugalThread(To(pc))
<1>1. To(pc).claim = w.claim /\ To(pc).pc = pc
  BY Here, Moves
<1> QED BY <1>1 DEF FrugalThread

FrugalStep ==
    FrugalDisk(disk') /\ FrugalThread(w') /\ spent'.manual = spent.manual

LEMMA WriteIsFrugal ==
    ASSUME Inv, NEW kind, NEW saved, NEW good, NEW bad, Write(kind, saved, good, bad),
           FrugalDisk(saved), FrugalThread(good), FrugalThread(bad)
    PROVE  FrugalStep
<1>1. PICK ok \in BOOLEAN : /\ Outcome(kind, ok) /\ disk' = (IF ok THEN saved ELSE disk)
                            /\ w' = (IF ok THEN good ELSE bad)
  BY DEF Write
<1>2. disk' \in {saved, disk} /\ w' \in {good, bad}
  BY <1>1
<1>3. spent'.manual = spent.manual
  BY <1>1, SpentOk DEF Inv, Types
<1> QED BY <1>2, <1>3, RowsAreFrugal DEF FrugalStep

LEMMA GotoIsFrugal ==
    ASSUME Inv, NEW next, Goto(next), FrugalThread(next)
    PROVE  FrugalStep
<1>1. disk' = disk /\ w' = next /\ spent' = spent
  BY DEF Goto
<1> QED BY <1>1, RowsAreFrugal DEF FrugalStep

LEMMA FrugalInside ==
    ASSUME Inv, AsrInv, FrugalStep, Inside, w.pc \notin {"collect", "collectLost"}
    PROVE  AsrInv'
<1>1. AsrAt(disk', w', log')
  BY FrugalAsr DEF FrugalStep, Inside
<1> QED BY <1>1, InsideAsr DEF FrugalStep, Inside

LEMMA RowThere ==
    ASSUME Inv, w.pc \in OpenPcs \cup {"route"}
    PROVE  disk.row # NoRow
  BY Here, RowsOk DEF Good, RowAt, Open, InProgress

LEMMA FailIsFrugal ==
    ASSUME Inv, NEW why \in Reasons, NEW note \in Owned
    PROVE  FrugalThread(FailWith(why, note))
<1>1. FailWith(why, note).pc = "fail"
  BY Here, FailsWith
<1> QED BY <1>1, WentIsFrugal DEF Filing, BeforeAsr, Opening

\* A job that keeps its attempts and its budget.
LEMMA JobIsFrugal ==
    ASSUME Inv, NEW j \in Job, disk.job # NoJob, j.attempts = disk.job.attempts,
           j.max = disk.job.max
    PROVE  FrugalDisk([disk EXCEPT !.job = j])
<1> DEFINE d == [disk EXCEPT !.job = j]
<1>1. d.job = j /\ d.row = disk.row
  BY Here, SetsJob
<1> HIDE DEF d
<1>2. FrugalDisk(d)
  BY <1>1 DEF FrugalDisk
<1> QED BY <1>2 DEF d

LEMMA RoutingIsFrugal ==
    ASSUME Inv, \/ Dispatch \/ Stale \/ MissingAudio \/ CompleteNote \/ FileCheckpoint
    PROVE  FrugalStep
<1>1. CASE Dispatch
  <2>1. w.pc = "dispatch" /\ w.claim # NoJob
    BY <1>1, ClaimedThere DEF Dispatch, At, Unclaimed, Shared
  <2>2. FrugalThread(To("route")) /\ FrugalThread(Error) /\ FrugalThread(Ok)
    BY <2>1, ToIsFrugal, ErrorIsFrugal, OkIsFrugal DEF Pcs, Filing, BeforeAsr, Opening
  <2>3. disk.row # NoRow => FrugalDisk(SetStatus("PendingTranscription"))
    BY RowsAreFrugal DEF Statuses, InProgress
  <2>4. \/ Goto(Ok) \/ Goto(Error) \/ Goto(To("route"))
        \/ disk.row # NoRow /\ Write("row", SetStatus("PendingTranscription"), To("route"), Error)
    BY <1>1, RowsOk DEF Dispatch
  <2> QED BY <2>2, <2>3, <2>4, WriteIsFrugal, GotoIsFrugal
<1>3. CASE Stale
  BY <1>3, OkIsFrugal, GotoIsFrugal DEF Stale
<1>4. CASE MissingAudio
  <2>1. FrugalThread(FailWith("missing", w.note))
    BY Here, FailIsFrugal DEF Reasons
  <2> QED BY <1>4, <2>1, GotoIsFrugal DEF MissingAudio
<1>5. CASE CompleteNote
  <2> DEFINE ck == [disk.ckpt EXCEPT !.valid = TRUE, !.note = w.note.note, !.canonical = TRUE]
             v == [To("clean") EXCEPT !.ck = ck]
  <2>1. w.pc = "completeNote" /\ w.claim # NoJob /\ Goto(v)
    BY <1>5, ClaimedThere DEF CompleteNote, At, Unclaimed, Shared
  <2>2. ck \in Ckpt /\ ck.origin = disk.ckpt.origin /\ "clean" \in Pcs
    BY Here DEF Ckpt, Owned, Pcs
  <2> HIDE DEF ck
  <2>3. v.pc = "clean" /\ v.claim = w.claim
    BY <2>2, Carries
  <2> HIDE DEF v
  <2>4. FrugalThread(v)
    BY <2>1, <2>2, <2>3 DEF FrugalThread, BeforeAsr, Filing, Opening
  <2> QED BY <2>1, <2>4, GotoIsFrugal
<1>6. CASE FileCheckpoint
  <2> DEFINE pc == IF disk.row.status = "PendingNote" THEN "clean" ELSE "promote"
             v == [To(pc) EXCEPT !.ck = disk.ckpt]
  <2>1. w.pc = "fileCheckpoint" /\ w.claim # NoJob /\ Goto(v)
    BY <1>6, ClaimedThere DEF FileCheckpoint, At, Unclaimed, Shared
  <2>2. pc \in {"clean", "promote"} /\ pc \in Pcs
    BY DEF Pcs
  <2> HIDE DEF pc
  <2>3. v.pc = pc /\ v.claim = w.claim
    BY <2>2, Carries, Here
  <2> HIDE DEF v
  <2>4. FrugalThread(v)
    BY <2>1, <2>2, <2>3 DEF FrugalThread, BeforeAsr, Filing, Opening
  <2> QED BY <2>1, <2>4, GotoIsFrugal
<1> QED BY <1>1, <1>3, <1>4, <1>5, <1>6

LEMMA FilingIsFrugal ==
    ASSUME Inv, \/ Refuse \/ StoreCheckpoint \/ Promote \/ CleanStaging \/ FileNote \/ KeepNote
                \/ CompleteWithNote \/ Tidy
    PROVE  FrugalStep
<1>1. CASE Refuse
  <2> DEFINE n == CheckpointNote.note
             c1 == [Checkpoint(FALSE) EXCEPT !.canonical = TRUE]
             c2 == [Checkpoint(FALSE) EXCEPT !.canonical = FALSE]
             v1 == [To("store") EXCEPT !.ck = c1]
             v2 == [To("store") EXCEPT !.ck = c2]
             d == SetNote(n, MarkIncomplete(disk.notes[n]))
  <2>1. w.pc = "refuse" /\ w.claim # NoJob /\ (Write("note", d, v1, Error) \/ Goto(v2))
    BY <1>1, ClaimedThere DEF Refuse, At, Unclaimed, Shared
  <2>2. /\ c1 \in Ckpt /\ c1.origin = w.claim.payload.origin
        /\ c2 \in Ckpt /\ c2.origin = w.claim.payload.origin /\ "store" \in Pcs
    <3>1. Checkpoint(FALSE) \in Ckpt /\ Checkpoint(FALSE).origin = w.claim.payload.origin
      BY <2>1, CheckpointOk DEF Checkpoint, Origin
    <3> QED BY <3>1 DEF Ckpt, Pcs
  <2> HIDE DEF c1, c2
  <2>3. /\ v1.pc = "store" /\ v1.claim = w.claim
        /\ v2.pc = "store" /\ v2.claim = w.claim
    BY <2>2, Carries
  <2> HIDE DEF v1, v2
  <2>4. FrugalThread(v1) /\ FrugalThread(v2) /\ FrugalThread(Error)
    BY <2>1, <2>2, <2>3, ErrorIsFrugal DEF FrugalThread, BeforeAsr, Filing, Opening
  <2>5. FrugalDisk(d)
    BY RowsAreFrugal DEF MarkIncomplete, Contents
  <2> QED BY <2>1, <2>4, <2>5, WriteIsFrugal, GotoIsFrugal
<1>2. CASE StoreCheckpoint
  <2>1. w.pc = "store" /\ w.claim # NoJob
    BY <1>2, ClaimedThere DEF StoreCheckpoint, At, Unclaimed, Shared
  <2>2. FrugalThread(To("promote")) /\ FrugalThread(Error) /\ FrugalDisk([disk EXCEPT !.ckpt = w.ck])
    BY <2>1, ToIsFrugal, ErrorIsFrugal, RowsAreFrugal DEF Pcs, Filing, BeforeAsr, Opening
  <2> QED BY <1>2, <2>2, WriteIsFrugal DEF StoreCheckpoint
<1>3. CASE Promote
  <2>1. w.pc = "promote" /\ w.claim # NoJob
    BY <1>3, ClaimedThere DEF Promote, At, Unclaimed, Shared
  <2>2. FrugalThread(To("clean")) /\ FrugalThread(Error)
    BY <2>1, ToIsFrugal, ErrorIsFrugal DEF Pcs, Filing, BeforeAsr, Opening
  <2>3. FrugalDisk(SetStatus("PendingNote"))
    BY <2>1, RowThere, RowsAreFrugal DEF OpenPcs, Statuses, InProgress
  <2> QED BY <1>3, <2>2, <2>3, WriteIsFrugal DEF Promote
<1>4. CASE CleanStaging
  <2>1. w.pc = "clean"
    BY <1>4 DEF CleanStaging, At
  <2>2. FrugalThread(To("file")) /\ FrugalThread(Error) /\ FrugalDisk(disk)
    BY <2>1, ToIsFrugal, ErrorIsFrugal, RowsAreFrugal DEF Pcs, Filing, BeforeAsr, Opening
  <2> QED BY <1>4, <2>2, WriteIsFrugal DEF CleanStaging
<1>5. CASE FileNote
  <2> DEFINE target == IF w.ck.note # NoNote THEN w.ck.note ELSE disk.row.note
  <2>1. w.pc = "file"
    BY <1>5 DEF FileNote, At
  <2>2. FrugalThread(To("keep")) /\ FrugalThread(Error)
    BY <2>1, ToIsFrugal, ErrorIsFrugal DEF Pcs, Filing, BeforeAsr, Opening
  <2>3. \A n : FrugalDisk(SetNote(n, FiledAs)) /\ FrugalThread(Canonical(n))
    <3> SUFFICES ASSUME NEW n PROVE FrugalDisk(SetNote(n, FiledAs)) /\ FrugalThread(Canonical(n))
      OBVIOUS
    <3>1. FrugalDisk(SetNote(n, FiledAs))
      BY RowsAreFrugal DEF FiledAs, Contents
    <3> DEFINE v == Canonical(n)
    <3>2. v.pc = "keep" /\ v.claim = w.claim /\ v.ck.origin = w.ck.origin
      <4>1. To("keep") \in WorkerType /\ To("keep").pc = "keep" /\ To("keep").claim = w.claim
            /\ To("keep").ck = w.ck
        BY Here, Moves DEF Pcs
      <4> QED BY <4>1, Here DEF Canonical, WorkerType, Ckpt
    <3> HIDE DEF v
    <3>3. FrugalThread(v)
      BY <2>1, <3>2, FiledIsFrugal DEF Filing
    <3> QED BY <3>1, <3>3 DEF v
  <2> HIDE DEF target
  <2>4. \/ Goto(To("keep")) \/ Write("note", SetNote(target, FiledAs), Canonical(target), Error)
        \/ Write("vagus", SetNote(NewNote, FiledAs), Canonical(NewNote), Error)
    BY <1>5 DEF FileNote, target
  <2> QED BY <2>2, <2>3, <2>4, WriteIsFrugal, GotoIsFrugal
<1>6. CASE KeepNote
  <2> DEFINE v1 == [To("complete") EXCEPT !.stored = TRUE]
             v2 == [To("complete") EXCEPT !.stored = FALSE]
  <2>1. w.pc = "keep" /\ Write("ckpt", [disk EXCEPT !.ckpt = w.ck], v1, v2)
    BY <1>6 DEF KeepNote, At
  <2>2. /\ v1.pc = "complete" /\ v1.claim = w.claim
        /\ v2.pc = "complete" /\ v2.claim = w.claim
    BY Here DEF To, WorkerType
  <2> HIDE DEF v1, v2
  <2>3. FrugalThread(v1) /\ FrugalThread(v2) /\ FrugalDisk([disk EXCEPT !.ckpt = w.ck])
    BY <2>1, <2>2, FiledIsFrugal, RowsAreFrugal DEF Filing
  <2> QED BY <2>1, <2>3, WriteIsFrugal
<1>7. CASE CompleteWithNote
  <2> DEFINE v == [Error EXCEPT !.err = IF w.stored THEN None ELSE OwnedNote(w.ck)]
  <2>1. w.pc = "complete" /\ Write("row", SetRow("Done", w.ck.note), To("tidy"), v)
    BY <1>7 DEF CompleteWithNote, At
  <2>2. v.pc = Error.pc /\ v.claim = Error.claim
    <3>1. Error \in WorkerType
      BY <2>1, ErrorGood
    <3> QED BY <3>1 DEF WorkerType
  <2> HIDE DEF v
  <2>3. FrugalThread(v)
    <3>1. FrugalThread(Error)
      BY <2>1, ErrorIsFrugal DEF Filing
    <3> QED BY <2>2, <3>1 DEF FrugalThread
  <2>4. FrugalThread(To("tidy"))
    BY <2>1, ToIsFrugal DEF Pcs, Filing, BeforeAsr, Opening
  <2>5. FrugalDisk(SetRow("Done", w.ck.note))
    BY <2>1, Here, RowThere, RowsAreFrugal DEF OpenPcs, Statuses, Settled, Ckpt
  <2> QED BY <2>1, <2>3, <2>4, <2>5, WriteIsFrugal
<1>8. CASE Tidy
  <2>1. FrugalDisk([disk EXCEPT !.ckpt = NoCkpt]) /\ FrugalThread(Ok)
    BY RowsAreFrugal, OkIsFrugal
  <2> QED BY <1>8, <2>1, WriteIsFrugal DEF Tidy
<1> QED BY <1>1, <1>2, <1>3, <1>4, <1>5, <1>6, <1>7, <1>8

LEMMA FailingIsFrugal ==
    ASSUME Inv, FailRow \/ CloseNote
    PROVE  FrugalStep
<1>1. CASE FailRow
  <2> DEFINE v == [To("close") EXCEPT !.note = Failing]
             bad == CASE w.why = "unarmed" -> Idle
                      [] w.why = "missing" -> Error
                      [] w.why = "exhausted" -> To("reschedule")
  <2>1. w.pc = "fail" /\ Write("row", SetRow("Failed", Failing.note), v, bad)
    BY <1>1 DEF FailRow, At
  <2>2. /\ w.why \in {"unarmed", "missing", "exhausted"} /\ (w.why = "unarmed" <=> w.claim = NoJob)
    BY <2>1, Here DEF Good, ClaimAt, WorkerType, Reasons
  <2>3. v.pc = "close" /\ v.claim = w.claim
    BY Here DEF To, WorkerType
  <2>4. FrugalThread(bad)
    BY <2>1, <2>2, IdleIsFrugal, ErrorIsFrugal, ToIsFrugal DEF Pcs, Filing, BeforeAsr, Opening
  <2>5. FrugalDisk(SetRow("Failed", Failing.note))
    <3>1. Failing \in Owned
      BY Here, OwnedOk DEF Failing
    <3> QED BY <2>1, <3>1, RowThere, RowsAreFrugal DEF OpenPcs, Statuses, Settled, Owned
  <2> HIDE DEF v, bad
  <2>6. FrugalThread(v)
    BY <2>3, WentIsFrugal DEF Filing, BeforeAsr, Opening
  <2> QED BY <2>1, <2>4, <2>5, <2>6, WriteIsFrugal
<1>2. CASE CloseNote
  <2> DEFINE d == SetNote(w.note.note, MarkIncomplete(disk.notes[w.note.note]))
             next == CASE w.why = "unarmed" -> Idle
                       [] w.why = "missing" -> Ok
                       [] w.why = "exhausted" -> To("park")
  <2>1. w.pc = "close" /\ (Goto(next) \/ Write("note", d, next, next))
    BY <1>2 DEF CloseNote, At
  <2>2. w.why \in {"unarmed", "missing", "exhausted"}
    BY <2>1, Here DEF Good, ClaimAt, WorkerType, Reasons
  <2>3. FrugalThread(next)
    BY <2>2, IdleIsFrugal, OkIsFrugal, ToIsFrugal DEF Pcs, Filing, BeforeAsr, Opening
  <2>4. FrugalDisk(d)
    BY RowsAreFrugal DEF MarkIncomplete, Contents
  <2> QED BY <2>1, <2>3, <2>4, WriteIsFrugal, GotoIsFrugal
<1> QED BY <1>1, <1>2

LEMMA SettlingIsFrugal ==
    ASSUME Inv, SettleOk \/ SettleError \/ Park \/ Reschedule \/ Backoff
    PROVE  FrugalStep
<1>1. CASE SettleOk
  BY <1>1, RowsAreFrugal, IdleIsFrugal, WriteIsFrugal DEF SettleOk
<1>2. CASE SettleError
  <2> DEFINE claim == Presented(w.claim, w.err.note)
             known == [w EXCEPT !.claim = claim]
             note == AuthoritativeNote(disk.ckpt, claim.payload, disk.row.note)
             v1 == [known EXCEPT !.pc = "park"]
             v2 == [known EXCEPT !.pc = "fail", !.why = "exhausted", !.note = note]
             parks == claim.attempts < claim.max \/ disk.row.status \in Settled \cup {"none"}
  <2>1. w.pc = "failed" /\ Goto(IF parks THEN v1 ELSE v2)
    BY <1>2 DEF SettleError, At
  <2>2. w.claim # NoJob /\ JobOk(w.claim) /\ w.err.note \in Notes \cup {NoNote}
    BY <2>1, ClaimedThere, Here DEF Good, Kept, Unclaimed, Shared, Owned
  <2>3. claim.attempts = w.claim.attempts /\ claim.payload.origin = w.claim.payload.origin
    BY <2>2, PresentedOk
  <2> HIDE DEF claim, note
  <2>4. /\ v1.pc = "park" /\ v1.claim = claim
        /\ v2.pc = "fail" /\ v2.claim = claim
    BY Here DEF WorkerType
  <2> HIDE DEF v1, v2
  <2>5. FrugalThread(v1) /\ FrugalThread(v2)
    BY <2>2, <2>3, <2>4 DEF FrugalThread, BeforeAsr, Filing, Opening
  <2> HIDE DEF parks
  <2> QED BY <2>1, <2>5, GotoIsFrugal
<1>3. CASE Park
  <2> DEFINE job == Failed(disk.job, w.claim)
             v == IF job.state = "pending" THEN To("backoff") ELSE Idle
  <2>1. w.pc = "park" /\ Write("settle", [disk EXCEPT !.job = job], v, Idle)
    BY <1>3 DEF Park, At
  <2>2. w.claim # NoJob /\ JobOk(w.claim) /\ disk.job # NoJob /\ JobOk(disk.job)
    BY <2>1, ClaimedThere, Here, NoJobFacts DEF Good, Kept, ClaimAt, Unclaimed, Shared
  <2>3. job \in Job /\ job.attempts = disk.job.attempts /\ job.max = disk.job.max
    BY <2>2, FailedOk DEF JobOk
  <2>4. FrugalThread(v)
    BY ToIsFrugal, IdleIsFrugal DEF Pcs, Filing, BeforeAsr, Opening
  <2> HIDE DEF job, v
  <2>5. FrugalDisk([disk EXCEPT !.job = job])
    BY <2>2, <2>3, JobIsFrugal
  <2> QED BY <2>1, <2>4, <2>5, IdleIsFrugal, WriteIsFrugal
<1>4. CASE Reschedule
  <2> DEFINE job == Rescheduled(disk.job, w.claim)
  <2>1. w.pc = "reschedule" /\ Write("settle", [disk EXCEPT !.job = job], To("backoff"), Idle)
    BY <1>4, Here DEF Reschedule, At, DiskType
  <2>2. w.claim # NoJob /\ JobOk(w.claim) /\ disk.job # NoJob /\ JobOk(disk.job)
    BY <2>1, ClaimedThere, Here, NoJobFacts DEF Good, Kept, ClaimAt, Unclaimed, Shared
  <2>3. job \in Job /\ job.attempts = disk.job.attempts /\ job.max = disk.job.max
    BY <2>2, RescheduledOk DEF JobOk
  <2>4. FrugalThread(To("backoff"))
    BY ToIsFrugal DEF Pcs, Filing, BeforeAsr, Opening
  <2> HIDE DEF job
  <2>5. FrugalDisk([disk EXCEPT !.job = job])
    BY <2>2, <2>3, JobIsFrugal
  <2> QED BY <2>1, <2>4, <2>5, IdleIsFrugal, WriteIsFrugal
<1>5. CASE Backoff
  <2>1. disk.row # NoRow => FrugalDisk(SetStatus(RetryStatus))
    BY RetryStatusOk, RowsAreFrugal DEF InProgress
  <2>2. Goto(Idle) \/ (disk.row # NoRow /\ Write("row", SetStatus(RetryStatus), Idle, Idle))
    BY <1>5, RowsOk DEF Backoff
  <2> QED BY <2>1, <2>2, IdleIsFrugal, WriteIsFrugal, GotoIsFrugal
<1> QED BY <1>1, <1>2, <1>3, <1>4, <1>5

LEMMA WriteAsr ==
    ASSUME Inv, AsrInv, NEW kind, NEW saved, NEW good, NEW bad, Write(kind, saved, good, bad),
           UNCHANGED <<inbox, live>>, AsrAt(saved, good, log'), AsrAt(disk, bad, log')
    PROVE  AsrInv'
<1>1. PICK ok \in BOOLEAN : /\ Outcome(kind, ok) /\ disk' = (IF ok THEN saved ELSE disk)
                            /\ w' = (IF ok THEN good ELSE bad)
  BY DEF Write
<1>2. (disk' = saved /\ w' = good) \/ (disk' = disk /\ w' = bad)
  BY <1>1
<1>3. spent'.manual = spent.manual
  BY <1>1, SpentOk DEF Inv, Types
<1>4. AsrAt(disk', w', log')
  <2>1. CASE disk' = saved /\ w' = good
    BY <2>1
  <2>2. CASE disk' = disk /\ w' = bad
    BY <2>2
  <2> QED BY <1>2, <2>1, <2>2
<1> QED BY <1>3, <1>4, InsideAsr

LEMMA GotoAsr ==
    ASSUME AsrInv, NEW next, Goto(next), UNCHANGED <<inbox, live>>, AsrAt(disk, next, log')
    PROVE  AsrInv'
<1>1. disk' = disk /\ w' = next /\ spent' = spent
  BY DEF Goto
<1>2. AsrAt(disk', w', log')
  BY <1>1
<1> QED BY <1>1, <1>2, InsideAsr

\* Claiming counts the attempt that may decode.
LEMMA ClaimJobAsr ==
    ASSUME Inv, AsrInv, ClaimJob
    PROVE  AsrInv'
<1> DEFINE job == Claimed(disk.job)
           d == [disk EXCEPT !.job = job]
           v == [Idle EXCEPT !.pc = "dispatch", !.claim = job]
<1>1. /\ w.pc = "idle" /\ Inside /\ disk.job.state = "pending" /\ spent' = spent
      /\ disk' = d /\ w' = v
  BY Here DEF ClaimJob, At, DiskType
<1>2. disk.job # NoJob /\ JobOk(disk.job)
  BY <1>1, Here, NoJobFacts DEF Good, Kept
<1>3. /\ job \in Job /\ job # NoJob /\ job.attempts = disk.job.attempts + 1
      /\ job.max = disk.job.max
  BY <1>2, ClaimedOk DEF JobOk
<1> HIDE DEF job
<1>4. d.job = job /\ d.row = disk.row
  BY <1>3, Here, SetsJob
<1>5. v.pc = "dispatch" /\ v.claim = job
  BY IdleOk DEF WorkerType
<1> HIDE DEF d, v
<1>6. /\ Credit(d, v) \in Nat /\ Credit(disk, w) \in Nat /\ Credit(d, v) <= Credit(disk, w)
  <2>1. disk.job.attempts \in Nat /\ disk.job.max \in Nat
    BY <1>2 DEF JobOk, Job
  <2> QED BY <1>1, <1>2, <1>3, <1>4, <1>5, <2>1 DEF Credit, Within, BeforeAsr
<1>7. log.asr + Credit(d, v) <= Granted(inbox, spent)
  <2>1. log.asr \in Nat /\ Granted(inbox, spent) \in Nat
    BY GrantedOk, Here DEF LogType
  <2>2. log.asr + Credit(disk, w) <= Granted(inbox, spent)
    BY DEF AsrInv, AsrAt
  <2> QED BY <1>6, <2>1, <2>2
<1>8. Early(v) => Early(w)
  BY <1>5 DEF Early, Opening, Filing
<1>9. AsrAt(d, v, log)
  BY <1>1, <1>4, <1>5, <1>7, <1>8 DEF AsrInv, AsrAt, Marked
<1>10. AsrAt(disk', w', log')
  BY <1>1, <1>9 DEF Inside
<1> QED BY <1>1, <1>10, InsideAsr DEF Inside

\* The way to the decode is taken within the budget only.
LEMMA BudgetedAsr ==
    ASSUME Inv, AsrInv, NEW d, NEW v, FrugalDisk(d), d.job = disk.job, w.pc \in BeforeAsr,
           v.pc \in {"legacy", "transcribe", "asr"}, Within(disk),
           v.pc = "asr" => d.row.attempted /\ d.row.status # "Recording"
    PROVE  AsrAt(d, v, log)
<1>1. log.asr + Credit(d, v) <= Granted(inbox, spent)
  <2>1. log.asr \in Nat /\ Granted(inbox, spent) \in Nat
    BY GrantedOk, Here DEF LogType
  <2>2. log.asr + Credit(disk, w) <= Granted(inbox, spent)
    BY DEF AsrInv, AsrAt
  <2>3. Credit(d, v) \in Nat /\ Credit(disk, w) \in Nat /\ Credit(d, v) <= Credit(disk, w)
    BY FrugalCredit
  <2> QED BY <2>1, <2>2, <2>3
<1>2. Within(d)
  BY DEF Within
<1>3. Early(v) => Early(w)
  BY DEF Early, Opening, Filing
<1>4. w.pc \notin {"collect", "collectLost"}
  BY DEF BeforeAsr
<1>5. log.asr > 0 => ~ Early(v) /\ Marked(d)
  BY <1>3, FrugalMarks DEF AsrInv, AsrAt
<1> QED BY <1>1, <1>2, <1>4, <1>5 DEF AsrInv, AsrAt

LEMMA RouteAsr ==
    ASSUME Inv, AsrInv, Route
    PROVE  AsrInv'
<1> DEFINE routed == [To(RetryAction) EXCEPT !.note = ClaimNote]
           d == SetRow(disk.row.status, ClaimNote.note)
           over == RetryAction \in {"transcribe", "legacy"} /\ w.claim.attempts > w.claim.max
<1>1. w.pc = "route" /\ w.claim # NoJob /\ JobOk(w.claim) /\ WellOwned(disk.ckpt) /\ Inside
  BY ClaimedThere, Here DEF Route, At, Unclaimed, Shared, Good, Kept
<1>2. ClaimNote \in Owned
  BY <1>1, Here, AuthorityOk DEF ClaimNote, JobOk, Job
<1>3. RetryAction \in {"stale", "fileCheckpoint", "completeNote", "missingAudio", "legacy", "transcribe"}
  BY DEF RetryAction
<1>4. routed.pc = RetryAction
  <2>1. RetryAction \in Pcs
    BY <1>3 DEF Pcs
  <2> HIDE DEF RetryAction, ClaimNote
  <2>2. To(RetryAction) \in WorkerType /\ To(RetryAction).pc = RetryAction
    BY <2>1, Here, Moves
  <2> QED BY <2>2 DEF WorkerType
<1>5. \/ Goto(Error)
      \/ ~ over /\ (Goto(routed) \/ Write("row", d, routed, Error))
  BY DEF Route
<1>6. FrugalDisk(disk) /\ FrugalDisk(d) /\ d.job = disk.job
  <2>1. ClaimNote.note \in Notes \cup {NoNote} /\ disk.row.status \in Statuses
    BY <1>2, Here DEF Owned
  <2> HIDE DEF ClaimNote
  <2> QED BY <1>1, <2>1, Here, RowThere, RowsAreFrugal, SetsRow
<1>7. AsrAt(disk, Error, log)
  BY <1>1, <1>6, ErrorIsFrugal, FrugalAsr
<1>8. CASE over
  BY <1>1, <1>5, <1>7, <1>8, GotoAsr DEF Inside
<1>9. CASE ~ over
  <2>1. RetryAction \in {"transcribe", "legacy"} => Within(disk)
    <3>1. /\ disk.job.attempts = w.claim.attempts /\ disk.job.max = w.claim.max /\ disk.job # NoJob
      BY <1>1, Here, NoJobFacts DEF Good, ClaimAt
    <3>2. w.claim.attempts \in Nat /\ w.claim.max \in Nat
      BY <1>1 DEF JobOk, Job
    <3> QED BY <1>9, <3>1, <3>2 DEF Within
  <2> HIDE DEF routed, d, over
  <2>2. AsrAt(disk, routed, log) /\ AsrAt(d, routed, log)
    <3>1. CASE RetryAction \in {"transcribe", "legacy"}
      BY <1>1, <1>4, <1>6, <2>1, <3>1, BudgetedAsr DEF BeforeAsr
    <3>2. CASE RetryAction \notin {"transcribe", "legacy"}
      <4>1. FrugalThread(routed)
        BY <1>3, <1>4, <3>2, WentIsFrugal DEF Opening, Filing, BeforeAsr
      <4> QED BY <1>1, <1>6, <4>1, FrugalAsr
    <3> QED BY <3>1, <3>2
  <2> QED BY <1>1, <1>5, <1>7, <2>2, WriteAsr, GotoAsr DEF Inside
<1> QED BY <1>8, <1>9

LEMMA LegacyAsr ==
    ASSUME Inv, AsrInv, Legacy
    PROVE  AsrInv'
<1> DEFINE d == [disk EXCEPT !.row.attempted = TRUE]
<1>1. w.pc = "legacy" /\ w.claim # NoJob /\ Inside /\ Write("row", d, To("transcribe"), Error)
  BY ClaimedThere DEF Legacy, At, Unclaimed, Shared
<1>2. d.job = disk.job /\ d.row.attempted /\ d.row.status = disk.row.status
  BY Here DEF DiskType, RowType
<1> HIDE DEF d
<1>3. FrugalDisk(d) /\ FrugalDisk(disk) /\ Within(disk)
  BY <1>1, <1>2, RowThere, RowsAreFrugal DEF FrugalDisk, OpenPcs, AsrInv, AsrAt
<1>4. To("transcribe").pc = "transcribe"
  BY Here, Moves DEF Pcs
<1>5. AsrAt(d, To("transcribe"), log)
  BY <1>1, <1>2, <1>3, <1>4, BudgetedAsr DEF BeforeAsr
<1>6. AsrAt(disk, Error, log)
  BY <1>1, <1>3, ErrorIsFrugal, FrugalAsr
<1> QED BY <1>1, <1>5, <1>6, WriteAsr DEF Inside

LEMMA TranscribeAsr ==
    ASSUME Inv, AsrInv, Transcribe
    PROVE  AsrInv'
<1> DEFINE d == [SetStatus("Transcribing") EXCEPT !.row.attempted = TRUE]
<1>1. /\ w.pc = "transcribe" /\ w.claim # NoJob /\ Inside
      /\ Goto(To("refuse")) \/ Write("row", d, To("asr"), Error)
  BY ClaimedThere DEF Transcribe, At, Unclaimed, Shared
<1>2. d.job = disk.job /\ d.row.attempted /\ d.row.status = "Transcribing"
  <2>1. LET e == SetStatus("Transcribing")
        IN e \in DiskType /\ e.job = disk.job /\ e.row.status = "Transcribing"
    BY Here, SetsStatus DEF Statuses, InProgress
  <2> QED BY <2>1 DEF DiskType, RowType
<1> HIDE DEF d
<1>3. FrugalDisk(d) /\ FrugalDisk(disk) /\ Within(disk)
  BY <1>1, <1>2, RowThere, RowsAreFrugal DEF FrugalDisk, OpenPcs, AsrInv, AsrAt
<1>4. To("asr").pc = "asr"
  BY Here, Moves DEF Pcs
<1>5. AsrAt(d, To("asr"), log)
  BY <1>1, <1>2, <1>3, <1>4, BudgetedAsr DEF BeforeAsr
<1>6. AsrAt(disk, Error, log) /\ AsrAt(disk, To("refuse"), log)
  BY <1>1, <1>3, ErrorIsFrugal, ToIsFrugal, FrugalAsr DEF Pcs, Opening, Filing, BeforeAsr
<1> QED BY <1>1, <1>5, <1>6, WriteAsr, GotoAsr DEF Inside

\* Nothing of the call is left when its recording is decoded.
LEMMA DecodesLate ==
    ASSUME Inv, NoteInv, AsrInv, w.pc = "asr"
    PROVE  ~ Waiting
<1>1. ~ CallPending
  BY Away
<1>2. ~ Discarding
  BY DEF NoteInv, NotesAt, DiscardAt, Idling
<1>3. live.state \notin {"running", "finishing", "ready"}
  BY <1>1 DEF Inv, SessionInv, AsrInv, AsrAt, CallPending
<1>4. live.state \in {"none", "running", "finishing", "ready", "discarded"}
  BY DEF Inv, Types, LiveType
<1> QED BY <1>1, <1>2, <1>3, <1>4 DEF Waiting, Discarding

LEMMA RunAsrAsr ==
    ASSUME Inv, NoteInv, AsrInv, RunAsr
    PROVE  AsrInv'
<1> DEFINE v == [To("store") EXCEPT !.ck = Checkpoint(TRUE)]
<1>1. /\ w.pc = "asr" /\ w.claim # NoJob /\ UNCHANGED <<inbox, live>> /\ log'.asr = log.asr + 1
      /\ Goto(Error) \/ Write("asr", disk, v, Error)
  BY ClaimedThere, Here DEF RunAsr, At, Unclaimed, Shared, LogType
<1>2. v.pc = "store" /\ Error.pc = "failed"
  <2>1. To("store") \in WorkerType /\ To("store").pc = "store"
    BY Here, Moves DEF Pcs
  <2> QED BY <1>1, <2>1, Here, Returns, Moves DEF WorkerType
<1>3. ~ Waiting /\ Within(disk) /\ Marked(disk)
  BY <1>1, DecodesLate DEF AsrInv, AsrAt, Marked
<1> HIDE DEF v
<1>4. ASSUME NEW u, u.pc \in {"store", "failed"}
      PROVE  AsrAt(disk, u, log')
  <2>1. /\ Credit(disk, w) \in Nat /\ Credit(disk, u) \in Nat
        /\ Credit(disk, w) = Credit(disk, u) + 1
    <3>1. disk.job.attempts \in Nat /\ disk.job.max \in Nat
      BY <1>3, Here DEF Within, Good, Kept, JobOk, Job
    <3> QED BY <1>1, <1>3, <1>4, <3>1 DEF Credit, Within, BeforeAsr
  <2>2. log'.asr + Credit(disk, u) <= Granted(inbox, spent)
    <3>1. log.asr \in Nat /\ Granted(inbox, spent) \in Nat
      BY GrantedOk, Here DEF LogType
    <3>2. log.asr + Credit(disk, w) <= Granted(inbox, spent)
      BY DEF AsrInv, AsrAt
    <3> QED BY <1>1, <2>1, <3>1, <3>2
  <2>3. ~ Early(u)
    BY <1>3, <1>4 DEF Early, Opening, Filing
  <2> QED BY <1>1, <1>3, <1>4, <2>2, <2>3 DEF AsrAt, Waiting
<1>5. AsrAt(disk, v, log') /\ AsrAt(disk, Error, log')
  BY <1>2, <1>4
<1> QED BY <1>1, <1>5, WriteAsr, GotoAsr

\* A budget is given where nothing was decoded yet; an existing job keeps its own.
LEMMA ArmedCredit ==
    ASSUME Inv, NEW p \in Payload, WellOwned(p), NEW max \in Nat, max <= Retries + 1,
           NEW v, v.pc \notin BeforeAsr
    PROVE  /\ Arm(p, max).row = disk.row /\ Credit(Arm(p, max), v) \in Nat
           /\ disk.job = NoJob => Credit(Arm(p, max), v) <= Retries + 1
           /\ disk.job # NoJob => FrugalDisk(Arm(p, max))
<1> DEFINE d == Arm(p, max)
<1>1. d.row = disk.row /\ JobOk(d.job) /\ (disk.job = NoJob => d.job = NewJob(p, max))
  BY Arms
<1>2. disk.job # NoJob => d.job.attempts = disk.job.attempts /\ d.job.max = disk.job.max
  <2> SUFFICES ASSUME disk.job # NoJob PROVE d.job.attempts = disk.job.attempts /\ d.job.max = disk.job.max
    OBVIOUS
  <2>1. JobOk(disk.job) /\ disk.job \in Job
    BY Here DEF Good, Kept, JobOk
  <2> DEFINE j == EnqueueOn(disk.job, p)
  <2>2. j \in Job /\ j.attempts = disk.job.attempts /\ j.max = disk.job.max
    BY <2>1, EnqueueOk DEF JobOk
  <2>3. d = [disk EXCEPT !.job = j]
    BY Here DEF Arm, DiskType
  <2> HIDE DEF j, d
  <2>4. d.job = j
    BY <2>2, <2>3, Here, SetsJob
  <2> QED BY <2>2, <2>4
<1> HIDE DEF d
<1>3. Credit(d, v) \in Nat
  BY <1>1, CreditOk
<1>4. disk.job = NoJob => Credit(d, v) <= Retries + 1
  BY <1>1, NewJobOk, BoundsAssumption DEF Credit
<1>5. disk.job # NoJob => FrugalDisk(d)
  BY <1>1, <1>2 DEF FrugalDisk
<1> QED BY <1>1, <1>3, <1>4, <1>5 DEF d

LEMMA ArmAsr ==
    ASSUME Inv, AsrInv, NEW v, FrugalThread(v), v.pc \notin BeforeAsr,
           w.pc \notin {"collect", "collectLost"}, disk.job = NoJob => log.asr = 0
    PROVE  AsrAt(Arm(Blank, Retries), v, log)
<1> DEFINE d == Arm(Blank, Retries)
<1>1. /\ d.row = disk.row /\ Credit(d, v) \in Nat
      /\ disk.job = NoJob => Credit(d, v) <= Retries + 1
      /\ disk.job # NoJob => FrugalDisk(d)
  <2>1. Retries \in Nat /\ Retries <= Retries + 1
    BY BoundsAssumption
  <2> QED BY <2>1, ArmedCredit, BlankOk
<1> HIDE DEF d
<1>2. CASE disk.job = NoJob
  <2>1. Granted(inbox, spent) \in Nat /\ Granted(inbox, spent) >= Retries + 1 /\ Retries \in Nat
    BY GrantedOk, BoundsAssumption
  <2>2. log.asr + Credit(d, v) <= Granted(inbox, spent)
    BY <1>1, <1>2, <2>1
  <2>3. v.pc \notin {"legacy", "transcribe", "asr"}
    BY DEF FrugalThread
  <2>4. AsrAt(d, v, log)
    BY <1>2, <2>2, <2>3 DEF AsrAt, AsrInv
  <2> QED BY <2>4 DEF d
<1>3. CASE disk.job # NoJob
  <2>1. AsrAt(d, v, log)
    BY <1>1, <1>3, FrugalAsr
  <2> QED BY <2>1 DEF d
<1> QED BY <1>2, <1>3

LEMMA RestartAsr ==
    ASSUME Inv, AsrInv, RecoverRunning \/ Resume \/ ResumeRow \/ Reap \/ ReapRow
    PROVE  AsrInv'
<1>0. Inside /\ w.pc \in {"startup", "resume", "resumeRow", "reap", "reapRow"}
  BY DEF RecoverRunning, Resume, ResumeRow, Reap, ReapRow, At
<1>1. /\ FrugalThread(To("resume")) /\ FrugalThread(To("reap")) /\ FrugalThread(To("resumeRow"))
      /\ FrugalThread(To("reapRow"))
  BY ToIsFrugal DEF Pcs, Filing, BeforeAsr, Opening
<1>2. To("resumeRow").pc = "resumeRow" /\ To("reapRow").pc = "reapRow"
  BY Here, Moves DEF Pcs
<1>3. disk.row # NoRow => /\ FrugalDisk(SetStatus("PendingNote"))
                          /\ FrugalDisk(SetStatus("PendingTranscription"))
                          /\ FrugalDisk(SetStatus("Failed"))
  BY RowsAreFrugal DEF Statuses, InProgress, Settled
<1>4. CASE RecoverRunning
  <2> DEFINE job == Recovered(disk.job)
  <2>1. Write("job", [disk EXCEPT !.job = job], To("resume"), To("resume"))
    BY <1>4, Here DEF RecoverRunning, DiskType
  <2>2. FrugalDisk([disk EXCEPT !.job = job])
    <3>1. CASE disk.job = NoJob
      <4>1. job = NoJob
        BY <3>1, NoJobFacts DEF Recovered
      <4> QED BY <4>1, RowsAreFrugal
    <3>2. CASE disk.job # NoJob
      <4>1. JobOk(disk.job)
        BY <3>2, Here DEF Good, Kept
      <4>2. job \in Job /\ job.attempts = disk.job.attempts /\ job.max = disk.job.max
        BY <4>1, RecoveredOk DEF JobOk
      <4> HIDE DEF job
      <4> QED BY <3>2, <4>2, JobIsFrugal
    <3> QED BY <3>1, <3>2
  <2> HIDE DEF job
  <2>3. FrugalStep
    BY <1>1, <2>1, <2>2, WriteIsFrugal
  <2> QED BY <1>0, <2>3, FrugalInside
<1>5. CASE Resume
  <2>1. \/ /\ disk.row.status \in InProgress \cup {"Recording"}
           /\ Write("job", Arm(Blank, Retries), To("resumeRow"), To("reap"))
        \/ Goto(To("reap"))
    BY <1>5 DEF Resume
  <2>2. CASE Goto(To("reap"))
    <3>1. FrugalStep
      BY <1>1, <2>2, GotoIsFrugal
    <3> QED BY <1>0, <3>1, FrugalInside
  <2>3. CASE /\ disk.row.status \in InProgress \cup {"Recording"}
             /\ Write("job", Arm(Blank, Retries), To("resumeRow"), To("reap"))
    <3>1. disk.job = NoJob => log.asr = 0
      <4>1. log.asr > 0 => disk.row.attempted /\ disk.row.status \in InProgress
        BY <2>3, RowsOk DEF AsrInv, AsrAt, Marked, InProgress
      <4>2. log.asr > 0 => Alive(disk)
        BY <4>1, Here DEF Good, Kept, Started
      <4>3. log.asr \in Nat
        BY Here DEF LogType
      <4> QED BY <4>2, <4>3, NoJobFacts DEF Alive
    <3>2. AsrAt(Arm(Blank, Retries), To("resumeRow"), log)
      BY <1>0, <1>1, <1>2, <3>1, ArmAsr DEF BeforeAsr
    <3>3. AsrAt(disk, To("reap"), log)
      BY <1>0, <1>1, RowsAreFrugal, FrugalAsr
    <3> QED BY <1>0, <2>3, <3>2, <3>3, WriteAsr DEF Inside
  <2> QED BY <2>1, <2>2, <2>3
<1>6. CASE ResumeRow
  <2>1. disk.row # NoRow
    BY <1>6, RowThere DEF ResumeRow, At, OpenPcs
  <2>2. FrugalStep
    BY <1>1, <1>3, <1>6, <2>1, WriteIsFrugal DEF ResumeRow
  <2> QED BY <1>0, <2>2, FrugalInside
<1>7. CASE Reap
  <2> DEFINE v == [To("close") EXCEPT !.note = Partial(disk.row.note), !.why = "unarmed"]
  <2>1. \/ Goto(Idle)
        \/ /\ disk.row.status = "Recording"
           /\ \/ Write("job", Arm(Blank, Retries), To("reapRow"), Idle)
              \/ Write("row", SetStatus("Failed"), v, Idle)
    BY <1>7 DEF Reap
  <2>2. v.pc = "close"
    BY Here DEF To, WorkerType
  <2> HIDE DEF v
  <2>3. FrugalThread(v)
    BY <2>2, WentIsFrugal DEF Filing, BeforeAsr, Opening
  <2>4. CASE Goto(Idle)
    <3>1. FrugalStep
      BY <2>4, IdleIsFrugal, GotoIsFrugal
    <3> QED BY <1>0, <3>1, FrugalInside
  <2>5. CASE disk.row.status = "Recording" /\ Write("job", Arm(Blank, Retries), To("reapRow"), Idle)
    <3>1. disk.job = NoJob => log.asr = 0
      <4>1. ~ (log.asr > 0)
        BY <2>5, RowsOk DEF AsrInv, AsrAt, Marked
      <4> QED BY <4>1, Here DEF LogType
    <3>2. AsrAt(Arm(Blank, Retries), To("reapRow"), log)
      BY <1>0, <1>1, <1>2, <3>1, ArmAsr DEF BeforeAsr
    <3>3. AsrAt(disk, Idle, log)
      BY <1>0, IdleIsFrugal, RowsAreFrugal, FrugalAsr
    <3> QED BY <1>0, <2>5, <3>2, <3>3, WriteAsr DEF Inside
  <2>6. CASE disk.row.status = "Recording" /\ Write("row", SetStatus("Failed"), v, Idle)
    <3>1. FrugalStep
      BY <1>3, <2>3, <2>6, RowsOk, IdleIsFrugal, WriteIsFrugal
    <3> QED BY <1>0, <3>1, FrugalInside
  <2> QED BY <2>1, <2>4, <2>5, <2>6
<1>8. CASE ReapRow
  <2>1. disk.row # NoRow
    BY <1>8, RowThere DEF ReapRow, At, OpenPcs
  <2>2. FrugalStep
    BY <1>3, <1>8, <2>1, IdleIsFrugal, WriteIsFrugal DEF ReapRow
  <2> QED BY <1>0, <2>2, FrugalInside
<1> QED BY <1>4, <1>5, <1>6, <1>7, <1>8

LEMMA WorkAsr ==
    ASSUME Inv, NoteInv, AsrInv, Work
    PROVE  AsrInv'
<1>1. CASE ClaimJob
  BY <1>1, ClaimJobAsr
<1>2. CASE Route
  BY <1>2, RouteAsr
<1>3. CASE Legacy \/ Transcribe
  BY <1>3, LegacyAsr, TranscribeAsr
<1>4. CASE RunAsr
  BY <1>4, RunAsrAsr
<1>5. CASE RecoverRunning \/ Resume \/ ResumeRow \/ Reap \/ ReapRow
  BY <1>5, RestartAsr
<1>6. CASE Dispatch \/ Stale \/ MissingAudio \/ CompleteNote \/ FileCheckpoint
  <2>1. Inside /\ w.pc \notin {"collect", "collectLost"}
    BY <1>6 DEF Dispatch, Stale, MissingAudio, CompleteNote, FileCheckpoint, At
  <2> QED BY <1>6, <2>1, RoutingIsFrugal, FrugalInside
<1>7. CASE \/ Refuse \/ StoreCheckpoint \/ Promote \/ CleanStaging \/ FileNote \/ KeepNote
           \/ CompleteWithNote \/ Tidy
  <2>1. Inside /\ w.pc \notin {"collect", "collectLost"}
    BY <1>7 DEF Refuse, StoreCheckpoint, Promote, CleanStaging, FileNote, KeepNote,
                CompleteWithNote, Tidy, At
  <2> QED BY <1>7, <2>1, FilingIsFrugal, FrugalInside
<1>8. CASE FailRow \/ CloseNote
  <2>1. Inside /\ w.pc \notin {"collect", "collectLost"}
    BY <1>8 DEF FailRow, CloseNote, At
  <2> QED BY <1>8, <2>1, FailingIsFrugal, FrugalInside
<1>9. CASE SettleOk \/ SettleError \/ Park \/ Reschedule \/ Backoff
  <2>1. Inside /\ w.pc \notin {"collect", "collectLost"}
    BY <1>9 DEF SettleOk, SettleError, Park, Reschedule, Backoff, At
  <2> QED BY <1>9, <2>1, SettlingIsFrugal, FrugalInside
<1> QED BY <1>1, <1>2, <1>3, <1>4, <1>5, <1>6, <1>7, <1>8, <1>9 DEF Work

LEMMA WriteParts ==
    ASSUME Inv, NEW kind, NEW saved, NEW good, NEW bad, Write(kind, saved, good, bad)
    PROVE  /\ (disk' = saved /\ w' = good) \/ (disk' = disk /\ w' = bad)
           /\ spent'.manual = spent.manual
<1>1. PICK ok \in BOOLEAN : /\ Outcome(kind, ok) /\ disk' = (IF ok THEN saved ELSE disk)
                            /\ w' = (IF ok THEN good ELSE bad)
  BY DEF Write
<1>2. spent'.manual = spent.manual
  BY <1>1, SpentOk DEF Inv, Types
<1> QED BY <1>1, <1>2

\* Steps of the call, its session and their handlers come before the first decode: only
\* what they grant matters.
LEMMA EarlyAsr ==
    ASSUME Inv, Inv', AsrInv, Early(w), log'.asr = log.asr, spent'.manual = spent.manual,
           Queued(inbox') <= Queued(inbox),
           Credit(disk', w') <= Credit(disk, w) \/ Credit(disk', w') <= Retries + 1,
           w'.pc \in {"legacy", "transcribe", "asr"} =>
               w' = w /\ disk'.job = disk.job /\ disk'.row = disk.row,
           live'.state \in {"finishing", "ready"} =>
               Has("process")' \/ w'.pc \in {"collect", "collectLost"}
    PROVE  AsrInv'
<1>1. log.asr = 0
  <2>1. ~ (log.asr > 0) /\ log.asr \in Nat
    BY Here DEF AsrInv, AsrAt, LogType
  <2> QED BY <2>1
<1>2. /\ Queued(inbox) \in Nat /\ Queued(inbox') \in Nat /\ spent.manual \in Nat
      /\ Queued(inbox) <= spent.manual /\ Retries \in Nat
      /\ Granted(inbox, spent) \in Nat /\ Granted(inbox, spent) >= Retries + 1
  BY GrantedOk, RetryingIsFinite, BoundsAssumption DEF AsrInv, Inv, Types
<1>3. Granted(inbox', spent') \in Nat /\ Granted(inbox, spent) <= Granted(inbox', spent')
  <2> DEFINE a == spent.manual - Queued(inbox)
             b == spent.manual - Queued(inbox')
  <2>1. a \in Nat /\ b \in Nat /\ a <= b
    BY <1>2
  <2>2. Granted(inbox, spent) = Allowance(a) /\ Granted(inbox', spent') = Allowance(b)
    BY DEF Granted
  <2> HIDE DEF a, b
  <2> QED BY <2>1, <2>2, AllowanceGrows
<1>4. Credit(disk, w) \in Nat /\ Credit(disk', w') \in Nat
  BY CreditOk DEF Inv, Good, Kept
<1>5. Credit(disk, w) <= Granted(inbox, spent)
  BY <1>1, <1>2, <1>4 DEF AsrInv, AsrAt
<1>6. log'.asr + Credit(disk', w') <= Granted(inbox', spent')
  BY <1>1, <1>2, <1>3, <1>4, <1>5
<1>7. /\ w'.pc \in {"legacy", "transcribe", "asr"} => Within(disk')
      /\ w'.pc = "asr" => disk'.row.attempted /\ disk'.row.status # "Recording"
  BY DEF AsrInv, AsrAt, Within
<1>8. ~ (log'.asr > 0) /\ Queued(inbox') <= spent'.manual
  BY <1>1, <1>2
<1> QED BY <1>6, <1>7, <1>8
        DEF AsrInv, AsrAt, Credit, Within, Granted, Queued, Retrying, Allowance

LEMMA KeptCredit ==
    ASSUME Inv, NEW d, NEW v, d.job \in {disk.job, NoJob}, v.pc \in BeforeAsr => w.pc \in BeforeAsr
    PROVE  Credit(d, v) <= Credit(disk, w)
<1>1. disk.job # NoJob => disk.job.attempts \in Nat /\ disk.job.max \in Nat
  BY Here DEF Good, Kept, JobOk, Job
<1> QED BY <1>1 DEF Credit, Within

LEMMA TakeQueued ==
    ASSUME Inv, NEW m, Take(m)
    PROVE  Queued(inbox') <= Queued(inbox) /\ Queued(inbox') \in Nat
<1>1. inbox \in Seq(Msgs) /\ inbox # <<>> /\ inbox' = Tail(inbox) /\ inbox' \in Seq(Msgs)
  BY DEF Take, Inv, Types
<1>2. Queued(inbox') \in Nat /\ Queued(inbox) \in Nat
  BY <1>1, RetryingIsFinite
<1>3. Queued(inbox') <= IF Head(inbox) = "retry" THEN Queued(inbox) - 1 ELSE Queued(inbox)
  BY <1>1, QueuedTail
<1> QED BY <1>2, <1>3

\* A handler of the opening takes its message, or goes on.
LEMMA OpeningTakes ==
    ASSUME Inv, Inv', AsrInv, NEW m, Take(m), live' = live, log' = log, Early(w),
           spent'.manual = spent.manual, disk'.job \in {disk.job, NoJob},
           w'.pc \notin BeforeAsr, m = "process" => w'.pc \in {"collect", "collectLost"}
    PROVE  AsrInv'
<1>1. w.pc = "idle" /\ (m # "process" => (Has("process")' <=> Has("process")))
  BY TakeFacts, TakeLeaves
<1>2. live'.state \in {"finishing", "ready"} => Has("process")' \/ w'.pc \in {"collect", "collectLost"}
  BY <1>1 DEF AsrInv, AsrAt
<1> QED BY <1>2, TakeQueued, KeptCredit, EarlyAsr DEF BeforeAsr

LEMMA OpeningGoes ==
    ASSUME Inv, Inv', AsrInv, inbox' = inbox, log' = log, Early(w),
           spent'.manual = spent.manual, w'.pc \notin BeforeAsr,
           Credit(disk', w') <= Credit(disk, w) \/ Credit(disk', w') <= Retries + 1,
           live'.state = "none" \/ (live' = live /\ w.pc \notin {"collect", "collectLost"})
    PROVE  AsrInv'
<1>1. Queued(inbox') <= Queued(inbox) /\ \A m : Has(m)' = Has(m)
  BY GrantedOk DEF Has
<1>2. live'.state \in {"finishing", "ready"} => Has("process")' \/ w'.pc \in {"collect", "collectLost"}
  BY <1>1 DEF AsrInv, AsrAt
<1> QED BY <1>1, <1>2, EarlyAsr DEF BeforeAsr

LEMMA ProcessAsr ==
    ASSUME Inv, Inv', AsrInv, Process
    PROVE  AsrInv'
<1> DEFINE d == [disk EXCEPT !.row = IF @ = NoRow THEN NewRow ELSE @]
<1>1. Take("process") /\ UNCHANGED <<live, configured, log>>
      /\ Write("row", d, To("collect"), To("collectLost"))
  BY DEF Process
<1>2. d.job = disk.job /\ To("collect").pc = "collect" /\ To("collectLost").pc = "collectLost"
  BY Here, MakesRow, Moves DEF Pcs
<1> HIDE DEF d
<1>3. disk'.job = disk.job /\ w'.pc \in {"collect", "collectLost"} /\ spent'.manual = spent.manual
  BY <1>1, <1>2, WriteParts
<1>4. Early(w)
  BY <1>1, TakeFacts DEF Early, Waiting, CallPending
<1> QED BY <1>1, <1>3, <1>4, OpeningTakes DEF BeforeAsr

LEMMA CollectAsr ==
    ASSUME Inv, Inv', AsrInv, CollectFiled \/ CollectBatch \/ CollectLost
    PROVE  AsrInv'
<1>1. w.pc \in {"collect", "collectLost"} /\ Collected /\ UNCHANGED <<inbox, log>>
  BY DEF CollectFiled, CollectBatch, CollectLost, At
<1>2. live'.state = "none" /\ Early(w)
  BY <1>1 DEF Collected, Inv, Types, LiveType, Early, Opening
<1>3. CASE CollectFiled
  <2>1. PICK x, y : Goto([To("clean") EXCEPT !.note = x, !.ck = y])
    BY <1>3 DEF CollectFiled
  <2> DEFINE v == [To("clean") EXCEPT !.note = x, !.ck = y]
  <2>2. v.pc = "clean"
    BY Here DEF To, WorkerType
  <2> HIDE DEF v
  <2>3. disk' = disk /\ w' = v /\ spent' = spent
    BY <2>1 DEF Goto, v
  <2>4. w'.pc \notin BeforeAsr /\ disk'.job = disk.job
    BY <2>2, <2>3 DEF BeforeAsr
  <2> QED BY <1>1, <1>2, <2>3, <2>4, KeptCredit, OpeningGoes
<1>4. CASE CollectLost
  <2> DEFINE v == [To("close") EXCEPT !.note = Partial(live.note), !.why = "unarmed"]
  <2>1. Goto(v) \/ Goto(Idle)
    BY <1>4 DEF CollectLost
  <2>2. v.pc = "close" /\ Idle.pc = "idle"
    BY Here, IdleOk DEF To, WorkerType
  <2> HIDE DEF v
  <2>3. disk' = disk /\ w' \in {v, Idle} /\ spent' = spent
    BY <2>1 DEF Goto
  <2>4. w'.pc \notin BeforeAsr /\ disk'.job = disk.job
    BY <2>2, <2>3 DEF BeforeAsr
  <2> QED BY <1>1, <1>2, <2>3, <2>4, KeptCredit, OpeningGoes
<1>5. CASE CollectBatch
  <2> DEFINE note == IF HadSession THEN live.note ELSE NoNote
             payload == [Blank EXCEPT !.note = note, !.origin = FirstOrigin,
                                      !.first = FreshBatch, !.finished = TRUE]
             max == IF HadSession \/ FreshBatch THEN Retries + 1 ELSE Retries
             d == Arm(payload, max)
             v == FailWith("unarmed", Partial(note))
  <2>1. w.pc = "collect" /\ Write("job", d, Idle, v)
    BY <1>5 DEF CollectBatch, At
  <2>2. disk.job = NoJob
    BY <2>1, Here DEF Good, ClaimAt, Unclaimed
  <2>3. note \in Notes \cup {NoNote} /\ max \in Nat /\ max <= Retries + 1
    BY BoundsAssumption DEF Inv, Types, LiveType
  <2>4. payload \in Payload /\ WellOwned(payload)
    <3>1. FirstOrigin \in Backends \cup {Unknown} /\ FreshBatch \in BOOLEAN
      BY BackendsAssumption, Here
         DEF FirstOrigin, FreshBatch, HadSession, Inv, Types, DiskType, RowType
    <3> HIDE DEF note
    <3> QED BY <2>3, <3>1 DEF Blank, Payload, WellOwned
  <2>5. v.pc = "fail"
    <3>1. Partial(note) \in Owned /\ "unarmed" \in Reasons
      BY <2>3, OwnedOk DEF Reasons
    <3> QED BY <3>1, Here, FailsWith
  <2> HIDE DEF payload, max, v
  <2>6. Credit(d, Idle) <= Retries + 1
    BY <2>2, <2>3, <2>4, IdleOk, ArmedCredit DEF BeforeAsr
  <2>7. Credit(disk, v) <= Credit(disk, w)
    BY <2>5, KeptCredit DEF BeforeAsr
  <2> HIDE DEF d
  <2>8. (disk' = d /\ w' = Idle) \/ (disk' = disk /\ w' = v)
    BY <2>1, WriteParts
  <2>9. w'.pc \notin BeforeAsr
    BY <2>5, <2>8, IdleOk DEF BeforeAsr
  <2>10. Credit(disk', w') <= Credit(disk, w) \/ Credit(disk', w') <= Retries + 1
    <3>1. CASE disk' = d /\ w' = Idle
      BY <2>6, <3>1
    <3>2. CASE disk' = disk /\ w' = v
      BY <2>7, <3>2
    <3> QED BY <2>8, <3>1, <3>2
  <2>11. spent'.manual = spent.manual
    BY <2>1, WriteParts
  <2> QED BY <1>1, <1>2, <2>9, <2>10, <2>11, OpeningGoes
<1> QED BY <1>3, <1>4, <1>5

LEMMA ScheduleAsr ==
    ASSUME Inv, Inv', AsrInv, Schedule
    PROVE  AsrInv'
<1> DEFINE note == Or(w.err, Or(OwnedNote(disk.ckpt), w.note))
           payload == [Blank EXCEPT !.note = note.note, !.canonical = note.canonical,
                                    !.origin = Local]
           d == Arm(payload, Retries)
           v == [To("scheduleRow") EXCEPT !.note = note]
           u == FailWith("unarmed", note)
<1>1. w.pc = "schedule" /\ Inside /\ Write("job", d, v, u)
  BY DEF Schedule, At
<1>2. w.claim = NoJob /\ disk.job = NoJob
  BY <1>1, Here DEF Good, ClaimAt, Unclaimed
<1>3. note \in Owned /\ WellOwned(note)
  BY Here, OwnedOk DEF Good, Kept
<1> HIDE DEF note
<1>4. payload \in Payload /\ WellOwned(payload)
  BY <1>3, BackendsAssumption DEF Blank, Payload, WellOwned, Owned
<1> HIDE DEF payload
<1>5. u.pc = "fail"
  <2>1. "unarmed" \in Reasons
    BY DEF Reasons
  <2> QED BY <1>3, <2>1, Here, FailsWith
<1>6. v.pc = "scheduleRow"
  BY Here DEF To, WorkerType
<1> HIDE DEF u, v
<1>7. Credit(d, v) <= Retries + 1
  <2>1. Retries \in Nat /\ Retries <= Retries + 1
    BY BoundsAssumption
  <2> QED BY <1>2, <1>4, <1>6, <2>1, ArmedCredit DEF BeforeAsr
<1>8. Credit(disk, u) <= Credit(disk, w)
  BY <1>5, KeptCredit DEF BeforeAsr
<1> HIDE DEF d
<1>9. (disk' = d /\ w' = v) \/ (disk' = disk /\ w' = u)
  BY <1>1, WriteParts
<1>10. w'.pc \notin BeforeAsr
  BY <1>5, <1>6, <1>9 DEF BeforeAsr
<1>11. Credit(disk', w') <= Credit(disk, w) \/ Credit(disk', w') <= Retries + 1
  <2>1. CASE disk' = d /\ w' = v
    BY <1>7, <2>1
  <2>2. CASE disk' = disk /\ w' = u
    BY <1>8, <2>2
  <2> QED BY <1>9, <2>1, <2>2
<1>12. spent'.manual = spent.manual /\ Early(w)
  BY <1>1, <1>2, WriteParts DEF Early, Filing
<1> QED BY <1>1, <1>10, <1>11, <1>12, OpeningGoes DEF Inside

LEMMA ScheduleRowAsr ==
    ASSUME Inv, AsrInv, ScheduleRow
    PROVE  AsrInv'
<1>1. w.pc = "scheduleRow" /\ Inside /\ Write("row", SetRow(RetryStatus, w.note.note), Idle, Idle)
  BY DEF ScheduleRow, At
<1>2. disk.row # NoRow /\ RetryStatus \in Statuses /\ RetryStatus # "Recording"
      /\ w.note.note \in Notes \cup {NoNote}
  BY <1>1, RowThere, RetryStatusOk, Here DEF OpenPcs, InProgress, Owned
<1>3. FrugalStep
  BY <1>1, <1>2, RowsAreFrugal, IdleIsFrugal, WriteIsFrugal
<1> QED BY <1>1, <1>3, FrugalInside

LEMMA FrugalTake ==
    ASSUME Inv, Inv', AsrInv, NEW m, Take(m), m # "process", live' = live, log' = log, FrugalStep
    PROVE  AsrInv'
<1>1. w.pc = "idle"
  BY DEF Take, At
<1>2. AsrAt(disk', w', log')
  BY <1>1, FrugalAsr DEF FrugalStep
<1> QED BY <1>2, TakeAsr DEF FrugalStep

LEMMA NoteCreatedAsr ==
    ASSUME Inv, Inv', AsrInv, NoteCreated
    PROVE  AsrInv'
<1> DEFINE d == SetRow(disk.row.status, live.note)
           e == [disk EXCEPT !.row = NewRow]
           v == To("noteRow")
<1>1. /\ Take("note") /\ live' = live /\ log' = log
      /\ \/ disk.row # NoRow /\ Write("row", d, Idle, Idle)
         \/ AcceptsNote /\ Write("row", e, v, Idle)
         \/ Goto(Idle)
  BY DEF NoteCreated
<1>2. CASE disk.row # NoRow /\ Write("row", d, Idle, Idle)
  <2>1. FrugalDisk(d)
    BY <1>2, RowsAreFrugal, Here DEF Inv, Types, LiveType
  <2> HIDE DEF d
  <2>2. FrugalStep
    BY <1>2, <2>1, IdleIsFrugal, WriteIsFrugal
  <2> QED BY <1>1, <2>2, FrugalTake
<1>3. CASE AcceptsNote /\ Write("row", e, v, Idle)
  <2>1. Early(w)
    BY <1>3 DEF AcceptsNote, Early, Waiting
  <2>2. e.job = disk.job /\ v.pc = "noteRow" /\ Idle.pc = "idle"
    BY Here, Moves, IdleOk DEF DiskType, Pcs
  <2> HIDE DEF e, v
  <2>3. ((disk' = e /\ w' = v) \/ (disk' = disk /\ w' = Idle)) /\ spent'.manual = spent.manual
    BY <1>3, WriteParts
  <2>4. disk'.job = disk.job /\ w'.pc \in {"noteRow", "idle"}
    BY <2>2, <2>3
  <2> QED BY <1>1, <2>1, <2>3, <2>4, OpeningTakes DEF BeforeAsr
<1>4. CASE Goto(Idle)
  BY <1>1, <1>4, IdleIsFrugal, GotoIsFrugal, FrugalTake
<1> QED BY <1>1, <1>2, <1>3, <1>4

LEMMA NoteRowAsr ==
    ASSUME Inv, Inv', AsrInv, NoteRow
    PROVE  AsrInv'
<1> DEFINE d == SetRow("Recording", live.note)
<1>1. w.pc = "noteRow" /\ Inside /\ Write("row", d, Idle, Idle)
  BY DEF NoteRow, At
<1>2. d.job = disk.job
  <2>1. "Recording" \in Statuses /\ live.note \in Notes \cup {NoNote}
    BY DEF Statuses, Inv, Types, LiveType
  <2> QED BY <2>1, Here, SetsRow
<1> HIDE DEF d
<1>3. disk'.job = disk.job /\ w' = Idle /\ spent'.manual = spent.manual
  BY <1>1, <1>2, WriteParts
<1>4. w'.pc \notin BeforeAsr /\ Early(w)
  BY <1>1, <1>3, IdleOk DEF BeforeAsr, Early, Opening
<1> QED BY <1>1, <1>3, <1>4, KeptCredit, OpeningGoes DEF Inside

LEMMA DiscardedAsr ==
    ASSUME Inv, Inv', AsrInv, Discarded
    PROVE  AsrInv'
<1> DEFINE d == [disk EXCEPT !.job = NoJob]
           v == To("discardRow")
<1>1. Take("discarded") /\ live' = live /\ log' = log /\ Write("job", d, v, v)
  BY DEF Discarded
<1>2. d.job = NoJob /\ v.pc = "discardRow"
  BY Here, SetsJob, Moves DEF Pcs
<1> HIDE DEF d, v
<1>3. disk'.job \in {disk.job, NoJob} /\ w' = v /\ spent'.manual = spent.manual
  BY <1>1, <1>2, WriteParts
<1>4. Early(w)
  BY <1>1, TakeFacts DEF Early, Waiting, CallPending
<1> QED BY <1>1, <1>2, <1>3, <1>4, OpeningTakes DEF BeforeAsr

LEMMA DiscardRowAsr ==
    ASSUME Inv, AsrInv, DiscardRow
    PROVE  AsrInv'
<1>1. /\ w.pc = "discardRow" /\ Inside
      /\ \/ Goto(Idle)
         \/ disk.row.status # "none" /\ Write("row", SetStatus("Failed"), Idle, Idle)
  BY DEF DiscardRow, At
<1>2. disk.row.status # "none" => FrugalDisk(SetStatus("Failed"))
  BY Here, RowsAreFrugal, RowsOk DEF Statuses, Settled
<1>3. FrugalStep
  BY <1>1, <1>2, IdleIsFrugal, WriteIsFrugal, GotoIsFrugal
<1> QED BY <1>1, <1>3, FrugalInside

LEMMA LeftoverAsr ==
    ASSUME Inv, Inv', AsrInv, Leftover
    PROVE  AsrInv'
<1> DEFINE d == SetNote(live.note, "absent")
           v == To("leftoverRow")
<1>1. Take("leftover") /\ live' = live /\ log' = log /\ Write("note", d, Idle, v)
  BY DEF Leftover
<1>2. d.job = disk.job /\ v.pc = "leftoverRow"
  BY Here, SetsNote, Moves DEF Pcs, Contents
<1> HIDE DEF d, v
<1>3. disk'.job = disk.job /\ w' \in {v, Idle} /\ spent'.manual = spent.manual
  BY <1>1, <1>2, WriteParts
<1>4. w'.pc \notin BeforeAsr
  BY <1>2, <1>3, IdleOk DEF BeforeAsr
<1>5. Early(w)
  BY <1>1, TakeFacts DEF Early, Waiting
<1> QED BY <1>1, <1>3, <1>4, <1>5, OpeningTakes

LEMMA LeftoverRowAsr ==
    ASSUME Inv, Inv', AsrInv, LeftoverRow \/ LeftoverFail
    PROVE  AsrInv'
<1> DEFINE d == [disk EXCEPT !.row = IF @ = NoRow THEN NewRow ELSE @]
           e == SetRow("Failed", live.note)
           v == To("leftoverFail")
           u == ClosesLeftover
           good == IF disk.row.status = "Done" THEN u ELSE v
<1>1. /\ w.pc \in {"leftoverRow", "leftoverFail"} /\ Inside
      /\ Write("row", d, good, u) \/ Write("row", e, u, u)
  BY DEF LeftoverRow, LeftoverFail, At
<1>2. d.job = disk.job /\ e.job = disk.job
  <2>1. "Failed" \in Statuses /\ live.note \in Notes \cup {NoNote}
    BY DEF Statuses, Settled, Inv, Types, LiveType
  <2> QED BY <2>1, Here, SetsRow, MakesRow
<1>3. v.pc = "leftoverFail" /\ u.pc = "close" /\ good \in {u, v}
  BY Here DEF To, WorkerType, ClosesLeftover
<1> HIDE DEF d, e, u, v, good
<1>4. disk'.job = disk.job /\ w' \in {u, v} /\ spent'.manual = spent.manual
  BY <1>1, <1>2, <1>3, WriteParts
<1>5. w'.pc \notin BeforeAsr /\ Early(w)
  BY <1>1, <1>3, <1>4 DEF BeforeAsr, Early, Opening
<1> QED BY <1>1, <1>4, <1>5, KeptCredit, OpeningGoes DEF Inside

\* What a manual retry grants was counted when the user asked for it.
LEMMA ManualRetryAsr ==
    ASSUME Inv, Inv', AsrInv, ManualRetry
    PROVE  AsrInv'
<1> DEFINE d == [disk EXCEPT !.job = Rearmed, !.row.status = RetryStatus]
<1>1. /\ Take("retry") /\ live' = live /\ log' = log
      /\ Goto(Idle) \/ (disk.row.status = "Failed" /\ Write("job", d, Idle, Idle))
  BY DEF ManualRetry
<1>2. CASE Goto(Idle)
  BY <1>1, <1>2, IdleIsFrugal, GotoIsFrugal, FrugalTake
<1>3. CASE disk.row.status = "Failed" /\ Write("job", d, Idle, Idle)
  <2>1. /\ d.job = Rearmed /\ d.row.status = RetryStatus /\ d.row.attempted = disk.row.attempted
    BY Here DEF DiskType, RowType
  <2> HIDE DEF d
  <2>2. (disk' = d \/ disk' = disk) /\ w' = Idle /\ spent'.manual = spent.manual
    BY <1>3, WriteParts
  <2>3. CASE disk' = disk
    <3>1. FrugalStep
      BY <2>2, <2>3, RowsAreFrugal, IdleIsFrugal DEF FrugalStep
    <3> QED BY <1>1, <3>1, FrugalTake
  <2>4. CASE disk' = d
    <3>1. log.asr > 0 => Marked(d)
      BY <1>3, <2>1, Here, RowsOk, RetryStatusOk DEF AsrInv, AsrAt, Marked, InProgress
    <3>2. Credit(d, Idle) <= Credit(disk, w) + Retries
      <4>1. Idle.pc \notin BeforeAsr /\ w.pc \notin BeforeAsr
        BY <1>1, IdleOk DEF BeforeAsr, Take, At
      <4>2. Retries \in Nat /\ (disk.job # NoJob => disk.job.attempts \in Nat /\ disk.job.max \in Nat)
        BY Here, BoundsAssumption DEF Good, Kept, JobOk, Job
      <4>3. \/ d.job.attempts = 0 /\ d.job.max = Retries
            \/ /\ disk.job # NoJob /\ d.job.attempts = disk.job.attempts
               /\ d.job.max = disk.job.max
        BY <2>1, RearmedOk
      <4> QED BY <4>1, <4>2, <4>3 DEF Credit, Within
    <3>3. w'.pc = "idle"
      BY <2>2, IdleOk
    <3> QED BY <1>1, <2>2, <2>4, <3>1, <3>2, <3>3, TakeAsr
  <2> QED BY <2>2, <2>3, <2>4
<1> QED BY <1>1, <1>2, <1>3

LEMMA MessagesAsr ==
    ASSUME Inv, Inv', AsrInv, Messages
    PROVE  AsrInv'
  BY ProcessAsr, CollectAsr, ScheduleAsr, ScheduleRowAsr, NoteCreatedAsr, NoteRowAsr, DiscardedAsr,
     DiscardRowAsr, LeftoverAsr, LeftoverRowAsr, ManualRetryAsr DEF Messages

-----------------------------------------------------------------------------
(* The call, the session, the user and retention                            *)

LEMMA CreditStays ==
    ASSUME disk'.job = disk.job, w' = w
    PROVE  Credit(disk', w') = Credit(disk, w)
  BY DEF Credit, Within

\* The call and its session are over before the first decode.
LEMMA SessionAsr ==
    ASSUME Inv, Inv', AsrInv, w' = w, disk'.job = disk.job, disk'.row = disk.row,
           log'.asr = log.asr, spent'.manual = spent.manual,
           live.call \/ live.state # "none",
           inbox' = inbox \/ \E m \in Msgs \ {"retry"} : inbox' = Append(inbox, m),
           live'.state \in {"finishing", "ready"} =>
               live.state \in {"finishing", "ready"} \/ inbox' = Append(inbox, "process")
    PROVE  AsrInv'
<1>1. Early(w)
  BY DEF Early, Waiting, CallPending
<1>2. inbox \in Seq(Msgs) /\ Queued(inbox) \in Nat
  BY GrantedOk DEF Inv, Types
<1>3. Queued(inbox') <= Queued(inbox) /\ (Has("process") => Has("process")')
  <2>1. CASE inbox' = inbox
    BY <1>2, <2>1 DEF Has
  <2>2. CASE \E m \in Msgs \ {"retry"} : inbox' = Append(inbox, m)
    <3>1. PICK m \in Msgs \ {"retry"} : inbox' = Append(inbox, m)
      BY <2>2
    <3>2. Queued(inbox') = Queued(inbox)
      BY <1>2, <3>1, QueuedAppend
    <3> QED BY <1>2, <3>1, <3>2, AppendFacts
  <2> QED BY <2>1, <2>2
<1>4. inbox' = Append(inbox, "process") => Has("process")'
  BY AppendFacts DEF Msgs
<1>5. live'.state \in {"finishing", "ready"} => Has("process")' \/ w'.pc \in {"collect", "collectLost"}
  BY <1>3, <1>4 DEF AsrInv, AsrAt
<1>6. Credit(disk', w') <= Credit(disk, w)
  <2>1. Credit(disk, w) \in Nat
    BY CreditOk, Here DEF Good, Kept
  <2> QED BY <2>1, CreditStays
<1> QED BY <1>1, <1>3, <1>5, <1>6, EarlyAsr

LEMMA LiveAsr ==
    ASSUME Inv, Inv', AsrInv, NEW filed \in BOOLEAN, NEW verdict \in Verdicts,
           LiveCreatesNote \/ LiveSettles(filed) \/ LiveDeletesNote \/ CallEnds(verdict)
    PROVE  AsrInv'
<1>1. CASE LiveCreatesNote
  <2>1. /\ live.state \in {"running", "finishing"} /\ disk' = SetNote(NewNote, "open")
        /\ live' = [live EXCEPT !.note = NewNote] /\ inbox' = Append(inbox, "note")
        /\ log' = [log EXCEPT !.backends = @ \cup {Local}] /\ w' = w /\ spent' = spent
    BY <1>1 DEF LiveCreatesNote
  <2>2. disk'.job = disk.job /\ disk'.row = disk.row
    BY <2>1, Here, SetsNote DEF Contents
  <2>3. live'.state = live.state /\ log'.asr = log.asr /\ "note" \in Msgs \ {"retry"}
    BY <2>1, Here DEF Inv, Types, LiveType, LogType, Msgs
  <2> QED BY <2>1, <2>2, <2>3, SessionAsr
<1>2. CASE LiveSettles(filed)
  <2>1. /\ live.state = "finishing" /\ UNCHANGED <<w, inbox, configured, spent, log>>
        /\ disk' = IF filed THEN SetNote(live.note, "whole") ELSE disk
    BY <1>2 DEF LiveSettles
  <2>2. disk'.job = disk.job /\ disk'.row = disk.row
    BY <2>1, Here, SetsNote DEF Contents
  <2> QED BY <2>1, <2>2, SessionAsr
<1>3. CASE LiveDeletesNote
  <2>1. PICK ok \in BOOLEAN :
           /\ Outcome("note", ok)
           /\ disk' = IF ok /\ live.note # NoNote THEN SetNote(live.note, "absent") ELSE disk
           /\ inbox' = IF ok \/ live.note = NoNote THEN inbox ELSE Append(inbox, "leftover")
    BY <1>3 DEF LiveDeletesNote
  <2>2. /\ live.state = "discarded" /\ live' = [live EXCEPT !.state = "none"]
        /\ UNCHANGED <<w, log>>
    BY <1>3 DEF LiveDeletesNote
  <2>3. disk'.job = disk.job /\ disk'.row = disk.row
    BY <2>1, Here, SetsNote DEF Contents
  <2>4. live'.state = "none" /\ spent'.manual = spent.manual /\ "leftover" \in Msgs \ {"retry"}
    BY <2>1, <2>2, SpentOk DEF Inv, Types, LiveType, Msgs
  <2>5. inbox' = inbox \/ \E m \in Msgs \ {"retry"} : inbox' = Append(inbox, m)
    BY <2>1, <2>4
  <2> QED BY <2>2, <2>3, <2>4, <2>5, SessionAsr
<1>4. CASE CallEnds(verdict)
  <2>1. /\ live.call /\ inbox' = Append(inbox, verdict)
        /\ disk' = [disk EXCEPT !.audio = (verdict = "process")]
        /\ UNCHANGED <<w, configured, spent, log>>
    BY <1>4 DEF CallEnds
  <2>2. disk'.job = disk.job /\ disk'.row = disk.row
    BY <2>1, Here DEF DiskType
  <2>3. live'.state = live.state \/ (live'.state = "finishing" /\ verdict = "process")
        \/ live'.state = "discarded"
    BY <1>4 DEF CallEnds, Inv, Types, LiveType
  <2>4. verdict \in Msgs \ {"retry"}
    BY DEF Verdicts, Msgs
  <2> QED BY <2>1, <2>2, <2>3, <2>4, SessionAsr
<1> QED BY <1>1, <1>2, <1>3, <1>4

\* A retry that is asked for waits in the channel: nothing is granted yet.
LEMMA UserRetriesAsr ==
    ASSUME Inv, Inv', AsrInv, UserRetries
    PROVE  AsrInv'
<1>1. /\ inbox' = Append(inbox, "retry") /\ spent' = [spent EXCEPT !.manual = @ + 1]
      /\ UNCHANGED <<disk, w, live, configured, log>>
  BY DEF UserRetries
<1>2. "retry" \in Msgs
  BY DEF Msgs
<1>3. Queued(inbox') = Queued(inbox) + 1
  BY <1>1, <1>2, QueuedAppend DEF Inv, Types
<1>4. spent'.manual = spent.manual + 1
  BY <1>1 DEF Inv, Types, SpentType
<1>5. \A x : Has(x)' <=> Has(x) \/ x = "retry"
  BY <1>1, <1>2, AppendFacts
<1>6. Waiting' <=> Waiting
  BY <1>1, <1>5 DEF Waiting, CallPending
<1>7. Queued(inbox)' <= spent'.manual /\ Granted(inbox, spent)' = Granted(inbox, spent)
  <2>1. Queued(inbox) \in Nat /\ spent.manual \in Nat /\ Queued(inbox) <= spent.manual
    BY GrantedOk DEF AsrInv
  <2>2. spent'.manual - Queued(inbox') = spent.manual - Queued(inbox)
        /\ Queued(inbox') <= spent'.manual
    BY <1>3, <1>4, <2>1
  <2> QED BY <2>2 DEF Granted
<1>8. Has("process")' <=> Has("process")
  BY <1>5
<1> QED BY <1>1, <1>6, <1>7, <1>8 DEF AsrInv, AsrAt, Early, Credit, Within, Marked

LEMMA AroundAsr ==
    ASSUME Inv, AsrInv, UNCHANGED <<w, inbox, live, log>>, spent'.manual = spent.manual,
           disk'.job = disk.job, disk'.row = disk.row
    PROVE  AsrInv'
<1>1. AsrAt(disk', w', log')
  BY DEF AsrInv, AsrAt, Credit, Within, Early, Marked
<1> QED BY <1>1, InsideAsr

LEMMA OtherFilesAsr ==
    ASSUME Inv, AsrInv, NEW n,
           ReloadConfig \/ AudioVanishes \/ VaultMovesNote(n) \/ UNCHANGED vars
    PROVE  AsrInv'
<1>1. CASE ReloadConfig \/ UNCHANGED vars
  BY <1>1, AroundAsr DEF ReloadConfig, vars
<1>2. CASE AudioVanishes
  <2>1. /\ disk' = [disk EXCEPT !.audio = FALSE] /\ Outcome("audio", FALSE)
        /\ UNCHANGED <<w, inbox, live, configured, log>>
    BY <1>2 DEF AudioVanishes
  <2>2. disk'.job = disk.job /\ disk'.row = disk.row /\ spent'.manual = spent.manual
    BY <2>1, Here, SpentOk DEF DiskType, Inv, Types
  <2> QED BY <2>1, <2>2, AroundAsr
<1>3. CASE VaultMovesNote(n)
  <2>1. disk' = [disk EXCEPT !.moved = @ \cup {n}]
        /\ UNCHANGED <<w, inbox, live, configured, spent, log>>
    BY <1>3 DEF VaultMovesNote
  <2>2. disk'.job = disk.job /\ disk'.row = disk.row
    BY <2>1, Here DEF DiskType
  <2> QED BY <2>1, <2>2, AroundAsr
<1> QED BY <1>1, <1>2, <1>3

\* A crash forgets the retries that were queued, and the attempt in progress.
LEMMA CrashAsr ==
    ASSUME Inv, AsrInv, Crash
    PROVE  AsrInv'
<1>1. /\ spent' = [spent EXCEPT !.crashes = @ + 1] /\ w' = [Idle EXCEPT !.pc = "startup"]
      /\ inbox' = <<>> /\ live' = [live EXCEPT !.call = FALSE, !.state = "none", !.filed = FALSE]
      /\ log' = log
  BY DEF Crash
<1>2. disk'.job = disk.job /\ disk'.row = disk.row
  BY Here DEF Crash, DiskType
<1>3. w'.pc = "startup" /\ ~ live'.call /\ live'.state = "none" /\ spent'.manual = spent.manual
      /\ \A x : ~ Has(x)'
  BY <1>1 DEF Idle, Inv, Types, LiveType, SpentType, Has
<1>4. ~ Early(w)'
  BY <1>3 DEF Early, Waiting, CallPending, Opening, Filing
<1>5. Queued(inbox') = 0
  BY <1>1, QueuedEmpty
<1>6. Granted(inbox', spent') \in Nat /\ Granted(inbox, spent) <= Granted(inbox', spent')
      /\ Granted(inbox, spent) \in Nat
  <2>1. /\ Queued(inbox) \in Nat /\ spent.manual \in Nat /\ spent.manual - Queued(inbox) \in Nat
        /\ Granted(inbox, spent) \in Nat
    BY GrantedOk
  <2> DEFINE a == spent.manual - Queued(inbox)
  <2>2. a \in Nat /\ a <= spent.manual /\ spent'.manual - Queued(inbox') = spent.manual
    BY <1>3, <1>5, <2>1
  <2>3. Granted(inbox, spent) = Allowance(a) /\ Granted(inbox', spent') = Allowance(spent.manual)
    BY <2>2 DEF Granted
  <2> HIDE DEF a
  <2> QED BY <2>1, <2>2, <2>3, AllowanceGrows
<1>7. Credit(disk', w') \in Nat /\ Credit(disk, w) \in Nat /\ Credit(disk', w') <= Credit(disk, w)
  <2>1. disk.job # NoJob => JobOk(disk.job)
    BY Here DEF Good, Kept
  <2>2. w'.pc \notin BeforeAsr
    BY <1>3 DEF BeforeAsr
  <2> QED BY <1>2, <2>1, <2>2, CreditOk, KeptCredit
<1>8. log'.asr + Credit(disk', w') <= Granted(inbox', spent')
  <2>1. log.asr \in Nat /\ log.asr + Credit(disk, w) <= Granted(inbox, spent)
    BY Here DEF AsrInv, AsrAt, LogType
  <2> QED BY <1>1, <1>6, <1>7, <2>1
<1>9. Marked(disk') <=> Marked(disk)
  BY <1>2 DEF Marked
<1>10. log'.asr > 0 => Marked(disk')
  BY <1>1, <1>9 DEF AsrInv, AsrAt
<1>11. Queued(inbox)' <= spent'.manual
  BY <1>3, <1>5 DEF Inv, Types, SpentType
<1> QED BY <1>3, <1>4, <1>8, <1>10, <1>11
        DEF AsrInv, AsrAt, Credit, Within, Marked, Granted, Queued, Retrying, Allowance

LEMMA SweepAsr ==
    ASSUME NEW left \in SUBSET {"audio", "ckpt"}, NEW forget \in BOOLEAN, Inv, AsrInv,
           Sweep(left, forget)
    PROVE  AsrInv'
<1> DEFINE kept == [disk EXCEPT !.audio = @ /\ "audio" \in left,
                                !.ckpt = IF "ckpt" \in left THEN @ ELSE NoCkpt]
           absent == ~kept.audio /\ ~kept.ckpt.valid
           d == [kept EXCEPT !.job = IF absent THEN NoJob ELSE @,
                             !.row = IF forget THEN NoRow ELSE @]
<1>1. w.pc = "idle" /\ Outcome("sweep", absent) /\ disk' = d /\ w' = w /\ Inside
  BY DEF Sweep, At
<1>2. kept \in DiskType /\ kept.row = disk.row /\ kept.job = disk.job /\ absent \in BOOLEAN
  BY Here, IdleOk DEF DiskType
<1> HIDE DEF kept
<1>3. d.job \in {disk.job, NoJob} /\ d.row \in {NoRow, disk.row}
  <2> HIDE DEF absent
  <2> QED BY <1>2, RowsOk DEF DiskType
<1> HIDE DEF d, absent
<1>4. FrugalDisk(disk') /\ FrugalThread(w')
  BY <1>1, <1>3 DEF FrugalDisk, FrugalThread, Opening, BeforeAsr, Filing
<1>5. spent'.manual = spent.manual
  BY <1>1, <1>2, SpentOk DEF Inv, Types
<1> QED BY <1>1, <1>4, <1>5, FrugalInside DEF FrugalStep

-----------------------------------------------------------------------------
(* The invariant holds                                                      *)

LEMMA InitAsr == Init => AsrInv
<1> SUFFICES ASSUME Init PROVE AsrInv
  OBVIOUS
<1>1. /\ w = Idle /\ inbox = <<>> /\ live.state \in {"none", "running"}
      /\ disk = (IF live.call THEN EmptyDisk ELSE LegacyDisk)
      /\ spent.manual = 0 /\ log.asr = 0
  BY DEF Init
<1>2. Retries \in Nat /\ Queued(inbox) = 0
  BY <1>1, QueuedEmpty, BoundsAssumption
<1>3. Granted(inbox, spent) = Allowance(0) /\ Allowance(0) \in Nat /\ Allowance(0) >= Retries + 1
  BY <1>1, <1>2, AllowanceGrows DEF Granted
<1>4. EmptyDisk.job = NoJob /\ LegacyDisk.job = NewJob(Blank, Retries)
  BY DEF EmptyDisk, LegacyDisk
<1>5. NewJob(Blank, Retries).attempts = 0 /\ NewJob(Blank, Retries).max = Retries
  BY <1>2, BlankOk, NewJobOk
<1>6. w.pc = "idle"
  BY <1>1, IdleOk
<1>7. Credit(disk, w) \in Nat /\ Credit(disk, w) <= Retries
  BY <1>1, <1>2, <1>4, <1>5, <1>6 DEF Credit, Within, BeforeAsr
<1>8. log.asr + Credit(disk, w) <= Granted(inbox, spent)
  BY <1>1, <1>2, <1>3, <1>7
<1> QED BY <1>1, <1>2, <1>6, <1>8 DEF AsrInv, AsrAt

LEMMA NextAsr == Inv /\ Inv' /\ NoteInv /\ AsrInv /\ [Next]_vars => AsrInv'
<1> SUFFICES ASSUME Inv, Inv', NoteInv, AsrInv, [Next]_vars PROVE AsrInv'
  OBVIOUS
<1>1. CASE Environment
  <2>1. TRUE \in BOOLEAN /\ "process" \in Verdicts
    BY DEF Verdicts
  <2>2. CASE LiveCreatesNote
    BY <2>1, <2>2, LiveAsr
  <2>3. CASE \E verdict \in {"process", "discarded"} : CallEnds(verdict)
    BY <2>1, <2>3, LiveAsr DEF Verdicts
  <2>4. CASE UserRetries
    BY <2>4, UserRetriesAsr
  <2>5. CASE Crash
    BY <2>5, CrashAsr
  <2>6. CASE ReloadConfig \/ AudioVanishes \/ \E n \in Notes : VaultMovesNote(n)
    BY <2>6, OtherFilesAsr
  <2> QED BY <1>1, <2>2, <2>3, <2>4, <2>5, <2>6 DEF Environment
<1>2. CASE Session
  <2>1. TRUE \in BOOLEAN /\ "process" \in Verdicts
    BY DEF Verdicts
  <2> QED BY <1>2, <2>1, LiveAsr DEF Session
<1>3. CASE Messages
  BY <1>3, MessagesAsr
<1>4. CASE Work
  BY <1>4, WorkAsr
<1>5. CASE Retention
  BY <1>5, SweepAsr DEF Retention
<1>6. CASE UNCHANGED vars
  BY <1>6, OtherFilesAsr
<1> QED BY <1>1, <1>2, <1>3, <1>4, <1>5, <1>6 DEF Next

LEMMA AsrInvariant == Spec => []AsrInv
<1>1. Inv /\ Inv' /\ NoteInv /\ AsrInv /\ [Next]_vars => AsrInv'
  BY NextAsr
<1>2. Inv /\ [Next]_vars => Inv'
  BY NextKeeps
<1> QED BY <1>1, <1>2, InitAsr, PipelineInvariant, NotesInvariant, PTL DEF Spec

\* ASR is the only step that decodes.
LEMMA OnlyAsrDecodes ==
    ASSUME Inv, [Next]_vars, log'.asr # log.asr
    PROVE  RunAsr
<1>1. log \in LogType
  BY DEF Inv, Types
<1>2. Environment \/ Session \/ Messages \/ Work \/ Retention \/ UNCHANGED vars
  BY DEF Next
<1>3. CASE LiveCreatesNote
  <2>1. log'.asr = log.asr
    BY <1>1, <1>3 DEF LiveCreatesNote, LogType
  <2> QED BY <2>1
<1>4. CASE \/ Environment /\ ~ LiveCreatesNote
           \/ Session \/ Retention \/ UNCHANGED vars
  <2>1. log' = log
    BY <1>4, ZenonT(30) DEF Environment, UserRetries, ReloadConfig, AudioVanishes, Crash, CallEnds,
                VaultMovesNote, Session, LiveDeletesNote, LiveSettles, Retention, Sweep, Inside, vars
  <2> QED BY <2>1
<1>5. CASE Messages
  <2>1. log' = log
    BY <1>5 DEF Messages, Process, CollectFiled, CollectBatch, CollectLost, Schedule, ScheduleRow,
                NoteCreated, NoteRow, Discarded, DiscardRow, Leftover, LeftoverRow, LeftoverFail,
                ManualRetry, Inside
  <2> QED BY <2>1
<1>6. CASE Work /\ ~ RunAsr
  <2>1. log' = log
    BY <1>6
       DEF Work, ClaimJob, Dispatch, Route, Stale, MissingAudio, CompleteNote, FileCheckpoint, Legacy,
           Transcribe, Refuse, StoreCheckpoint, Promote, CleanStaging, FileNote, KeepNote,
           CompleteWithNote, Tidy, FailRow, CloseNote, SettleOk, SettleError, Park, Reschedule, Backoff,
           RecoverRunning, Resume, ResumeRow, Reap, ReapRow, Inside
  <2> QED BY <2>1
<1> QED BY <1>2, <1>3, <1>4, <1>5, <1>6

\* However often the process dies, a settlement fails or a recording is reclaimed, ASR
\* runs at most once for the first attempt, for each of its retries and for each retry a
\* manual retry grants; and never while a checkpoint with the transcript survives, in
\* whatever status the row is claimed (ensure_retry_action_budget, claim_due,
\* retry_action).
THEOREM PipelineAsrIsBounded == Spec => AsrIsBounded
<1>1. Inv /\ NoteInv /\ AsrInv /\ [Next]_vars =>
        [log'.asr # log.asr => /\ ~disk.ckpt.valid
                               /\ log'.asr <= Retries + 1 + Retries * spent.manual]_vars
  <2> SUFFICES ASSUME Inv, NoteInv, AsrInv, [Next]_vars, log'.asr # log.asr
               PROVE  /\ ~disk.ckpt.valid
                      /\ log'.asr <= Retries + 1 + Retries * spent.manual
    OBVIOUS
  <2>1. RunAsr /\ w.pc = "asr"
    BY OnlyAsrDecodes DEF RunAsr, At
  <2>2. ~ disk.ckpt.valid
    BY <2>1 DEF NoteInv, NotesAt, CkptAt, Undecoded
  <2>3. log.asr \in Nat /\ log'.asr = log.asr + 1
    BY <2>1, Here DEF RunAsr, LogType
  <2>4. Credit(disk, w) \in Nat /\ Credit(disk, w) >= 1
    <3>1. Within(disk)
      BY <2>1 DEF AsrInv, AsrAt
    <3>2. disk.job.attempts \in Nat /\ disk.job.max \in Nat
      BY <3>1, Here DEF Within, Good, Kept, JobOk, Job
    <3> QED BY <2>1, <3>1, <3>2 DEF Credit, Within, BeforeAsr
  <2>5. log.asr + Credit(disk, w) <= Granted(inbox, spent)
    BY DEF AsrInv, AsrAt
  <2>6. Granted(inbox, spent) \in Nat /\ Granted(inbox, spent) <= Allowance(spent.manual)
        /\ Allowance(spent.manual) \in Nat
    <3>1. /\ Queued(inbox) \in Nat /\ spent.manual \in Nat /\ spent.manual - Queued(inbox) \in Nat
          /\ Granted(inbox, spent) \in Nat
      BY GrantedOk
    <3> DEFINE a == spent.manual - Queued(inbox)
    <3>2. a \in Nat /\ a <= spent.manual /\ Granted(inbox, spent) = Allowance(a)
      BY <3>1 DEF Granted
    <3> HIDE DEF a
    <3> QED BY <3>1, <3>2, AllowanceGrows
  <2>7. log'.asr <= Allowance(spent.manual)
    BY <2>3, <2>4, <2>5, <2>6
  <2> QED BY <2>2, <2>7 DEF Allowance
<1> QED BY <1>1, PipelineInvariant, NotesInvariant, AsrInvariant, PTL DEF Spec, AsrIsBounded
=============================================================================
