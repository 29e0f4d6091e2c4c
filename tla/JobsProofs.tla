----------------------------- MODULE JobsProofs -----------------------------
(***************************************************************************)
(* Proofs about Jobs, for every set of recordings, chores and sweeps, every *)
(* payload and every bound.  The four invariants the run checks are         *)
(* inductive together, once it is known that at most one claim is out.      *)
(***************************************************************************)
EXTENDS Jobs, TLAPS

OneClaim == \A c, d \in claims : c = d

Inv == TypeOK /\ OneRowPerOwner /\ HandlerOwnsRow /\ RunsAreCharged /\ OneClaim

\* What one step does to every row: the bodies of the two action properties.
GrowStep ==
    \A i \in Ids : table[i].owner \in Recordings /\ table'[i].owner = table[i].owner
                   => Grows(table[i].job.payload, table'[i].job.payload)
SweepStep ==
    \A i \in Ids : table[i].owner \in Sweeps /\ Active(i)
                   => table'[i].owner = table[i].owner /\ Active(i)'

-----------------------------------------------------------------------------
(* Payloads                                                                *)

\* Merging keeps payloads typed and only grows the existing one.
LEMMA MergeFacts ==
    ASSUME NEW p \in Payload, NEW q \in Payload
    PROVE  Merge(p, q) \in Payload /\ Grows(p, Merge(p, q))
  BY NoNoteAssumption DEF Payload, Merge, Promotes, Grows

\* Consuming the first-attempt permission grows a payload too.
LEMMA ConsumedFacts ==
    ASSUME NEW p \in Payload, NEW q \in Payload, Grows(p, q)
    PROVE  Consumed(q) \in Payload /\ Grows(p, Consumed(q))
  BY DEF Payload, Consumed, Grows

\* A payload that stays is a payload that grows.
LEMMA GrowsReflexive == ASSUME NEW p \in Payload PROVE Grows(p, p)
  BY DEF Payload, Grows

\* The payload of an identity alone is a payload.
LEMMA BlankPayload == Blank \in Payload
  BY DEF Blank, Payload

\* A new row is pending with nothing charged to it.
LEMMA NewJobFacts ==
    ASSUME NEW p \in Payload, NEW max \in Nat
    PROVE  /\ NewJob(p, max) \in Job
           /\ NewJob(p, max).state = "pending" /\ NewJob(p, max).attempts = 0
           /\ NewJob(p, max).payload = p
  BY DEF NewJob, Job, JobStates

\* A job with two fields rewritten is a job.
LEMMA RewriteAttempts ==
    ASSUME NEW job \in Job, NEW n \in Nat
    PROVE  [job EXCEPT !.state = "running", !.attempts = n] \in Job
  BY DEF Job, JobStates

\* A job with its payload and state rewritten is a job.
LEMMA RewritePayload ==
    ASSUME NEW job \in Job, NEW s \in JobStates, NEW p \in Payload
    PROVE  [job EXCEPT !.payload = p, !.state = s] \in Job
  BY DEF Job

\* A claim counts the attempt and changes nothing else.
LEMMA ClaimedFacts ==
    ASSUME NEW job \in Job
    PROVE  /\ Claimed(job) \in Job /\ Claimed(job).state = "running"
           /\ Claimed(job).attempts = job.attempts + 1
           /\ Claimed(job).max = job.max /\ Claimed(job).payload = job.payload
  <1>1. job.attempts + 1 \in Nat
    BY DEF Job
  <1>2. Claimed(job) \in Job
    BY <1>1, RewriteAttempts, Zenon DEF Claimed
  <1>3. Claimed(job).attempts = job.attempts + 1
    BY DEF Claimed, Job
  <1>4. /\ Claimed(job).state = "running"
        /\ Claimed(job).max = job.max /\ Claimed(job).payload = job.payload
    BY DEF Claimed, Job
  <1> QED
    BY <1>2, <1>3, <1>4

\* A claim presented with a note its handler returned is still a typed claim of
\* the same attempt.
LEMMA PresentedFacts ==
    ASSUME NEW c \in Claim, NEW note \in Notes \cup {NoNote}
    PROVE  Presented(c, note).attempts = c.attempts /\ Presented(c, note).payload \in Payload
  BY DEF Presented, Claim, Payload

-----------------------------------------------------------------------------
(* Rows                                                                    *)

\* An id whose owner is a real owner holds a typed row.
LEMMA OwnedRow ==
    ASSUME TypeOK, NEW i \in Ids, table[i].owner \in Owners
    PROVE  table[i] \in Row /\ table[i].job \in Job /\ table[i] # NoRow
  BY OwnersAssumption DEF TypeOK, Row, NoRow

\* An id is free, or holds a row of some owner.
LEMMA AnyRow ==
    ASSUME TypeOK, NEW i \in Ids
    PROVE  \/ table[i] = NoRow /\ table[i].owner = "none" /\ table[i].job.state = "none"
           \/ table[i] \in Row /\ table[i].owner \in Owners /\ table[i].job \in Job
  BY DEF TypeOK, Row, NoRow, NoJob

\* Rewriting the job of one row touches nothing else of the table.
LEMMA UpdateFacts ==
    ASSUME TypeOK, NEW i \in Ids, table[i].owner \in Owners, NEW job \in Job, Update(i, job)
    PROVE  /\ table' \in [Ids -> Row \cup {NoRow}]
           /\ table'[i].job = job
           /\ \A j \in Ids : table'[j].owner = table[j].owner
           /\ \A j \in Ids : j # i => table'[j] = table[j]
  <1>1. table[i] \in Row
    BY OwnedRow
  <1>2. table' = [table EXCEPT ![i].job = job]
    BY DEF Update
  <1>3. [table[i] EXCEPT !.job = job] \in Row
    BY <1>1 DEF Row
  <1> QED
    BY <1>1, <1>2, <1>3 DEF TypeOK, Row

\* The invariant is preserved by rewriting one row when the budget stays charged
\* and the claims that remain, or the new one, match their rows.
LEMMA UpdateInv ==
    ASSUME Inv, NEW i \in Ids, table[i].owner \in Owners, NEW job \in Job, Update(i, job),
           claims' \in SUBSET Claim, OneClaim',
           \A c \in claims' :
              \/ c \in claims /\ c.id # i
              \/ /\ c.id = i /\ c.owner = table[i].owner
                 /\ job.state = "running" /\ job.attempts = c.attempts,
           runs' \in [Recordings -> Nat],
           \A r \in Recordings : r # table[i].owner => runs'[r] = runs[r],
           table[i].owner \in Recordings =>
              /\ job.attempts = runs'[table[i].owner]
              /\ job.state = "failed" => runs'[table[i].owner] >= job.max,
           job.state \in {"pending", "running"} => Active(i) \/ table[i].owner \in Recordings
    PROVE  Inv'
  <1>1. /\ table' \in [Ids -> Row \cup {NoRow}]
        /\ table'[i].job = job
        /\ \A j \in Ids : table'[j].owner = table[j].owner
        /\ \A j \in Ids : j # i => table'[j] = table[j]
    BY UpdateFacts DEF Inv
  <1>2. TypeOK'
    BY <1>1 DEF TypeOK
  <1>3. OneRowPerOwner'
    <2>1. \A o : RowsOf(o)' = RowsOf(o)
      BY <1>1 DEF RowsOf
    <2>2. \A o \in Chores \cup Sweeps : ActiveRowsOf(o)' \subseteq ActiveRowsOf(o)
      BY <1>1, <2>1, OwnersAssumption DEF ActiveRowsOf, Active, RowsOf
    <2> QED
      BY <2>1, <2>2 DEF Inv, OneRowPerOwner
  <1>4. HandlerOwnsRow'
    BY <1>1 DEF Inv, HandlerOwnsRow, ClaimHolds, TypeOK, Claim
  <1>5. RunsAreCharged'
    <2> SUFFICES ASSUME NEW r \in Recordings, NEW j \in Ids, table'[j].owner = r
                 PROVE  /\ table'[j].job.attempts = runs'[r]
                        /\ table'[j].job.state = "failed" => runs'[r] >= table'[j].job.max
      BY DEF RunsAreCharged, RowsOf
    <2>1. CASE j = i
      BY <1>1, <2>1
    <2>2. CASE j # i
      <3>1. table'[j] = table[j] /\ j \in RowsOf(r)
        BY <1>1, <2>2 DEF RowsOf
      <3>2. r # table[i].owner
        BY <2>2, <3>1 DEF Inv, OneRowPerOwner, RowsOf
      <3> QED
        BY <3>1, <3>2 DEF Inv, RunsAreCharged
    <2> QED
      BY <2>1, <2>2
  <1> QED
    BY <1>2, <1>3, <1>4, <1>5 DEF Inv

\* The same for a new row.
LEMMA InsertInv ==
    ASSUME Inv, NEW o \in Owners, NEW job \in Job, job.state = "pending", job.attempts = 0,
           Insert(o, job), claims' = claims,
           o \in Recordings => RowsOf(o) = {},
           o \notin Recordings => ActiveRowsOf(o) = {},
           runs' = IF o \in Recordings THEN [runs EXCEPT ![o] = 0] ELSE runs
    PROVE  Inv' /\ GrowStep /\ SweepStep
  <1>1. PICK i \in Ids : table[i] = NoRow
                         /\ table' = [table EXCEPT ![i] = [owner |-> o, job |-> job]]
    BY DEF Insert, FreeIds
  <1>2. /\ table' \in [Ids -> Row \cup {NoRow}]
        /\ table'[i].owner = o /\ table'[i].job = job
        /\ \A j \in Ids : j # i => table'[j] = table[j]
        /\ table[i].owner = "none"
    BY <1>1 DEF Inv, TypeOK, Row, NoRow
  <1>3. runs' \in [Recordings -> Nat]
    BY DEF Inv, TypeOK
  <1>4. OneRowPerOwner'
    <2>1. \A r \in Recordings : \A j, k \in RowsOf(r)' : j = k
      BY <1>2 DEF Inv, OneRowPerOwner, RowsOf
    <2>2. \A p \in Chores \cup Sweeps : \A j, k \in ActiveRowsOf(p)' : j = k
      BY <1>2, OwnersAssumption DEF Inv, OneRowPerOwner, RowsOf, ActiveRowsOf, Active
    <2> QED
      BY <2>1, <2>2 DEF OneRowPerOwner
  <1>5. HandlerOwnsRow'
    BY <1>2, OwnersAssumption DEF Inv, HandlerOwnsRow, ClaimHolds, TypeOK, Claim
  <1>6. RunsAreCharged'
    BY <1>2, <1>3 DEF Inv, TypeOK, RunsAreCharged, RowsOf
  <1>7. Inv'
    BY <1>2, <1>3, <1>4, <1>5, <1>6 DEF Inv, TypeOK, OneClaim
  <1>8. GrowStep
    BY <1>2, OwnedRow, GrowsReflexive, OwnersAssumption DEF GrowStep, Inv, Owners, Job
  <1>9. SweepStep
    BY <1>2, OwnersAssumption DEF SweepStep, Owners, Active
  <1> QED
    BY <1>7, <1>8, <1>9

\* The same for the removal of rows that no running handler owns.
LEMMA RemoveInv ==
    ASSUME Inv, NEW D \in SUBSET Ids,
           table' = [i \in Ids |-> IF i \in D THEN NoRow ELSE table[i]],
           claims' \subseteq claims, \A c \in claims' : c.id \notin D, runs' = runs,
           \A i \in D : table[i].owner \in Sweeps => ~Active(i)
    PROVE  Inv' /\ GrowStep /\ SweepStep
  <1>1. /\ table' \in [Ids -> Row \cup {NoRow}]
        /\ \A i \in Ids : i \notin D => table'[i] = table[i]
        /\ \A i \in Ids : i \in D => table'[i].owner = "none"
    BY DEF Inv, TypeOK, NoRow
  <1>2. OneRowPerOwner'
    <2>1. \A o \in Owners : RowsOf(o)' \subseteq RowsOf(o)
      BY <1>1, OwnersAssumption DEF RowsOf
    <2>2. \A o \in Owners : ActiveRowsOf(o)' \subseteq ActiveRowsOf(o)
      BY <1>1, <2>1, OwnersAssumption DEF ActiveRowsOf, Active, RowsOf
    <2> QED
      BY <2>1, <2>2 DEF Inv, OneRowPerOwner, Owners
  <1>3. HandlerOwnsRow'
    BY <1>1 DEF Inv, HandlerOwnsRow, ClaimHolds, TypeOK, Claim
  <1>4. RunsAreCharged'
    BY <1>1, OwnersAssumption DEF Inv, RunsAreCharged, RowsOf, Owners
  <1>5. Inv'
    BY <1>1, <1>2, <1>3, <1>4 DEF Inv, TypeOK, OneClaim
  <1>6. GrowStep
    BY <1>1, OwnedRow, GrowsReflexive, OwnersAssumption DEF GrowStep, Inv, Owners, Job
  <1>7. SweepStep
    BY <1>1 DEF SweepStep, Active
  <1> QED
    BY <1>5, <1>6, <1>7

\* Rewriting one row in a way that grows its payload and keeps sweeps active
\* satisfies both step conditions.
LEMMA UpdateSteps ==
    ASSUME Inv, NEW i \in Ids, table[i].owner \in Owners, NEW job \in Job, Update(i, job),
           table[i].owner \in Recordings => Grows(table[i].job.payload, job.payload),
           table[i].owner \in Sweeps => job.state \in {"pending", "running"}
    PROVE  GrowStep /\ SweepStep
  <1>1. /\ table'[i].job = job
        /\ \A j \in Ids : table'[j].owner = table[j].owner
        /\ \A j \in Ids : j # i => table'[j] = table[j]
    BY UpdateFacts DEF Inv
  <1>2. GrowStep
    BY <1>1, OwnedRow, GrowsReflexive DEF GrowStep, Inv, Owners, Job
  <1>3. SweepStep
    BY <1>1 DEF SweepStep, Active
  <1> QED
    BY <1>2, <1>3

-----------------------------------------------------------------------------
(* Arming                                                                  *)

\* The row found for a recording that has one is that row.
LEMMA ExistingFacts ==
    ASSUME Inv, NEW r \in Recordings, RowsOf(r) # {}
    PROVE  Existing(r) \in Ids /\ table[Existing(r)].owner = r
  <1> DEFINE found == IF ActiveRowsOf(r) # {} THEN ActiveRowsOf(r) ELSE RowsOf(r)
  <1>1. found # {} /\ found \subseteq RowsOf(r)
    BY DEF ActiveRowsOf
  <1>2. \A i, j \in found : i = j
    BY <1>1 DEF Inv, OneRowPerOwner
  <1>3. found \subseteq Ids
    BY <1>1 DEF RowsOf
  <1>4. \E i \in found : \A j \in found : j <= i
    BY <1>1, <1>2, <1>3, TableAssumption DEF Ids
  <1>5. Existing(r) \in found
    BY <1>4 DEF Existing
  <1> QED
    BY <1>1, <1>5 DEF RowsOf

\* Enqueueing a recording inserts its only row or merges into it.
LEMMA EnqueueRecordingStep ==
    ASSUME Inv, NEW r \in Recordings, NEW p \in Payloads, NEW max \in Budgets,
           EnqueueRecording(r, p, max)
    PROVE  Inv' /\ GrowStep /\ SweepStep
  <1>1. p \in Payload /\ max \in Nat /\ r \in Owners /\ claims' = claims
    BY TableAssumption DEF EnqueueRecording, Owners
  <1>2. CASE RowsOf(r) = {}
    <2>1. Insert(r, NewJob(p, max)) /\ runs' = [runs EXCEPT ![r] = 0]
      BY <1>2 DEF EnqueueRecording
    <2> QED
      BY <1>1, <1>2, <2>1, NewJobFacts, InsertInv
  <1>3. CASE RowsOf(r) # {}
    <2> DEFINE i == Existing(r)
               old == table[i].job
               new == EnqueueOn(old, p)
    <2>1. i \in Ids /\ table[i].owner = r /\ table[i].owner \in Owners /\ old \in Job
      BY <1>1, <1>3, ExistingFacts, OwnedRow DEF Inv
    <2>2. Update(i, new) /\ runs' = runs
      BY <1>3 DEF EnqueueRecording
    <2>3. /\ new \in Job /\ new.state = old.state /\ new.attempts = old.attempts
          /\ new.max = old.max /\ Grows(old.payload, new.payload)
      BY <1>1, <2>1, MergeFacts DEF EnqueueOn, Job
    <2>4. r \notin Sweeps
      BY OwnersAssumption
    <2> HIDE DEF i, new
    <2>5. /\ old.attempts = runs[r]
          /\ old.state = "failed" => runs[r] >= old.max
      BY <2>1 DEF Inv, RunsAreCharged, RowsOf
    <2>6. \A c \in claims : c.id = i => c.owner = r /\ old.state = "running"
                                      /\ old.attempts = c.attempts
      BY <2>1 DEF Inv, HandlerOwnsRow, ClaimHolds
    <2>7. Inv'
      BY <1>1, <2>1, <2>2, <2>3, <2>5, <2>6, UpdateInv DEF Inv, TypeOK, OneClaim
    <2>8. GrowStep /\ SweepStep
      BY <2>1, <2>2, <2>3, <2>4, UpdateSteps
    <2> QED
      BY <2>7, <2>8
  <1> QED
    BY <1>2, <1>3

\* A manual retry restarts a parked failure only, so a running handler keeps
\* its row and its charged attempts.
LEMMA RearmStep ==
    ASSUME Inv, NEW r \in Recordings, NEW p \in Payloads, NEW max \in Budgets,
           RearmFailedRecording(r, p, max)
    PROVE  Inv' /\ GrowStep /\ SweepStep
  <1>1. p \in Payload /\ max \in Nat /\ r \in Owners /\ claims' = claims
    BY TableAssumption DEF RearmFailedRecording, Owners
  <1>2. CASE RowsOf(r) = {}
    <2>1. Insert(r, NewJob(Consumed(p), max)) /\ runs' = [runs EXCEPT ![r] = 0]
      BY <1>2 DEF RearmFailedRecording
    <2>2. Consumed(p) \in Payload
      BY <1>1, GrowsReflexive, ConsumedFacts
    <2> QED
      BY <1>1, <1>2, <2>1, <2>2, NewJobFacts, InsertInv
  <1>3. CASE RowsOf(r) # {}
    <2> DEFINE i == Existing(r)
               old == table[i].job
               merged == Consumed(Merge(old.payload, p))
               new == RearmOn(old, p, max)
    <2>1. i \in Ids /\ table[i].owner = r /\ table[i].owner \in Owners /\ old \in Job
      BY <1>1, <1>3, ExistingFacts, OwnedRow DEF Inv
    <2>2. Update(i, new) /\ runs' = IF Active(i) THEN runs ELSE [runs EXCEPT ![r] = 0]
      BY <1>3 DEF RearmFailedRecording
    <2>3. merged \in Payload /\ Grows(old.payload, merged)
      BY <1>1, <2>1, MergeFacts, ConsumedFacts DEF Job
    <2>4. new = IF old.state = "failed" THEN NewJob(merged, max)
                                        ELSE [old EXCEPT !.payload = merged]
      BY DEF RearmOn
    <2>5. r \notin Sweeps
      BY OwnersAssumption
    <2> HIDE DEF i, merged, new
    <2>6. /\ old.attempts = runs[r]
          /\ old.state = "failed" => runs[r] >= old.max
      BY <2>1 DEF Inv, RunsAreCharged, RowsOf
    <2>7. \A c \in claims : c.id = i => c.owner = r /\ old.state = "running"
                                      /\ old.attempts = c.attempts
      BY <2>1 DEF Inv, HandlerOwnsRow, ClaimHolds
    <2>8. CASE old.state = "failed"
      <3>1. new \in Job /\ new.state = "pending" /\ new.attempts = 0 /\ new.payload = merged
        BY <1>1, <2>3, <2>4, <2>8, NewJobFacts
      <3>2. runs' = [runs EXCEPT ![r] = 0] /\ runs' \in [Recordings -> Nat]
        BY <2>2, <2>8 DEF Active, Inv, TypeOK
      <3>3. runs'[r] = 0 /\ \A q \in Recordings : q # r => runs'[q] = runs[q]
        BY <3>2 DEF Inv, TypeOK
      <3>4. \A c \in claims' : c \in claims /\ c.id # i
        BY <1>1, <2>7, <2>8
      <3>5. Inv'
        BY <1>1, <2>1, <2>2, <3>1, <3>2, <3>3, <3>4, UpdateInv DEF Inv, TypeOK, OneClaim
      <3>6. GrowStep /\ SweepStep
        BY <2>1, <2>2, <2>3, <2>5, <3>1, UpdateSteps
      <3> QED
        BY <3>5, <3>6
    <2>9. CASE old.state # "failed"
      <3>1. /\ new \in Job /\ new.state = old.state /\ new.attempts = old.attempts
            /\ new.max = old.max /\ new.payload = merged
        BY <2>1, <2>3, <2>4, <2>9 DEF Job
      <3>2. runs' = runs
        BY <2>1, <2>2, <2>9 DEF Active, Job, JobStates
      <3>3. Inv'
        BY <1>1, <2>1, <2>2, <2>6, <2>7, <3>1, <3>2, UpdateInv DEF Inv, TypeOK, OneClaim
      <3>4. GrowStep /\ SweepStep
        BY <2>1, <2>2, <2>3, <2>5, <3>1, UpdateSteps
      <3> QED
        BY <3>3, <3>4
    <2> QED
      BY <2>8, <2>9
  <1> QED
    BY <1>2, <1>3

\* A chore is inserted only beside parked ones.
LEMMA ChoreStep ==
    ASSUME Inv, NEW c \in Chores, NEW max \in Budgets, EnqueueChore(c, max)
    PROVE  Inv' /\ GrowStep /\ SweepStep
  <1>1. max \in Nat /\ c \in Owners /\ c \notin Recordings
    BY TableAssumption, OwnersAssumption DEF Owners
  <1> QED
    BY <1>1, BlankPayload, NewJobFacts, InsertInv DEF EnqueueChore

\* A sweep is inserted only when none is active.
LEMMA PeriodicStep ==
    ASSUME Inv, NEW s \in Sweeps, EnqueuePeriodic(s)
    PROVE  Inv' /\ GrowStep /\ SweepStep
  <1>1. s \in Owners /\ s \notin Recordings
    BY OwnersAssumption DEF Owners
  <1> QED
    BY <1>1, BlankPayload, NewJobFacts, InsertInv DEF EnqueuePeriodic

-----------------------------------------------------------------------------
(* Claiming and settling                                                   *)

\* Claiming counts the attempt and takes the only claim there is.
LEMMA ClaimStep ==
    ASSUME Inv, NEW i \in Ids, ClaimDue(i)
    PROVE  Inv' /\ GrowStep /\ SweepStep
  <1> DEFINE row == table[i]
             new == Claimed(row.job)
             claim == [id |-> i, owner |-> row.owner, attempts |-> row.job.attempts + 1,
                       payload |-> row.job.payload]
  <1>1. /\ claims = {} /\ row.job.state = "pending"
        /\ Update(i, new) /\ claims' = {claim}
        /\ runs' = IF row.owner \in Recordings
                   THEN [runs EXCEPT ![row.owner] = @ + 1] ELSE runs
    BY DEF ClaimDue
  <1>2. row.owner \in Owners /\ row.job \in Job
    BY <1>1, AnyRow DEF Inv
  <1>3. /\ new \in Job /\ new.state = "running" /\ new.attempts = row.job.attempts + 1
        /\ new.payload = row.job.payload /\ new.max = row.job.max
    BY <1>2, ClaimedFacts
  <1>4. claim \in Claim
    BY <1>2 DEF Claim, Job
  <1>5. Active(i)
    BY <1>1 DEF Active
  <1>6. row.owner \in Recordings => row.job.attempts = runs[row.owner]
    BY DEF Inv, RunsAreCharged, RowsOf
  <1>7. /\ runs' \in [Recordings -> Nat]
        /\ \A r \in Recordings : r # row.owner => runs'[r] = runs[r]
        /\ row.owner \in Recordings => runs'[row.owner] = runs[row.owner] + 1
    BY <1>1 DEF Inv, TypeOK
  <1>8. /\ claims' \in SUBSET Claim /\ OneClaim'
        /\ \A c \in claims' : /\ c.id = i /\ c.owner = row.owner
                              /\ c.attempts = row.job.attempts + 1
    BY <1>1, <1>4 DEF OneClaim
  <1> HIDE DEF new, claim
  <1>9. Inv'
    BY <1>1, <1>2, <1>3, <1>5, <1>6, <1>7, <1>8, UpdateInv
  <1>10. Grows(row.job.payload, new.payload)
    BY <1>2, <1>3, GrowsReflexive DEF Job
  <1>11. GrowStep /\ SweepStep
    BY <1>1, <1>2, <1>3, <1>10, UpdateSteps
  <1> QED
    BY <1>9, <1>11

\* A held claim points at a typed, running row of its owner.
LEMMA ClaimedRow ==
    ASSUME Inv, NEW c \in claims
    PROVE  /\ c \in Claim /\ c.id \in Ids /\ c.owner \in Owners
           /\ table[c.id].owner = c.owner /\ table[c.id].owner \in Owners
           /\ table[c.id].job \in Job /\ table[c.id].job.state = "running"
           /\ table[c.id].job.attempts = c.attempts /\ Active(c.id)
           /\ c.owner \in Recordings => table[c.id].job.attempts = runs[c.owner]
  <1>1. c \in Claim /\ c.id \in Ids /\ c.owner \in Owners
    BY DEF Inv, TypeOK, Claim
  <1>2. table[c.id].owner = c.owner /\ table[c.id].job.state = "running"
        /\ table[c.id].job.attempts = c.attempts
    BY DEF Inv, HandlerOwnsRow, ClaimHolds
  <1>3. table[c.id].job \in Job
    BY <1>1, <1>2, OwnedRow DEF Inv
  <1>4. c.owner \in Recordings => table[c.id].job.attempts = runs[c.owner]
    BY <1>1, <1>2 DEF Inv, RunsAreCharged, RowsOf
  <1> QED
    BY <1>1, <1>2, <1>3, <1>4 DEF Active

\* Settling a claim by rewriting its row: the attempt stays charged, the payload
\* grows, a sweep stays due and a recording is parked only out of budget.
LEMMA SettleStep ==
    ASSUME Inv, NEW c \in claims, NEW job \in Job, Update(c.id, job), Settle(c),
           c.owner \in Recordings =>
              /\ job.attempts = c.attempts
              /\ job.state = "failed" => c.attempts >= job.max
              /\ Grows(table[c.id].job.payload, job.payload),
           c.owner \in Sweeps => job.state = "pending"
    PROVE  Inv' /\ GrowStep /\ SweepStep
  <1> DEFINE i == c.id
  <1>1. /\ i \in Ids /\ table[i].owner = c.owner /\ table[i].owner \in Owners /\ Active(i)
        /\ table[i].job.attempts = c.attempts
        /\ c.owner \in Recordings => table[i].job.attempts = runs[c.owner]
    BY ClaimedRow
  <1>2. claims' = {} /\ runs' = runs
    BY DEF Settle, Inv, OneClaim
  <1>3. Update(i, job)
    OBVIOUS
  <1> HIDE DEF i
  <1>4. Inv'
    BY <1>1, <1>2, <1>3, UpdateInv DEF Inv, TypeOK, OneClaim
  <1>5. GrowStep /\ SweepStep
    BY <1>1, <1>3, UpdateSteps DEF i
  <1> QED
    BY <1>4, <1>5

\* Settling a claim by deleting its row.
LEMMA SettleDeletes ==
    ASSUME Inv, NEW c \in claims, Delete(c.id), Settle(c), c.owner \notin Sweeps
    PROVE  Inv' /\ GrowStep /\ SweepStep
  <1>1. c.id \in Ids /\ table[c.id].owner = c.owner
    BY ClaimedRow
  <1>2. claims' = {} /\ runs' = runs
    BY DEF Settle, Inv, OneClaim
  <1>3. table' = [i \in Ids |-> IF i \in {c.id} THEN NoRow ELSE table[i]]
    BY <1>1 DEF Delete, Inv, TypeOK
  <1>4. {c.id} \in SUBSET Ids /\ \A i \in {c.id} : table[i].owner \in Sweeps => ~Active(i)
    BY <1>1
  <1> QED
    BY <1>2, <1>3, <1>4, RemoveInv

\* What the settled jobs look like.
LEMMA RearmedFacts ==
    ASSUME NEW job \in Job
    PROVE  Rearmed(job) \in Job /\ Rearmed(job).state = "pending"
  BY DEF Rearmed, Job, JobStates

\* Failing a job keeps its attempts, merges the payload and parks it only when
\* the budget is used up.
LEMMA FailedFacts ==
    ASSUME NEW job \in Job, NEW c, c.attempts \in Nat, c.payload \in Payload
    PROVE  /\ Failed(job, c) \in Job
           /\ Failed(job, c).attempts = job.attempts
           /\ Failed(job, c).state = "failed" => c.attempts >= Failed(job, c).max
           /\ Grows(job.payload, Failed(job, c).payload)
  <1>1. job.payload \in Payload
    BY DEF Job
  <1>2. Merge(job.payload, c.payload) \in Payload /\ Grows(job.payload, Merge(job.payload, c.payload))
    BY <1>1, MergeFacts
  <1> DEFINE merged == Merge(job.payload, c.payload)
             state == IF c.attempts < job.max THEN "pending" ELSE "failed"
  <1>3. job.attempts \in Nat /\ job.max \in Nat /\ state \in JobStates
    BY DEF Job, JobStates
  <1>4. state = "failed" => c.attempts >= job.max
    BY <1>3
  <1>5. Failed(job, c) = [job EXCEPT !.payload = merged, !.state = state]
    BY DEF Failed
  <1>6. /\ Failed(job, c).state = state
        /\ Failed(job, c).attempts = job.attempts /\ Failed(job, c).max = job.max
        /\ Failed(job, c).payload = merged
    BY <1>5 DEF Job
  <1>7. merged \in Payload
    BY <1>2
  <1> HIDE DEF merged, state
  <1>8. Failed(job, c) \in Job
    BY <1>3, <1>5, <1>7, RewritePayload, Zenon
  <1> QED
    BY <1>2, <1>4, <1>6, <1>8 DEF merged

\* Rescheduling a job keeps its attempts and merges the payload.
LEMMA RescheduledFacts ==
    ASSUME NEW job \in Job, NEW c, c.payload \in Payload
    PROVE  /\ Rescheduled(job, c) \in Job
           /\ Rescheduled(job, c).attempts = job.attempts
           /\ Rescheduled(job, c).state = "pending"
           /\ Grows(job.payload, Rescheduled(job, c).payload)
  <1>1. job.payload \in Payload
    BY DEF Job
  <1>2. Merge(job.payload, c.payload) \in Payload /\ Grows(job.payload, Merge(job.payload, c.payload))
    BY <1>1, MergeFacts
  <1> QED
    BY <1>2 DEF Rescheduled, Job, JobStates

\* Completing deletes a one-shot row and re-arms a sweep.
LEMMA CompleteStep ==
    ASSUME Inv, NEW c \in claims, Complete(c)
    PROVE  Inv' /\ GrowStep /\ SweepStep
  <1>1. Settle(c)
    BY DEF Complete
  <1>2. CASE c.owner \in Sweeps
    <2>1. Update(c.id, Rearmed(table[c.id].job))
      BY <1>2 DEF Complete
    <2>2. Rearmed(table[c.id].job) \in Job /\ Rearmed(table[c.id].job).state = "pending"
      BY ClaimedRow, RearmedFacts
    <2>3. c.owner \notin Recordings
      BY <1>2, OwnersAssumption
    <2> QED
      BY <1>1, <2>1, <2>2, <2>3, SettleStep
  <1>3. CASE c.owner \notin Sweeps
    <2>1. Delete(c.id)
      BY <1>3 DEF Complete
    <2> QED
      BY <1>1, <1>3, <2>1, SettleDeletes
  <1> QED
    BY <1>2, <1>3

\* Failing a chore retries or parks it, failing a sweep re-arms it.
LEMMA FailStep ==
    ASSUME Inv, NEW c \in claims, Fail(c)
    PROVE  Inv' /\ GrowStep /\ SweepStep
  <1> DEFINE old == table[c.id].job
             new == IF c.owner \in Sweeps THEN Rearmed(old) ELSE Failed(old, c)
  <1>1. Settle(c) /\ Update(c.id, new) /\ c.owner \notin Recordings
    BY DEF Fail
  <1>2. old \in Job /\ c.attempts \in Nat /\ c.payload \in Payload
    BY ClaimedRow DEF Claim
  <1>3. new \in Job /\ (c.owner \in Sweeps => new.state = "pending")
    BY <1>2, RearmedFacts, FailedFacts
  <1> HIDE DEF new
  <1> QED
    BY <1>1, <1>3, SettleStep

\* Failing a recording needs its claim, and merges the note the handler filed.
LEMMA FailRecordingStep ==
    ASSUME Inv, NEW c \in claims, NEW note \in Notes \cup {NoNote}, FailRecording(c, note)
    PROVE  Inv' /\ GrowStep /\ SweepStep
  <1> DEFINE old == table[c.id].job
             shown == Presented(c, note)
             new == Failed(old, shown)
  <1>1. Settle(c) /\ Update(c.id, new) /\ c.owner \in Recordings
    BY DEF FailRecording
  <1>2. c.owner \notin Sweeps
    BY <1>1, OwnersAssumption
  <1>3. old \in Job /\ old.attempts = c.attempts /\ c \in Claim /\ c.attempts \in Nat
    BY ClaimedRow DEF Claim
  <1>4. shown.attempts = c.attempts /\ shown.payload \in Payload
    BY <1>3, PresentedFacts
  <1> HIDE DEF shown
  <1>5. /\ new \in Job /\ new.attempts = old.attempts
        /\ new.state = "failed" => shown.attempts >= new.max
        /\ Grows(old.payload, new.payload)
    BY <1>3, <1>4, FailedFacts
  <1> HIDE DEF new
  <1> QED
    BY <1>1, <1>2, <1>3, <1>4, <1>5, SettleStep

\* Rescheduling a recording needs its claim, and charges nothing.
LEMMA RescheduleStep ==
    ASSUME Inv, NEW c \in claims, NEW note \in Notes \cup {NoNote}, RescheduleRecording(c, note)
    PROVE  Inv' /\ GrowStep /\ SweepStep
  <1> DEFINE old == table[c.id].job
             shown == Presented(c, note)
             new == Rescheduled(old, shown)
  <1>1. Settle(c) /\ Update(c.id, new) /\ c.owner \in Recordings
    BY DEF RescheduleRecording
  <1>2. c.owner \notin Sweeps
    BY <1>1, OwnersAssumption
  <1>3. old \in Job /\ old.attempts = c.attempts /\ c \in Claim
    BY ClaimedRow
  <1>4. shown.payload \in Payload
    BY <1>3, PresentedFacts
  <1> HIDE DEF shown
  <1>5. /\ new \in Job /\ new.attempts = old.attempts /\ new.state = "pending"
        /\ Grows(old.payload, new.payload)
    BY <1>3, <1>4, RescheduledFacts
  <1> HIDE DEF new
  <1> QED
    BY <1>1, <1>2, <1>3, <1>5, SettleStep

-----------------------------------------------------------------------------
(* Restart and clean-up                                                    *)

\* Recovery changes nothing of a row but a running state.
LEMMA RecoveredFacts ==
    ASSUME NEW job \in Job
    PROVE  /\ Recovered(job) \in Job
           /\ Recovered(job).attempts = job.attempts /\ Recovered(job).max = job.max
           /\ Recovered(job).payload = job.payload
           /\ Recovered(job).state = IF job.state = "running" THEN "pending" ELSE job.state
  BY DEF Recovered, Job, JobStates

\* A restart makes running rows pending, with their attempts still charged.
LEMMA CrashStep ==
    ASSUME Inv, CrashAndRecover
    PROVE  Inv' /\ GrowStep /\ SweepStep
  <1>1. ASSUME NEW i \in Ids
        PROVE  \/ table[i] = NoRow /\ table'[i] = NoRow
               \/ /\ table[i].owner \in Owners /\ table[i].job \in Job /\ table'[i] \in Row
                  /\ table'[i].owner = table[i].owner
                  /\ table'[i].job = Recovered(table[i].job)
    <2>1. table'[i] = IF table[i] = NoRow THEN NoRow
                      ELSE [table[i] EXCEPT !.job = Recovered(@)]
      BY DEF CrashAndRecover
    <2>2. CASE table[i] = NoRow
      BY <2>1, <2>2
    <2>3. CASE table[i] # NoRow
      <3>1. table[i] \in Row /\ table[i].owner \in Owners /\ table[i].job \in Job
        BY <2>3, AnyRow DEF Inv
      <3>2. Recovered(table[i].job) \in Job
        BY <3>1, RecoveredFacts
      <3> QED
        BY <2>1, <2>3, <3>1, <3>2 DEF Row
    <2> QED
      BY <2>2, <2>3
  <1>2. ASSUME NEW i \in Ids
        PROVE  /\ table'[i].owner = table[i].owner
               /\ Active(i)' = Active(i)
               /\ table[i].owner \in Owners =>
                     /\ table[i].job \in Job
                     /\ table'[i].job.attempts = table[i].job.attempts
                     /\ table'[i].job.max = table[i].job.max
                     /\ table'[i].job.payload = table[i].job.payload
                     /\ table'[i].job.state = "failed" => table[i].job.state = "failed"
    BY <1>1, RecoveredFacts, OwnersAssumption DEF Active, NoRow, NoJob, Job, JobStates
  <1>3. claims' = {} /\ runs' = runs
    BY DEF CrashAndRecover
  <1>4. TypeOK'
    <2>1. table' = [i \in Ids |-> table'[i]]
      BY DEF CrashAndRecover
    <2>2. \A i \in Ids : table'[i] \in Row \cup {NoRow}
      BY <1>1
    <2>3. table' \in [Ids -> Row \cup {NoRow}]
      BY <2>1, <2>2
    <2> QED
      BY <1>3, <2>3 DEF Inv, TypeOK
  <1>5. OneRowPerOwner'
    <2>1. \A o : RowsOf(o)' = RowsOf(o)
      BY <1>2 DEF RowsOf
    <2>2. \A o : ActiveRowsOf(o)' = ActiveRowsOf(o)
      BY <1>2, <2>1 DEF ActiveRowsOf, RowsOf
    <2> QED
      BY <2>1, <2>2 DEF Inv, OneRowPerOwner
  <1>6. RunsAreCharged'
    BY <1>2, <1>3 DEF Inv, RunsAreCharged, RowsOf, Owners
  <1>7. Inv'
    BY <1>3, <1>4, <1>5, <1>6 DEF Inv, HandlerOwnsRow, OneClaim
  <1>8. GrowStep
    BY <1>2, GrowsReflexive DEF GrowStep, Owners, Job
  <1>9. SweepStep
    BY <1>2 DEF SweepStep
  <1> QED
    BY <1>7, <1>8, <1>9

\* Discarding a recording deletes its rows when no handler holds them.
LEMMA DeleteJobsStep ==
    ASSUME Inv, NEW r \in Recordings, DeleteRecordingJobs(r)
    PROVE  Inv' /\ GrowStep /\ SweepStep
  <1>1. RowsOf(r) \in SUBSET Ids
    BY DEF RowsOf
  <1>2. table' = [i \in Ids |-> IF i \in RowsOf(r) THEN NoRow ELSE table[i]]
    BY DEF DeleteRecordingJobs, RowsOf
  <1>3. \A c \in claims : c.id \notin RowsOf(r)
    BY ClaimedRow DEF DeleteRecordingJobs, RowsOf
  <1>4. \A i \in RowsOf(r) : table[i].owner \notin Sweeps
    BY OwnersAssumption DEF RowsOf
  <1> QED
    BY <1>1, <1>2, <1>3, <1>4, RemoveInv DEF DeleteRecordingJobs

\* Expiry deletes parked chores only, so nothing active or claimed goes.
LEMMA GcStep ==
    ASSUME Inv, NEW i \in Ids, GcFailedJob(i)
    PROVE  Inv' /\ GrowStep /\ SweepStep
  <1>1. table' = [j \in Ids |-> IF j \in {i} THEN NoRow ELSE table[j]]
    BY DEF GcFailedJob, Delete, Inv, TypeOK
  <1>2. \A c \in claims : c.id \notin {i}
    BY ClaimedRow DEF GcFailedJob
  <1>3. ~Active(i)
    BY DEF GcFailedJob, Active
  <1> QED
    BY <1>1, <1>2, <1>3, RemoveInv DEF GcFailedJob

-----------------------------------------------------------------------------
(* The specification                                                       *)

\* The empty table satisfies the invariant.
LEMMA InitInv == Init => Inv
  BY OwnersAssumption DEF Init, Inv, TypeOK, OneRowPerOwner, HandlerOwnsRow, RunsAreCharged,
     OneClaim, RowsOf, ActiveRowsOf, NoRow, Owners

\* Every step keeps the invariant, grows payloads and keeps sweeps due.
LEMMA StepFacts ==
    ASSUME Inv, [Next]_vars
    PROVE  Inv' /\ GrowStep /\ SweepStep
  <1>1. CASE Arm
    BY <1>1, EnqueueRecordingStep, RearmStep, ChoreStep, PeriodicStep DEF Arm
  <1>2. CASE Work
    BY <1>2, ClaimStep, CompleteStep, FailStep, FailRecordingStep, RescheduleStep DEF Work
  <1>3. CASE Cleanup
    BY <1>3, CrashStep, DeleteJobsStep, GcStep DEF Cleanup
  <1>4. CASE UNCHANGED vars
    <2>1. table' = table /\ claims' = claims /\ runs' = runs
      BY <1>4 DEF vars
    <2>2. Inv'
      BY <2>1 DEF Inv, TypeOK, OneRowPerOwner, HandlerOwnsRow, RunsAreCharged, OneClaim,
         RowsOf, ActiveRowsOf, Active
    <2>3. GrowStep
      BY <2>1, OwnedRow, GrowsReflexive DEF GrowStep, Inv, Owners, Job
    <2>4. SweepStep
      BY <2>1 DEF SweepStep, Active
    <2> QED
      BY <2>2, <2>3, <2>4
  <1> QED
    BY <1>1, <1>2, <1>3, <1>4 DEF Next

\* The inductive invariant holds in every reachable state of the jobs table.
THEOREM JobsInvariant == Spec => []Inv
  <1>1. Inv /\ [Next]_vars => Inv'
    BY StepFacts
  <1> QED
    BY <1>1, InitInv, PTL DEF Spec

\* The jobs table is typed (SCHEMA).
THEOREM JobsTypeCorrect == Spec => []TypeOK
  BY JobsInvariant, PTL DEF Inv

\* Work has one owner in the table (enqueue_recording_in_transaction).
THEOREM JobsHaveOneOwner == Spec => []OneRowPerOwner
  BY JobsInvariant, PTL DEF Inv

\* A running handler keeps its row (rearm_failed_recording, recording_claim).
THEOREM RunningHandlerKeepsRow == Spec => []HandlerOwnsRow
  BY JobsInvariant, PTL DEF Inv

\* Every run of a recording is charged to its budget (claim_due, recover_running).
THEOREM EveryRunIsCharged == Spec => []RunsAreCharged
  BY JobsInvariant, PTL DEF Inv

\* Evidence and note ownership of a recording only grow (merge_recording_payload).
THEOREM EvidenceIsMonotone == Spec => EvidenceOnlyGrows
  <1>1. Inv /\ [Next]_vars => [GrowStep]_vars
    BY StepFacts
  <1>2. GrowStep => \A i \in Ids : /\ table[i].owner \in Recordings
                                   /\ table'[i].owner = table[i].owner
                                   => Grows(table[i].job.payload, table'[i].job.payload)
    BY DEF GrowStep
  <1> QED
    BY <1>1, <1>2, JobsInvariant, PTL DEF Spec, EvidenceOnlyGrows

\* A registered sweep stays scheduled (complete, fail, recover_running).
THEOREM SweepsKeepTicking == Spec => SweepsStayScheduled
  <1>1. Inv /\ [Next]_vars =>
           [\A s \in Sweeps : ActiveRowsOf(s) # {} => ActiveRowsOf(s)' # {}]_vars
    <2> SUFFICES ASSUME Inv, [Next]_vars, NEW s \in Sweeps, ActiveRowsOf(s) # {}
                 PROVE  ActiveRowsOf(s)' # {}
      OBVIOUS
    <2>1. PICK i \in Ids : table[i].owner = s /\ Active(i)
      BY DEF ActiveRowsOf, RowsOf
    <2>2. table'[i].owner = s /\ Active(i)'
      BY <2>1, StepFacts DEF SweepStep
    <2> QED
      BY <2>2 DEF ActiveRowsOf, RowsOf
  <1> QED
    BY <1>1, JobsInvariant, PTL DEF Spec, SweepsStayScheduled
=============================================================================
