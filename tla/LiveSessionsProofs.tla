------------------------- MODULE LiveSessionsProofs -------------------------
(***************************************************************************)
(* What LiveSessions promises for every number of calls, tests and windows *)
(* and every choice of faults: the microphone test and the calls exclude   *)
(* each other, the pipeline collects what the call's own session produced, *)
(* and no note and no row is left that nobody will see to.                 *)
(*                                                                         *)
(* The manager's operations reap finished work first.  The invariants are  *)
(* therefore stated for a manager m, notes n and a channel p: reaping keeps *)
(* them (ReapKeeps), and an operation starts from the reaped ones.         *)
(***************************************************************************)
EXTENDS LiveSessions, FiniteSetTheorems, TLAPS

-----------------------------------------------------------------------------
(* The invariants                                                          *)

Kinds == {"Process", "LiveNoteCreated", "LiveDiscarded", "LiveDiscardReap",
          "LiveDiscardCleanup"}
Mail == [kind : Kinds, rec : Calls]
Manager == [pending : BOOLEAN, test : 0..MaxSessions, active : 0..MaxSessions,
            awaiting : [Calls -> {"none", "Running", "Collecting", "Ready"}],
            discarding : [Calls -> {"none", "Reaper", "Reaped", "Inline", "Collecting"}]]
NoteStates == {"none", "transcribing", "settled", "removed"}
Outcomes == {"none", "Filed", "Fallback", "NoNote"}
Starting == {"publish", "preflight", "wait", "paused", "reserved", "install", "undo", "free"}
Owning == {"loading", "open", "closed"}
Suspending == {"loading", "open", "closed", "released"}

Types ==
    /\ det \in [at : {"idle", "starting", "spawned", "recording", "finished", "discarded"},
                rec : 0..MaxSessions, tee : BOOLEAN]
    /\ paused \in BOOLEAN /\ ctrl \in Seq({"Pause", "Abandoned", "Resume"})
    /\ thread \in [Calls -> {"none", "running", "ended"}]
    /\ verdict \in [Calls -> {"none", "Finish", "Discard"}]
    /\ outcome \in [Calls -> Outcomes] /\ taken \in [Calls -> Outcomes \cup {"None"}]
    /\ pipeline \in [at : {"idle", "collect", "join", "settle", "reap", "drain", "claim",
                           "claimed", "batch"},
                     rec : 0..MaxSessions, queued : BOOLEAN]
    /\ row \in [Calls -> {"none", "Recording", "Pending", "Done", "Failed"}]
    /\ job \in [Calls -> {"none", "refused", "due", "running", "done"}]
    /\ flags \in [recording : BOOLEAN, transcribing : BOOLEAN, test : BOOLEAN]
    /\ slot \in [st : {"none", "Starting", "Running"}, gen : 0..MaxSessions, win : Nat,
                 stop : BOOLEAN]
    /\ window \in [current : Nat, last : Nat, closed : BOOLEAN]
    /\ starter \in [at : {"idle", "reserve"} \cup Starting, gen : 0..MaxSessions, win : Nat]
    /\ tester \in [Generations -> {"none", "loading", "open", "closed", "released", "resumed",
                                   "exiting", "ended"}]
    /\ Begun <= MaxSessions
    /\ det.at # "idle" => det.rec >= 1
    /\ starter.at \in Starting => starter.gen >= 1
    /\ pipeline.at \in {"collect", "join", "settle", "reap"} => pipeline.rec >= 1

LockedTypes(m, n, p) == m \in Manager /\ n \in [Calls -> NoteStates] /\ p \in Seq(Mail)

\* The slot of the microphone test belongs to the start under way or to the one worker
\* that has not ended, and the flag is up from its publication to its withdrawal.
SlotInv ==
    /\ slot.st = "Starting" <=> starter.at \in Starting
    /\ slot.st = "Starting" => slot.gen = starter.gen
    /\ slot.st = "Running" => slot.gen \in 1..starter.gen
    /\ \A g \in Generations :
          /\ tester[g] \notin {"none", "ended"} => slot.st # "none" /\ slot.gen = g
          /\ starter.gen < g => tester[g] = "none"
          /\ tester[g] \in Suspending \cup {"resumed"} => flags.test
    /\ starter.at \in Starting \ {"install"} => tester[starter.gen] = "none"
    /\ starter.at \in {"preflight", "wait", "paused", "reserved"} => flags.test

\* Somebody relies on the suspended detector.
Suspended == \/ starter.at \in {"paused", "reserved"}
             \/ \E g \in Generations : tester[g] \in Suspending

\* A live Pause is the last message, and only while its start waits for it; an
\* abandoned one has its Resume behind it.
Orderly(s, waiting) ==
    /\ waiting => s # <<>> /\ s[Len(s)] = "Pause"
    /\ \A i \in DOMAIN s :
          /\ s[i] = "Pause" => waiting /\ i = Len(s)
          /\ s[i] = "Abandoned" => \E j \in DOMAIN s : i < j /\ s[j] = "Resume"

\* As long as somebody relies on the suspension, the channel is empty and the detector
\* idle; and a suspended detector has somebody who relies on it or a Resume coming.
PauseInv ==
    /\ Orderly(ctrl, starter.at = "wait")
    /\ Suspended => ctrl = <<>> /\ paused /\ det.at = "idle"
    /\ paused => Resuming \/ Suspended

\* The test holds the manager's reservation under its own generation.
ReservedInv(m) ==
    /\ starter.at = "reserved" => m.test = starter.gen
    /\ \A g \in Generations : tester[g] \in Owning => m.test = g

\* The calls up to this one have begun; of a later one there is no trace.
Past == IF det.at = "starting" THEN det.rec - 1 ELSE det.rec

Letters(p) == {p[i] : i \in DOMAIN p}
Queued(p, kind, r) == [kind |-> kind, rec |-> r] \in Letters(p)

PastInv(m, n, p) ==
    /\ \A letter \in Letters(p) : letter.rec <= Past
    /\ pipeline.rec <= Past
    /\ \A r \in Calls : Past < r =>
          /\ thread[r] = "none" /\ verdict[r] = "none" /\ taken[r] = "none"
          /\ row[r] = "none" /\ job[r] = "none" /\ n[r] = "none"
          /\ m.awaiting[r] = "none" /\ m.discarding[r] = "none"

\* Call r has the model, or its thread is on the way to the manager or out of it.
Holds(m, r) ==
    \/ det.at = "spawned" /\ det.rec = r
    \/ m.active = r
    \/ m.awaiting[r] \in {"Running", "Collecting"}
    \/ m.discarding[r] # "none"

\* One holder at a time, and none while the slot is promised to a call that is
\* starting or to the test; a running thread is a holder.
HolderInv(m) ==
    /\ \A r, s \in Calls : Holds(m, r) /\ Holds(m, s) => r = s
    /\ m.pending <=> det.at = "starting" /\ det.tee
    /\ m.pending \/ m.test # 0 => \A r \in Calls : ~Holds(m, r)
    /\ m.pending => m.test = 0
    /\ \A r \in Calls : thread[r] = "running" => Holds(m, r)

\* The call was kept, and its Process message is about to be sent, sent or taken up.
Kept(p, r) == \/ det.at = "finished" /\ det.rec = r
              \/ Queued(p, "Process", r)
              \/ pipeline.at = "collect" /\ pipeline.rec = r

\* Where the manager keeps a call's session, at each stage of the call.
Stage(m, p, r) ==
    /\ det.at = "spawned" /\ det.rec = r =>
          /\ thread[r] # "none" /\ verdict[r] = "none"
          /\ m.active # r /\ m.awaiting[r] = "none" /\ m.discarding[r] = "none"
    /\ m.active = r =>
          /\ det.at = "recording" /\ det.rec = r /\ thread[r] # "none"
          /\ verdict[r] = "none" /\ m.awaiting[r] = "none" /\ m.discarding[r] = "none"
    /\ det.at = "recording" /\ det.rec = r /\ thread[r] # "none" => m.active = r
    /\ m.awaiting[r] # "none" =>
          /\ verdict[r] = "Finish" /\ thread[r] # "none" /\ m.discarding[r] = "none"
          /\ m.awaiting[r] = "Collecting" \/ Kept(p, r)
          /\ m.awaiting[r] = "Ready" => thread[r] = "ended"
    /\ m.awaiting[r] = "Collecting" <=> pipeline.at = "join" /\ pipeline.rec = r
    /\ Kept(p, r) /\ thread[r] # "none" => m.awaiting[r] \in {"Running", "Ready"}
    /\ m.discarding[r] # "none" => verdict[r] = "Discard" /\ thread[r] # "none"
    /\ m.discarding[r] = "Reaped" => thread[r] = "ended"
    /\ m.discarding[r] = "Collecting" <=> pipeline.at = "reap" /\ pipeline.rec = r
StageInv(m, p) == \A r \in Calls : Stage(m, p, r)

Once(p) == \A i, j \in DOMAIN p : p[i] = p[j] /\ p[i].kind = "Process" => i = j

\* A kept call is processed once: its message is in one place, and until it is taken
\* up nothing has been collected for the call.
ProcessInv(p) ==
    /\ Once(p)
    /\ \A r \in Calls :
          /\ det.at \in {"spawned", "recording", "finished", "discarded"} /\ det.rec = r =>
                /\ ~Queued(p, "Process", r) /\ taken[r] = "none"
                /\ ~(pipeline.at \in {"collect", "join"} /\ pipeline.rec = r)
          /\ Queued(p, "Process", r) =>
                /\ taken[r] = "none"
                /\ ~(pipeline.at \in {"collect", "join"} /\ pipeline.rec = r)
          /\ pipeline.at \in {"collect", "join"} /\ pipeline.rec = r => taken[r] = "none"
          /\ pipeline.at = "settle" /\ pipeline.rec = r => taken[r] # "none"
          /\ pipeline.at \in {"collect", "join", "settle"} /\ pipeline.rec = r /\ ~pipeline.queued
                => job[r] = "refused"

\* An outcome exists exactly when the thread has ended, and says what became of the
\* note; what was collected is that outcome.
OutcomeInv(n) ==
    \A r \in Calls :
       /\ thread[r] = "ended" <=> outcome[r] # "none"
       /\ outcome[r] \in {"Filed", "NoNote"} \/ thread[r] = "none" => n[r] # "transcribing"
       /\ taken[r] = "None" => thread[r] = "none"
       /\ taken[r] \notin {"none", "None"} => verdict[r] = "Finish" /\ taken[r] = outcome[r]

\* An open note has somebody to see to it.
NoteInv(m, n, p) ==
    \A r \in Calls : n[r] = "transcribing" =>
       \/ Queued(p, "LiveDiscardCleanup", r)
       \/ det.at = "spawned" /\ det.rec = r
       \/ m.active = r \/ m.awaiting[r] # "none"
       \/ m.discarding[r] \in {"Reaper", "Inline", "Collecting"}
       \/ job[r] \in {"due", "running"}
       \/ pipeline.at = "settle" /\ pipeline.rec = r

\* A row at Recording has the message coming that moves or closes it.
RowInv(p) ==
    /\ pipeline.at \in {"claimed", "batch"} => pipeline.rec # 0 /\ job[pipeline.rec] = "running"
    /\ \A r \in Calls : row[r] = "Recording" =>
          \/ det.rec = r /\ det.at # "idle"
          \/ Queued(p, "Process", r) \/ Queued(p, "LiveDiscarded", r) \/ job[r] = "refused"
          \/ pipeline.at \in {"collect", "join", "settle"} /\ pipeline.rec = r
          \/ pipeline.at = "reap" /\ pipeline.rec = r /\ pipeline.queued

\* What an operation finds, and leaves, under the manager's lock.
Locked(m, n, p) ==
    /\ LockedTypes(m, n, p) /\ ReservedInv(m) /\ PastInv(m, n, p) /\ HolderInv(m)
    /\ StageInv(m, p) /\ ProcessInv(p) /\ OutcomeInv(n) /\ NoteInv(m, n, p) /\ RowInv(p)

Inv == Types /\ SlotInv /\ PauseInv /\ Locked(mgr, note, pipe)

-----------------------------------------------------------------------------
(* Letters in a channel                                                    *)

\* Adding a letter x to the pipeline's channel.
LEMMA AppendLetter ==
  ASSUME NEW p \in Seq(Mail), NEW x \in Mail
  PROVE  /\ Append(p, x) \in Seq(Mail)
         /\ Letters(Append(p, x)) = Letters(p) \cup {x}
         /\ Once(p) /\ (x.kind = "Process" => x \notin Letters(p)) => Once(Append(p, x))
<1>1. /\ Append(p, x) \in Seq(Mail) /\ Len(Append(p, x)) = Len(p) + 1
      /\ DOMAIN Append(p, x) = 1..(Len(p) + 1) /\ DOMAIN p = 1..Len(p) /\ Len(p) \in Nat
  OBVIOUS
<1>2. /\ \A i \in 1..Len(p) : Append(p, x)[i] = p[i]
      /\ Append(p, x)[Len(p) + 1] = x
  OBVIOUS
<1>3. Letters(Append(p, x)) = Letters(p) \cup {x}
  BY <1>1, <1>2 DEF Letters
<1>4. ASSUME Once(p), x.kind = "Process" => x \notin Letters(p)
      PROVE  Once(Append(p, x))
  BY <1>1, <1>2, <1>4 DEF Once, Letters
<1>5. QED  BY <1>1, <1>3, <1>4

\* The same as a concatenation, which is how the lock sends.
LEMMA SendLetter ==
  ASSUME NEW p \in Seq(Mail), NEW x \in Mail
  PROVE  /\ p \o <<x>> \in Seq(Mail)
         /\ Letters(p \o <<x>>) = Letters(p) \cup {x}
         /\ Once(p) /\ (x.kind = "Process" => x \notin Letters(p)) => Once(p \o <<x>>)
<1>1. p \o <<x>> = Append(p, x)
  OBVIOUS
<1>2. QED  BY <1>1, AppendLetter

\* The pipeline takes the first letter.
LEMMA TakeLetter ==
  ASSUME NEW p \in Seq(Mail), p # <<>>
  PROVE  /\ Head(p) \in Mail /\ Tail(p) \in Seq(Mail)
         /\ Letters(p) = Letters(Tail(p)) \cup {Head(p)}
         /\ Once(p) => /\ Once(Tail(p))
                       /\ Head(p).kind = "Process" => Head(p) \notin Letters(Tail(p))
<1>1. /\ Head(p) \in Mail /\ Tail(p) \in Seq(Mail) /\ Head(p) = p[1]
      /\ Len(p) \in Nat /\ Len(p) >= 1 /\ DOMAIN p = 1..Len(p)
      /\ DOMAIN Tail(p) = 1..(Len(p) - 1) /\ \A i \in 1..(Len(p) - 1) : Tail(p)[i] = p[i + 1]
  OBVIOUS
<1>2. Letters(p) = Letters(Tail(p)) \cup {Head(p)}
  <2>1. ASSUME NEW i \in 1..Len(p) PROVE p[i] \in Letters(Tail(p)) \cup {Head(p)}
    <3>1. CASE i = 1  BY <1>1, <3>1
    <3>2. CASE i # 1
      <4>1. i - 1 \in 1..(Len(p) - 1) /\ Tail(p)[i - 1] = p[i]
        BY <1>1, <3>2
      <4>2. QED  BY <4>1, <1>1 DEF Letters
    <3>3. QED  BY <3>1, <3>2
  <2>2. ASSUME NEW i \in 1..(Len(p) - 1) PROVE Tail(p)[i] \in Letters(p)
    <3>1. i + 1 \in 1..Len(p)
      BY <1>1
    <3>2. QED  BY <3>1, <1>1 DEF Letters
  <2>3. Head(p) \in Letters(p)
    BY <1>1 DEF Letters
  <2>4. QED  BY <1>1, <2>1, <2>2, <2>3 DEF Letters
<1>3. ASSUME Once(p)
      PROVE  /\ Once(Tail(p))
             /\ Head(p).kind = "Process" => Head(p) \notin Letters(Tail(p))
  <2>1. \A i \in 1..(Len(p) - 1) : i + 1 \in DOMAIN p /\ i + 1 # 1 /\ Tail(p)[i] = p[i + 1]
    BY <1>1
  <2>2. Once(Tail(p))
    BY <1>1, <1>3, <2>1 DEF Once
  <2>3. Head(p).kind = "Process" => Head(p) \notin Letters(Tail(p))
    BY <1>1, <1>3, <2>1 DEF Once, Letters
  <2>4. QED  BY <2>2, <2>3
<1>4. QED  BY <1>1, <1>2, <1>3

\* Sent, in terms of the letters.
LEMMA SentIsQueued ==
  ASSUME NEW kind, NEW r PROVE Sent(kind, r) <=> Queued(pipe, kind, r)
BY DEF Sent, Queued, Letters

-----------------------------------------------------------------------------
(* Reaping                                                                 *)

\* What reap_completed makes of the manager, of the notes and of the channel.
ReapEffect(ok, m, n, p) ==
    /\ m \in Manager /\ m.pending = mgr.pending /\ m.test = mgr.test /\ m.active = mgr.active
    /\ \A r \in Calls :
          /\ m.awaiting[r] = IF mgr.awaiting[r] = "Running" /\ thread[r] = "ended"
                             THEN "Ready" ELSE mgr.awaiting[r]
          /\ m.discarding[r] = IF r \in Unspawned \/ mgr.discarding[r] = "Reaped"
                               THEN "none" ELSE mgr.discarding[r]
    /\ n \in [Calls -> NoteStates]
    /\ \A r \in Calls : n[r] = IF r \in Unspawned /\ OnDisk(note[r]) /\ ok
                               THEN "removed" ELSE note[r]
    /\ p \in Seq(Mail) /\ Once(p)
    /\ \A letter \in Letters(p) :
          letter \in Letters(pipe) \/ (letter.kind = "LiveDiscardCleanup" /\ letter.rec \in Unspawned)
    /\ \A kind, r : Queued(pipe, kind, r) => Queued(p, kind, r)
    /\ \A kind, r : Queued(p, kind, r) /\ kind # "LiveDiscardCleanup" => Queued(pipe, kind, r)
    /\ \A r \in Unspawned : OnDisk(note[r]) /\ ~ok => Queued(p, "LiveDiscardCleanup", r)

\* At most one unspawned discard is finished at a time, so one report is enough.
LEMMA ReapFacts ==
  ASSUME Inv, NEW ok \in BOOLEAN,
         NEW m, m = Reaped(mgr), NEW n, n = Unlinked(Unspawned, ok),
         NEW p, p = pipe \o Reported(Unspawned, ok)
  PROVE  ReapEffect(ok, m, n, p)
<1>0. mgr \in Manager /\ note \in [Calls -> NoteStates] /\ pipe \in Seq(Mail) /\ Once(pipe)
  BY DEF Inv, Locked, LockedTypes, ProcessInv
<1>1. /\ m \in Manager /\ m.pending = mgr.pending /\ m.test = mgr.test
      /\ m.active = mgr.active
      /\ \A r \in Calls : /\ m.awaiting[r] = IF mgr.awaiting[r] = "Running" /\ thread[r] = "ended"
                                             THEN "Ready" ELSE mgr.awaiting[r]
                          /\ m.discarding[r] = IF r \in Unspawned \/ mgr.discarding[r] = "Reaped"
                                               THEN "none" ELSE mgr.discarding[r]
  BY <1>0 DEF Reaped, Manager
<1>2. n \in [Calls -> NoteStates]
  BY <1>0 DEF Unlinked, NoteStates
<1>3. \A r \in Calls : n[r] = IF r \in Unspawned /\ OnDisk(note[r]) /\ ok THEN "removed" ELSE note[r]
  BY <1>0 DEF Unlinked
<1>4. Unspawned \subseteq Calls /\ \A r, s \in Unspawned : r = s
  BY DEF Inv, Locked, Unspawned, HolderInv, Holds
<1>5. /\ p \in Seq(Mail) /\ Once(p)
      /\ \A letter \in Letters(p) :
            letter \in Letters(pipe) \/ (letter.kind = "LiveDiscardCleanup" /\ letter.rec \in Unspawned)
      /\ \A kind, r : Queued(pipe, kind, r) => Queued(p, kind, r)
      /\ \A kind, r : Queued(p, kind, r) /\ kind # "LiveDiscardCleanup" => Queued(pipe, kind, r)
      /\ \A r \in Unspawned : OnDisk(note[r]) /\ ~ok => Queued(p, "LiveDiscardCleanup", r)
  <2>1. CASE ok \/ \A r \in Unspawned : ~OnDisk(note[r])
    <3>1. Reported(Unspawned, ok) = <<>>
      BY <2>1 DEF Reported
    <3>2. p = pipe
      BY <3>1, <1>0
    <3>3. Letters(p) = Letters(pipe) /\ \A kind, r : Queued(p, kind, r) <=> Queued(pipe, kind, r)
      BY <3>2
    <3>4. \A r \in Unspawned : OnDisk(note[r]) /\ ~ok => Queued(p, "LiveDiscardCleanup", r)
      BY <2>1
    <3>5. QED  BY <3>2, <3>3, <3>4, <1>0
  <2>2. CASE ~ok /\ \E r \in Unspawned : OnDisk(note[r])
    <3>1. PICK r \in Unspawned : OnDisk(note[r])
      BY <2>2
    <3>2. (CHOOSE s \in Unspawned : OnDisk(note[s])) = r
      BY <3>1, <1>4
    <3> DEFINE x == [kind |-> "LiveDiscardCleanup", rec |-> r]
    <3>3. Reported(Unspawned, ok) = <<x>>
      BY <2>2, <3>2 DEF Reported
    <3>4. x \in Mail /\ x.kind = "LiveDiscardCleanup" /\ x.rec = r
      BY <1>4, <3>1 DEF Mail, Kinds
    <3>5. p \in Seq(Mail) /\ Letters(p) = Letters(pipe) \cup {x} /\ Once(p)
      <4> HIDE DEF x
      <4>1. p = pipe \o <<x>>
        BY <3>3
      <4>2. QED  BY <1>0, <3>4, <4>1, SendLetter
    <3>6. \A kind, s : [kind |-> kind, rec |-> s] = x => kind = "LiveDiscardCleanup" /\ s = r
      BY <3>4
    <3>7. \A s \in Unspawned : [kind |-> "LiveDiscardCleanup", rec |-> s] = x
      BY <1>4, <3>1
    <3> HIDE DEF x
    <3>8. \A letter \in Letters(p) :
             letter \in Letters(pipe) \/ (letter.kind = "LiveDiscardCleanup" /\ letter.rec \in Unspawned)
      BY <3>1, <3>4, <3>5
    <3>9. /\ \A kind, s : Queued(pipe, kind, s) => Queued(p, kind, s)
          /\ \A kind, s : Queued(p, kind, s) /\ kind # "LiveDiscardCleanup" => Queued(pipe, kind, s)
      BY <3>5, <3>6 DEF Queued
    <3>10. \A s \in Unspawned : OnDisk(note[s]) /\ ~ok => Queued(p, "LiveDiscardCleanup", s)
      BY <3>5, <3>7 DEF Queued
    <3>11. QED  BY <3>5, <3>8, <3>9, <3>10, Zenon
  <2>3. QED  BY <2>1, <2>2
<1>6. QED  BY <1>1, <1>2, <1>3, <1>5, Zenon DEF ReapEffect

\* reap_completed keeps the invariant: it joins what has ended, and whatever it lets
\* go of is deleted, reported or was dealt with by its reaper.
LEMMA ReapKeeps ==
  ASSUME Inv, NEW ok \in BOOLEAN,
         NEW m, m = Reaped(mgr), NEW n, n = Unlinked(Unspawned, ok),
         NEW p, p = pipe \o Reported(Unspawned, ok)
  PROVE  Locked(m, n, p)
<1>1. ReapEffect(ok, m, n, p)
  BY ReapFacts
<1>0. /\ Types /\ LockedTypes(mgr, note, pipe) /\ ReservedInv(mgr) /\ PastInv(mgr, note, pipe)
      /\ HolderInv(mgr) /\ StageInv(mgr, pipe) /\ ProcessInv(pipe) /\ OutcomeInv(note)
      /\ NoteInv(mgr, note, pipe) /\ RowInv(pipe)
  BY DEF Inv, Locked
<1> USE <1>0 DEF ReapEffect
<1>2. LockedTypes(m, n, p)
  BY <1>1 DEF LockedTypes
<1>3. ReservedInv(m)
  BY <1>1 DEF ReservedInv
<1>4. PastInv(m, n, p)
  <2>1. Past \in Int /\ Calls \subseteq Int
    BY DEF Past, Calls, Types
  <2>2. \A r \in Unspawned : r \in Calls /\ r <= Past
    BY <2>1 DEF PastInv, Unspawned
  <2>3. \A letter \in Letters(p) : letter.rec <= Past
    BY <1>1, <2>2 DEF PastInv
  <2>4. ASSUME NEW r \in Calls, Past < r
        PROVE  n[r] = "none" /\ m.awaiting[r] = "none" /\ m.discarding[r] = "none"
    <3>1. note[r] = "none" /\ mgr.awaiting[r] = "none" /\ mgr.discarding[r] = "none"
      BY <2>4 DEF PastInv
    <3>2. QED  BY <1>1, <3>1 DEF OnDisk
  <2>5. QED  BY <2>3, <2>4 DEF PastInv
<1>5. HolderInv(m)
  <2>1. \A r \in Calls : Holds(m, r) => Holds(mgr, r)
    BY <1>1 DEF Holds
  <2>2. \A r \in Calls : thread[r] = "running" => Holds(m, r)
    BY <1>1, SMTT(30) DEF HolderInv, Holds, Unspawned, StageInv, Stage
  <2>3. QED  BY <1>1, <2>1, <2>2 DEF HolderInv
<1>6. \A r \in Calls : Kept(p, r) <=> Kept(pipe, r)
  BY <1>1 DEF Kept
<1>7. StageInv(m, p)
  BY <1>1, <1>6 DEF StageInv, Stage, Unspawned
<1>8. ProcessInv(p)
  BY <1>1 DEF ProcessInv
<1>9. OutcomeInv(n)
  BY <1>1 DEF OutcomeInv
<1>10. NoteInv(m, n, p)
  BY <1>1, SMTT(30) DEF NoteInv, Unspawned, OnDisk, StageInv, Stage
<1>11. RowInv(p)
  BY <1>1 DEF RowInv
<1>12. QED  BY <1>2, <1>3, <1>4, <1>5, <1>7, <1>8, <1>9, <1>10, <1>11 DEF Locked

\* What an operation finds under the lock, in the form its action states it.
LEMMA Reaping ==
  ASSUME Inv, NEW ok \in May("unlink")
  PROVE  LET m == Reaped(mgr)
             n == Unlinked(Unspawned, ok)
             p == pipe \o Reported(Unspawned, ok)
         IN Locked(m, n, p) /\ p \o <<>> = p
<1>1. ok \in BOOLEAN
  BY DEF May
<1> DEFINE m == Reaped(mgr)  n == Unlinked(Unspawned, ok)  p == pipe \o Reported(Unspawned, ok)
<1>2. Locked(m, n, p)
  BY <1>1, ReapKeeps
<1>3. p \in Seq(Mail)
  BY <1>2 DEF Locked, LockedTypes
<1>4. p \o <<>> = p
  <2> HIDE DEF p
  <2>1. QED  BY <1>3
<1>5. QED  BY <1>2, <1>4

-----------------------------------------------------------------------------
(* The detector                                                            *)

\* The calls leave the test's slot, its flag and its hold on the detector alone.
LEMMA TestFrame ==
  ASSUME Inv, UNCHANGED <<slot, starter, tester, ctrl, paused>>, flags'.test = flags.test,
         Suspended => det' = det
  PROVE  SlotInv' /\ PauseInv'
<1>1. SlotInv /\ PauseInv
  BY DEF Inv
<1>2. SlotInv'
  BY <1>1 DEF SlotInv
<1>3. PauseInv'
  BY <1>1 DEF PauseInv, Suspended, Resuming
<1>4. QED  BY <1>2, <1>3

\* attach promises the slot only when nobody holds it.
LEMMA AttachKeeps ==
  ASSUME Inv, Attach PROVE Inv'
<1>1. PICK m, n, p, tee :
      /\ Locked(m, n, p)
      /\ det.at = "idle" /\ ~paused /\ MoreSessions
      /\ tee \in BOOLEAN /\ (tee => GateIsOpen(m))
      /\ det' = [at |-> "starting", rec |-> det.rec + 1, tee |-> tee]
      /\ mgr' = [m EXCEPT !.pending = m.pending \/ tee] /\ note' = n /\ pipe' = p
      /\ UNCHANGED <<paused, ctrl, thread, verdict, outcome, pipeline, row, job,
                    taken, flags, slot, window, starter, tester>>
  <2>1. PICK eligible \in BOOLEAN, ok \in May("unlink") :
          /\ det.at = "idle" /\ ~paused /\ MoreSessions
          /\ det' = [at |-> "starting", rec |-> det.rec + 1,
                     tee |-> eligible /\ GateIsOpen(Reaped(mgr))]
          /\ IF eligible
             THEN /\ mgr' = [Reaped(mgr) EXCEPT !.pending = @ \/ (eligible /\ GateIsOpen(Reaped(mgr)))]
                  /\ Lock(ok, <<>>)
             ELSE UNCHANGED <<mgr, note, pipe>>
          /\ UNCHANGED <<paused, ctrl, callVars, queueVars, flags, testVars>>
    BY DEF Attach
  <2>2. CASE eligible
    BY <2>1, <2>2, Reaping DEF Lock, GateIsOpen, callVars, queueVars, testVars
  <2>3. CASE ~eligible
    <3>1. mgr = [mgr EXCEPT !.pending = mgr.pending \/ FALSE]
      BY DEF Inv, Locked, LockedTypes, Manager
    <3>2. QED  BY <2>1, <2>3, <3>1 DEF Inv, callVars, queueVars, testVars
  <2>4. QED  BY <2>2, <2>3
<1>0. /\ Types /\ SlotInv /\ PauseInv /\ LockedTypes(m, n, p) /\ ReservedInv(m) /\ PastInv(m, n, p)
      /\ HolderInv(m) /\ StageInv(m, p) /\ ProcessInv(p) /\ OutcomeInv(n)
      /\ NoteInv(m, n, p) /\ RowInv(p)
  BY <1>1 DEF Inv, Locked
<1>2. Types'
  <2>0. det.rec \in 0..MaxSessions /\ starter.gen \in 0..MaxSessions /\ MaxSessions \in Nat
    BY <1>0, BoundAssumption DEF Types
  <2>1. det.rec + 1 \in 0..MaxSessions /\ Begun' <= MaxSessions
    BY <1>1, <2>0 DEF Begun, MoreSessions
  <2>2. det' \in [at : {"idle", "starting", "spawned", "recording", "finished", "discarded"},
                  rec : 0..MaxSessions, tee : BOOLEAN] /\ det'.rec >= 1
    BY <1>1, <2>0, <2>1
  <2>3. QED  BY <1>0, <1>1, <2>1, <2>2 DEF Types
<1>3. SlotInv' /\ PauseInv'
  <2>1. ~Suspended
    BY <1>0, <1>1 DEF PauseInv
  <2>2. QED  BY <1>1, <2>1, TestFrame
<1>4. LockedTypes(mgr, note, pipe)'
  BY <1>0, <1>1 DEF LockedTypes, Manager
<1>5. ReservedInv(mgr)'
  BY <1>0, <1>1 DEF ReservedInv
<1>6. PastInv(mgr, note, pipe)'
  <2>1. Past' = Past
    BY <1>0, <1>1 DEF Past, Types
  <2>2. \A r \in Calls : mgr'.awaiting[r] = m.awaiting[r] /\ mgr'.discarding[r] = m.discarding[r]
    BY <1>0, <1>1 DEF LockedTypes, Manager
  <2>3. QED  BY <1>0, <1>1, <2>1, <2>2 DEF PastInv
<1>7. HolderInv(mgr)'
  <2>1. m.pending = FALSE /\ mgr'.pending = tee /\ mgr'.test = m.test
    BY <1>0, <1>1 DEF HolderInv, LockedTypes, Manager
  <2>2. \A r \in Calls : Holds(mgr, r)' <=> Holds(m, r)
    BY <1>0, <1>1 DEF Holds, LockedTypes, Manager
  <2>3. tee => m.test = 0 /\ \A r \in Calls : ~Holds(m, r)
    BY <1>0, <1>1 DEF GateIsOpen, has_finishing_thread, Holds, LockedTypes, Manager, Calls
  <2>4. QED  BY <1>0, <1>1, <2>1, <2>2, <2>3 DEF HolderInv
<1>8. StageInv(mgr, pipe)'
  BY <1>0, <1>1 DEF StageInv, Stage, Kept
<1>9. ProcessInv(pipe)'
  BY <1>0, <1>1 DEF ProcessInv
<1>10. OutcomeInv(note)'
  BY <1>0, <1>1 DEF OutcomeInv
<1>11. NoteInv(mgr, note, pipe)'
  BY <1>0, <1>1 DEF NoteInv
<1>12. RowInv(pipe)'
  BY <1>0, <1>1 DEF RowInv
<1>13. QED
  BY <1>2, <1>3, <1>4, <1>5, <1>6, <1>7, <1>8, <1>9, <1>10, <1>11, <1>12 DEF Inv, Locked

\* Every letter is about a call.
LEMMA LettersTyped ==
  ASSUME NEW p \in Seq(Mail) PROVE \A letter \in Letters(p) : letter.rec \in Calls /\ letter.rec \in Int
<1>1. \A i \in DOMAIN p : p[i] \in Mail
  OBVIOUS
<1>2. \A letter \in Mail : letter.rec \in Calls /\ letter.rec \in Int
  BY DEF Mail, Calls
<1>3. QED  BY <1>1, <1>2 DEF Letters

\* The call that is starting is a new one: nothing is known of it anywhere.
LEMMA StartingIsNew ==
  ASSUME Inv, det.at = "starting"
  PROVE  /\ Call \in Calls /\ Past = Call - 1 /\ \A r \in Calls : Call < r => Past < r /\ r # Call
         /\ thread[Call] = "none" /\ verdict[Call] = "none" /\ taken[Call] = "none"
         /\ row[Call] = "none" /\ job[Call] = "none" /\ note[Call] = "none"
         /\ mgr.awaiting[Call] = "none" /\ mgr.discarding[Call] = "none" /\ mgr.active = 0
         /\ \A kind : ~Queued(pipe, kind, Call)
         /\ pipeline.rec # Call
<1>0. Types /\ LockedTypes(mgr, note, pipe) /\ PastInv(mgr, note, pipe) /\ StageInv(mgr, pipe)
  BY DEF Inv, Locked
<1>1. Call \in Calls /\ Past = Call - 1 /\ Past < Call /\ \A r \in Calls : Call < r => Past < r /\ r # Call
  BY <1>0, BoundAssumption DEF Types, Past, Call, Calls
<1>2. mgr.active = 0
  BY <1>0 DEF LockedTypes, Manager, StageInv, Stage, Calls
<1>3. \A letter \in Letters(pipe) : letter.rec # Call
  <2>1. \A letter \in Letters(pipe) : letter.rec \in Int /\ letter.rec <= Past
    BY <1>0, LettersTyped DEF PastInv, LockedTypes
  <2>2. Call \in Int /\ \A x \in Int : x <= Call - 1 => x # Call
    BY <1>1 DEF Calls
  <2>3. QED  BY <1>1, <2>1, <2>2
<1>4. \A kind : ~Queued(pipe, kind, Call)
  BY <1>3 DEF Queued
<1>5. pipeline.rec # Call
  BY <1>0, <1>1 DEF PastInv, Types, Calls
<1>6. QED  BY <1>0, <1>1, <1>2, <1>4, <1>5 DEF PastInv

\* started spawns the session thread of a call that was promised the slot.
LEMMA SpawnKeeps ==
  ASSUME Inv,
         det.at = "starting" /\ det.tee,
         mgr' = [mgr EXCEPT !.pending = FALSE],
         thread' = [thread EXCEPT ![Call] = "running"],
         det' = [det EXCEPT !.at = "spawned"],
         UNCHANGED <<paused, ctrl, verdict, outcome, note, pipe, pipeline, row,
                       job, taken, flags, slot, window, starter, tester>>
  PROVE  Inv'
<1>0. /\ Types /\ SlotInv /\ PauseInv /\ LockedTypes(mgr, note, pipe) /\ ReservedInv(mgr) /\ PastInv(mgr, note, pipe)
      /\ HolderInv(mgr) /\ StageInv(mgr, pipe) /\ ProcessInv(pipe) /\ OutcomeInv(note)
      /\ NoteInv(mgr, note, pipe) /\ RowInv(pipe)
  BY DEF Inv, Locked
<1>a. /\ mgr' \in Manager
      /\ mgr'.pending = FALSE
      /\ mgr'.test = mgr.test
      /\ mgr'.active = mgr.active
      /\ \A r \in Calls : /\ mgr'.awaiting[r] = mgr.awaiting[r]
                             /\ mgr'.discarding[r] = mgr.discarding[r]
  BY <1>0 DEF LockedTypes, Manager
<1>b. /\ Call \in Calls /\ Past = Call - 1 /\ \A r \in Calls : Call < r => Past < r /\ r # Call
      /\ thread[Call] = "none" /\ verdict[Call] = "none" /\ taken[Call] = "none"
      /\ row[Call] = "none" /\ job[Call] = "none" /\ note[Call] = "none"
      /\ mgr.awaiting[Call] = "none" /\ mgr.discarding[Call] = "none" /\ mgr.active = 0
      /\ \A kind : ~Queued(pipe, kind, Call)
      /\ pipeline.rec # Call
  BY StartingIsNew
<1>g. det'.at = "spawned" /\ det'.rec = det.rec /\ det'.tee = det.tee
  BY <1>0 DEF Types
<1>c. Past' = Call /\ Call' = Call /\ Call = det.rec /\ Past < Call
  BY <1>0, <1>b, <1>g DEF Past, Call, Types, Calls
<1>d. \A r \in Calls : Kept(pipe, r)' <=> Kept(pipe, r)
  BY <1>g DEF Kept
<1>e. \A r \in Calls : thread'[r] = IF r = Call THEN "running" ELSE thread[r]
  BY <1>0, <1>b DEF Types
<1>f. mgr.test = 0 /\ \A r \in Calls : ~Holds(mgr, r)
  BY <1>0 DEF HolderInv
<1>2. Types'
  <2>1. Begun' = Begun
    BY <1>0 DEF Types, Begun
  <2>2. QED  BY <1>0, <2>1, <1>b DEF Types
<1>3. SlotInv' /\ PauseInv'
  <2>1. ~Suspended
    BY <1>0 DEF PauseInv
  <2>2. QED  BY <2>1, TestFrame
<1>4. LockedTypes(mgr, note, pipe)'
  BY <1>0, <1>a DEF LockedTypes
<1>5. ReservedInv(mgr)'
  BY <1>0, <1>a DEF ReservedInv
<1>6. PastInv(mgr, note, pipe)'
  <2>1. Call \in Int /\ \A x \in Int : x <= Call - 1 => x <= Call
    BY <1>b DEF Calls
  <2>2. \A letter \in Letters(pipe) : letter.rec \in Int /\ letter.rec <= Past
    BY <1>0, LettersTyped DEF PastInv, LockedTypes
  <2>3. pipeline.rec \in Int /\ pipeline.rec <= Past
    BY <1>0 DEF PastInv, Types
  <2>4. /\ \A letter \in Letters(pipe) : letter.rec <= Call
        /\ pipeline.rec <= Call
    BY <1>b, <2>1, <2>2, <2>3
  <2>5. QED  BY <1>0, <1>a, <1>b, <1>c, <1>e, <2>4 DEF PastInv
<1>7. HolderInv(mgr)'
  <2>1. \A r \in Calls : Holds(mgr, r)' <=> r = Call
    BY <1>a, <1>c, <1>f, <1>g DEF Holds
  <2>2. \A r \in Calls : thread[r] # "running"
    BY <1>0, <1>f DEF HolderInv
  <2>3. \A r \in Calls : thread'[r] = "running" => Holds(mgr, r)'
    BY <1>e, <2>1, <2>2
  <2>4. ~mgr'.pending /\ mgr'.test = 0 /\ det'.at # "starting"
    BY <1>a, <1>f, <1>g
  <2>5. QED  BY <2>1, <2>3, <2>4 DEF HolderInv
<1>8. StageInv(mgr, pipe)'
  <2>1. \A r \in Calls : /\ mgr.active # r /\ mgr.discarding[r] = "none"
                          /\ mgr.awaiting[r] \notin {"Running", "Collecting"}
    BY <1>f DEF Holds
  <2>2. ~Kept(pipe, Call)
    BY <1>b DEF Kept
  <2>3. QED  BY <1>0, <1>a, <1>b, <1>c, <1>d, <1>e, <1>g, <2>1, <2>2 DEF StageInv, Stage
<1>9. ProcessInv(pipe)'
  BY <1>0, <1>b, <1>c, <1>g DEF ProcessInv
<1>10. OutcomeInv(note)'
  BY <1>0, <1>b, <1>e DEF OutcomeInv
<1>11. NoteInv(mgr, note, pipe)'
  BY <1>0, <1>a, <1>g DEF NoteInv
<1>12. RowInv(pipe)'
  BY <1>0, <1>b, <1>c, <1>g DEF RowInv
<1>13. QED
  BY <1>2, <1>3, <1>4, <1>5, <1>6, <1>7, <1>8, <1>9, <1>10, <1>11, <1>12 DEF Inv, Locked

\* Without a session the recorder runs all the same.
LEMMA RecordKeeps ==
  ASSUME Inv,
         det.at = "starting",
         mgr' = [mgr EXCEPT !.pending = FALSE],
         flags' \in [recording : BOOLEAN, transcribing : BOOLEAN, test : {flags.test}],
         NEW place \in {"recording", "idle"}, det' = [det EXCEPT !.at = place],
         UNCHANGED <<paused, ctrl, thread, verdict, outcome, note, pipe, pipeline,
                       row, job, taken, slot, window, starter, tester>>
  PROVE  Inv'
<1>0. /\ Types /\ SlotInv /\ PauseInv /\ LockedTypes(mgr, note, pipe) /\ ReservedInv(mgr) /\ PastInv(mgr, note, pipe)
      /\ HolderInv(mgr) /\ StageInv(mgr, pipe) /\ ProcessInv(pipe) /\ OutcomeInv(note)
      /\ NoteInv(mgr, note, pipe) /\ RowInv(pipe)
  BY DEF Inv, Locked
<1>a. /\ mgr' \in Manager
      /\ mgr'.pending = FALSE
      /\ mgr'.test = mgr.test
      /\ mgr'.active = mgr.active
      /\ \A r \in Calls : /\ mgr'.awaiting[r] = mgr.awaiting[r]
                             /\ mgr'.discarding[r] = mgr.discarding[r]
  BY <1>0 DEF LockedTypes, Manager
<1>b. /\ Call \in Calls /\ Past = Call - 1 /\ \A r \in Calls : Call < r => Past < r /\ r # Call
      /\ thread[Call] = "none" /\ verdict[Call] = "none" /\ taken[Call] = "none"
      /\ row[Call] = "none" /\ job[Call] = "none" /\ note[Call] = "none"
      /\ mgr.awaiting[Call] = "none" /\ mgr.discarding[Call] = "none" /\ mgr.active = 0
      /\ \A kind : ~Queued(pipe, kind, Call)
      /\ pipeline.rec # Call
  BY StartingIsNew
<1>g. det'.at = place /\ det'.rec = det.rec /\ det'.tee = det.tee
  BY <1>0 DEF Types
<1>c. Past' = Call /\ Call' = Call /\ Call = det.rec /\ Past < Call
  BY <1>0, <1>b, <1>g DEF Past, Call, Types, Calls
<1>d. \A r \in Calls : Kept(pipe, r)' <=> Kept(pipe, r)
  BY <1>g DEF Kept
<1>2. Types'
  <2>1. Begun' = Begun
    BY <1>0 DEF Types, Begun
  <2>2. flags' \in [recording : BOOLEAN, transcribing : BOOLEAN, test : BOOLEAN]
    BY <1>0 DEF Types
  <2>3. det' \in [at : {"idle", "starting", "spawned", "recording", "finished", "discarded"},
                  rec : 0..MaxSessions, tee : BOOLEAN] /\ det'.rec >= 1
    BY <1>0 DEF Types
  <2>4. QED  BY <1>0, <2>1, <2>2, <2>3 DEF Types
<1>3. SlotInv' /\ PauseInv'
  <2>1. ~Suspended
    BY <1>0 DEF PauseInv
  <2>2. flags'.test = flags.test
    OBVIOUS
  <2>3. QED  BY <2>1, <2>2, TestFrame
<1>4. LockedTypes(mgr, note, pipe)'
  BY <1>0, <1>a DEF LockedTypes
<1>5. ReservedInv(mgr)'
  BY <1>0, <1>a DEF ReservedInv
<1>6. PastInv(mgr, note, pipe)'
  <2>1. Call \in Int /\ \A x \in Int : x <= Call - 1 => x <= Call
    BY <1>b DEF Calls
  <2>2. \A letter \in Letters(pipe) : letter.rec \in Int /\ letter.rec <= Past
    BY <1>0, LettersTyped DEF PastInv, LockedTypes
  <2>3. pipeline.rec \in Int /\ pipeline.rec <= Past
    BY <1>0 DEF PastInv, Types
  <2>4. /\ \A letter \in Letters(pipe) : letter.rec <= Call
        /\ pipeline.rec <= Call
    BY <1>b, <2>1, <2>2, <2>3
  <2>5. QED  BY <1>0, <1>a, <1>b, <1>c, <2>4 DEF PastInv
<1>7. HolderInv(mgr)'
  <2>1. \A r \in Calls : Holds(mgr, r)' <=> Holds(mgr, r)
    BY <1>a, <1>g DEF Holds
  <2>2. QED  BY <1>0, <1>a, <1>g, <2>1 DEF HolderInv
<1>8. StageInv(mgr, pipe)'
  BY <1>0, <1>a, <1>b, <1>c, <1>d, <1>g DEF StageInv, Stage
<1>9. ProcessInv(pipe)'
  BY <1>0, <1>b, <1>c, <1>g DEF ProcessInv
<1>10. OutcomeInv(note)'
  BY <1>0 DEF OutcomeInv
<1>11. NoteInv(mgr, note, pipe)'
  BY <1>0, <1>a, <1>g DEF NoteInv
<1>12. RowInv(pipe)'
  BY <1>0, <1>b, <1>c, <1>g DEF RowInv
<1>13. QED
  BY <1>2, <1>3, <1>4, <1>5, <1>6, <1>7, <1>8, <1>9, <1>10, <1>11, <1>12 DEF Inv, Locked

\* started, with the thread and without.
LEMMA StartOkKeeps ==
  ASSUME Inv, StartOk PROVE Inv'
<1>1. PICK spawned \in May("spawn") :
      /\ det.at = "starting"
      /\ mgr' = [mgr EXCEPT !.pending = FALSE]
      /\ IF det.tee /\ spawned
         THEN /\ thread' = [thread EXCEPT ![Call] = "running"]
              /\ det' = [det EXCEPT !.at = "spawned"] /\ flags' = flags
         ELSE /\ det' = [det EXCEPT !.at = "recording"] /\ thread' = thread
              /\ flags' = [flags EXCEPT !.recording = TRUE]
      /\ UNCHANGED <<paused, ctrl, verdict, outcome, note, pipe, pipeline, row, job, taken, slot,
                     window, starter, tester>>
  BY DEF StartOk, queueVars, testVars
<1>2. CASE det.tee /\ spawned
  BY <1>1, <1>2, SpawnKeeps
<1>3. CASE ~(det.tee /\ spawned)
  <2>1. flags' \in [recording : BOOLEAN, transcribing : BOOLEAN, test : {flags.test}]
    <3>1. flags \in [recording : BOOLEAN, transcribing : BOOLEAN, test : BOOLEAN]
      BY DEF Inv, Types
    <3>2. QED  BY <1>1, <1>3, <3>1
  <2>2. QED  BY <1>1, <1>3, <2>1, RecordKeeps
<1>4. QED  BY <1>2, <1>3

\* aborted.
LEMMA StartFailsKeeps ==
  ASSUME Inv, StartFails PROVE Inv'
<1>1. flags' \in [recording : BOOLEAN, transcribing : BOOLEAN, test : {flags.test}]
  BY DEF StartFails, Inv, Types
<1>2. QED  BY <1>1, RecordKeeps DEF StartFails, callVars, queueVars, testVars

\* Everything the manager's lock protects, and the calls, are as they were.
LEMMA CallFrame ==
  ASSUME Inv, ReservedInv(mgr)',
         UNCHANGED <<det, mgr, thread, verdict, outcome, taken, note, pipe, pipeline, row, job>>
  PROVE  Locked(mgr, note, pipe)'
<1>0. /\ LockedTypes(mgr, note, pipe) /\ PastInv(mgr, note, pipe)
      /\ HolderInv(mgr) /\ StageInv(mgr, pipe) /\ ProcessInv(pipe) /\ OutcomeInv(note)
      /\ NoteInv(mgr, note, pipe) /\ RowInv(pipe)
  BY DEF Inv, Locked
<1>1. LockedTypes(mgr, note, pipe)' /\ PastInv(mgr, note, pipe)' /\ OutcomeInv(note)'
  BY <1>0 DEF LockedTypes, PastInv, Past, OutcomeInv
<1>2. HolderInv(mgr)'
  BY <1>0 DEF HolderInv, Holds
<1>3. StageInv(mgr, pipe)'
  BY <1>0 DEF StageInv, Stage, Kept
<1>4. ProcessInv(pipe)'
  BY <1>0 DEF ProcessInv
<1>5. NoteInv(mgr, note, pipe)' /\ RowInv(pipe)'
  BY <1>0 DEF NoteInv, RowInv
<1>6. QED  BY <1>1, <1>2, <1>3, <1>4, <1>5 DEF Locked

\* An error while recording takes the flags down.
LEMMA RebindErrorKeeps ==
  ASSUME Inv, RebindError PROVE Inv'
<1>1. /\ flags' \in [recording : BOOLEAN, transcribing : BOOLEAN, test : BOOLEAN]
      /\ flags'.test = flags.test
      /\ UNCHANGED <<det, paused, ctrl, mgr, thread, verdict, outcome, note, pipe, pipeline, row,
                     job, taken, slot, window, starter, tester>>
  BY DEF RebindError, Inv, Types, callVars, queueVars, testVars
<1>2. Types'
  BY <1>1 DEF Inv, Types, Begun
<1>3. SlotInv' /\ PauseInv'
  BY <1>1, TestFrame
<1>4. ReservedInv(mgr)'
  BY <1>1 DEF Inv, Locked, ReservedInv
<1>5. QED  BY <1>1, <1>2, <1>3, <1>4, CallFrame DEF Inv

\* A call whose thread has not reached the manager yet is alone there.
LEMMA SpawnedIsAlone ==
  ASSUME Types, NEW m, NEW n, NEW p, Locked(m, n, p), det.at = "spawned"
  PROVE  /\ Call \in Calls /\ m.active = 0 /\ ~has_finishing_thread(m) /\ m.test = 0
         /\ m.pending = FALSE
<1>0. m \in Manager /\ HolderInv(m) /\ StageInv(m, p) /\ Call \in Calls
  BY BoundAssumption DEF Locked, LockedTypes, Types, Call, Calls
<1>1. Holds(m, Call)
  BY DEF Holds, Call
<1>2. \A r \in Calls : Holds(m, r) => r = Call
  BY <1>0, <1>1 DEF HolderInv
<1>3. m.active # Call /\ m.awaiting[Call] = "none" /\ m.discarding[Call] = "none"
  BY <1>0 DEF StageInv, Stage, Call
<1>4. m.active = 0
  <2>1. m.active \in Calls => Holds(m, m.active)
    BY DEF Holds
  <2>2. QED  BY <1>0, <1>2, <1>3, <2>1, BoundAssumption DEF Manager, Calls
<1>5. ~has_finishing_thread(m)
  BY <1>2, <1>3 DEF has_finishing_thread, Holds
<1>6. m.test = 0
  BY <1>0, <1>1 DEF HolderInv
<1>7. m.pending = FALSE
  BY <1>0, <1>1 DEF HolderInv, Manager
<1>8. QED  BY <1>0, <1>4, <1>5, <1>6, <1>7

\* install finds the slot free: nobody else can have taken it meanwhile.
LEMMA InstallKeeps ==
  ASSUME Inv, Install PROVE Inv'
<1>1. PICK m, n, p :
      /\ Locked(m, n, p)
      /\ det.at = "spawned"
      /\ mgr' = [m EXCEPT !.active = Call] /\ note' = n /\ pipe' = p
      /\ det' = [det EXCEPT !.at = "recording"] /\ flags' = [flags EXCEPT !.recording = TRUE]
      /\ UNCHANGED <<paused, ctrl, thread, verdict, outcome, pipeline, row,
                    job, taken, slot, window, starter, tester>>
  <2>1. PICK ok \in May("unlink"), spawned \in May("reaper") :
          LET m == Reaped(mgr)
              free == m.active = 0 /\ ~has_finishing_thread(m) /\ m.test = 0
          IN /\ det.at = "spawned"
             /\ mgr' = IF free THEN [m EXCEPT !.active = Call]
                               ELSE park_discard(m, Call, spawned)
             /\ verdict' = IF free THEN verdict ELSE [verdict EXCEPT ![Call] = "Discard"]
             /\ Lock(ok, IF free THEN <<>> ELSE AskReap(Call, spawned))
             /\ det' = [det EXCEPT !.at = "recording"]
             /\ flags' = [flags EXCEPT !.recording = TRUE]
             /\ UNCHANGED <<paused, ctrl, thread, outcome, queueVars, taken, testVars>>
    BY DEF Install
  <2> DEFINE m == Reaped(mgr)  n == Unlinked(Unspawned, ok)  p == pipe \o Reported(Unspawned, ok)
  <2>2. Locked(m, n, p) /\ p \o <<>> = p
    BY Reaping
  <2>3. m.active = 0 /\ ~has_finishing_thread(m) /\ m.test = 0
    BY <2>1, <2>2, SpawnedIsAlone DEF Inv
  <2>4. /\ mgr' = [m EXCEPT !.active = Call] /\ verdict' = verdict
        /\ note' = n /\ pipe' = p
    BY <2>1, <2>2, <2>3 DEF Lock
  <2>5. QED  BY <2>1, <2>2, <2>4 DEF queueVars, testVars
<1>0. /\ Types /\ SlotInv /\ PauseInv /\ LockedTypes(m, n, p) /\ ReservedInv(m) /\ PastInv(m, n, p)
      /\ HolderInv(m) /\ StageInv(m, p) /\ ProcessInv(p) /\ OutcomeInv(n)
      /\ NoteInv(m, n, p) /\ RowInv(p)
  BY <1>1 DEF Inv, Locked
<1>b. Call \in Calls /\ Call = det.rec /\ Call' = Call
  BY <1>0, <1>1, BoundAssumption DEF Types, Calls, Call
<1>c. det'.at = "recording" /\ det'.rec = det.rec /\ det'.tee = det.tee /\ Past' = Past
  BY <1>0, <1>1 DEF Types, Past
<1>a. /\ mgr' \in Manager
      /\ mgr'.pending = m.pending
      /\ mgr'.test = m.test
      /\ mgr'.active = Call
      /\ \A r \in Calls : /\ mgr'.awaiting[r] = m.awaiting[r]
                             /\ mgr'.discarding[r] = m.discarding[r]
  BY <1>0, <1>1, <1>b DEF LockedTypes, Manager, Calls
<1>d. m.active = 0 /\ ~has_finishing_thread(m) /\ m.test = 0 /\ m.pending = FALSE
  BY <1>0, <1>1, SpawnedIsAlone
<1>e. \A r \in Calls : Kept(pipe, r)' <=> Kept(p, r)
  BY <1>1, <1>c DEF Kept
<1>2. Types'
  <2>1. Begun' = Begun
    BY <1>0, <1>1 DEF Types, Begun
  <2>2. /\ det' \in [at : {"idle", "starting", "spawned", "recording", "finished", "discarded"},
                     rec : 0..MaxSessions, tee : BOOLEAN]
        /\ det'.rec >= 1
    BY <1>0, <1>1, <1>b DEF Types, Calls
  <2>3. flags' \in [recording : BOOLEAN, transcribing : BOOLEAN, test : BOOLEAN]
    BY <1>0, <1>1 DEF Types
  <2>4. QED  BY <1>0, <1>1, <2>1, <2>2, <2>3 DEF Types
<1>3. SlotInv' /\ PauseInv'
  <2>1. ~Suspended
    BY <1>0, <1>1 DEF PauseInv
  <2>2. flags'.test = flags.test
    BY <1>0, <1>1 DEF Types
  <2>3. QED  BY <1>1, <2>1, <2>2, TestFrame
<1>4. LockedTypes(mgr, note, pipe)'
  BY <1>0, <1>1, <1>a DEF LockedTypes
<1>5. ReservedInv(mgr)'
  BY <1>0, <1>1, <1>a DEF ReservedInv
<1>6. PastInv(mgr, note, pipe)'
  BY <1>0, <1>1, <1>a, <1>b, <1>c DEF PastInv
<1>7. HolderInv(mgr)'
  <2>1. \A r \in Calls : Holds(mgr, r)' <=> Holds(m, r)
    BY <1>0, <1>1, <1>a, <1>b, <1>c, <1>d DEF Holds, Calls
  <2>2. QED  BY <1>0, <1>1, <1>a, <1>c, <1>d, <2>1 DEF HolderInv
<1>8. StageInv(mgr, pipe)'
  BY <1>0, <1>1, <1>a, <1>b, <1>c, <1>d, <1>e DEF StageInv, Stage, Calls
<1>9. ProcessInv(pipe)'
  BY <1>0, <1>1, <1>b, <1>c DEF ProcessInv
<1>10. OutcomeInv(note)'
  BY <1>0, <1>1 DEF OutcomeInv
<1>11. NoteInv(mgr, note, pipe)'
  BY <1>0, <1>1, <1>a, <1>b, <1>c, <1>d DEF NoteInv, Calls
<1>12. RowInv(pipe)'
  BY <1>0, <1>1, <1>b, <1>c DEF RowInv
<1>13. QED
  BY <1>2, <1>3, <1>4, <1>5, <1>6, <1>7, <1>8, <1>9, <1>10, <1>11, <1>12 DEF Inv, Locked

\* A kept call leaves the slot and waits to be collected.
LEMMA FinishMine ==
  ASSUME Inv,
         NEW m, NEW n, NEW p, Locked(m, n, p),
         det.at = "recording",
         m.active = Call,
         note' = n,
         mgr' \in Manager /\ mgr'.pending = m.pending /\ mgr'.test = m.test /\ mgr'.active = 0,
         \A r \in Calls : mgr'.discarding[r] = m.discarding[r],
         \A r \in Calls : mgr'.awaiting[r] = IF r # Call THEN m.awaiting[r]
                                             ELSE IF thread[r] = "ended" THEN "Ready" ELSE "Running",
         verdict' = [verdict EXCEPT ![Call] = "Finish"],
         pipe' = p,
         det' = [det EXCEPT !.at = "finished"],
         UNCHANGED <<paused, ctrl, thread, outcome, pipeline, row, job,
                       taken, flags, slot, window, starter, tester>>
  PROVE  Inv'
<1>0. /\ Types /\ SlotInv /\ PauseInv /\ LockedTypes(m, n, p) /\ ReservedInv(m) /\ PastInv(m, n, p)
      /\ HolderInv(m) /\ StageInv(m, p) /\ ProcessInv(p) /\ OutcomeInv(n)
      /\ NoteInv(m, n, p) /\ RowInv(p)
  BY DEF Inv, Locked
<1>b. Call \in Calls /\ Call = det.rec /\ Call' = Call
  BY <1>0, BoundAssumption DEF Types, Calls, Call
<1>c. det'.at = "finished" /\ det'.rec = det.rec /\ det'.tee = det.tee /\ Past' = Past
  BY <1>0 DEF Types, Past
<1>a. /\ mgr' \in Manager /\ mgr'.pending = m.pending /\ mgr'.test = m.test
      /\ mgr'.active = 0
      /\ \A r \in Calls : /\ mgr'.awaiting[r] = IF r # Call THEN m.awaiting[r]
                                                ELSE IF thread[r] = "ended" THEN "Ready" ELSE "Running"
                          /\ mgr'.discarding[r] = m.discarding[r]
  OBVIOUS
<1>d. \A r \in Calls : r # Call => (Kept(pipe, r)' <=> Kept(p, r))
  BY <1>b, <1>c DEF Kept
<1>e. ~Kept(p, Call)
  BY <1>0, <1>b DEF Kept, ProcessInv
<1>f. /\ thread[Call] # "none" /\ verdict[Call] = "none" /\ m.awaiting[Call] = "none"
      /\ m.discarding[Call] = "none"
  BY <1>0, <1>b DEF StageInv, Stage
<1>g. \A r \in Calls : verdict'[r] = IF r = Call THEN "Finish" ELSE verdict[r]
  BY <1>0, <1>b DEF Types
<1>2. Types'
  <2>1. Begun' = Begun
    BY <1>0 DEF Types, Begun
  <2>2. QED  BY <1>0, <2>1, <1>b, SMTT(30) DEF Types
<1>3. SlotInv' /\ PauseInv'
  <2>1. ~Suspended
    BY <1>0 DEF PauseInv
  <2>2. flags'.test = flags.test
    BY <1>0 DEF Types
  <2>3. QED  BY <2>1, <2>2, TestFrame
<1>4. LockedTypes(mgr, note, pipe)'
  BY <1>0, <1>a DEF LockedTypes
<1>5. ReservedInv(mgr)'
  BY <1>0, <1>a DEF ReservedInv
<1>6. PastInv(mgr, note, pipe)'
  BY <1>0, <1>a, <1>b, <1>c, <1>f, <1>g DEF PastInv
<1>7. HolderInv(mgr)'
  <2>1. \A r \in Calls : Holds(mgr, r)' => Holds(m, r)
    BY <1>a, <1>b, <1>c DEF Holds, Calls
  <2>2. \A r \in Calls : thread[r] = "running" => Holds(mgr, r)'
    <3>1. \A r \in Calls : r # Call => (Holds(mgr, r)' <=> Holds(m, r))
      BY <1>a, <1>b, <1>c DEF Holds, Calls
    <3>2. \A r \in Calls : r = Call /\ thread[r] = "running" => Holds(mgr, r)'
      BY <1>a, <1>b DEF Holds
    <3>3. QED  BY <1>0, <3>1, <3>2 DEF HolderInv
  <2>3. QED  BY <1>0, <1>a, <1>c, <2>1, <2>2 DEF HolderInv
<1>8. StageInv(mgr, pipe)'
  <2>1. Kept(pipe, Call)'
    BY <1>b, <1>c DEF Kept
  <2>2. \A r \in Calls : r # Call => m.active # r
    OBVIOUS
  <2>3. QED  BY <1>0, <1>a, <1>b, <1>c, <1>d, <1>e, <1>f, <1>g, <2>1, <2>2 DEF StageInv, Stage, Calls
<1>9. ProcessInv(pipe)'
  BY <1>0, <1>b, <1>c DEF ProcessInv
<1>10. OutcomeInv(note)'
  BY <1>0, <1>f, <1>g DEF OutcomeInv
<1>11. NoteInv(mgr, note, pipe)'
  BY <1>0, <1>a, <1>b, <1>c DEF NoteInv
<1>12. RowInv(pipe)'
  BY <1>0, <1>b, <1>c DEF RowInv
<1>13. QED
  BY <1>2, <1>3, <1>4, <1>5, <1>6, <1>7, <1>8, <1>9, <1>10, <1>11, <1>12 DEF Inv, Locked

\* A discarded call leaves the slot for its reaper, or for the pipeline.
LEMMA DiscardMine ==
  ASSUME Inv,
         NEW m, NEW n, NEW p, Locked(m, n, p),
         det.at = "recording",
         m.active = Call,
         note' = n,
         NEW spawned \in BOOLEAN,
         mgr' = park_discard([m EXCEPT !.active = 0], Call, spawned),
         verdict' = [verdict EXCEPT ![Call] = "Discard"],
         pipe' = p \o AskReap(Call, spawned),
         det' = [det EXCEPT !.at = "discarded"],
         UNCHANGED <<paused, ctrl, thread, outcome, pipeline, row, job,
                       taken, flags, slot, window, starter, tester>>
  PROVE  Inv'
<1>0. /\ Types /\ SlotInv /\ PauseInv /\ LockedTypes(m, n, p) /\ ReservedInv(m) /\ PastInv(m, n, p)
      /\ HolderInv(m) /\ StageInv(m, p) /\ ProcessInv(p) /\ OutcomeInv(n)
      /\ NoteInv(m, n, p) /\ RowInv(p)
  BY DEF Inv, Locked
<1>b. Call \in Calls /\ Call = det.rec /\ Call' = Call
  BY <1>0, BoundAssumption DEF Types, Calls, Call
<1>c. det'.at = "discarded" /\ det'.rec = det.rec /\ det'.tee = det.tee /\ Past' = Past
  BY <1>0 DEF Types, Past
<1>a. /\ mgr' \in Manager /\ mgr'.pending = m.pending /\ mgr'.test = m.test
      /\ mgr'.active = 0
      /\ \A r \in Calls : /\ mgr'.awaiting[r] = m.awaiting[r]
                          /\ mgr'.discarding[r] = IF r # Call THEN m.discarding[r]
                                                  ELSE IF spawned THEN "Reaper" ELSE "Inline"
  <2> DEFINE v == IF spawned THEN "Reaper" ELSE "Inline"
  <2> DEFINE d == [m.discarding EXCEPT ![Call] = v]
  <2>0. m \in Manager
    BY <1>0 DEF LockedTypes
  <2>1. /\ mgr' = [m EXCEPT !.active = 0, !.discarding = d]
        /\ v \in {"Reaper", "Inline"} /\ 0 \in 0..MaxSessions
    BY <2>0, BoundAssumption DEF park_discard, Manager
  <2> HIDE DEF v
  <2>2. /\ mgr' \in Manager /\ mgr'.pending = m.pending /\ mgr'.test = m.test /\ mgr'.active = 0
        /\ mgr'.awaiting = m.awaiting
        /\ \A r \in Calls : mgr'.discarding[r] = IF r = Call THEN v ELSE m.discarding[r]
    <3>1. /\ d \in [Calls -> {"none", "Reaper", "Reaped", "Inline", "Collecting"}]
          /\ \A r \in Calls : d[r] = IF r = Call THEN v ELSE m.discarding[r]
      BY <2>0, <2>1, <1>b DEF Manager
    <3> HIDE DEF d
    <3>2. QED  BY <2>0, <2>1, <3>1 DEF Manager
  <2>3. QED  BY <2>2 DEF v
<1>h. /\ pipe' \in Seq(Mail) /\ Once(pipe')
      /\ \A kind, r : Queued(p, kind, r) => Queued(pipe', kind, r)
      /\ \A kind, r : Queued(pipe', kind, r) => Queued(p, kind, r) \/ kind = "LiveDiscardReap"
      /\ \A letter \in Letters(pipe') : letter \in Letters(p) \/ letter.rec = Call
  <2>1. CASE spawned
    <3>1. pipe' = p
      BY <1>0, <2>1 DEF AskReap, LockedTypes
    <3>2. QED  BY <1>0, <3>1 DEF LockedTypes, ProcessInv
  <2>2. CASE ~spawned
    <3> DEFINE x == [kind |-> "LiveDiscardReap", rec |-> Call]
    <3>1. x \in Mail /\ x.kind = "LiveDiscardReap" /\ x.rec = Call
      BY <1>b DEF Mail, Kinds
    <3>2. pipe' = p \o <<x>>
      BY <2>2 DEF AskReap
    <3>3. \A kind, r : [kind |-> kind, rec |-> r] = x => kind = "LiveDiscardReap"
      OBVIOUS
    <3> HIDE DEF x
    <3>4. pipe' \in Seq(Mail) /\ Letters(pipe') = Letters(p) \cup {x} /\ Once(pipe')
      BY <1>0, <3>1, <3>2, SendLetter DEF LockedTypes, ProcessInv
    <3>5. QED  BY <3>1, <3>3, <3>4 DEF Queued
  <2>3. QED  BY <2>1, <2>2
<1>d. \A r \in Calls : Kept(pipe, r)' <=> Kept(p, r)
  BY <1>c, <1>h DEF Kept
<1>e. ~Kept(p, Call)
  BY <1>0, <1>b DEF Kept, ProcessInv
<1>f. /\ thread[Call] # "none" /\ verdict[Call] = "none" /\ m.awaiting[Call] = "none"
      /\ m.discarding[Call] = "none"
  BY <1>0, <1>b DEF StageInv, Stage
<1>g. \A r \in Calls : verdict'[r] = IF r = Call THEN "Discard" ELSE verdict[r]
  BY <1>0, <1>b DEF Types
<1>2. Types'
  <2>1. Begun' = Begun
    BY <1>0 DEF Types, Begun
  <2>2. verdict' \in [Calls -> {"none", "Finish", "Discard"}]
    BY <1>0 DEF Types
  <2>3. det' \in [at : {"idle", "starting", "spawned", "recording", "finished", "discarded"},
                  rec : 0..MaxSessions, tee : BOOLEAN] /\ det'.rec >= 1
    BY <1>0 DEF Types
  <2>4. QED  BY <1>0, <2>1, <2>2, <2>3 DEF Types
<1>3. SlotInv' /\ PauseInv'
  <2>1. ~Suspended
    BY <1>0 DEF PauseInv
  <2>2. flags'.test = flags.test
    BY <1>0 DEF Types
  <2>3. QED  BY <2>1, <2>2, TestFrame
<1>4. LockedTypes(mgr, note, pipe)'
  BY <1>0, <1>a, <1>h DEF LockedTypes
<1>5. ReservedInv(mgr)'
  BY <1>0, <1>a DEF ReservedInv
<1>6. PastInv(mgr, note, pipe)'
  <2>1. Call <= Past
    BY <1>0, <1>b DEF Past, Calls
  <2>2. \A letter \in Letters(pipe') : letter.rec <= Past
    BY <1>0, <1>h, <2>1 DEF PastInv
  <2>3. ~(Past < Call)
    BY <1>0, <1>b, <2>1 DEF Past, Types, Calls
  <2>4. QED  BY <1>0, <1>a, <1>b, <1>c, <1>g, <2>2, <2>3 DEF PastInv
<1>7. HolderInv(mgr)'
  <2>1. \A r \in Calls : Holds(mgr, r)' => Holds(m, r)
    BY <1>a, <1>b, <1>c DEF Holds, Calls
  <2>2. \A r \in Calls : thread[r] = "running" => Holds(mgr, r)'
    <3>1. \A r \in Calls : r # Call => (Holds(mgr, r)' <=> Holds(m, r))
      BY <1>a, <1>b, <1>c, SMTT(30) DEF Holds, Calls
    <3>2. \A r \in Calls : r = Call /\ thread[r] = "running" => Holds(mgr, r)'
      BY <1>a, <1>b DEF Holds
    <3>3. QED  BY <1>0, <3>1, <3>2 DEF HolderInv
  <2>3. QED  BY <1>0, <1>a, <1>c, <2>1, <2>2 DEF HolderInv
<1>8. StageInv(mgr, pipe)'
  BY <1>0, <1>a, <1>b, <1>c, <1>d, <1>e, <1>f, <1>g DEF StageInv, Stage, Calls
<1>9. ProcessInv(pipe)'
  BY <1>0, <1>b, <1>c, <1>h DEF ProcessInv
<1>10. OutcomeInv(note)'
  BY <1>0, <1>f, <1>g DEF OutcomeInv
<1>11. NoteInv(mgr, note, pipe)'
  BY <1>0, <1>a, <1>b, <1>c, <1>h DEF NoteInv
<1>12. RowInv(pipe)'
  BY <1>0, <1>b, <1>c, <1>h DEF RowInv
<1>13. QED
  BY <1>2, <1>3, <1>4, <1>5, <1>6, <1>7, <1>8, <1>9, <1>10, <1>11, <1>12 DEF Inv, Locked

\* A call that has no session ends.
LEMMA EndWithoutSession ==
  ASSUME Inv,
         NEW m, NEW n, NEW p, Locked(m, n, p),
         det.at = "recording",
         m.active # Call,
         mgr' = m /\ note' = n /\ pipe' = p,
         NEW place \in {"finished", "discarded"}, det' = [det EXCEPT !.at = place],
         UNCHANGED <<paused, ctrl, thread, verdict, outcome, pipeline, row, job,
                       taken, flags, slot, window, starter, tester>>
  PROVE  Inv'
<1>0. /\ Types /\ SlotInv /\ PauseInv /\ LockedTypes(m, n, p) /\ ReservedInv(m) /\ PastInv(m, n, p)
      /\ HolderInv(m) /\ StageInv(m, p) /\ ProcessInv(p) /\ OutcomeInv(n)
      /\ NoteInv(m, n, p) /\ RowInv(p)
  BY DEF Inv, Locked
<1>b. Call \in Calls /\ Call = det.rec /\ Call' = Call
  BY <1>0, BoundAssumption DEF Types, Calls, Call
<1>c. det'.at = place /\ det'.rec = det.rec /\ det'.tee = det.tee /\ Past' = Past
  BY <1>0 DEF Types, Past
<1>a. mgr' = m /\ mgr' \in Manager
  BY <1>0 DEF LockedTypes
<1>d. \A r \in Calls : r # Call => (Kept(pipe, r)' <=> Kept(p, r))
  BY <1>b, <1>c DEF Kept
<1>e. ~Kept(p, Call)
  BY <1>0, <1>b DEF Kept, ProcessInv
<1>f. thread[Call] = "none"
  BY <1>0, <1>b DEF StageInv, Stage
<1>g. \A r \in Calls : m.active # r
  BY <1>0, <1>b DEF StageInv, Stage
<1>2. Types'
  <2>1. Begun' = Begun
    BY <1>0 DEF Types, Begun
  <2>2. QED  BY <1>0, <2>1, <1>b DEF Types
<1>3. SlotInv' /\ PauseInv'
  <2>1. ~Suspended
    BY <1>0 DEF PauseInv
  <2>2. flags'.test = flags.test
    BY <1>0 DEF Types
  <2>3. QED  BY <2>1, <2>2, TestFrame
<1>4. LockedTypes(mgr, note, pipe)'
  BY <1>0, <1>a DEF LockedTypes
<1>5. ReservedInv(mgr)'
  BY <1>0, <1>a DEF ReservedInv
<1>6. PastInv(mgr, note, pipe)'
  BY <1>0, <1>a, <1>b, <1>c DEF PastInv
<1>7. HolderInv(mgr)'
  <2>1. \A r \in Calls : Holds(mgr, r)' <=> Holds(m, r)
    BY <1>a, <1>c DEF Holds
  <2>2. QED  BY <1>0, <1>a, <1>c, <2>1 DEF HolderInv
<1>8. StageInv(mgr, pipe)'
  BY <1>0, <1>a, <1>b, <1>c, <1>d, <1>e, <1>f, <1>g DEF StageInv, Stage
<1>9. ProcessInv(pipe)'
  BY <1>0, <1>b, <1>c DEF ProcessInv
<1>10. OutcomeInv(note)'
  BY <1>0 DEF OutcomeInv
<1>11. NoteInv(mgr, note, pipe)'
  BY <1>0, <1>a, <1>b, <1>c DEF NoteInv
<1>12. RowInv(pipe)'
  BY <1>0, <1>b, <1>c DEF RowInv
<1>13. QED
  BY <1>2, <1>3, <1>4, <1>5, <1>6, <1>7, <1>8, <1>9, <1>10, <1>11, <1>12 DEF Inv, Locked

\* deliver_finished.
LEMMA FinishLiveKeeps ==
  ASSUME Inv, FinishLive PROVE Inv'
<1>1. PICK ok \in May("unlink") :
      LET m == Reaped(mgr)
          mine == m.active = Call
      IN /\ Recording
         /\ mgr' = IF mine THEN Reaped([m EXCEPT !.active = 0, !.awaiting[Call] = "Running"])
                           ELSE m
         /\ verdict' = IF mine THEN [verdict EXCEPT ![Call] = "Finish"] ELSE verdict
         /\ Lock(ok, <<>>)
         /\ det' = [det EXCEPT !.at = "finished"]
         /\ UNCHANGED <<paused, ctrl, thread, outcome, queueVars, taken, flags, testVars>>
  BY DEF FinishLive
<1> DEFINE m == Reaped(mgr)  n == Unlinked(Unspawned, ok)  p == pipe \o Reported(Unspawned, ok)
<1>2. Locked(m, n, p) /\ p \o <<>> = p
  BY Reaping
<1>3. /\ det.at = "recording" /\ note' = n /\ pipe' = p
      /\ det' = [det EXCEPT !.at = "finished"]
      /\ UNCHANGED <<paused, ctrl, thread, outcome, pipeline, row, job, taken, flags, slot, window,
                     starter, tester>>
  BY <1>1, <1>2 DEF Lock, Recording, queueVars, testVars
<1>4. CASE m.active = Call
  <2>0. mgr \in Manager /\ Call \in Calls
    BY <1>3, BoundAssumption DEF Inv, Locked, LockedTypes, Types, Call, Calls
  <2> DEFINE a == [m.awaiting EXCEPT ![Call] = "Running"]
             k == [m EXCEPT !.active = 0, !.awaiting = a]
  <2>1. mgr' = Reaped(k) /\ verdict' = [verdict EXCEPT ![Call] = "Finish"]
    <3>1. m \in Manager
      BY <1>2 DEF Locked, LockedTypes
    <3>2. k = [m EXCEPT !.active = 0, !.awaiting[Call] = "Running"]
      <4> HIDE DEF m
      <4>1. QED  BY <3>1 DEF Manager
    <3>3. QED  BY <1>1, <1>4, <3>2
  <2>2. m \in Manager /\ \A r \in Calls :
            /\ ~(m.awaiting[r] = "Running" /\ thread[r] = "ended")
            /\ (r \in Unspawned => m.discarding[r] = "none") /\ m.discarding[r] # "Reaped"
    <3>1. ok \in BOOLEAN
      BY DEF May
    <3>2. ReapEffect(ok, m, n, p)
      BY <3>1, ReapFacts
    <3> HIDE DEF m, n, p
    <3>3. QED  BY <3>2 DEF ReapEffect
  <2>3. k \in Manager /\ k.pending = m.pending /\ k.test = m.test /\ k.active = 0
        /\ k.discarding = m.discarding
        /\ \A r \in Calls : k.awaiting[r] = IF r = Call THEN "Running" ELSE m.awaiting[r]
    <3> HIDE DEF m
    <3>1. /\ a \in [Calls -> {"none", "Running", "Collecting", "Ready"}]
          /\ \A r \in Calls : a[r] = IF r = Call THEN "Running" ELSE m.awaiting[r]
      BY <2>0, <2>2 DEF Manager
    <3> HIDE DEF a
    <3>2. 0 \in 0..MaxSessions
      BY BoundAssumption
    <3>3. m \in Manager
      BY <2>2
    <3>4. k \in Manager
      BY <3>1, <3>2, <3>3 DEF Manager
    <3>5. QED  BY <3>1, <3>3, <3>4 DEF Manager
  <2> HIDE DEF m, k, n, p
  <2>4. mgr' \in Manager /\ mgr'.pending = k.pending /\ mgr'.test = k.test
        /\ mgr'.active = k.active
        /\ \A r \in Calls : /\ mgr'.awaiting[r] = IF k.awaiting[r] = "Running" /\ thread[r] = "ended"
                                                  THEN "Ready" ELSE k.awaiting[r]
                            /\ mgr'.discarding[r] = IF r \in Unspawned \/ k.discarding[r] = "Reaped"
                                                    THEN "none" ELSE k.discarding[r]
    BY <2>1, <2>3 DEF Reaped, Manager
  <2>5. /\ \A r \in Calls : mgr'.discarding[r] = m.discarding[r]
        /\ \A r \in Calls : mgr'.awaiting[r] = IF r # Call THEN m.awaiting[r]
                                               ELSE IF thread[r] = "ended" THEN "Ready" ELSE "Running"
    BY <2>2, <2>3, <2>4
  <2>6. QED  BY <1>2, <1>3, <1>4, <2>1, <2>3, <2>4, <2>5, FinishMine
<1>5. CASE m.active # Call
  <2>1. mgr' = m /\ verdict' = verdict
    BY <1>1, <1>5
  <2> HIDE DEF m, n, p
  <2>2. QED  BY <1>2, <1>3, <1>5, <2>1, EndWithoutSession
<1>6. QED  BY <1>4, <1>5

\* A call too short to keep, and a capture that failed to finish.
LEMMA DiscardLiveKeeps ==
  ASSUME Inv, DiscardLive PROVE Inv'
<1>1. PICK ok \in May("unlink"), spawned \in May("reaper") :
      LET m == Reaped(mgr)
          mine == m.active = Call
      IN /\ Recording
         /\ mgr' = Discarded(m, Call, spawned)
         /\ verdict' = IF mine THEN [verdict EXCEPT ![Call] = "Discard"] ELSE verdict
         /\ Lock(ok, IF mine THEN AskReap(Call, spawned) ELSE <<>>)
         /\ det' = [det EXCEPT !.at = "discarded"]
         /\ UNCHANGED <<paused, ctrl, thread, outcome, queueVars, taken, flags, testVars>>
  BY DEF DiscardLive
<1> DEFINE m == Reaped(mgr)  n == Unlinked(Unspawned, ok)  p == pipe \o Reported(Unspawned, ok)
<1>2. Locked(m, n, p) /\ p \o <<>> = p
  BY Reaping
<1>3. /\ det.at = "recording" /\ note' = n /\ spawned \in BOOLEAN
      /\ det' = [det EXCEPT !.at = "discarded"]
      /\ UNCHANGED <<paused, ctrl, thread, outcome, pipeline, row, job, taken, flags, slot, window,
                     starter, tester>>
  BY <1>1 DEF Lock, Recording, queueVars, testVars, May
<1>4. CASE m.active = Call
  <2>1. /\ mgr' = park_discard([m EXCEPT !.active = 0], Call, spawned)
        /\ verdict' = [verdict EXCEPT ![Call] = "Discard"] /\ pipe' = p \o AskReap(Call, spawned)
    BY <1>1, <1>4 DEF Discarded, Lock
  <2> HIDE DEF m, n, p
  <2>2. QED  BY <1>2, <1>3, <1>4, <2>1, DiscardMine
<1>5. CASE m.active # Call
  <2>1. mgr' = m /\ verdict' = verdict /\ pipe' = p
    BY <1>1, <1>2, <1>5 DEF Discarded, Lock
  <2> HIDE DEF m, n, p
  <2>2. QED  BY <1>2, <1>3, <1>5, <2>1, EndWithoutSession
<1>6. QED  BY <1>4, <1>5

\* The event of a call that is over reaches the channel.
LEMMA EmitKeeps ==
  ASSUME Inv,
         NEW place \in {"finished", "discarded"}, det.at = place,
         NEW kind, kind = IF place = "finished" THEN "Process" ELSE "LiveDiscarded",
         det' = [det EXCEPT !.at = "idle"],
         flags' \in [recording : BOOLEAN, transcribing : BOOLEAN, test : {flags.test}],
         pipe' = Append(pipe, [kind |-> kind, rec |-> Call]),
         UNCHANGED <<paused, ctrl, mgr, thread, verdict, outcome, note, pipeline,
                       row, job, taken, slot, window, starter, tester>>
  PROVE  Inv'
<1>0. /\ Types /\ SlotInv /\ PauseInv /\ LockedTypes(mgr, note, pipe) /\ ReservedInv(mgr) /\ PastInv(mgr, note, pipe)
      /\ HolderInv(mgr) /\ StageInv(mgr, pipe) /\ ProcessInv(pipe) /\ OutcomeInv(note)
      /\ NoteInv(mgr, note, pipe) /\ RowInv(pipe)
  BY DEF Inv, Locked
<1>b. Call \in Calls /\ Call = det.rec /\ Call' = Call
  BY <1>0, BoundAssumption DEF Types, Calls, Call
<1>c. det'.at = "idle" /\ det'.rec = det.rec /\ det'.tee = det.tee /\ Past' = Past
  BY <1>0 DEF Types, Past
<1>h. /\ pipe' \in Seq(Mail) /\ Once(pipe')
      /\ \A k, r : Queued(pipe', k, r) <=> Queued(pipe, k, r) \/ (k = kind /\ r = Call)
      /\ \A letter \in Letters(pipe') : letter \in Letters(pipe) \/ letter.rec = Call
  <2> DEFINE x == [kind |-> kind, rec |-> Call]
  <2>1. x \in Mail /\ x.kind = kind /\ x.rec = Call
    BY <1>b DEF Mail, Kinds
  <2>2. \A k, r : [kind |-> k, rec |-> r] = x <=> k = kind /\ r = Call
    BY <2>1
  <2>3. kind = "Process" => x \notin Letters(pipe)
    BY <1>0, <1>b DEF ProcessInv, Queued
  <2>4. pipe' = Append(pipe, x)
    OBVIOUS
  <2> HIDE DEF x
  <2>5. pipe' \in Seq(Mail) /\ Letters(pipe') = Letters(pipe) \cup {x} /\ Once(pipe')
    BY <1>0, <2>1, <2>3, <2>4, AppendLetter DEF LockedTypes, ProcessInv
  <2>6. QED  BY <2>1, <2>2, <2>5 DEF Queued
<1>d. \A r \in Calls : Kept(pipe, r)' <=> Kept(pipe, r)
  BY <1>b, <1>c, <1>h DEF Kept
<1>2. Types'
  <2>1. Begun' = Begun
    BY <1>0 DEF Types, Begun
  <2>2. flags' \in [recording : BOOLEAN, transcribing : BOOLEAN, test : BOOLEAN]
    BY <1>0 DEF Types
  <2>3. det' \in [at : {"idle", "starting", "spawned", "recording", "finished", "discarded"},
                  rec : 0..MaxSessions, tee : BOOLEAN]
    BY <1>0 DEF Types
  <2>4. QED  BY <1>0, <2>1, <2>2, <2>3 DEF Types
<1>3. SlotInv' /\ PauseInv'
  <2>1. ~Suspended
    BY <1>0 DEF PauseInv
  <2>2. flags'.test = flags.test
    BY <1>0 DEF Types
  <2>3. QED  BY <2>1, <2>2, TestFrame
<1>4. LockedTypes(mgr, note, pipe)'
  BY <1>0, <1>h DEF LockedTypes, Manager
<1>5. ReservedInv(mgr)'
  BY <1>0 DEF ReservedInv
<1>6. PastInv(mgr, note, pipe)'
  <2>1. Call <= Past
    BY <1>0, <1>b DEF Past, Calls
  <2>2. \A letter \in Letters(pipe') : letter.rec <= Past
    BY <1>0, <1>h, <2>1 DEF PastInv
  <2>3. QED  BY <1>0, <1>c, <2>2 DEF PastInv
<1>7. HolderInv(mgr)'
  <2>1. \A r \in Calls : Holds(mgr, r)' <=> Holds(mgr, r)
    BY <1>c DEF Holds
  <2>2. QED  BY <1>0, <1>c, <2>1 DEF HolderInv
<1>8. StageInv(mgr, pipe)'
  BY <1>0, <1>b, <1>c, <1>d DEF StageInv, Stage
<1>9. ProcessInv(pipe)'
  BY <1>0, <1>b, <1>c, <1>h DEF ProcessInv
<1>10. OutcomeInv(note)'
  BY <1>0 DEF OutcomeInv
<1>11. NoteInv(mgr, note, pipe)'
  BY <1>0, <1>b, <1>c, <1>h DEF NoteInv
<1>12. RowInv(pipe)'
  BY <1>0, <1>b, <1>c, <1>h DEF RowInv
<1>13. QED
  BY <1>2, <1>3, <1>4, <1>5, <1>6, <1>7, <1>8, <1>9, <1>10, <1>11, <1>12 DEF Inv, Locked

\* The events Finished and Discarded.
LEMMA EmitFinishedKeeps ==
  ASSUME Inv, EmitFinished PROVE Inv'
<1>1. flags' \in [recording : BOOLEAN, transcribing : BOOLEAN, test : {flags.test}]
  BY DEF EmitFinished, Inv, Types
<1>2. QED  BY <1>1, EmitKeeps DEF EmitFinished, callVars, queueVars, testVars

LEMMA EmitDiscardedKeeps ==
  ASSUME Inv, EmitDiscarded PROVE Inv'
<1>1. flags' \in [recording : BOOLEAN, transcribing : BOOLEAN, test : {flags.test}]
  BY DEF EmitDiscarded, Inv, Types
<1>2. QED  BY <1>1, EmitKeeps DEF EmitDiscarded, callVars, queueVars, testVars

-----------------------------------------------------------------------------
(* The session threads                                                     *)

\* A call of which anything is known has begun.
LEMMA KnownIsPast ==
  ASSUME Types, NEW m, NEW n, NEW p, PastInv(m, n, p), NEW c \in Calls,
         \/ thread[c] # "none" \/ m.awaiting[c] # "none" \/ m.discarding[c] # "none"
         \/ job[c] # "none" \/ n[c] # "none" \/ row[c] # "none" \/ pipeline.rec = c
         \/ \E letter \in Letters(p) : letter.rec = c
  PROVE  c <= Past /\ ~(Past < c)
<1>1. c \in Int /\ Past \in Int
  BY DEF Types, Past, Calls
<1>2. QED  BY <1>1 DEF PastInv

\* A note is created by a running session only, and that has an owner.
LEMMA CreateNoteKeeps ==
  ASSUME Inv, NEW c \in Calls, CreateNote(c) PROVE Inv'
<1>0. /\ Types /\ SlotInv /\ PauseInv /\ LockedTypes(mgr, note, pipe) /\ ReservedInv(mgr) /\ PastInv(mgr, note, pipe)
      /\ HolderInv(mgr) /\ StageInv(mgr, pipe) /\ ProcessInv(pipe) /\ OutcomeInv(note)
      /\ NoteInv(mgr, note, pipe) /\ RowInv(pipe)
  BY DEF Inv, Locked
<1>1. /\ thread[c] = "running" /\ note[c] = "none"
      /\ note' = [note EXCEPT ![c] = "transcribing"]
      /\ pipe' = Append(pipe, [kind |-> "LiveNoteCreated", rec |-> c])
      /\ UNCHANGED <<det, paused, ctrl, mgr, thread, verdict, outcome, pipeline, row,
                    job, taken, flags, slot, window, starter, tester>>
  BY DEF CreateNote, callVars, queueVars, testVars
<1>h. /\ pipe' \in Seq(Mail) /\ Once(pipe')
      /\ \A k, r : Queued(pipe', k, r) <=> Queued(pipe, k, r) \/ (k = "LiveNoteCreated" /\ r = c)
      /\ \A letter \in Letters(pipe') : letter \in Letters(pipe) \/ letter.rec = c
  <2> DEFINE x == [kind |-> "LiveNoteCreated", rec |-> c]
  <2>1. x \in Mail /\ x.kind = "LiveNoteCreated" /\ x.rec = c
    BY DEF Mail, Kinds
  <2>2. \A k, r : [kind |-> k, rec |-> r] = x <=> k = "LiveNoteCreated" /\ r = c
    BY <2>1
  <2>3. pipe' = Append(pipe, x)
    BY <1>1
  <2> HIDE DEF x
  <2>4. pipe' \in Seq(Mail) /\ Letters(pipe') = Letters(pipe) \cup {x} /\ Once(pipe')
    BY <1>0, <2>1, <2>3, AppendLetter DEF LockedTypes, ProcessInv
  <2>5. QED  BY <2>1, <2>2, <2>4 DEF Queued
<1>b. \A r \in Calls : note'[r] = IF r = c THEN "transcribing" ELSE note[r]
  BY <1>0, <1>1 DEF LockedTypes
<1>c. c <= Past /\ ~(Past < c) /\ Past' = Past
  BY <1>0, <1>1, KnownIsPast DEF Past
<1>d. \A r \in Calls : Kept(pipe, r)' <=> Kept(pipe, r)
  BY <1>1, <1>h DEF Kept
<1>e. \A r \in Calls : Holds(mgr, r)' <=> Holds(mgr, r)
  BY <1>1 DEF Holds
<1>2. Types'
  BY <1>0, <1>1, BoundAssumption DEF Types, Begun
<1>3. SlotInv' /\ PauseInv'
  BY <1>1, TestFrame
<1>4. LockedTypes(mgr, note, pipe)'
  BY <1>0, <1>1, <1>h DEF LockedTypes, NoteStates
<1>5. ReservedInv(mgr)'
  BY <1>0, <1>1 DEF ReservedInv
<1>6. PastInv(mgr, note, pipe)'
  <2>1. \A letter \in Letters(pipe') : letter.rec <= Past
    BY <1>0, <1>h, <1>c DEF PastInv
  <2>2. QED  BY <1>0, <1>1, <1>b, <1>c, <2>1 DEF PastInv
<1>7. HolderInv(mgr)'
  BY <1>0, <1>1, <1>e DEF HolderInv
<1>8. StageInv(mgr, pipe)'
  BY <1>0, <1>1, <1>d DEF StageInv, Stage
<1>9. ProcessInv(pipe)'
  BY <1>0, <1>1, <1>h DEF ProcessInv
<1>10. OutcomeInv(note)'
  BY <1>0, <1>1, <1>b DEF OutcomeInv
<1>11. NoteInv(mgr, note, pipe)'
  <2>1. /\ Holds(mgr, c) /\ mgr.discarding[c] # "Reaped"
        /\ mgr.discarding[c] \in {"none", "Reaper", "Reaped", "Inline", "Collecting"}
    BY <1>0, <1>1 DEF HolderInv, StageInv, Stage, LockedTypes, Manager
  <2>2. QED  BY <1>0, <1>1, <1>b, <1>h, <2>1 DEF NoteInv, Holds
<1>12. RowInv(pipe)'
  BY <1>0, <1>1, <1>h DEF RowInv
<1>13. QED
  BY <1>2, <1>3, <1>4, <1>5, <1>6, <1>7, <1>8, <1>9, <1>10, <1>11, <1>12 DEF Inv, Locked

\* A session thread ends with an outcome that is true of its note.
LEMMA EndsKeeps ==
  ASSUME Inv,
         NEW c \in Calls, thread[c] = "running",
         NEW result \in {"Filed", "Fallback", "NoNote"},
         thread' = [thread EXCEPT ![c] = "ended"], outcome' = [outcome EXCEPT ![c] = result],
         note' \in [Calls -> NoteStates], \A r \in Calls : r # c => note'[r] = note[r],
         note'[c] = "transcribing" => note[c] = "transcribing",
         result \in {"Filed", "NoNote"} => note'[c] # "transcribing",
         UNCHANGED <<det, paused, ctrl, mgr, verdict, pipe, pipeline, row,
                       job, taken, flags, slot, window, starter, tester>>
  PROVE  Inv'
<1>0. /\ Types /\ SlotInv /\ PauseInv /\ LockedTypes(mgr, note, pipe) /\ ReservedInv(mgr) /\ PastInv(mgr, note, pipe)
      /\ HolderInv(mgr) /\ StageInv(mgr, pipe) /\ ProcessInv(pipe) /\ OutcomeInv(note)
      /\ NoteInv(mgr, note, pipe) /\ RowInv(pipe)
  BY DEF Inv, Locked
<1>b. \A r \in Calls : /\ thread'[r] = IF r = c THEN "ended" ELSE thread[r]
                       /\ outcome'[r] = IF r = c THEN result ELSE outcome[r]
  BY <1>0 DEF Types
<1>c. c <= Past /\ ~(Past < c) /\ Past' = Past
  BY <1>0, KnownIsPast DEF Past
<1>d. \A r \in Calls : Kept(pipe, r)' <=> Kept(pipe, r)
  BY DEF Kept
<1>e. \A r \in Calls : Holds(mgr, r)' <=> Holds(mgr, r)
  BY DEF Holds
<1>2. Types'
  BY <1>0, BoundAssumption DEF Types, Begun, Outcomes
<1>3. SlotInv' /\ PauseInv'
  BY TestFrame
<1>4. LockedTypes(mgr, note, pipe)'
  BY <1>0 DEF LockedTypes
<1>5. ReservedInv(mgr)'
  BY <1>0 DEF ReservedInv
<1>6. PastInv(mgr, note, pipe)'
  BY <1>0, <1>b, <1>c DEF PastInv
<1>7. HolderInv(mgr)'
  BY <1>0, <1>b, <1>e DEF HolderInv
<1>8. StageInv(mgr, pipe)'
  BY <1>0, <1>b, <1>d DEF StageInv, Stage
<1>9. ProcessInv(pipe)'
  BY <1>0 DEF ProcessInv
<1>10. OutcomeInv(note)'
  BY <1>0, <1>b DEF OutcomeInv
<1>11. NoteInv(mgr, note, pipe)'
  BY <1>0 DEF NoteInv
<1>12. RowInv(pipe)'
  BY <1>0 DEF RowInv
<1>13. QED
  BY <1>2, <1>3, <1>4, <1>5, <1>6, <1>7, <1>8, <1>9, <1>10, <1>11, <1>12 DEF Inv, Locked

\* The four ways a session ends.
LEMMA SessionEndsKeep ==
  ASSUME Inv, NEW c \in Calls, EndFiled(c) \/ EndNoNote(c) \/ EndFallback(c) \/ EndDiscarded(c)
  PROVE  Inv'
<1>0. note \in [Calls -> NoteStates]
  BY DEF Inv, Locked, LockedTypes
<1>1. CASE EndFiled(c)
  <2>1. /\ thread[c] = "running" /\ note' = [note EXCEPT ![c] = "settled"]
        /\ Ends(c, "Filed") \/ Ends(c, "Fallback")
    BY <1>1 DEF EndFiled
  <2>2. /\ note' \in [Calls -> NoteStates] /\ note'[c] = "settled"
        /\ \A r \in Calls : r # c => note'[r] = note[r]
    BY <1>0, <2>1 DEF NoteStates
  <2>3. QED  BY <2>1, <2>2, EndsKeeps DEF Ends, queueVars, testVars
<1>2. CASE EndNoNote(c)
  BY <1>0, <1>2, EndsKeeps DEF EndNoNote, Ends, queueVars, testVars
<1>3. CASE EndFallback(c)
  BY <1>0, <1>3, EndsKeeps DEF EndFallback, Ends, queueVars, testVars
<1>4. CASE EndDiscarded(c)
  <2>1. PICK ok \in May("unlink") :
          /\ thread[c] = "running" /\ note' = Unlinked({c}, ok)
          /\ Ends(c, IF ok \/ note[c] = "none" THEN "NoNote" ELSE "Fallback")
    BY <1>4 DEF EndDiscarded
  <2>2. /\ note' \in [Calls -> NoteStates]
        /\ \A r \in Calls : r # c => note'[r] = note[r]
        /\ note'[c] = IF OnDisk(note[c]) /\ ok THEN "removed" ELSE note[c]
    BY <1>0, <2>1 DEF Unlinked, NoteStates
  <2>3. CASE ok \/ note[c] = "none"
    <3>1. note'[c] # "transcribing" /\ Ends(c, "NoNote")
      BY <2>1, <2>2, <2>3 DEF OnDisk
    <3>2. QED  BY <2>1, <2>2, <3>1, EndsKeeps DEF Ends, queueVars, testVars
  <2>4. CASE ~(ok \/ note[c] = "none")
    <3>1. note'[c] = note[c] /\ Ends(c, "Fallback")
      BY <2>1, <2>2, <2>4
    <3>2. QED  BY <2>1, <2>2, <3>1, EndsKeeps DEF Ends, queueVars, testVars
  <2>5. QED  BY <2>3, <2>4
<1>5. QED  BY <1>1, <1>2, <1>3, <1>4

\* The note of one finished session is deleted, or reported.
LEMMA ReapOne ==
  ASSUME Inv, NEW c \in Calls, NEW ok \in BOOLEAN,
         note' = Unlinked({c}, ok), pipe' = pipe \o Reported({c}, ok)
  PROVE  /\ note' \in [Calls -> NoteStates] /\ \A r \in Calls : r # c => note'[r] = note[r]
         /\ note'[c] \in {note[c], "removed"}
         /\ pipe' \in Seq(Mail) /\ Once(pipe')
         /\ \A letter \in Letters(pipe') : letter \in Letters(pipe) \/ letter.rec = c
         /\ \A kind, r : Queued(pipe, kind, r) => Queued(pipe', kind, r)
         /\ \A kind, r : Queued(pipe', kind, r) /\ kind # "LiveDiscardCleanup" => Queued(pipe, kind, r)
         /\ note'[c] = "transcribing" => Queued(pipe', "LiveDiscardCleanup", c)
<1>0. note \in [Calls -> NoteStates] /\ pipe \in Seq(Mail) /\ Once(pipe)
  BY DEF Inv, Locked, LockedTypes, ProcessInv
<1>1. /\ note' \in [Calls -> NoteStates] /\ \A r \in Calls : r # c => note'[r] = note[r]
      /\ note'[c] = IF OnDisk(note[c]) /\ ok THEN "removed" ELSE note[c]
  BY <1>0 DEF Unlinked, NoteStates
<1>2. CASE ok \/ ~OnDisk(note[c])
  <2>1. Reported({c}, ok) = <<>>
    BY <1>2 DEF Reported
  <2>2. pipe' = pipe
    <3>1. pipe \o <<>> = pipe
      BY <1>0
    <3>2. QED  BY <2>1, <3>1
  <2>3. note'[c] # "transcribing"
    BY <1>1, <1>2 DEF OnDisk
  <2>4. QED  BY <1>0, <1>1, <2>2, <2>3
<1>3. CASE ~ok /\ OnDisk(note[c])
  <2> DEFINE x == [kind |-> "LiveDiscardCleanup", rec |-> c]
  <2>1. (CHOOSE r \in {c} : OnDisk(note[r])) = c
    BY <1>3
  <2>2. Reported({c}, ok) = <<x>>
    BY <1>3, <2>1 DEF Reported
  <2>3. x \in Mail /\ x.kind = "LiveDiscardCleanup" /\ x.rec = c
    BY DEF Mail, Kinds
  <2>4. \A kind, r : [kind |-> kind, rec |-> r] = x => kind = "LiveDiscardCleanup"
    OBVIOUS
  <2>5. pipe' = pipe \o <<x>> /\ Queued(pipe', "LiveDiscardCleanup", c) = (x \in Letters(pipe'))
    BY <2>2 DEF Queued
  <2> HIDE DEF x
  <2>6. pipe' \in Seq(Mail) /\ Letters(pipe') = Letters(pipe) \cup {x} /\ Once(pipe')
    BY <1>0, <2>3, <2>5, SendLetter
  <2>7. /\ \A kind, r : Queued(pipe, kind, r) => Queued(pipe', kind, r)
        /\ \A kind, r : Queued(pipe', kind, r) /\ kind # "LiveDiscardCleanup" => Queued(pipe, kind, r)
    BY <2>4, <2>6 DEF Queued
  <2>8. QED  BY <1>1, <2>3, <2>5, <2>6, <2>7
<1>4. QED  BY <1>2, <1>3

\* The reaper of a discarded session deletes its note or reports it.
LEMMA ReapDiscardKeeps ==
  ASSUME Inv, NEW c \in Calls, ReapDiscard(c) PROVE Inv'
<1>1. PICK ok :
      /\ Locked(mgr, note, pipe)
      /\ ok \in BOOLEAN
      /\ mgr.discarding[c] = "Reaper" /\ thread[c] = "ended"
      /\ mgr' = [mgr EXCEPT !.discarding[c] = "Reaped"]
      /\ note' = Unlinked({c}, ok) /\ pipe' = pipe \o Reported({c}, ok)
      /\ UNCHANGED <<det, paused, ctrl, thread, verdict, outcome, pipeline, row,
                    job, taken, flags, slot, window, starter, tester>>
  BY DEF ReapDiscard, callVars, queueVars, testVars, May, Inv
<1>0. /\ Types /\ SlotInv /\ PauseInv /\ LockedTypes(mgr, note, pipe) /\ ReservedInv(mgr) /\ PastInv(mgr, note, pipe)
      /\ HolderInv(mgr) /\ StageInv(mgr, pipe) /\ ProcessInv(pipe) /\ OutcomeInv(note)
      /\ NoteInv(mgr, note, pipe) /\ RowInv(pipe)
  BY <1>1 DEF Inv, Locked
<1>h. /\ note' \in [Calls -> NoteStates] /\ \A r \in Calls : r # c => note'[r] = note[r]
      /\ note'[c] \in {note[c], "removed"}
      /\ pipe' \in Seq(Mail) /\ Once(pipe')
      /\ \A letter \in Letters(pipe') : letter \in Letters(pipe) \/ letter.rec = c
      /\ \A kind, r : Queued(pipe, kind, r) => Queued(pipe', kind, r)
      /\ \A kind, r : Queued(pipe', kind, r) /\ kind # "LiveDiscardCleanup" => Queued(pipe, kind, r)
      /\ note'[c] = "transcribing" => Queued(pipe', "LiveDiscardCleanup", c)
  BY <1>1, ReapOne
<1>c. c <= Past /\ ~(Past < c) /\ Past' = Past
  BY <1>0, <1>1, KnownIsPast DEF Past
<1>d. \A r \in Calls : Kept(pipe, r)' <=> Kept(pipe, r)
  BY <1>1, <1>h DEF Kept
<1>u. UNCHANGED <<det, paused, ctrl, thread, verdict, outcome, pipeline, row,
                    job, taken, flags, slot, window, starter, tester>>
  BY <1>1
<1>v. mgr.discarding[c] = "Reaper" /\ thread[c] = "ended"
  BY <1>1
<1>a. /\ mgr' \in Manager
      /\ mgr'.pending = mgr.pending
      /\ mgr'.test = mgr.test
      /\ mgr'.active = mgr.active
      /\ \A r \in Calls : /\ mgr'.awaiting[r] = mgr.awaiting[r]
                             /\ mgr'.discarding[r] = IF r = c THEN "Reaped" ELSE mgr.discarding[r]
  BY <1>0, <1>1 DEF LockedTypes, Manager
<1>2. Types'
  BY <1>0, <1>1, BoundAssumption DEF Types, Begun
<1>3. SlotInv' /\ PauseInv'
  BY <1>1, TestFrame
<1>4. LockedTypes(mgr, note, pipe)'
  BY <1>0, <1>1, <1>a, <1>h DEF LockedTypes
<1>5. ReservedInv(mgr)'
  BY <1>0, <1>1, <1>a DEF ReservedInv
<1>6. PastInv(mgr, note, pipe)'
  <2>1. \A letter \in Letters(pipe') : letter.rec <= Past
    BY <1>0, <1>h, <1>c DEF PastInv
  <2>2. QED  BY <1>0, <1>1, <1>a, <1>c, <1>h, <2>1, ZenonT(60) DEF PastInv
<1>7. HolderInv(mgr)'
  <2>1. \A r \in Calls : Holds(mgr, r)' <=> Holds(mgr, r)
    BY <1>1, <1>a DEF Holds
  <2>2. QED  BY <1>0, <1>1, <1>a, <2>1 DEF HolderInv
<1>8. StageInv(mgr, pipe)'
  <2>1. pipeline.at # "reap" \/ pipeline.rec # c
    BY <1>0, <1>1 DEF StageInv, Stage
  <2>2. mgr.awaiting[c] = "none" /\ mgr.active # c
    BY <1>0, <1>1 DEF StageInv, Stage
  <2>3. \A r \in Calls : r # c => Stage(mgr, pipe, r)'
    BY <1>0, <1>u, <1>a, <1>d DEF StageInv, Stage
  <2>4. \A r \in Calls : r = c => Stage(mgr, pipe, r)'
    BY <1>0, <1>u, <1>v, <1>a, <1>d, <2>1, <2>2 DEF StageInv, Stage
  <2>5. QED  BY <2>3, <2>4 DEF StageInv
<1>9. ProcessInv(pipe)'
  BY <1>0, <1>1, <1>h DEF ProcessInv
<1>10. OutcomeInv(note)'
  BY <1>0, <1>1, <1>h DEF OutcomeInv
<1>11. NoteInv(mgr, note, pipe)'
  <2>1. ASSUME NEW r \in Calls, note'[r] = "transcribing", r # c
        PROVE  \/ Queued(pipe', "LiveDiscardCleanup", r)
               \/ det.at = "spawned" /\ det.rec = r
               \/ mgr'.active = r \/ mgr'.awaiting[r] # "none"
               \/ mgr'.discarding[r] \in {"Reaper", "Inline", "Collecting"}
               \/ job[r] \in {"due", "running"}
               \/ pipeline.at = "settle" /\ pipeline.rec = r
    <3>1. note[r] = "transcribing"
      BY <1>h, <2>1
    <3>2. Queued(pipe, "LiveDiscardCleanup", r) => Queued(pipe', "LiveDiscardCleanup", r)
      BY <1>h
    <3>3. QED  BY <1>0, <1>a, <2>1, <3>1, <3>2 DEF NoteInv
  <2>2. QED  BY <1>1, <1>h, <2>1 DEF NoteInv
<1>12. RowInv(pipe)'
  BY <1>0, <1>1, <1>h DEF RowInv
<1>13. QED
  BY <1>2, <1>3, <1>4, <1>5, <1>6, <1>7, <1>8, <1>9, <1>10, <1>11, <1>12 DEF Inv, Locked

-----------------------------------------------------------------------------
(* The pipeline                                                            *)

\* What the channel holds once its first letter, about call c, is taken.
Took(p, q, kind, c) ==
    /\ c \in Calls /\ q \in Seq(Mail) /\ Once(q) /\ Queued(p, kind, c)
    /\ \A k, r : Queued(p, k, r) <=> Queued(q, k, r) \/ (k = kind /\ r = c)
    /\ \A letter \in Letters(q) : letter \in Letters(p)
    /\ \E letter \in Letters(p) : letter.rec = c
    /\ kind = "Process" => ~Queued(q, "Process", c)

\* Taking the first letter does that.
LEMMA TakeFacts ==
  ASSUME NEW p \in Seq(Mail), Once(p), p # <<>>
  PROVE  Took(p, Tail(p), Head(p).kind, Head(p).rec)
<1> DEFINE x == Head(p)  c == Head(p).rec  kind == Head(p).kind  q == Tail(p)
<1>1. /\ x \in Mail /\ q \in Seq(Mail) /\ Letters(p) = Letters(q) \cup {x} /\ Once(q)
      /\ kind = "Process" => x \notin Letters(q)
  BY TakeLetter
<1>2. c \in Calls /\ x = [kind |-> kind, rec |-> c]
  BY <1>1 DEF Mail
<1>3. \A k, r : [kind |-> k, rec |-> r] = x <=> k = kind /\ r = c
  BY <1>2
<1> HIDE DEF x, q
<1>4. \A k, r : Queued(p, k, r) <=> Queued(q, k, r) \/ (k = kind /\ r = c)
  BY <1>1, <1>3 DEF Queued
<1>5. kind = "Process" => ~Queued(q, "Process", c)
  BY <1>1, <1>2 DEF Queued
<1>6. x.rec = c
  BY DEF x
<1>7. QED  BY <1>1, <1>2, <1>4, <1>5, <1>6 DEF Took, q

\* A handler that locks the manager finds its letter at the head of the reaped channel.
LEMMA TakeAfter ==
  ASSUME Inv, NEW kind, Receives(kind), NEW ok \in May("unlink"), LockAfter(ok)
  PROVE  \E m, n, p : /\ Locked(m, n, p) /\ m = Reaped(mgr) /\ note' = n
                      /\ Took(p, pipe', kind, Message)
<1> DEFINE m == Reaped(mgr)  n == Unlinked(Unspawned, ok)  s == Reported(Unspawned, ok)
           p == pipe \o s
<1>1. Locked(m, n, p)
  BY Reaping
<1>2. pipe \in Seq(Mail) /\ pipe # <<>> /\ Head(pipe).kind = kind /\ note' = n /\ pipe' = Tail(pipe) \o s
  BY DEF Inv, Locked, LockedTypes, Receives, LockAfter
<1>3. s \in Seq(Mail) /\ p \in Seq(Mail) /\ Once(p)
  <2>1. p \in Seq(Mail) /\ Once(p)
    BY <1>1 DEF Locked, LockedTypes, ProcessInv
  <2>2. Unspawned \subseteq Calls
    BY DEF Unspawned
  <2>3. s \in Seq(Mail)
    <3>1. CASE ~ok /\ \E r \in Unspawned : OnDisk(note[r])
      <4> DEFINE r0 == CHOOSE r \in Unspawned : OnDisk(note[r])
      <4>1. r0 \in Calls
        BY <2>2, <3>1
      <4>2. s = <<[kind |-> "LiveDiscardCleanup", rec |-> r0]>>
        BY <3>1 DEF Reported
      <4>3. [kind |-> "LiveDiscardCleanup", rec |-> r0] \in Mail
        BY <4>1 DEF Mail, Kinds
      <4> HIDE DEF r0, s
      <4>4. QED  BY <4>2, <4>3
    <3>2. CASE ~(~ok /\ \E r \in Unspawned : OnDisk(note[r]))
      <4>1. s = <<>>
        BY <3>2 DEF Reported
      <4>2. QED  BY <4>1
    <3>3. QED  BY <3>1, <3>2
  <2>4. QED  BY <2>1, <2>3
<1>4. p # <<>> /\ Head(p) = Head(pipe) /\ Tail(p) = Tail(pipe) \o s
  <2> HIDE DEF s
  <2>1. QED  BY <1>2, <1>3
<1> HIDE DEF m, n, p, s
<1>5. Took(p, pipe', kind, Message)
  BY <1>2, <1>3, <1>4, TakeFacts DEF Message
<1>6. QED  BY <1>1, <1>2, <1>5 DEF m

\* One call's entry among the sessions waiting to be collected is replaced.
LEMMA SetAwaiting ==
  ASSUME NEW m \in Manager, NEW c \in Calls, NEW v \in {"none", "Running", "Collecting", "Ready"},
         NEW k, k = [m EXCEPT !.awaiting[c] = v]
  PROVE  /\ k \in Manager /\ k.pending = m.pending /\ k.test = m.test /\ k.active = m.active
         /\ k.discarding = m.discarding
         /\ \A r \in Calls : k.awaiting[r] = IF r = c THEN v ELSE m.awaiting[r]
<1> DEFINE a == [m.awaiting EXCEPT ![c] = v]
<1>1. /\ a \in [Calls -> {"none", "Running", "Collecting", "Ready"}]
      /\ \A r \in Calls : a[r] = IF r = c THEN v ELSE m.awaiting[r]
  BY DEF Manager
<1>2. k = [m EXCEPT !.awaiting = a]
  BY DEF Manager
<1> HIDE DEF a
<1>3. QED  BY <1>1, <1>2 DEF Manager

\* One call's entry among the discards is replaced.
LEMMA SetDiscarding ==
  ASSUME NEW m \in Manager, NEW c \in Calls, NEW v \in {"none", "Reaper", "Reaped", "Inline", "Collecting"},
         NEW k, k = [m EXCEPT !.discarding[c] = v]
  PROVE  /\ k \in Manager /\ k.pending = m.pending /\ k.test = m.test /\ k.active = m.active
         /\ k.awaiting = m.awaiting
         /\ \A r \in Calls : k.discarding[r] = IF r = c THEN v ELSE m.discarding[r]
<1> DEFINE a == [m.discarding EXCEPT ![c] = v]
<1>1. /\ a \in [Calls -> {"none", "Reaper", "Reaped", "Inline", "Collecting"}]
      /\ \A r \in Calls : a[r] = IF r = c THEN v ELSE m.discarding[r]
  BY DEF Manager
<1>2. k = [m EXCEPT !.discarding = a]
  BY DEF Manager
<1> HIDE DEF a
<1>3. QED  BY <1>1, <1>2 DEF Manager

\* Process: from here on the call is the pipeline's.
LEMMA OnProcessKeeps ==
  ASSUME Inv, OnProcess PROVE Inv'
<1>1. PICK c, queued :
      /\ Locked(mgr, note, pipe)
      /\ pipeline.at = "idle" /\ Took(pipe, pipe', "Process", c) /\ queued \in BOOLEAN
      /\ pipeline' = [at |-> "collect", rec |-> c, queued |-> queued]
      /\ row' = IF queued /\ row[c] = "none" THEN [row EXCEPT ![c] = "Pending"] ELSE row
      /\ job' = IF queued THEN job ELSE [job EXCEPT ![c] = "refused"]
      /\ UNCHANGED <<det, paused, ctrl, mgr, thread, verdict, outcome, note,
                    taken, flags, slot, window, starter, tester>>
  <2>1. Once(pipe) /\ pipe \in Seq(Mail)
    BY DEF Inv, Locked, LockedTypes, ProcessInv
  <2>2. PICK queued \in May("enqueue") :
          /\ Receives("Process") /\ pipe' = Tail(pipe)
          /\ pipeline' = [at |-> "collect", rec |-> Message, queued |-> queued]
          /\ row' = IF queued /\ row[Message] = "none"
                    THEN [row EXCEPT ![Message] = "Pending"] ELSE row
          /\ job' = IF queued THEN job ELSE [job EXCEPT ![Message] = "refused"]
          /\ UNCHANGED <<det, paused, ctrl, mgr, callVars, note, flags, testVars>>
    BY DEF OnProcess
  <2>3. Took(pipe, pipe', "Process", Message)
    BY <2>1, <2>2, TakeFacts DEF Receives, Message
  <2>4. queued \in BOOLEAN
    BY DEF May
  <2>5. QED  BY <2>2, <2>3, <2>4 DEF Receives, callVars, testVars, Inv
<1>0. /\ Types /\ SlotInv /\ PauseInv /\ LockedTypes(mgr, note, pipe) /\ ReservedInv(mgr) /\ PastInv(mgr, note, pipe)
      /\ HolderInv(mgr) /\ StageInv(mgr, pipe) /\ ProcessInv(pipe) /\ OutcomeInv(note)
      /\ NoteInv(mgr, note, pipe) /\ RowInv(pipe)
  BY <1>1 DEF Inv, Locked
<1>b. /\ c \in Calls /\ pipe' \in Seq(Mail) /\ Once(pipe') /\ Queued(pipe, "Process", c)
      /\ \A k, r : Queued(pipe, k, r) <=> Queued(pipe', k, r) \/ (k = "Process" /\ r = c)
      /\ \A letter \in Letters(pipe') : letter \in Letters(pipe)
      /\ ~Queued(pipe', "Process", c)
  BY <1>1 DEF Took
<1>c. c <= Past /\ ~(Past < c) /\ Past' = Past
  BY <1>0, <1>1, KnownIsPast DEF Past, Took
<1>d. \A r \in Calls : Kept(pipe, r)' <=> Kept(pipe, r)
  BY <1>1, <1>b DEF Kept
<1>e. \A r \in Calls : /\ job'[r] = IF r = c /\ ~queued THEN "refused" ELSE job[r]
                       /\ row'[r] = IF r = c /\ queued /\ row[r] = "none" THEN "Pending" ELSE row[r]
  BY <1>0, <1>1, <1>b DEF Types
<1>f. pipeline'.at = "collect" /\ pipeline'.rec = c /\ pipeline'.queued = queued
  BY <1>1
<1>2. Types'
  <2>1. Begun' = Begun
    BY <1>1 DEF Begun
  <2>2. /\ row' \in [Calls -> {"none", "Recording", "Pending", "Done", "Failed"}]
        /\ job' \in [Calls -> {"none", "refused", "due", "running", "done"}]
    BY <1>0, <1>1 DEF Types
  <2>3. /\ pipeline' \in [at : {"idle", "collect", "join", "settle", "reap", "drain", "claim",
                                 "claimed", "batch"}, rec : 0..MaxSessions, queued : BOOLEAN]
        /\ pipeline'.rec >= 1
    BY <1>1, <1>b, BoundAssumption DEF Calls
  <2>4. QED  BY <1>0, <1>1, <2>1, <2>2, <2>3 DEF Types
<1>3. SlotInv' /\ PauseInv'
  <2>1. flags'.test = flags.test
    BY <1>1
  <2>2. QED  BY <1>1, <2>1, TestFrame
<1>4. LockedTypes(mgr, note, pipe)'
  BY <1>0, <1>1, <1>b DEF LockedTypes
<1>5. ReservedInv(mgr)'
  BY <1>0, <1>1 DEF ReservedInv
<1>6. PastInv(mgr, note, pipe)'
  BY <1>0, <1>1, <1>b, <1>c, <1>e, <1>f DEF PastInv
<1>7. HolderInv(mgr)'
  <2>1. \A r \in Calls : Holds(mgr, r)' <=> Holds(mgr, r)
    BY <1>1 DEF Holds
  <2>2. QED  BY <1>0, <1>1, <2>1 DEF HolderInv
<1>8. StageInv(mgr, pipe)'
  BY <1>0, <1>1, <1>d, <1>f DEF StageInv, Stage
<1>9. ProcessInv(pipe)'
  BY <1>0, <1>1, <1>b, <1>e, <1>f DEF ProcessInv
<1>10. OutcomeInv(note)'
  BY <1>0, <1>1 DEF OutcomeInv
<1>11. NoteInv(mgr, note, pipe)'
  <2>1. Kept(pipe, c)
    BY <1>b DEF Kept
  <2>2. note[c] = "transcribing" => mgr.awaiting[c] # "none"
    BY <1>0, <1>b, <2>1 DEF OutcomeInv, StageInv, Stage
  <2>3. QED  BY <1>0, <1>1, <1>b, <1>e, <1>f, <2>2 DEF NoteInv
<1>12. RowInv(pipe)'
  BY <1>0, <1>1, <1>b, <1>e, <1>f DEF RowInv
<1>13. QED
  BY <1>2, <1>3, <1>4, <1>5, <1>6, <1>7, <1>8, <1>9, <1>10, <1>11, <1>12 DEF Inv, Locked

\* collect returns from the join with the outcome of the thread it joined.
LEMMA JoinKeeps ==
  ASSUME Inv, Join PROVE Inv'
<1>1. PICK c :
      /\ Locked(mgr, note, pipe)
      /\ c = pipeline.rec /\ pipeline.at = "join" /\ thread[c] = "ended"
      /\ mgr' = [mgr EXCEPT !.awaiting[c] = "none"]
      /\ taken' = [taken EXCEPT ![c] = outcome[c]] /\ pipeline' = [pipeline EXCEPT !.at = "settle"]
      /\ UNCHANGED <<det, paused, ctrl, thread, verdict, outcome, note, pipe,
                    row, job, flags, slot, window, starter, tester>>
  BY DEF Join, At, testVars, Inv
<1>0. /\ Types /\ SlotInv /\ PauseInv /\ LockedTypes(mgr, note, pipe) /\ ReservedInv(mgr) /\ PastInv(mgr, note, pipe)
      /\ HolderInv(mgr) /\ StageInv(mgr, pipe) /\ ProcessInv(pipe) /\ OutcomeInv(note)
      /\ NoteInv(mgr, note, pipe) /\ RowInv(pipe)
  BY <1>1 DEF Inv, Locked
<1>b. /\ c \in Calls /\ pipeline'.at = "settle" /\ pipeline'.rec = c
      /\ pipeline'.queued = pipeline.queued
  BY <1>0, <1>1, BoundAssumption DEF Types, Calls
<1>c. c <= Past /\ ~(Past < c) /\ Past' = Past
  BY <1>0, <1>1, <1>b, KnownIsPast DEF Past
<1>a. /\ mgr' \in Manager
      /\ mgr'.pending = mgr.pending
      /\ mgr'.test = mgr.test
      /\ mgr'.active = mgr.active
      /\ \A r \in Calls : /\ mgr'.awaiting[r] = IF r = c THEN "none" ELSE mgr.awaiting[r]
                          /\ mgr'.discarding[r] = mgr.discarding[r]
  <2>1. mgr \in Manager /\ "none" \in {"none", "Running", "Collecting", "Ready"}
    BY <1>0 DEF LockedTypes
  <2>2. mgr' = [mgr EXCEPT !.awaiting[c] = "none"]
    BY <1>1
  <2>3. /\ mgr' \in Manager /\ mgr'.pending = mgr.pending /\ mgr'.test = mgr.test
        /\ mgr'.active = mgr.active /\ mgr'.discarding = mgr.discarding
        /\ \A r \in Calls : mgr'.awaiting[r] = IF r = c THEN "none" ELSE mgr.awaiting[r]
    BY <1>b, <2>1, <2>2, SetAwaiting
  <2>4. QED  BY <2>3
<1>d. \A r \in Calls : Kept(pipe, r)' <=> Kept(pipe, r)
  BY <1>1, <1>b DEF Kept
<1>e. \A r \in Calls : taken'[r] = IF r = c THEN outcome[r] ELSE taken[r]
  BY <1>0, <1>1, <1>b DEF Types
<1>f. /\ mgr.awaiting[c] = "Collecting" /\ verdict[c] = "Finish" /\ mgr.discarding[c] = "none"
      /\ ~Kept(pipe, c) /\ outcome[c] # "none" /\ outcome[c] # "None" /\ mgr.active # c
  BY <1>0, <1>1, <1>b, SMTT(30) DEF StageInv, Stage, OutcomeInv, Types, Outcomes
<1>2. Types'
  <2>1. Begun' = Begun
    BY <1>1 DEF Begun
  <2>2. taken' \in [Calls -> Outcomes \cup {"None"}]
    BY <1>0, <1>1, <1>b DEF Types
  <2>3. /\ pipeline' \in [at : {"idle", "collect", "join", "settle", "reap", "drain", "claim",
                                 "claimed", "batch"}, rec : 0..MaxSessions, queued : BOOLEAN]
        /\ pipeline'.rec >= 1
    BY <1>0, <1>1 DEF Types
  <2>4. QED  BY <1>0, <1>1, <2>1, <2>2, <2>3 DEF Types
<1>3. SlotInv' /\ PauseInv'
  BY <1>1, TestFrame
<1>4. LockedTypes(mgr, note, pipe)'
  BY <1>0, <1>1, <1>a DEF LockedTypes
<1>5. ReservedInv(mgr)'
  BY <1>0, <1>1, <1>a DEF ReservedInv
<1>6. PastInv(mgr, note, pipe)'
  BY <1>0, <1>1, <1>a, <1>b, <1>c, <1>e DEF PastInv
<1>7. HolderInv(mgr)'
  <2>1. \A r \in Calls : Holds(mgr, r)' => Holds(mgr, r)
    BY <1>1, <1>a DEF Holds
  <2>2. \A r \in Calls : r # c => (Holds(mgr, r)' <=> Holds(mgr, r))
    BY <1>1, <1>a DEF Holds
  <2>3. QED  BY <1>0, <1>1, <1>a, <2>1, <2>2 DEF HolderInv
<1>8. StageInv(mgr, pipe)'
  <2>1. \A r \in Calls : r # c => Stage(mgr, pipe, r)'
    BY <1>0, <1>1, <1>a, <1>b, <1>d DEF StageInv, Stage
  <2>2. \A r \in Calls : r = c => Stage(mgr, pipe, r)'
    BY <1>0, <1>1, <1>a, <1>b, <1>d, <1>f DEF StageInv, Stage
  <2>3. QED  BY <2>1, <2>2 DEF StageInv
<1>9. ProcessInv(pipe)'
  BY <1>0, <1>1, <1>b, <1>e, <1>f DEF ProcessInv
<1>10. OutcomeInv(note)'
  BY <1>0, <1>1, <1>e, <1>f DEF OutcomeInv
<1>11. NoteInv(mgr, note, pipe)'
  BY <1>0, <1>1, <1>a, <1>b DEF NoteInv
<1>12. RowInv(pipe)'
  BY <1>0, <1>1, <1>b DEF RowInv
<1>13. QED
  BY <1>2, <1>3, <1>4, <1>5, <1>6, <1>7, <1>8, <1>9, <1>10, <1>11, <1>12 DEF Inv, Locked

\* collect takes the outcome that is ready, or goes to join a thread that still runs.
LEMMA CollectKeeps ==
  ASSUME Inv, Collect PROVE Inv'
<1>1. PICK m, n, p, c, v :
      /\ Locked(m, n, p)
      /\ c = pipeline.rec /\ pipeline.at = "collect"
      /\ v = IF m.awaiting[c] = "Running" THEN "Collecting" ELSE "none"
      /\ mgr' = [m EXCEPT !.awaiting[c] = v] /\ note' = n /\ pipe' = p
      /\ pipeline' = [pipeline EXCEPT !.at = IF m.awaiting[c] = "Running" THEN "join" ELSE "settle"]
      /\ taken' = [taken EXCEPT ![c] = IF m.awaiting[c] = "Ready" THEN outcome[c]
                                        ELSE IF m.awaiting[c] = "none" THEN "None" ELSE taken[c]]
      /\ UNCHANGED <<det, paused, ctrl, thread, verdict, outcome, row,
                    job, flags, slot, window, starter, tester>>
  <2>1. PICK ok \in May("unlink") :
          /\ pipeline.at = "collect"
          /\ mgr' = [Reaped(mgr) EXCEPT !.awaiting[pipeline.rec] =
                                           IF @ = "Running" THEN "Collecting" ELSE "none"]
          /\ pipeline' = [pipeline EXCEPT
                            !.at = IF Reaped(mgr).awaiting[pipeline.rec] = "Running" THEN "join" ELSE "settle"]
          /\ taken' = [taken EXCEPT ![pipeline.rec] =
                         IF Reaped(mgr).awaiting[pipeline.rec] = "Ready" THEN outcome[pipeline.rec]
                         ELSE IF Reaped(mgr).awaiting[pipeline.rec] = "none" THEN "None" ELSE @]
          /\ Lock(ok, <<>>)
          /\ UNCHANGED <<det, paused, ctrl, thread, verdict, outcome, row, job, flags, testVars>>
    BY DEF Collect, At
  <2> DEFINE m == Reaped(mgr)  n == Unlinked(Unspawned, ok)  p == pipe \o Reported(Unspawned, ok)
             c == pipeline.rec  v == IF m.awaiting[c] = "Running" THEN "Collecting" ELSE "none"
  <2>2. Locked(m, n, p) /\ p \o <<>> = p
    BY Reaping
  <2>3. note' = n /\ pipe' = p
    BY <2>1, <2>2 DEF Lock
  <2>4. m \in Manager /\ taken \in [Calls -> Outcomes \cup {"None"}]
    BY <2>2 DEF Locked, LockedTypes, Inv, Types
  <2>5. mgr' = [m EXCEPT !.awaiting[c] = v]
    BY <2>1
  <2>6. taken' = [taken EXCEPT ![c] = IF m.awaiting[c] = "Ready" THEN outcome[c]
                                        ELSE IF m.awaiting[c] = "none" THEN "None" ELSE taken[c]]
    BY <2>1
  <2>7. pipeline' = [pipeline EXCEPT !.at = IF m.awaiting[c] = "Running" THEN "join" ELSE "settle"]
    BY <2>1
  <2>8. pipeline.at = "collect" /\ UNCHANGED <<det, paused, ctrl, thread, verdict, outcome, row, job,
                     flags, slot, window, starter, tester>>
    BY <2>1 DEF testVars
  <2> HIDE DEF m, n, p
  <2>9. QED  BY <2>2, <2>3, <2>5, <2>6, <2>7, <2>8
<1>0. /\ Types /\ SlotInv /\ PauseInv /\ LockedTypes(m, n, p) /\ ReservedInv(m) /\ PastInv(m, n, p)
      /\ HolderInv(m) /\ StageInv(m, p) /\ ProcessInv(p) /\ OutcomeInv(n)
      /\ NoteInv(m, n, p) /\ RowInv(p)
  BY <1>1 DEF Inv, Locked
<1>b. /\ c \in Calls /\ pipeline'.at = (IF m.awaiting[c] = "Running" THEN "join" ELSE "settle")
      /\ pipeline'.rec = c /\ pipeline'.queued = pipeline.queued /\ pipeline.at = "collect"
      /\ pipeline.rec = c
  BY <1>0, <1>1, BoundAssumption DEF Types, Calls
<1>c. c <= Past /\ ~(Past < c) /\ Past' = Past
  BY <1>0, <1>1, <1>b, KnownIsPast DEF Past
<1>a. /\ mgr' \in Manager
      /\ mgr'.pending = m.pending
      /\ mgr'.test = m.test
      /\ mgr'.active = m.active
      /\ \A r \in Calls : /\ mgr'.awaiting[r] = IF r = c THEN v ELSE m.awaiting[r]
                          /\ mgr'.discarding[r] = m.discarding[r]
  <2>1. m \in Manager /\ v \in {"none", "Running", "Collecting", "Ready"}
    BY <1>0, <1>1 DEF LockedTypes
  <2>2. mgr' = [m EXCEPT !.awaiting[c] = v]
    BY <1>1
  <2>3. /\ mgr' \in Manager /\ mgr'.pending = m.pending /\ mgr'.test = m.test
        /\ mgr'.active = m.active /\ mgr'.discarding = m.discarding
        /\ \A r \in Calls : mgr'.awaiting[r] = IF r = c THEN v ELSE m.awaiting[r]
    BY <1>b, <2>1, <2>2, SetAwaiting
  <2>4. QED  BY <2>3
<1>u. /\ UNCHANGED <<det, paused, ctrl, thread, verdict, outcome, row, job, flags, slot, window,
                     starter, tester>> /\ note' = n /\ pipe' = p
      /\ v = IF m.awaiting[c] = "Running" THEN "Collecting" ELSE "none"
  BY <1>1
<1>d. \A r \in Calls : Kept(pipe, r)' <=> Kept(p, r) /\ r # c
  BY <1>0, <1>u, <1>b DEF Kept, ProcessInv
<1>e. \A r \in Calls : r # c => taken'[r] = taken[r]
  BY <1>0, <1>1, <1>b DEF Types
<1>f. /\ Kept(p, c) /\ m.awaiting[c] \in {"none", "Running", "Ready"} /\ taken[c] = "none"
      /\ thread[c] = "none" <=> m.awaiting[c] = "none"
      /\ m.awaiting[c] # "none" => verdict[c] = "Finish" /\ m.discarding[c] = "none"
      /\ m.awaiting[c] = "Ready" => thread[c] = "ended" /\ outcome[c] \notin {"none", "None"}
      /\ m.awaiting[c] # "none" => m.active # c
  <2>1. Kept(p, c) /\ taken[c] = "none"
    BY <1>0, <1>b DEF Kept, ProcessInv
  <2>2. m.awaiting[c] \in {"none", "Running", "Collecting", "Ready"}
    BY <1>0, <1>b DEF LockedTypes, Manager
  <2>3. /\ m.awaiting[c] # "Collecting" /\ (thread[c] # "none" => m.awaiting[c] # "none")
        /\ m.awaiting[c] # "none" =>
              /\ verdict[c] = "Finish" /\ m.discarding[c] = "none" /\ thread[c] # "none" /\ m.active # c
        /\ m.awaiting[c] = "Ready" => thread[c] = "ended"
    BY <1>0, <1>b, <2>1 DEF StageInv, Stage
  <2>4. outcome[c] # "None" /\ (thread[c] = "ended" => outcome[c] # "none")
    BY <1>0, <1>b DEF OutcomeInv, Types, Outcomes
  <2>5. QED  BY <2>1, <2>2, <2>3, <2>4
<1>g. taken'[c] = IF m.awaiting[c] = "Ready" THEN outcome[c]
                  ELSE IF m.awaiting[c] = "none" THEN "None" ELSE "none"
  BY <1>0, <1>1, <1>b, <1>f DEF Types
<1>2. Types'
  <2>1. Begun' = Begun
    BY <1>u DEF Begun
  <2>2. taken' \in [Calls -> Outcomes \cup {"None"}]
    BY <1>0, <1>1, <1>b DEF Types
  <2>3. /\ pipeline' \in [at : {"idle", "collect", "join", "settle", "reap", "drain", "claim",
                                 "claimed", "batch"}, rec : 0..MaxSessions, queued : BOOLEAN]
        /\ pipeline'.rec >= 1
    BY <1>0, <1>1 DEF Types
  <2>4. QED  BY <1>0, <1>u, <2>1, <2>2, <2>3 DEF Types
<1>3. SlotInv' /\ PauseInv'
  BY <1>u, TestFrame
<1>4. LockedTypes(mgr, note, pipe)'
  BY <1>0, <1>u, <1>a DEF LockedTypes
<1>5. ReservedInv(mgr)'
  BY <1>0, <1>u, <1>a DEF ReservedInv
<1>6. PastInv(mgr, note, pipe)'
  BY <1>0, <1>u, <1>a, <1>b, <1>c, <1>e, <1>f DEF PastInv
<1>7. HolderInv(mgr)'
  <2>1. \A r \in Calls : Holds(mgr, r)' <=> Holds(m, r)
    BY <1>u, <1>a, <1>f DEF Holds
  <2>3. QED  BY <1>0, <1>u, <1>a, <2>1 DEF HolderInv
<1>8. StageInv(mgr, pipe)'
  <2>1. \A r \in Calls : r # c => Stage(mgr, pipe, r)'
    BY <1>0, <1>u, <1>a, <1>b, <1>d DEF StageInv, Stage
  <2>2. \A r \in Calls : r = c => Stage(mgr, pipe, r)'
    BY <1>0, <1>u, <1>a, <1>b, <1>d, <1>f DEF StageInv, Stage
  <2>3. QED  BY <2>1, <2>2 DEF StageInv
<1>9. ProcessInv(pipe)'
  <2>1. Once(pipe') /\ ~Queued(pipe', "Process", c)
    BY <1>0, <1>u, <1>b DEF ProcessInv
  <2>2. ~(det.at \in {"spawned", "recording", "finished", "discarded"} /\ det.rec = c)
    BY <1>0, <1>b DEF ProcessInv
  <2>3. QED  BY <1>0, <1>u, <1>b, <1>e, <1>f, <1>g, <2>1, <2>2 DEF ProcessInv
<1>10. OutcomeInv(note)'
  BY <1>0, <1>u, <1>e, <1>f, <1>g DEF OutcomeInv
<1>11. NoteInv(mgr, note, pipe)'
  BY <1>0, <1>u, <1>a, <1>b DEF NoteInv
<1>12. RowInv(pipe)'
  BY <1>0, <1>u, <1>b DEF RowInv
<1>13. QED
  BY <1>2, <1>3, <1>4, <1>5, <1>6, <1>7, <1>8, <1>9, <1>10, <1>11, <1>12 DEF Inv, Locked

\* Settling the call hands an open note to a batch job, or closes it.
LEMMA SettleKeeps ==
  ASSUME Inv, Settle PROVE Inv'
<1>1. PICK c :
      /\ Locked(mgr, note, pipe)
      /\ c = pipeline.rec /\ pipeline.at = "settle" /\ pipeline' = [pipeline EXCEPT !.at = "drain"]
      /\ row' = IF ~pipeline.queued THEN row
                ELSE [row EXCEPT ![c] = IF taken[c] = "Filed" THEN "Done" ELSE "Pending"]
      /\ job' = IF ~pipeline.queued \/ taken[c] = "Filed" THEN job ELSE [job EXCEPT ![c] = "due"]
      /\ note' = IF ~pipeline.queued /\ taken[c] = "Fallback" /\ OnDisk(note[c])
                 THEN [note EXCEPT ![c] = "settled"] ELSE note
      /\ flags' = IF ~pipeline.queued \/ taken[c] = "Filed"
                  THEN [flags EXCEPT !.transcribing = FALSE] ELSE flags
      /\ UNCHANGED <<det, paused, ctrl, mgr, thread, verdict, outcome,
                    pipe, taken, slot, window, starter, tester>>
  BY DEF Settle, At, callVars, testVars, Inv
<1>0. /\ Types /\ SlotInv /\ PauseInv /\ LockedTypes(mgr, note, pipe) /\ ReservedInv(mgr) /\ PastInv(mgr, note, pipe)
      /\ HolderInv(mgr) /\ StageInv(mgr, pipe) /\ ProcessInv(pipe) /\ OutcomeInv(note)
      /\ NoteInv(mgr, note, pipe) /\ RowInv(pipe)
  BY <1>1 DEF Inv, Locked
<1>b. /\ c \in Calls /\ pipeline'.at = "drain" /\ pipeline'.rec = c /\ pipeline.rec = c
      /\ pipeline.at = "settle"
  BY <1>0, <1>1, BoundAssumption DEF Types, Calls
<1>c. c <= Past /\ ~(Past < c) /\ Past' = Past
  BY <1>0, <1>1, <1>b, KnownIsPast DEF Past
<1>u. UNCHANGED <<det, paused, ctrl, mgr, thread, verdict, outcome, pipe, taken, slot, window,
                  starter, tester>>
  BY <1>1
<1>d. \A r \in Calls : Kept(pipe, r)' <=> Kept(pipe, r)
  BY <1>u, <1>b DEF Kept
<1>e. \A r \in Calls : r # c => row'[r] = row[r] /\ job'[r] = job[r] /\ note'[r] = note[r]
  BY <1>0, <1>1, <1>b DEF Types, LockedTypes
<1>f. /\ row'[c] = IF ~pipeline.queued THEN row[c] ELSE IF taken[c] = "Filed" THEN "Done" ELSE "Pending"
      /\ job'[c] = IF ~pipeline.queued \/ taken[c] = "Filed" THEN job[c] ELSE "due"
      /\ note'[c] = IF ~pipeline.queued /\ taken[c] = "Fallback" /\ OnDisk(note[c])
                    THEN "settled" ELSE note[c]
  BY <1>0, <1>1, <1>b DEF Types, LockedTypes
<1>g. taken[c] \in {"Filed", "Fallback", "NoNote", "None"}
  BY <1>0, <1>b DEF ProcessInv, Types, Outcomes
<1>h. ~pipeline.queued => job[c] = "refused"
  BY <1>0, <1>b DEF ProcessInv
<1>2. Types'
  <2>1. Begun' = Begun
    BY <1>u DEF Begun
  <2>2. /\ row' \in [Calls -> {"none", "Recording", "Pending", "Done", "Failed"}]
        /\ job' \in [Calls -> {"none", "refused", "due", "running", "done"}]
        /\ flags' \in [recording : BOOLEAN, transcribing : BOOLEAN, test : BOOLEAN]
    BY <1>0, <1>1 DEF Types
  <2>3. /\ pipeline' \in [at : {"idle", "collect", "join", "settle", "reap", "drain", "claim",
                                 "claimed", "batch"}, rec : 0..MaxSessions, queued : BOOLEAN]
    BY <1>0, <1>1 DEF Types
  <2>4. QED  BY <1>0, <1>u, <1>b, <2>1, <2>2, <2>3 DEF Types
<1>3. SlotInv' /\ PauseInv'
  <2>1. flags'.test = flags.test
    BY <1>0, <1>1 DEF Types
  <2>2. QED  BY <1>u, <2>1, TestFrame
<1>4. LockedTypes(mgr, note, pipe)'
  <2>1. note' \in [Calls -> NoteStates]
    BY <1>0, <1>1 DEF LockedTypes, NoteStates
  <2>2. QED  BY <1>0, <1>u, <2>1 DEF LockedTypes
<1>5. ReservedInv(mgr)'
  BY <1>0, <1>u DEF ReservedInv
<1>6. PastInv(mgr, note, pipe)'
  BY <1>0, <1>u, <1>b, <1>c, <1>e DEF PastInv
<1>7. HolderInv(mgr)'
  BY <1>0, <1>u DEF HolderInv, Holds
<1>8. StageInv(mgr, pipe)'
  BY <1>0, <1>u, <1>b, <1>d DEF StageInv, Stage
<1>9. ProcessInv(pipe)'
  BY <1>0, <1>u, <1>b, <1>e DEF ProcessInv
<1>10. OutcomeInv(note)'
  BY <1>0, <1>u, <1>e, <1>f DEF OutcomeInv
<1>11. NoteInv(mgr, note, pipe)'
  <2>1. \A r \in Calls : r # c => (note'[r] = "transcribing" =>
          \/ Queued(pipe', "LiveDiscardCleanup", r)
          \/ det'.at = "spawned" /\ det'.rec = r
          \/ mgr'.active = r \/ mgr'.awaiting[r] # "none"
          \/ mgr'.discarding[r] \in {"Reaper", "Inline", "Collecting"}
          \/ job'[r] \in {"due", "running"})
    BY <1>0, <1>u, <1>b, <1>e DEF NoteInv
  <2>2. note'[c] = "transcribing" => job'[c] = "due"
    BY <1>0, <1>b, <1>f, <1>g DEF OutcomeInv, OnDisk
  <2>3. QED  BY <2>1, <2>2 DEF NoteInv
<1>12. RowInv(pipe)'
  BY <1>0, <1>u, <1>b, <1>e, <1>f, <1>h DEF RowInv
<1>13. QED
  BY <1>2, <1>3, <1>4, <1>5, <1>6, <1>7, <1>8, <1>9, <1>10, <1>11, <1>12 DEF Inv, Locked

\* A row is opened only for a note whose session is still to be filed.
LEMMA OnLiveNoteCreatedKeeps ==
  ASSUME Inv, OnLiveNoteCreated PROVE Inv'
<1>1. PICK m, n, p, c :
      /\ Locked(m, n, p)
      /\ Took(p, pipe', "LiveNoteCreated", c) /\ pipeline.at = "idle"
      /\ mgr' = m /\ note' = n
      /\ row' = row \/ (accepts_note(m, c) /\ row' = [row EXCEPT ![c] = "Recording"])
      /\ pipeline' = [pipeline EXCEPT !.at = "drain"]
      /\ UNCHANGED <<det, paused, ctrl, thread, verdict, outcome, job,
                    taken, flags, slot, window, starter, tester>>
  <2>1. PICK ok \in May("unlink") :
          /\ Receives("LiveNoteCreated")
          /\ IF row[Message] = "none"
             THEN /\ mgr' = Reaped(mgr) /\ LockAfter(ok)
                  /\ row' = IF accepts_note(Reaped(mgr), Message)
                            THEN [row EXCEPT ![Message] = "Recording"] ELSE row
             ELSE pipe' = Tail(pipe) /\ UNCHANGED <<mgr, note, row>>
          /\ pipeline' = [pipeline EXCEPT !.at = "drain"]
          /\ UNCHANGED <<det, paused, ctrl, thread, verdict, outcome, taken, job, flags, slot,
                         window, starter, tester>>
    BY DEF OnLiveNoteCreated, At, callVars, testVars
  <2>2. pipeline.at = "idle"
    BY <2>1 DEF Receives
  <2>3. CASE row[Message] = "none"
    <3>1. PICK m, n, p : /\ Locked(m, n, p) /\ m = Reaped(mgr) /\ note' = n
                         /\ Took(p, pipe', "LiveNoteCreated", Message)
      BY <2>1, <2>3, TakeAfter
    <3>2. row' = row \/ (accepts_note(m, Message) /\ row' = [row EXCEPT ![Message] = "Recording"])
      BY <2>1, <2>3, <3>1
    <3>3. mgr' = m
      BY <2>1, <2>3, <3>1
    <3>4. QED  BY <2>1, <2>2, <3>1, <3>2, <3>3
  <2>4. CASE row[Message] # "none"
    <3>1. Once(pipe) /\ pipe \in Seq(Mail) /\ pipe # <<>> /\ Head(pipe).kind = "LiveNoteCreated"
      BY <2>1 DEF Inv, Locked, LockedTypes, ProcessInv, Receives
    <3>2. Took(pipe, pipe', "LiveNoteCreated", Message)
      BY <2>1, <2>4, <3>1, TakeFacts DEF Message
    <3>3. QED  BY <2>1, <2>2, <2>4, <3>2 DEF Inv
  <2>5. QED  BY <2>3, <2>4
<1>0. /\ Types /\ SlotInv /\ PauseInv /\ LockedTypes(m, n, p) /\ ReservedInv(m) /\ PastInv(m, n, p)
      /\ HolderInv(m) /\ StageInv(m, p) /\ ProcessInv(p) /\ OutcomeInv(n)
      /\ NoteInv(m, n, p) /\ RowInv(p)
  BY <1>1 DEF Inv, Locked
<1>b. /\ c \in Calls /\ pipe' \in Seq(Mail) /\ Once(pipe') /\ Queued(p, "LiveNoteCreated", c)
      /\ \A k, r : Queued(p, k, r) <=> Queued(pipe', k, r) \/ (k = "LiveNoteCreated" /\ r = c)
      /\ \A letter \in Letters(pipe') : letter \in Letters(p)
  BY <1>1 DEF Took
<1>c. c <= Past /\ ~(Past < c) /\ Past' = Past
  BY <1>0, <1>1, KnownIsPast DEF Past, Took
<1>u. /\ UNCHANGED <<det, paused, ctrl, thread, verdict, outcome, taken, job, flags, slot, window,
                     starter, tester>>
      /\ mgr' = m /\ note' = n
  BY <1>1
<1>d. /\ pipeline.at = "idle" /\ pipeline'.at = "drain" /\ pipeline'.rec = pipeline.rec
      /\ \A r \in Calls : Kept(pipe, r)' <=> Kept(p, r)
  <2>1. pipeline.at = "idle" /\ pipeline'.at = "drain" /\ pipeline'.rec = pipeline.rec
    BY <1>0, <1>1 DEF Types
  <2>2. QED  BY <1>u, <1>b, <2>1 DEF Kept
<1>e. \A r \in Calls : row'[r] = row[r] \/ (r = c /\ accepts_note(m, c))
  BY <1>0, <1>1, <1>b DEF Types
<1>f. accepts_note(m, c) => (det.rec = c /\ det.at # "idle") \/ Queued(pipe', "Process", c)
  BY <1>0, <1>u, <1>b, <1>d DEF StageInv, Stage, accepts_note, Kept
<1>2. Types'
  <2>1. Begun' = Begun
    BY <1>u DEF Begun
  <2>2. row' \in [Calls -> {"none", "Recording", "Pending", "Done", "Failed"}]
    BY <1>0, <1>1 DEF Types
  <2>3. pipeline' \in [at : {"idle", "collect", "join", "settle", "reap", "drain", "claim",
                              "claimed", "batch"}, rec : 0..MaxSessions, queued : BOOLEAN]
    BY <1>0, <1>1 DEF Types
  <2>4. QED  BY <1>0, <1>u, <1>d, <2>1, <2>2, <2>3 DEF Types
<1>3. SlotInv' /\ PauseInv'
  BY <1>u, TestFrame
<1>4. LockedTypes(mgr, note, pipe)'
  BY <1>0, <1>u, <1>b DEF LockedTypes
<1>5. ReservedInv(mgr)'
  BY <1>0, <1>u DEF ReservedInv
<1>6. PastInv(mgr, note, pipe)'
  BY <1>0, <1>u, <1>b, <1>c, <1>d, <1>e DEF PastInv
<1>7. HolderInv(mgr)'
  BY <1>0, <1>u DEF HolderInv, Holds
<1>8. StageInv(mgr, pipe)'
  BY <1>0, <1>u, <1>d DEF StageInv, Stage
<1>9. ProcessInv(pipe)'
  BY <1>0, <1>u, <1>b, <1>d DEF ProcessInv
<1>10. OutcomeInv(note)'
  BY <1>0, <1>u DEF OutcomeInv
<1>11. NoteInv(mgr, note, pipe)'
  BY <1>0, <1>u, <1>b, <1>d DEF NoteInv
<1>12. RowInv(pipe)'
  BY <1>0, <1>u, <1>b, <1>d, <1>e, <1>f DEF RowInv
<1>13. QED
  BY <1>2, <1>3, <1>4, <1>5, <1>6, <1>7, <1>8, <1>9, <1>10, <1>11, <1>12 DEF Inv, Locked

\* A discard that no reaper took is taken over; the row of the call is closed, now or then.
LEMMA OnDiscardKeeps ==
  ASSUME Inv, NEW kind \in {"LiveDiscarded", "LiveDiscardReap"}, OnDiscard(kind) PROVE Inv'
<1>1. PICK m, n, p, c, mine :
      /\ Locked(m, n, p)
      /\ Took(p, pipe', kind, c) /\ pipeline.at = "idle" /\ mine = (m.discarding[c] = "Inline")
      /\ mgr' = (IF mine THEN [m EXCEPT !.discarding[c] = "Collecting"] ELSE m) /\ note' = n
      /\ row' = IF kind = "LiveDiscarded" /\ ~mine THEN Closed(c) ELSE row
      /\ pipeline' = [at |-> IF mine THEN "reap" ELSE "drain", rec |-> c,
                      queued |-> kind = "LiveDiscarded"]
      /\ UNCHANGED <<det, paused, ctrl, thread, verdict, outcome, job,
                    taken, flags, slot, window, starter, tester>>
  <2>1. PICK ok \in May("unlink") :
          /\ Receives(kind)
          /\ mgr' = IF Reaped(mgr).discarding[Message] = "Inline"
                    THEN [Reaped(mgr) EXCEPT !.discarding[Message] = "Collecting"] ELSE Reaped(mgr)
          /\ LockAfter(ok)
          /\ row' = IF kind = "LiveDiscarded" /\ ~(Reaped(mgr).discarding[Message] = "Inline")
                    THEN Closed(Message) ELSE row
          /\ pipeline' = [at |-> IF Reaped(mgr).discarding[Message] = "Inline" THEN "reap" ELSE "drain",
                          rec |-> Message, queued |-> kind = "LiveDiscarded"]
          /\ UNCHANGED <<det, paused, ctrl, thread, verdict, outcome, taken, job, flags, slot,
                         window, starter, tester>>
    BY DEF OnDiscard, callVars, testVars
  <2>2. pipeline.at = "idle"
    BY <2>1 DEF Receives
  <2>3. PICK m, n, p : /\ Locked(m, n, p) /\ m = Reaped(mgr) /\ note' = n
                       /\ Took(p, pipe', kind, Message)
    BY <2>1, TakeAfter
  <2>4. QED  BY <2>1, <2>2, <2>3
<1>0. /\ Types /\ SlotInv /\ PauseInv /\ LockedTypes(m, n, p) /\ ReservedInv(m) /\ PastInv(m, n, p)
      /\ HolderInv(m) /\ StageInv(m, p) /\ ProcessInv(p) /\ OutcomeInv(n)
      /\ NoteInv(m, n, p) /\ RowInv(p)
  BY <1>1 DEF Inv, Locked
<1>b. /\ c \in Calls /\ pipe' \in Seq(Mail) /\ Once(pipe') /\ Queued(p, kind, c)
      /\ \A k, r : Queued(p, k, r) <=> Queued(pipe', k, r) \/ (k = kind /\ r = c)
      /\ \A letter \in Letters(pipe') : letter \in Letters(p)
  BY <1>1 DEF Took
<1>c. c <= Past /\ ~(Past < c) /\ Past' = Past
  BY <1>0, <1>1, KnownIsPast DEF Past, Took
<1>u. /\ UNCHANGED <<det, paused, ctrl, thread, verdict, outcome, taken, job, flags, slot, window,
                     starter, tester>> /\ note' = n
      /\ mine = (m.discarding[c] = "Inline")
  BY <1>1
<1>d. /\ pipeline.at = "idle" /\ pipeline'.at = (IF mine THEN "reap" ELSE "drain")
      /\ pipeline'.rec = c /\ pipeline'.queued = (kind = "LiveDiscarded")
      /\ \A r \in Calls : Kept(pipe, r)' <=> Kept(p, r)
  <2>1. /\ pipeline.at = "idle" /\ pipeline'.at = (IF mine THEN "reap" ELSE "drain")
        /\ pipeline'.rec = c /\ pipeline'.queued = (kind = "LiveDiscarded")
    BY <1>1
  <2>2. QED  BY <1>u, <1>b, <2>1 DEF Kept
<1>a. /\ mgr' \in Manager
      /\ mgr'.pending = m.pending
      /\ mgr'.test = m.test
      /\ mgr'.active = m.active
      /\ \A r \in Calls : /\ mgr'.awaiting[r] = m.awaiting[r]
                          /\ mgr'.discarding[r] = IF r = c /\ mine THEN "Collecting" ELSE m.discarding[r]
  <2>1. m \in Manager /\ "Collecting" \in {"none", "Reaper", "Reaped", "Inline", "Collecting"}
    BY <1>0 DEF LockedTypes
  <2>2. CASE mine
    <3>1. mgr' = [m EXCEPT !.discarding[c] = "Collecting"]
      BY <1>1, <2>2
    <3>2. /\ mgr' \in Manager /\ mgr'.pending = m.pending /\ mgr'.test = m.test
          /\ mgr'.active = m.active /\ mgr'.awaiting = m.awaiting
          /\ \A r \in Calls : mgr'.discarding[r] = IF r = c THEN "Collecting" ELSE m.discarding[r]
      BY <1>b, <2>1, <3>1, SetDiscarding
    <3>3. QED  BY <2>2, <3>2
  <2>3. CASE ~mine
    <3>1. mgr' = m
      BY <1>1, <2>3
    <3>2. QED  BY <2>1, <2>3, <3>1
  <2>4. QED  BY <2>2, <2>3, <1>1
<1>e. /\ \A r \in Calls : r # c => row'[r] = row[r]
      /\ row'[c] = "Recording" => row[c] = "Recording" /\ (kind = "LiveDiscarded" => mine)
  BY <1>0, <1>1, <1>b DEF Types, Closed
<1>f. m.discarding[c] # "Collecting"
  BY <1>0, <1>b, <1>d DEF StageInv, Stage
<1>2. Types'
  <2>1. Begun' = Begun
    BY <1>u DEF Begun
  <2>2. row' \in [Calls -> {"none", "Recording", "Pending", "Done", "Failed"}]
    BY <1>0, <1>1 DEF Types, Closed
  <2>3. pipeline' \in [at : {"idle", "collect", "join", "settle", "reap", "drain", "claim",
                              "claimed", "batch"}, rec : 0..MaxSessions, queued : BOOLEAN] /\ pipeline'.rec >= 1
    BY <1>1, <1>b, BoundAssumption DEF Calls
  <2>4. QED  BY <1>0, <1>u, <1>d, <2>1, <2>2, <2>3 DEF Types
<1>3. SlotInv' /\ PauseInv'
  BY <1>u, TestFrame
<1>4. LockedTypes(mgr, note, pipe)'
  BY <1>0, <1>u, <1>a, <1>b DEF LockedTypes
<1>5. ReservedInv(mgr)'
  BY <1>0, <1>u, <1>a DEF ReservedInv
<1>6. PastInv(mgr, note, pipe)'
  BY <1>0, <1>u, <1>a, <1>b, <1>c, <1>d, <1>e DEF PastInv
<1>7. HolderInv(mgr)'
  <2>1. \A r \in Calls : Holds(mgr, r)' <=> Holds(m, r)
    BY <1>u, <1>a DEF Holds
  <2>2. QED  BY <1>0, <1>u, <1>a, <2>1 DEF HolderInv
<1>8. StageInv(mgr, pipe)'
  <2>1. \A r \in Calls : r # c => Stage(mgr, pipe, r)'
    BY <1>0, <1>u, <1>a, <1>d DEF StageInv, Stage
  <2>2. \A r \in Calls : r = c => Stage(mgr, pipe, r)'
    <3>0. Stage(m, p, c)
      BY <1>0, <1>b DEF StageInv
    <3>1. CASE mine
      <4>1. mgr'.discarding[c] = "Collecting" /\ pipeline'.at = "reap" /\ m.discarding[c] = "Inline"
        BY <1>a, <1>b, <1>d, <1>u, <3>1
      <4>2. QED  BY <1>u, <1>a, <1>b, <1>d, <3>0, <4>1 DEF Stage
    <3>2. CASE ~mine
      <4>1. mgr'.discarding[c] = m.discarding[c] /\ pipeline'.at = "drain"
        BY <1>a, <1>b, <1>d, <3>2
      <4>2. QED  BY <1>u, <1>a, <1>b, <1>d, <1>f, <3>0, <4>1 DEF Stage
    <3>3. QED  BY <3>1, <3>2, <1>u
  <2>3. QED  BY <2>1, <2>2 DEF StageInv
<1>9. ProcessInv(pipe)'
  BY <1>0, <1>u, <1>b, <1>d DEF ProcessInv
<1>10. OutcomeInv(note)'
  BY <1>0, <1>u DEF OutcomeInv
<1>11. NoteInv(mgr, note, pipe)'
  BY <1>0, <1>u, <1>a, <1>b, <1>d DEF NoteInv
<1>12. RowInv(pipe)'
  BY <1>0, <1>u, <1>b, <1>d, <1>e DEF RowInv
<1>13. QED
  BY <1>2, <1>3, <1>4, <1>5, <1>6, <1>7, <1>8, <1>9, <1>10, <1>11, <1>12 DEF Inv, Locked

\* The discard the pipeline took over is finished.
LEMMA ReapUnspawnedKeeps ==
  ASSUME Inv, ReapUnspawned PROVE Inv'
<1>1. PICK c, ok :
      /\ Locked(mgr, note, pipe)
      /\ c = pipeline.rec /\ pipeline.at = "reap" /\ thread[c] = "ended" /\ ok \in BOOLEAN
      /\ note' = Unlinked({c}, ok) /\ pipe' = pipe \o Reported({c}, ok)
      /\ mgr' = [mgr EXCEPT !.discarding[c] = "none"]
      /\ row' = IF pipeline.queued THEN Closed(c) ELSE row
      /\ pipeline' = [pipeline EXCEPT !.at = "drain"]
      /\ UNCHANGED <<det, paused, ctrl, thread, verdict, outcome, job,
                    taken, flags, slot, window, starter, tester>>
  BY DEF ReapUnspawned, At, callVars, testVars, May, Inv
<1>0. /\ Types /\ SlotInv /\ PauseInv /\ LockedTypes(mgr, note, pipe) /\ ReservedInv(mgr) /\ PastInv(mgr, note, pipe)
      /\ HolderInv(mgr) /\ StageInv(mgr, pipe) /\ ProcessInv(pipe) /\ OutcomeInv(note)
      /\ NoteInv(mgr, note, pipe) /\ RowInv(pipe)
  BY <1>1 DEF Inv, Locked
<1>b. /\ c \in Calls /\ pipeline'.at = "drain" /\ pipeline'.rec = c /\ pipeline.rec = c
      /\ pipeline.at = "reap" /\ thread[c] = "ended"
  BY <1>0, <1>1, BoundAssumption DEF Types, Calls
<1>c. c <= Past /\ ~(Past < c) /\ Past' = Past
  BY <1>0, <1>1, <1>b, KnownIsPast DEF Past
<1>h. /\ note' \in [Calls -> NoteStates] /\ \A r \in Calls : r # c => note'[r] = note[r]
      /\ note'[c] \in {note[c], "removed"}
      /\ pipe' \in Seq(Mail) /\ Once(pipe')
      /\ \A letter \in Letters(pipe') : letter \in Letters(pipe) \/ letter.rec = c
      /\ \A kind, r : Queued(pipe, kind, r) => Queued(pipe', kind, r)
      /\ \A kind, r : Queued(pipe', kind, r) /\ kind # "LiveDiscardCleanup" => Queued(pipe, kind, r)
      /\ note'[c] = "transcribing" => Queued(pipe', "LiveDiscardCleanup", c)
  BY <1>1, <1>b, ReapOne
<1>u. UNCHANGED <<det, paused, ctrl, thread, verdict, outcome, taken, job, flags, slot, window,
                  starter, tester>>
  BY <1>1
<1>d. \A r \in Calls : Kept(pipe, r)' <=> Kept(pipe, r)
  BY <1>u, <1>b, <1>h DEF Kept
<1>a. /\ mgr' \in Manager
      /\ mgr'.pending = mgr.pending
      /\ mgr'.test = mgr.test
      /\ mgr'.active = mgr.active
      /\ \A r \in Calls : /\ mgr'.awaiting[r] = mgr.awaiting[r]
                          /\ mgr'.discarding[r] = IF r = c THEN "none" ELSE mgr.discarding[r]
  <2>1. mgr \in Manager /\ "none" \in {"none", "Reaper", "Reaped", "Inline", "Collecting"}
    BY <1>0 DEF LockedTypes
  <2>2. mgr' = [mgr EXCEPT !.discarding[c] = "none"]
    BY <1>1
  <2>3. /\ mgr' \in Manager /\ mgr'.pending = mgr.pending /\ mgr'.test = mgr.test
        /\ mgr'.active = mgr.active /\ mgr'.awaiting = mgr.awaiting
        /\ \A r \in Calls : mgr'.discarding[r] = IF r = c THEN "none" ELSE mgr.discarding[r]
    BY <1>b, <2>1, <2>2, SetDiscarding
  <2>4. QED  BY <2>3
<1>e. /\ \A r \in Calls : r # c => row'[r] = row[r]
      /\ row'[c] = "Recording" => row[c] = "Recording" /\ ~pipeline.queued
  BY <1>0, <1>1, <1>b DEF Types, Closed
<1>f. /\ mgr.discarding[c] = "Collecting" /\ mgr.active # c /\ mgr.awaiting[c] = "none"
      /\ ~(det.at = "spawned" /\ det.rec = c)
  BY <1>0, <1>b DEF StageInv, Stage
<1>2. Types'
  <2>1. Begun' = Begun
    BY <1>u DEF Begun
  <2>2. row' \in [Calls -> {"none", "Recording", "Pending", "Done", "Failed"}]
    BY <1>0, <1>1 DEF Types, Closed
  <2>3. pipeline' \in [at : {"idle", "collect", "join", "settle", "reap", "drain", "claim",
                              "claimed", "batch"}, rec : 0..MaxSessions, queued : BOOLEAN]
    BY <1>0, <1>1 DEF Types
  <2>4. QED  BY <1>0, <1>u, <1>b, <2>1, <2>2, <2>3 DEF Types
<1>3. SlotInv' /\ PauseInv'
  BY <1>u, TestFrame
<1>4. LockedTypes(mgr, note, pipe)'
  BY <1>0, <1>u, <1>a, <1>h DEF LockedTypes
<1>5. ReservedInv(mgr)'
  BY <1>0, <1>u, <1>a DEF ReservedInv
<1>6. PastInv(mgr, note, pipe)'
  <2>1. \A letter \in Letters(pipe') : letter.rec <= Past
    BY <1>0, <1>h, <1>c DEF PastInv
  <2>2. QED  BY <1>0, <1>u, <1>a, <1>b, <1>c, <1>e, <1>h, <2>1 DEF PastInv
<1>7. HolderInv(mgr)'
  <2>1. \A r \in Calls : Holds(mgr, r)' => Holds(mgr, r)
    BY <1>u, <1>a DEF Holds
  <2>2. \A r \in Calls : r # c => (Holds(mgr, r)' <=> Holds(mgr, r))
    BY <1>u, <1>a DEF Holds
  <2>3. QED  BY <1>0, <1>u, <1>a, <1>b, <2>1, <2>2 DEF HolderInv
<1>8. StageInv(mgr, pipe)'
  <2>1. \A r \in Calls : r # c => Stage(mgr, pipe, r)'
    BY <1>0, <1>u, <1>a, <1>b, <1>d DEF StageInv, Stage
  <2>2. \A r \in Calls : r = c => Stage(mgr, pipe, r)'
    BY <1>0, <1>u, <1>a, <1>b, <1>d, <1>f DEF StageInv, Stage
  <2>3. QED  BY <2>1, <2>2 DEF StageInv
<1>9. ProcessInv(pipe)'
  BY <1>0, <1>u, <1>b, <1>h DEF ProcessInv
<1>10. OutcomeInv(note)'
  BY <1>0, <1>u, <1>h DEF OutcomeInv
<1>11. NoteInv(mgr, note, pipe)'
  <2>1. ASSUME NEW r \in Calls, note'[r] = "transcribing", r # c
        PROVE  \/ Queued(pipe', "LiveDiscardCleanup", r)
               \/ det.at = "spawned" /\ det.rec = r
               \/ mgr'.active = r \/ mgr'.awaiting[r] # "none"
               \/ mgr'.discarding[r] \in {"Reaper", "Inline", "Collecting"}
               \/ job[r] \in {"due", "running"}
    <3>1. note[r] = "transcribing"
      BY <1>h, <2>1
    <3>2. Queued(pipe, "LiveDiscardCleanup", r) => Queued(pipe', "LiveDiscardCleanup", r)
      BY <1>h
    <3>3. QED  BY <1>0, <1>a, <1>b, <2>1, <3>1, <3>2 DEF NoteInv
  <2>2. QED  BY <1>u, <1>h, <2>1 DEF NoteInv
<1>12. RowInv(pipe)'
  BY <1>0, <1>u, <1>b, <1>e, <1>h DEF RowInv
<1>13. QED
  BY <1>2, <1>3, <1>4, <1>5, <1>6, <1>7, <1>8, <1>9, <1>10, <1>11, <1>12 DEF Inv, Locked

\* The last attempt at a discarded note deletes it or closes it.
LEMMA OnDiscardCleanupKeeps ==
  ASSUME Inv, OnDiscardCleanup PROVE Inv'
<1>1. PICK c, x :
      /\ Locked(mgr, note, pipe)
      /\ Took(pipe, pipe', "LiveDiscardCleanup", c) /\ pipeline.at = "idle"
      /\ x \in {"removed", "settled"} /\ note' = [note EXCEPT ![c] = x]
      /\ row' = row \/ row' = [row EXCEPT ![c] = "Failed"]
      /\ pipeline' = [pipeline EXCEPT !.at = "drain"]
      /\ UNCHANGED <<det, paused, ctrl, mgr, thread, verdict, outcome, job,
                    taken, flags, slot, window, starter, tester>>
  <2>1. PICK ok \in May("unlink") :
          /\ Receives("LiveDiscardCleanup") /\ pipe' = Tail(pipe)
          /\ note' = [note EXCEPT ![Message] = IF ok THEN "removed" ELSE "settled"]
          /\ row' = IF ok THEN row ELSE [row EXCEPT ![Message] = "Failed"]
          /\ pipeline' = [pipeline EXCEPT !.at = "drain"]
          /\ UNCHANGED <<det, paused, ctrl, mgr, thread, verdict, outcome, taken, job, flags, slot,
                         window, starter, tester>>
    BY DEF OnDiscardCleanup, At, callVars, testVars
  <2>2. /\ Once(pipe) /\ pipe \in Seq(Mail) /\ pipe # <<>> /\ Head(pipe).kind = "LiveDiscardCleanup"
        /\ pipeline.at = "idle"
    BY <2>1 DEF Inv, Locked, LockedTypes, ProcessInv, Receives
  <2>3. Took(pipe, pipe', "LiveDiscardCleanup", Message)
    BY <2>1, <2>2, TakeFacts DEF Message
  <2>4. QED  BY <2>1, <2>2, <2>3 DEF Inv
<1>0. /\ Types /\ SlotInv /\ PauseInv /\ LockedTypes(mgr, note, pipe) /\ ReservedInv(mgr) /\ PastInv(mgr, note, pipe)
      /\ HolderInv(mgr) /\ StageInv(mgr, pipe) /\ ProcessInv(pipe) /\ OutcomeInv(note)
      /\ NoteInv(mgr, note, pipe) /\ RowInv(pipe)
  BY <1>1 DEF Inv, Locked
<1>b. /\ c \in Calls /\ pipe' \in Seq(Mail) /\ Once(pipe') /\ Queued(pipe, "LiveDiscardCleanup", c)
      /\ \A k, r : Queued(pipe, k, r) <=> Queued(pipe', k, r) \/ (k = "LiveDiscardCleanup" /\ r = c)
      /\ \A letter \in Letters(pipe') : letter \in Letters(pipe)
  BY <1>1 DEF Took
<1>c. c <= Past /\ ~(Past < c) /\ Past' = Past
  BY <1>0, <1>1, KnownIsPast DEF Past, Took
<1>u. UNCHANGED <<det, paused, ctrl, mgr, thread, verdict, outcome, taken, job, flags, slot, window,
                  starter, tester>>
  BY <1>1
<1>d. /\ pipeline.at = "idle" /\ pipeline'.at = "drain" /\ pipeline'.rec = pipeline.rec
      /\ \A r \in Calls : Kept(pipe, r)' <=> Kept(pipe, r)
  <2>1. pipeline.at = "idle" /\ pipeline'.at = "drain" /\ pipeline'.rec = pipeline.rec
    BY <1>0, <1>1 DEF Types
  <2>2. QED  BY <1>u, <1>b, <2>1 DEF Kept
<1>e. /\ \A r \in Calls : r # c => row'[r] = row[r] /\ note'[r] = note[r]
      /\ note'[c] \in {"removed", "settled"} /\ row'[c] \in {row[c], "Failed"}
      /\ note' \in [Calls -> NoteStates]
  BY <1>0, <1>1, <1>b DEF Types, LockedTypes, NoteStates
<1>2. Types'
  <2>1. Begun' = Begun
    BY <1>u DEF Begun
  <2>2. row' \in [Calls -> {"none", "Recording", "Pending", "Done", "Failed"}]
    BY <1>0, <1>1 DEF Types
  <2>3. pipeline' \in [at : {"idle", "collect", "join", "settle", "reap", "drain", "claim",
                              "claimed", "batch"}, rec : 0..MaxSessions, queued : BOOLEAN]
    BY <1>0, <1>1 DEF Types
  <2>4. QED  BY <1>0, <1>u, <1>d, <2>1, <2>2, <2>3 DEF Types
<1>3. SlotInv' /\ PauseInv'
  BY <1>u, TestFrame
<1>4. LockedTypes(mgr, note, pipe)'
  BY <1>0, <1>u, <1>b, <1>e DEF LockedTypes
<1>5. ReservedInv(mgr)'
  BY <1>0, <1>u DEF ReservedInv
<1>6. PastInv(mgr, note, pipe)'
  BY <1>0, <1>u, <1>b, <1>c, <1>d, <1>e DEF PastInv
<1>7. HolderInv(mgr)'
  BY <1>0, <1>u DEF HolderInv, Holds
<1>8. StageInv(mgr, pipe)'
  BY <1>0, <1>u, <1>d DEF StageInv, Stage
<1>9. ProcessInv(pipe)'
  BY <1>0, <1>u, <1>b, <1>d DEF ProcessInv
<1>10. OutcomeInv(note)'
  BY <1>0, <1>u, <1>e DEF OutcomeInv
<1>11. NoteInv(mgr, note, pipe)'
  BY <1>0, <1>u, <1>b, <1>d, <1>e DEF NoteInv
<1>12. RowInv(pipe)'
  BY <1>0, <1>u, <1>b, <1>d, <1>e DEF RowInv
<1>13. QED
  BY <1>2, <1>3, <1>4, <1>5, <1>6, <1>7, <1>8, <1>9, <1>10, <1>11, <1>12 DEF Inv, Locked

\* The pipeline between two messages.
Between == {"idle", "drain", "claim", "claimed", "batch"}

\* The batch jobs touch only the rows and notes of their own calls.
LEMMA JobsKeep ==
  ASSUME Inv,
         pipeline.at \in Between /\ pipeline'.at \in Between /\ pipeline'.rec <= Past,
         pipeline' \in [at : Between, rec : 0..MaxSessions, queued : BOOLEAN],
         job' \in [Calls -> {"none", "refused", "due", "running", "done"}],
         row' \in [Calls -> {"none", "Recording", "Pending", "Done", "Failed"}],
         note' \in [Calls -> NoteStates],
         flags' \in [recording : BOOLEAN, transcribing : BOOLEAN, test : BOOLEAN],
         flags'.test = flags.test,
         \A r \in Calls : Past < r => job'[r] = job[r] /\ row'[r] = row[r] /\ note'[r] = note[r],
         \A r \in Calls : row'[r] = "Recording" =>
            row[r] = "Recording" /\ (job[r] = "refused" => job'[r] = "refused"),
         \A r \in Calls : note'[r] = "transcribing" =>
            /\ note[r] = "transcribing"
            /\ job[r] \in {"due", "running"} => job'[r] \in {"due", "running"},
         pipeline'.at \in {"claimed", "batch"} => pipeline'.rec # 0 /\ job'[pipeline'.rec] = "running",
         UNCHANGED <<det, paused, ctrl, mgr, thread, verdict, outcome,
                       pipe, taken, slot, window, starter, tester>>
  PROVE  Inv'
<1>0. /\ Types /\ SlotInv /\ PauseInv /\ LockedTypes(mgr, note, pipe) /\ ReservedInv(mgr) /\ PastInv(mgr, note, pipe)
      /\ HolderInv(mgr) /\ StageInv(mgr, pipe) /\ ProcessInv(pipe) /\ OutcomeInv(note)
      /\ NoteInv(mgr, note, pipe) /\ RowInv(pipe)
  BY DEF Inv, Locked
<1>c. Past' = Past
  BY DEF Past
<1>d. \A r \in Calls : Kept(pipe, r)' <=> Kept(pipe, r)
  BY DEF Kept, Between
<1>2. Types'
  <2>1. Begun' = Begun
    BY DEF Begun
  <2>2. pipeline' \in [at : {"idle", "collect", "join", "settle", "reap", "drain", "claim",
                              "claimed", "batch"}, rec : 0..MaxSessions, queued : BOOLEAN]
    BY DEF Between
  <2>3. QED  BY <1>0, <2>1, <2>2 DEF Types, Between
<1>3. SlotInv' /\ PauseInv'
  BY TestFrame
<1>4. LockedTypes(mgr, note, pipe)'
  BY <1>0 DEF LockedTypes
<1>5. ReservedInv(mgr)'
  BY <1>0 DEF ReservedInv
<1>6. PastInv(mgr, note, pipe)'
  BY <1>0, <1>c DEF PastInv
<1>7. HolderInv(mgr)'
  BY <1>0 DEF HolderInv, Holds
<1>8. StageInv(mgr, pipe)'
  BY <1>0, <1>d DEF StageInv, Stage, Between
<1>9. ProcessInv(pipe)'
  BY <1>0 DEF ProcessInv, Between
<1>10. OutcomeInv(note)'
  BY <1>0 DEF OutcomeInv
<1>11. NoteInv(mgr, note, pipe)'
  BY <1>0 DEF NoteInv, Between
<1>12. RowInv(pipe)'
  BY <1>0 DEF RowInv, Between
<1>13. QED
  BY <1>2, <1>3, <1>4, <1>5, <1>6, <1>7, <1>8, <1>9, <1>10, <1>11, <1>12 DEF Inv, Locked

\* A batch job is claimed, run and finished; none of it is a step of a call.
LEMMA BatchKeeps ==
  ASSUME Inv, WakeForJobs \/ DrainDueJobs \/ ClaimJob \/ StartBatch \/ FinishBatch
  PROVE  Inv'
<1>0. /\ Types /\ PastInv(mgr, note, pipe) /\ RowInv(pipe) /\ note \in [Calls -> NoteStates]
      /\ pipeline.rec <= Past
  BY DEF Inv, Locked, LockedTypes, PastInv
<1>1. ASSUME pipeline.at \in {"idle", "drain", "claim"},
             NEW x \in {"idle", "drain", "claim"}, pipeline' = [pipeline EXCEPT !.at = x],
             UNCHANGED <<det, paused, ctrl, mgr, thread, verdict, outcome, taken, note, pipe, row,
                         job, flags, slot, window, starter, tester>>
      PROVE  Inv'
  <2>1. /\ pipeline' \in [at : Between, rec : 0..MaxSessions, queued : BOOLEAN]
        /\ pipeline'.at = x /\ pipeline'.rec = pipeline.rec
    BY <1>0, <1>1 DEF Types, Between
  <2>2. QED  BY <1>0, <1>1, <2>1, JobsKeep DEF Types, Between
<1>2. CASE WakeForJobs
  BY <1>1, <1>2 DEF WakeForJobs, At, callVars, testVars
<1>3. CASE DrainDueJobs
  BY <1>1, <1>3 DEF DrainDueJobs, At, callVars, testVars
<1>4. CASE ClaimJob
  <2>1. /\ pipeline.at = "claim"
        /\ UNCHANGED <<det, paused, ctrl, mgr, thread, verdict, outcome, taken, note, pipe, row,
                       flags, slot, window, starter, tester>>
    BY <1>4 DEF ClaimJob, callVars, testVars
  <2>2. CASE NoneDue
    BY <1>1, <1>4, <2>1, <2>2 DEF ClaimJob, At
  <2>3. CASE ~NoneDue
    <3>1. PICK c \in Calls : /\ job[c] = "due"
                             /\ pipeline' = [pipeline EXCEPT !.at = "claimed", !.rec = c]
                             /\ job' = [job EXCEPT ![c] = "running"]
      BY <1>4, <2>3 DEF ClaimJob
    <3>2. c <= Past /\ ~(Past < c)
      BY <1>0, <3>1, KnownIsPast
    <3>3. /\ pipeline' \in [at : Between, rec : 0..MaxSessions, queued : BOOLEAN]
          /\ pipeline'.at = "claimed" /\ pipeline'.rec = c /\ c # 0
      <4>1. c # 0 /\ c \in 0..MaxSessions /\ "claimed" \in Between
        BY BoundAssumption DEF Calls, Between
      <4>2. pipeline \in [at : {"idle", "collect", "join", "settle", "reap", "drain", "claim",
                                "claimed", "batch"}, rec : 0..MaxSessions, queued : BOOLEAN]
        BY <1>0 DEF Types
      <4>3. pipeline' = [at |-> "claimed", rec |-> c, queued |-> pipeline.queued]
        BY <3>1, <4>2
      <4>4. QED  BY <4>1, <4>2, <4>3
    <3>4. /\ job' \in [Calls -> {"none", "refused", "due", "running", "done"}]
          /\ job'[c] = "running" /\ \A r \in Calls : r # c => job'[r] = job[r]
      BY <1>0, <3>1 DEF Types
    <3>5. /\ row' \in [Calls -> {"none", "Recording", "Pending", "Done", "Failed"}]
          /\ note' \in [Calls -> NoteStates]
          /\ flags' \in [recording : BOOLEAN, transcribing : BOOLEAN, test : BOOLEAN]
          /\ flags'.test = flags.test
      BY <1>0, <2>1 DEF Types
    <3>6. /\ \A r \in Calls : Past < r => job'[r] = job[r] /\ row'[r] = row[r] /\ note'[r] = note[r]
          /\ \A r \in Calls : row'[r] = "Recording" =>
                row[r] = "Recording" /\ (job[r] = "refused" => job'[r] = "refused")
          /\ \A r \in Calls : note'[r] = "transcribing" =>
                /\ note[r] = "transcribing"
                /\ job[r] \in {"due", "running"} => job'[r] \in {"due", "running"}
      BY <2>1, <3>1, <3>2, <3>4
    <3>7. pipeline.at \in Between /\ pipeline'.at \in Between
      BY <2>1, <3>3 DEF Between
    <3>8. pipeline'.rec <= Past /\ (pipeline'.at \in {"claimed", "batch"} =>
                pipeline'.rec # 0 /\ job'[pipeline'.rec] = "running")
      BY <3>2, <3>3, <3>4
    <3>9. QED  BY <2>1, <3>3, <3>4, <3>5, <3>6, <3>7, <3>8, JobsKeep
  <2>4. QED  BY <2>2, <2>3
<1>5. CASE StartBatch
  <2>1. /\ pipeline.at = "claimed" /\ pipeline' = [pipeline EXCEPT !.at = "batch"]
        /\ flags' = [flags EXCEPT !.transcribing = TRUE]
        /\ UNCHANGED <<det, paused, ctrl, mgr, thread, verdict, outcome, taken, note, pipe, row,
                       job, slot, window, starter, tester>>
    BY <1>5 DEF StartBatch, At, callVars, testVars
  <2>2. /\ pipeline' \in [at : Between, rec : 0..MaxSessions, queued : BOOLEAN]
        /\ pipeline'.at = "batch" /\ pipeline'.rec = pipeline.rec
    BY <1>0, <2>1 DEF Types, Between
  <2>3. /\ flags' \in [recording : BOOLEAN, transcribing : BOOLEAN, test : BOOLEAN]
        /\ flags'.test = flags.test
    BY <1>0, <2>1 DEF Types
  <2>4. pipeline.rec # 0 /\ job[pipeline.rec] = "running"
    BY <1>0, <2>1 DEF RowInv
  <2>5. QED  BY <1>0, <2>1, <2>2, <2>3, <2>4, JobsKeep DEF Types, Between
<1>6. CASE FinishBatch
  <2> DEFINE c == pipeline.rec
  <2>1. /\ pipeline.at = "batch" /\ pipeline' = [pipeline EXCEPT !.at = "claim"]
        /\ flags' = [flags EXCEPT !.transcribing = FALSE]
        /\ note' = [note EXCEPT ![c] = "settled"]
        /\ row' = [row EXCEPT ![c] = "Done"] /\ job' = [job EXCEPT ![c] = "done"]
        /\ UNCHANGED <<det, paused, ctrl, mgr, thread, verdict, outcome, taken, pipe, slot, window,
                       starter, tester>>
    BY <1>6 DEF FinishBatch, At, callVars, testVars
  <2>2. c \in Calls
    BY <1>0, <2>1, BoundAssumption DEF RowInv, Types, Calls
  <2>3. c <= Past /\ ~(Past < c)
    BY <1>0, <2>2, KnownIsPast
  <2>4. /\ pipeline' \in [at : Between, rec : 0..MaxSessions, queued : BOOLEAN]
        /\ pipeline'.at = "claim" /\ pipeline'.rec = c
    BY <1>0, <2>1 DEF Types, Between
  <2>5. /\ flags' \in [recording : BOOLEAN, transcribing : BOOLEAN, test : BOOLEAN]
        /\ flags'.test = flags.test
    BY <1>0, <2>1 DEF Types
  <2>6. /\ job' \in [Calls -> {"none", "refused", "due", "running", "done"}]
        /\ row' \in [Calls -> {"none", "Recording", "Pending", "Done", "Failed"}]
        /\ note' \in [Calls -> NoteStates]
        /\ note'[c] = "settled" /\ row'[c] = "Done"
        /\ \A r \in Calls : r # c => job'[r] = job[r] /\ row'[r] = row[r] /\ note'[r] = note[r]
    BY <1>0, <2>1, <2>2 DEF Types, NoteStates
  <2> HIDE DEF c
  <2>7. /\ \A r \in Calls : Past < r => job'[r] = job[r] /\ row'[r] = row[r] /\ note'[r] = note[r]
        /\ \A r \in Calls : row'[r] = "Recording" =>
              row[r] = "Recording" /\ (job[r] = "refused" => job'[r] = "refused")
        /\ \A r \in Calls : note'[r] = "transcribing" =>
              /\ note[r] = "transcribing"
              /\ job[r] \in {"due", "running"} => job'[r] \in {"due", "running"}
    BY <2>3, <2>6
  <2>8. pipeline.at \in Between /\ pipeline'.at \in Between /\ pipeline'.rec <= Past
        /\ pipeline'.at \notin {"claimed", "batch"}
    BY <2>1, <2>3, <2>4 DEF Between
  <2>9. QED  BY <2>1, <2>4, <2>5, <2>6, <2>7, <2>8, JobsKeep
<1>7. QED  BY <1>2, <1>3, <1>4, <1>5, <1>6

-----------------------------------------------------------------------------
(* The microphone test                                                     *)

Control == {"Pause", "Abandoned", "Resume"}

\* The detector takes a message off its channel.
LEMMA TailOrderly ==
  ASSUME NEW s \in Seq(Control), NEW w \in BOOLEAN, Orderly(s, w), s # <<>>
  PROVE  /\ Tail(s) \in Seq(Control) /\ Head(s) \in Control
         /\ Head(s) = "Pause" => w /\ Tail(s) = <<>> /\ Orderly(Tail(s), FALSE)
                                 /\ \A i \in DOMAIN s : s[i] # "Resume"
         /\ Head(s) # "Pause" => Orderly(Tail(s), w)
         /\ Head(s) = "Abandoned" => \E i \in DOMAIN Tail(s) : Tail(s)[i] = "Resume"
<1> DEFINE u == Tail(s)
<1>1. /\ u \in Seq(Control) /\ Head(s) \in Control /\ Head(s) = s[1] /\ Len(s) \in Nat
      /\ Len(s) >= 1 /\ DOMAIN s = 1..Len(s) /\ DOMAIN u = 1..(Len(s) - 1)
      /\ Len(u) = Len(s) - 1 /\ \A i \in 1..(Len(s) - 1) : u[i] = s[i + 1]
  OBVIOUS
<1>a. Len(s) = 1 => u = <<>>
  <2>1. \A t \in Seq(Control) : Len(t) = 0 => t = <<>>
    OBVIOUS
  <2>2. QED  BY <1>1, <2>1
<1> HIDE DEF u
<1>2. \A j \in DOMAIN s : 1 < j => j - 1 \in DOMAIN u /\ u[j - 1] = s[j]
  BY <1>1
<1>3. Head(s) = "Pause" => /\ w /\ Len(s) = 1 /\ u = <<>> /\ Orderly(u, FALSE)
                           /\ \A i \in DOMAIN s : s[i] # "Resume"
  BY <1>1, <1>a DEF Orderly
<1>4. Head(s) = "Abandoned" => \E i \in DOMAIN u : u[i] = "Resume"
  BY <1>1, <1>2 DEF Orderly
<1>5. ASSUME Head(s) # "Pause" PROVE Orderly(u, w)
  <2>1. w => u # <<>> /\ u[Len(u)] = "Pause"
    <3>1. w => s[Len(s)] = "Pause" /\ Len(s) # 1
      BY <1>1, <1>5 DEF Orderly
    <3>2. Len(s) # 1 => Len(u) \in 1..(Len(s) - 1) /\ u # <<>>
      BY <1>1
    <3>3. QED  BY <1>1, <3>1, <3>2
  <2>2. ASSUME NEW i \in DOMAIN u
        PROVE  /\ u[i] = "Pause" => w /\ i = Len(u)
               /\ u[i] = "Abandoned" => \E j \in DOMAIN u : i < j /\ u[j] = "Resume"
    <3>1. i \in Nat /\ i + 1 \in DOMAIN s /\ u[i] = s[i + 1]
      BY <1>1
    <3>2. u[i] = "Pause" => w /\ i = Len(u)
      <4>1. s[i + 1] = "Pause" => w /\ i + 1 = Len(s)
        BY <3>1 DEF Orderly
      <4>2. QED  BY <1>1, <3>1, <4>1
    <3>3. ASSUME u[i] = "Abandoned"
          PROVE  \E j \in DOMAIN u : i < j /\ u[j] = "Resume"
      <4>1. PICK j \in DOMAIN s : i + 1 < j /\ s[j] = "Resume"
        BY <3>1, <3>3 DEF Orderly
      <4>2. j - 1 \in DOMAIN u /\ u[j - 1] = "Resume" /\ i < j - 1
        BY <1>1, <1>2, <3>1, <4>1
      <4>3. QED  BY <4>2
    <3>4. QED  BY <3>2, <3>3
  <2>3. QED  BY <2>1, <2>2 DEF Orderly
<1>6. QED  BY <1>1, <1>3, <1>4, <1>5 DEF u

\* A message is added to it.
LEMMA AppendOrderly ==
  ASSUME NEW s \in Seq(Control), Orderly(s, FALSE), NEW x \in {"Pause", "Resume"}
  PROVE  /\ Append(s, x) \in Seq(Control) /\ Orderly(Append(s, x), x = "Pause")
         /\ \E i \in DOMAIN Append(s, x) : Append(s, x)[i] = x
         /\ \A i \in DOMAIN s : i \in DOMAIN Append(s, x) /\ Append(s, x)[i] = s[i]
<1> DEFINE t == Append(s, x)
<1>1. /\ t \in Seq(Control) /\ Len(s) \in Nat /\ Len(t) = Len(s) + 1 /\ DOMAIN t = 1..(Len(s) + 1)
      /\ DOMAIN s = 1..Len(s) /\ t[Len(s) + 1] = x /\ t # <<>>
      /\ \A i \in 1..Len(s) : t[i] = s[i]
  BY DEF Control
<1> HIDE DEF t
<1>2. \A i \in DOMAIN s : i \in DOMAIN t /\ t[i] = s[i] /\ i < Len(s) + 1
  BY <1>1
<1>3. \A i \in DOMAIN t : i \in DOMAIN s \/ i = Len(s) + 1
  BY <1>1
<1>4. \E i \in DOMAIN t : t[i] = x
  BY <1>1
<1>5. ASSUME NEW i \in DOMAIN t
      PROVE  /\ t[i] = "Pause" => x = "Pause" /\ i = Len(t)
             /\ t[i] = "Abandoned" => \E j \in DOMAIN t : i < j /\ t[j] = "Resume"
  <2>1. CASE i = Len(s) + 1
    BY <1>1, <2>1
  <2>2. CASE i \in DOMAIN s
    <3>1. s[i] # "Pause" /\ t[i] = s[i]
      BY <1>2, <2>2 DEF Orderly
    <3>2. s[i] = "Abandoned" => \E j \in DOMAIN s : i < j /\ s[j] = "Resume"
      BY <2>2 DEF Orderly
    <3>3. QED  BY <1>2, <3>1, <3>2
  <2>3. QED  BY <1>3, <2>1, <2>2
<1>6. Orderly(t, x = "Pause")
  BY <1>1, <1>5 DEF Orderly
<1>7. QED  BY <1>1, <1>2, <1>4, <1>6 DEF t

\* A request that is given up is followed by its Resume.
LEMMA AbandonOrderly ==
  ASSUME NEW s \in Seq(Control),
         NEW t, t = [i \in DOMAIN s |-> IF s[i] = "Pause" THEN "Abandoned" ELSE s[i]]
  PROVE  /\ Append(t, "Resume") \in Seq(Control) /\ Orderly(Append(t, "Resume"), FALSE)
         /\ \E i \in DOMAIN Append(t, "Resume") : Append(t, "Resume")[i] = "Resume"
<1>1. Len(s) \in Nat /\ DOMAIN s = 1..Len(s) /\ \A i \in 1..Len(s) : s[i] \in Control
  OBVIOUS
<1>2. t \in [1..Len(s) -> Control]
  BY <1>1 DEF Control
<1>3. t \in Seq(Control) /\ Len(t) = Len(s)
  BY <1>1, <1>2
<1>4. \A i \in 1..Len(s) : t[i] # "Pause"
  BY <1>1
<1> DEFINE a == Append(t, "Resume")
<1>5. /\ a \in Seq(Control) /\ Len(a) = Len(t) + 1 /\ DOMAIN a = 1..(Len(t) + 1)
      /\ a[Len(t) + 1] = "Resume" /\ a # <<>> /\ \A i \in 1..Len(t) : a[i] = t[i]
  <2>1. "Resume" \in Control
    BY DEF Control
  <2>2. QED  BY <1>1, <1>3, <2>1
<1> HIDE DEF a
<1>6. \A i \in DOMAIN a : i < Len(t) + 1 \/ a[i] = "Resume"
  BY <1>1, <1>3, <1>5
<1>7. \A i \in DOMAIN a : a[i] # "Pause"
  BY <1>1, <1>3, <1>4, <1>5
<1>8. Len(t) + 1 \in DOMAIN a
  BY <1>1, <1>3, <1>5
<1>9. Orderly(a, FALSE)
  BY <1>5, <1>6, <1>7, <1>8 DEF Orderly
<1>10. QED  BY <1>5, <1>8, <1>9 DEF a

\* The slot has room for one: a worker that has not ended is the only one, and no
\* other start is under way.
LEMMA LiveTester ==
  ASSUME Types, SlotInv, NEW g \in Generations, tester[g] \notin {"none", "ended"}
  PROVE  /\ \A h \in Generations : h # g => tester[h] \in {"none", "ended"}
         /\ starter.at \in {"idle", "reserve", "install"}
         /\ slot.st # "none" /\ slot.gen = g /\ g <= starter.gen
<1>1. slot.st # "none" /\ slot.gen = g
  BY DEF SlotInv
<1>2. \A h \in Generations : h # g => tester[h] \in {"none", "ended"}
  BY <1>1 DEF SlotInv
<1>3. starter.at \in {"idle", "reserve", "install"}
  BY <1>1 DEF SlotInv, Types, Starting
<1>4. g <= starter.gen
  <2>1. g \in Int /\ starter.gen \in Int
    BY DEF Types, Generations
  <2>2. QED  BY <2>1 DEF SlotInv
<1>5. QED  BY <1>1, <1>2, <1>3, <1>4

\* And while a start is under way nobody else's worker is alive.
LEMMA NoTester ==
  ASSUME Types, SlotInv,
         starter.at \in Starting \ {"install"} \/ slot.st = "none"
  PROVE  /\ \A h \in Generations : tester[h] \in {"none", "ended"}
         /\ Suspended => starter.at \in {"paused", "reserved"}
<1>1. \A h \in Generations : tester[h] \in {"none", "ended"}
  BY DEF SlotInv
<1>2. QED  BY <1>1 DEF Suspended, Suspending

\* The slot is given to the test, which nobody else holds, or taken back from it.
LEMMA ReservationKeeps ==
  ASSUME NEW m, NEW n, NEW p, NEW t \in 0..MaxSessions, Types, Locked(m, n, p),
         mgr' = [m EXCEPT !.test = t], note' = n, pipe' = p,
         t # 0 => ~m.pending /\ \A r \in Calls : ~Holds(m, r),
         ReservedInv(mgr)',
         UNCHANGED <<det, thread, verdict, outcome, taken, pipeline, row, job>>
  PROVE  Locked(mgr, note, pipe)'
<1>0. /\ LockedTypes(m, n, p) /\ PastInv(m, n, p)
      /\ HolderInv(m) /\ StageInv(m, p) /\ ProcessInv(p) /\ OutcomeInv(n)
      /\ NoteInv(m, n, p) /\ RowInv(p)
  BY DEF Locked
<1>1. /\ mgr' \in Manager /\ mgr'.pending = m.pending /\ mgr'.test = t /\ mgr'.active = m.active
      /\ mgr'.awaiting = m.awaiting /\ mgr'.discarding = m.discarding
  BY <1>0 DEF LockedTypes, Manager
<1>2. LockedTypes(mgr, note, pipe)' /\ PastInv(mgr, note, pipe)' /\ OutcomeInv(note)'
  BY <1>0, <1>1 DEF LockedTypes, PastInv, Past, OutcomeInv
<1>3. \A r \in Calls : Holds(mgr, r)' <=> Holds(m, r)
  BY <1>1 DEF Holds
<1>4. HolderInv(mgr)'
  BY <1>0, <1>1, <1>3 DEF HolderInv
<1>5. StageInv(mgr, pipe)'
  BY <1>0, <1>1 DEF StageInv, Stage, Kept
<1>6. ProcessInv(pipe)'
  BY <1>0 DEF ProcessInv
<1>7. NoteInv(mgr, note, pipe)' /\ RowInv(pipe)'
  BY <1>0, <1>1 DEF NoteInv, RowInv
<1>8. QED  BY <1>2, <1>4, <1>5, <1>6, <1>7 DEF Locked

\* The detector answers the request: it sleeps, or a recording refuses it.
\* A request nobody waits for any more has its Resume behind it.
LEMMA OnPauseKeeps ==
  ASSUME Inv, OnPause PROVE Inv'
<1>0. Types /\ SlotInv /\ PauseInv /\ ReservedInv(mgr)
  BY DEF Inv, Locked
<1>1. /\ det.at \in {"idle", "recording"} /\ ctrl # <<>> /\ Head(ctrl) # "Resume" /\ ctrl' = Tail(ctrl)
      /\ paused' = (paused \/ det.at = "idle")
      /\ starter' = IF Head(ctrl) = "Pause"
                    THEN [starter EXCEPT !.at = IF det.at = "idle" THEN "paused" ELSE "undo"]
                    ELSE starter
      /\ UNCHANGED <<det, mgr, thread, verdict, outcome, note, pipe, pipeline,
                    row, job, taken, flags, slot, window, tester>>
  BY DEF OnPause, callVars, queueVars
<1>a. /\ ctrl' \in Seq(Control) /\ Head(ctrl) \in Control
      /\ Head(ctrl) = "Pause" => /\ starter.at = "wait" /\ ctrl' = <<>> /\ Orderly(ctrl', FALSE)
                                 /\ \A i \in DOMAIN ctrl : ctrl[i] # "Resume"
      /\ Head(ctrl) # "Pause" => Orderly(ctrl', starter.at = "wait")
      /\ Head(ctrl) = "Abandoned" => \E i \in DOMAIN ctrl' : ctrl'[i] = "Resume"
  <2>1. ctrl \in Seq(Control) /\ Orderly(ctrl, starter.at = "wait") /\ ctrl # <<>>
    BY <1>0, <1>1 DEF Types, Control, PauseInv
  <2>2. QED  BY <1>1, <2>1, TailOrderly
<1>b. ~Suspended
  BY <1>0, <1>1 DEF PauseInv
<1>c. /\ starter'.gen = starter.gen /\ starter'.win = starter.win
      /\ Head(ctrl) = "Pause" => starter'.at = (IF det.at = "idle" THEN "paused" ELSE "undo")
      /\ Head(ctrl) # "Pause" => starter' = starter
      /\ starter'.at = starter.at \/ (starter.at = "wait" /\ starter'.at \in {"paused", "undo"})
  BY <1>0, <1>1, <1>a DEF Types
<1>d. starter.at = "wait" => \A h \in Generations : tester[h] \in {"none", "ended"}
  BY <1>0, NoTester DEF Starting
<1>2. Types'
  <2>1. Begun' = Begun
    BY <1>1, <1>c DEF Begun
  <2>2. starter' \in [at : {"idle", "reserve"} \cup Starting, gen : 0..MaxSessions, win : Nat]
        /\ ctrl' \in Seq(Control) /\ paused' \in BOOLEAN /\ (starter'.at \in Starting => starter'.gen >= 1)
    BY <1>0, <1>1, <1>a, <1>c DEF Types, Starting
  <2>3. QED  BY <1>0, <1>1, <2>1, <2>2 DEF Types, Control
<1>3. SlotInv'
  <2>1. starter'.at \in Starting <=> starter.at \in Starting
    BY <1>c DEF Starting
  <2>2. starter'.at \in Starting \ {"install"} => starter.at \in Starting \ {"install"}
    BY <1>c DEF Starting
  <2>3. starter'.at \in {"preflight", "wait", "paused", "reserved"} =>
           starter.at \in {"preflight", "wait", "paused", "reserved"}
    BY <1>c
  <2>4. QED  BY <1>0, <1>1, <1>c, <2>1, <2>2, <2>3 DEF SlotInv
<1>4. PauseInv'
  <2>1. CASE Head(ctrl) = "Pause" /\ det.at = "idle"
    BY <1>0, <1>1, <1>a, <1>c, <2>1 DEF PauseInv, Suspended
  <2>2. CASE Head(ctrl) = "Pause" /\ det.at # "idle"
    <3>1. ~paused /\ ~paused'
      BY <1>0, <1>1, <1>a, <1>b, <2>2 DEF PauseInv, Resuming
    <3>2. ~Suspended'
      BY <1>1, <1>a, <1>b, <1>c, <2>2 DEF Suspended
    <3>3. Orderly(ctrl, starter.at = "wait")'
      BY <1>a, <1>c, <2>2
    <3>4. QED  BY <3>1, <3>2, <3>3 DEF PauseInv
  <2>3. CASE Head(ctrl) # "Pause"
    <3>1. Resuming'
      BY <1>1, <1>a, <2>3 DEF Resuming, Control
    <3>2. ~Suspended'
      BY <1>1, <1>b, <1>c, <2>3 DEF Suspended
    <3>3. Orderly(ctrl, starter.at = "wait")'
      BY <1>a, <1>c, <2>3
    <3>4. QED  BY <3>1, <3>2, <3>3 DEF PauseInv
  <2>4. QED  BY <2>1, <2>2, <2>3
<1>5. ReservedInv(mgr)'
  BY <1>0, <1>1, <1>c DEF ReservedInv
<1>6. QED  BY <1>1, <1>2, <1>3, <1>4, <1>5, CallFrame DEF Inv

\* A Resume wakes the detector; nobody relies on its sleep any more.
LEMMA OnResumeKeeps ==
  ASSUME Inv, OnResume PROVE Inv'
<1>0. Types /\ SlotInv /\ PauseInv /\ ReservedInv(mgr)
  BY DEF Inv, Locked
<1>1. /\ ctrl # <<>> /\ Head(ctrl) = "Resume" /\ ctrl' = Tail(ctrl) /\ paused' = FALSE
      /\ UNCHANGED <<det, mgr, thread, verdict, outcome, note, pipe, pipeline, row,
                    job, taken, flags, slot, window, starter, tester>>
  BY DEF OnResume, callVars, queueVars, testVars
<1>a. ctrl' \in Seq(Control) /\ Orderly(ctrl', starter.at = "wait")
  <2>1. ctrl \in Seq(Control) /\ Orderly(ctrl, starter.at = "wait")
    BY <1>0 DEF Types, Control, PauseInv
  <2>2. QED  BY <1>1, <2>1, TailOrderly
<1>2. Types'
  <2>1. Begun' = Begun
    BY <1>0, <1>1 DEF Types, Begun
  <2>2. /\ ctrl' \in Seq(Control) /\ paused' \in BOOLEAN
        /\ UNCHANGED <<det, mgr, thread, verdict, outcome, note, pipe, pipeline, row,
                    job, taken, flags, slot, window, starter, tester>>
    BY <1>1, <1>a
  <2>3. QED  BY <1>0, <2>1, <2>2 DEF Types, Control
<1>3. SlotInv'
  BY <1>0, <1>1 DEF SlotInv
<1>4. PauseInv'
  <2>1. ~Suspended
    BY <1>0, <1>1 DEF PauseInv
  <2>2. ~Suspended'
    BY <1>1, <2>1 DEF Suspended
  <2>3. Orderly(ctrl, starter.at = "wait")'
    BY <1>1, <1>a
  <2>4. QED  BY <1>1, <2>2, <2>3 DEF PauseInv
<1>5. ReservedInv(mgr)'
  BY <1>0, <1>1 DEF ReservedInv
<1>6. QED  BY <1>1, <1>2, <1>3, <1>4, <1>5, CallFrame DEF Inv

\* The window comes and goes.
LEMMA WindowKeeps ==
  ASSUME Inv, OpenWindow \/ CloseWindow PROVE Inv'
<1>0. Types /\ SlotInv /\ PauseInv /\ ReservedInv(mgr)
  BY DEF Inv, Locked
<1>1. /\ window' \in [current : Nat, last : Nat, closed : BOOLEAN]
      /\ UNCHANGED <<det, paused, ctrl, mgr, thread, verdict, outcome, note, pipe,
                    pipeline, row, job, taken, flags, slot, starter, tester>>
  <2>1. window \in [current : Nat, last : Nat, closed : BOOLEAN]
    BY <1>0 DEF Types
  <2>2. CASE OpenWindow
    <3>1. window' = [current |-> window.last + 1, last |-> window.last + 1, closed |-> window.closed]
      BY <2>1, <2>2 DEF OpenWindow
    <3>2. window' \in [current : Nat, last : Nat, closed : BOOLEAN]
      BY <2>1, <3>1
    <3>3. QED  BY <2>2, <3>2 DEF OpenWindow, callVars, queueVars
  <2>3. CASE CloseWindow
    BY <2>1, <2>3 DEF CloseWindow, callVars, queueVars
  <2>4. QED  BY <2>2, <2>3
<1>2. Types'
  BY <1>0, <1>1 DEF Types, Begun
<1>3. SlotInv' /\ PauseInv' /\ ReservedInv(mgr)'
  BY <1>0, <1>1 DEF SlotInv, PauseInv, Suspended, Resuming, ReservedInv
<1>4. QED  BY <1>1, <1>2, <1>3, CallFrame DEF Inv

\* reap_finished frees only a slot whose worker has ended.
LEMMA ReapedSlotFacts ==
  ASSUME Types, SlotInv
  PROVE  /\ ReapedSlot \in [st : {"none", "Starting", "Running"}, gen : 0..MaxSessions, win : Nat,
                            stop : BOOLEAN]
         /\ ReapedSlot.st = "Starting" <=> slot.st = "Starting"
         /\ ReapedSlot.st # "none" => ReapedSlot.st = slot.st /\ ReapedSlot.gen = slot.gen
         /\ \A g \in Generations : tester[g] \notin {"none", "ended"} =>
               ReapedSlot.st = slot.st /\ ReapedSlot.gen = slot.gen
<1>1. CASE slot.st = "Running" /\ tester[slot.gen] = "ended"
  <2>1. ReapedSlot = [st |-> "none", gen |-> 0, win |-> 0, stop |-> FALSE]
    BY <1>1 DEF ReapedSlot, NoSlot
  <2>2. \A g \in Generations : tester[g] \in {"none", "ended"}
    BY <1>1 DEF SlotInv
  <2>3. QED  BY <1>1, <2>1, <2>2, BoundAssumption
<1>2. CASE ~(slot.st = "Running" /\ tester[slot.gen] = "ended")
  <2>1. ReapedSlot = slot
    BY <1>2 DEF ReapedSlot
  <2>2. QED  BY <2>1 DEF Types
<1>3. QED  BY <1>1, <1>2

\* stop frees an ended slot and marks any other.
LEMMA StopKeeps ==
  ASSUME Inv, NEW asked, Stop(asked) PROVE Inv'
<1>0. Types /\ SlotInv /\ PauseInv /\ ReservedInv(mgr)
  BY DEF Inv, Locked
<1>1. /\ slot' = [ReapedSlot EXCEPT !.stop = ReapedSlot.st # "none"]
      /\ window' = [window EXCEPT !.closed = FALSE]
      /\ UNCHANGED <<det, paused, ctrl, mgr, thread, verdict, outcome, note, pipe,
                    pipeline, row, job, taken, flags, starter, tester>>
  BY DEF Stop, callVars, queueVars
<1>a. /\ slot' \in [st : {"none", "Starting", "Running"}, gen : 0..MaxSessions, win : Nat, stop : BOOLEAN]
      /\ slot'.st = ReapedSlot.st /\ slot'.gen = ReapedSlot.gen
      /\ slot'.st = "Starting" <=> slot.st = "Starting"
      /\ slot'.st # "none" => slot'.st = slot.st /\ slot'.gen = slot.gen
      /\ \A g \in Generations : tester[g] \notin {"none", "ended"} =>
            slot'.st = slot.st /\ slot'.gen = slot.gen
  <2>1. ReapedSlot \in [st : {"none", "Starting", "Running"}, gen : 0..MaxSessions, win : Nat,
                         stop : BOOLEAN]
    BY <1>0, ReapedSlotFacts
  <2>2. slot' \in [st : {"none", "Starting", "Running"}, gen : 0..MaxSessions, win : Nat, stop : BOOLEAN]
        /\ slot'.st = ReapedSlot.st /\ slot'.gen = ReapedSlot.gen
    BY <1>1, <2>1
  <2>3. QED  BY <1>0, <2>2, ReapedSlotFacts
<1>2. Types'
  <2>1. Begun' = Begun
    BY <1>0, <1>1 DEF Types, Begun
  <2>2. slot' \in [st : {"none", "Starting", "Running"}, gen : 0..MaxSessions, win : Nat, stop : BOOLEAN]
        /\ window' \in [current : Nat, last : Nat, closed : BOOLEAN]
    BY <1>0, <1>1, <1>a DEF Types
  <2>3. QED  BY <1>0, <1>1, <2>1, <2>2 DEF Types
<1>3. SlotInv'
  <2>1. /\ slot'.st = "Starting" <=> slot.st = "Starting"
        /\ slot'.st # "none" => slot'.st = slot.st /\ slot'.gen = slot.gen
        /\ \A g \in Generations : tester[g] \notin {"none", "ended"} =>
               slot'.st = slot.st /\ slot'.gen = slot.gen
    BY <1>a
  <2>2. QED  BY <1>0, <1>1, <2>1 DEF SlotInv
<1>4. PauseInv'
  BY <1>0, <1>1 DEF PauseInv, Suspended, Resuming
<1>5. ReservedInv(mgr)'
  BY <1>0, <1>1 DEF ReservedInv
<1>6. QED  BY <1>1, <1>2, <1>3, <1>4, <1>5, CallFrame DEF Inv

\* A start begins with an ended worker reaped.
LEMMA StartTestKeeps ==
  ASSUME Inv, StartTest PROVE Inv'
<1>0. Types /\ SlotInv /\ PauseInv /\ ReservedInv(mgr)
  BY DEF Inv, Locked
<1>1. /\ starter.at = "idle" /\ MoreSessions /\ slot' = ReapedSlot
      /\ starter' = [starter EXCEPT !.at = "reserve", !.win = window.current]
      /\ UNCHANGED <<det, paused, ctrl, mgr, thread, verdict, outcome, note, pipe,
                    pipeline, row, job, taken, flags, window, tester>>
  BY DEF StartTest, callVars, queueVars
<1>a. /\ slot' \in [st : {"none", "Starting", "Running"}, gen : 0..MaxSessions, win : Nat, stop : BOOLEAN]
      /\ slot'.st = "Starting" <=> slot.st = "Starting"
      /\ slot'.st # "none" => slot'.st = slot.st /\ slot'.gen = slot.gen
      /\ \A g \in Generations : tester[g] \notin {"none", "ended"} =>
            slot'.st = slot.st /\ slot'.gen = slot.gen
  BY <1>0, <1>1, ReapedSlotFacts
<1>b. /\ starter' \in [at : {"idle", "reserve"} \cup Starting, gen : 0..MaxSessions, win : Nat]
      /\ starter'.at = "reserve" /\ starter'.gen = starter.gen
  <2>1. /\ starter \in [at : {"idle", "reserve"} \cup Starting, gen : 0..MaxSessions, win : Nat]
        /\ window.current \in Nat
    BY <1>0 DEF Types
  <2>2. starter' = [at |-> "reserve", gen |-> starter.gen, win |-> window.current]
    BY <1>1, <2>1
  <2>3. QED  BY <2>1, <2>2
<1>2. Types'
  <2>1. Begun' <= MaxSessions
    <3>1. det.rec \in Int /\ starter.gen \in Int /\ MaxSessions \in Int
      BY <1>0, BoundAssumption DEF Types
    <3>2. QED  BY <1>1, <1>b, <3>1 DEF Begun, MoreSessions
  <2>2. starter' \in [at : {"idle", "reserve"} \cup Starting, gen : 0..MaxSessions, win : Nat]
        /\ slot' \in [st : {"none", "Starting", "Running"}, gen : 0..MaxSessions, win : Nat, stop : BOOLEAN]
        /\ starter'.at \notin Starting
    BY <1>a, <1>b DEF Starting
  <2>3. QED  BY <1>0, <1>1, <2>1, <2>2 DEF Types
<1>3. SlotInv'
  <2>1. starter'.at \notin Starting /\ starter.at \notin Starting
    BY <1>1, <1>b DEF Starting
  <2>2. QED  BY <1>0, <1>1, <1>a, <1>b, <2>1 DEF SlotInv
<1>4. PauseInv'
  <2>1. starter'.at \notin {"wait", "paused", "reserved"} /\ starter.at \notin {"wait", "paused", "reserved"}
    BY <1>1, <1>b
  <2>2. QED  BY <1>0, <1>1, <2>1 DEF PauseInv, Suspended, Resuming
<1>5. ReservedInv(mgr)'
  BY <1>0, <1>1, <1>b DEF ReservedInv
<1>6. QED  BY <1>1, <1>2, <1>3, <1>4, <1>5, CallFrame DEF Inv

\* The slot is taken only when it is free: the worker before is over.
LEMMA ReserveSlotKeeps ==
  ASSUME Inv, ReserveSlot PROVE Inv'
<1>0. Types /\ SlotInv /\ PauseInv /\ ReservedInv(mgr)
  BY DEF Inv, Locked
<1>1. PICK ok :
      /\ starter.at = "reserve" /\ ok = (slot.st = "none" /\ window.current = starter.win)
      /\ starter' = [starter EXCEPT !.at = IF ok THEN "publish" ELSE "idle",
                                      !.gen = IF ok THEN @ + 1 ELSE @]
      /\ slot' = IF ok THEN [st |-> "Starting", gen |-> starter.gen + 1,
                               win |-> starter.win, stop |-> FALSE]
                         ELSE slot
      /\ UNCHANGED <<det, paused, ctrl, mgr, thread, verdict, outcome, note, pipe,
                    pipeline, row, job, taken, flags, window, tester>>
  BY DEF ReserveSlot, callVars, queueVars
<1>b. /\ starter \in [at : {"idle", "reserve"} \cup Starting, gen : 0..MaxSessions, win : Nat]
      /\ starter.gen \in 0..MaxSessions /\ starter.gen + 1 \in 0..MaxSessions /\ Begun <= MaxSessions
      /\ MaxSessions \in Nat /\ det.rec \in Nat
  BY <1>0, <1>1, BoundAssumption DEF Types, Begun
<1>c. /\ starter' \in [at : {"idle", "reserve"} \cup Starting, gen : 0..MaxSessions, win : Nat]
      /\ starter'.at = (IF ok THEN "publish" ELSE "idle")
      /\ starter'.gen = (IF ok THEN starter.gen + 1 ELSE starter.gen)
  <2>1. starter' = [at |-> IF ok THEN "publish" ELSE "idle",
                    gen |-> IF ok THEN starter.gen + 1 ELSE starter.gen, win |-> starter.win]
    BY <1>1, <1>b
  <2>2. QED  BY <1>b, <2>1 DEF Starting
<1>d. ok => \A h \in Generations : tester[h] \in {"none", "ended"}
  BY <1>0, <1>1, NoTester
<1>2. Types'
  <2>1. Begun' <= MaxSessions
    BY <1>1, <1>b, <1>c DEF Begun
  <2>2. slot' \in [st : {"none", "Starting", "Running"}, gen : 0..MaxSessions, win : Nat, stop : BOOLEAN]
        /\ (starter'.at \in Starting => starter'.gen >= 1)
        /\ starter' \in [at : {"idle", "reserve"} \cup Starting, gen : 0..MaxSessions, win : Nat]
    <3>1. CASE ok  BY <1>1, <1>b, <1>c, <3>1
    <3>2. CASE ~ok
      BY <1>0, <1>1, <1>c, <3>2 DEF Types, Starting
    <3>3. QED  BY <3>1, <3>2
  <2>3. QED  BY <1>0, <1>1, <2>1, <2>2 DEF Types
<1>3. SlotInv'
  <2>1. CASE ok
    <3>1. \A g \in Generations : starter.gen + 1 < g \/ g = starter.gen + 1 => tester[g] = "none"
      BY <1>0, <1>b DEF SlotInv, Generations
    <3>2. starter.gen + 1 \in Generations
      BY <1>b DEF Generations
    <3>3. slot'.st = "Starting" /\ slot'.gen = starter.gen + 1
      BY <1>1, <2>1
    <3>4. starter'.at = "publish" /\ starter'.gen = starter.gen + 1
      BY <1>c, <2>1
    <3>5. \A g \in Generations : tester[g] \notin Suspending \cup {"resumed"}
      BY <1>d, <2>1 DEF Suspending
    <3>6. QED  BY <1>1, <1>d, <2>1, <3>1, <3>2, <3>3, <3>4, <3>5 DEF SlotInv, Starting
  <2>2. CASE ~ok
    <3>1. /\ starter'.at = "idle" /\ starter.at = "reserve" /\ starter'.gen = starter.gen
          /\ slot' = slot /\ tester' = tester /\ flags' = flags
      BY <1>1, <1>c, <2>2
    <3>2. QED  BY <1>0, <3>1 DEF SlotInv, Starting
  <2>3. QED  BY <2>1, <2>2
<1>4. PauseInv'
  <2>1. starter'.at \notin {"wait", "paused", "reserved"} /\ starter.at \notin {"wait", "paused", "reserved"}
    BY <1>1, <1>c
  <2>2. QED  BY <1>0, <1>1, <2>1 DEF PauseInv, Suspended, Resuming
<1>5. ReservedInv(mgr)'
  BY <1>0, <1>1, <1>c DEF ReservedInv
<1>6. QED  BY <1>1, <1>2, <1>3, <1>4, <1>5, CallFrame DEF Inv

\* The flag goes up once the slot is taken.
LEMMA PublishKeeps ==
  ASSUME Inv, Publish PROVE Inv'
<1>0. Types /\ SlotInv /\ PauseInv /\ ReservedInv(mgr)
  BY DEF Inv, Locked
<1>1. /\ starter.at = "publish" /\ starter' = [starter EXCEPT !.at = "preflight"]
      /\ flags' = [flags EXCEPT !.test = TRUE]
      /\ UNCHANGED <<det, paused, ctrl, mgr, thread, verdict, outcome, note, pipe,
                    pipeline, row, job, taken, slot, window, tester>>
  BY DEF Publish, callVars, queueVars
<1>b. /\ starter' \in [at : {"idle", "reserve"} \cup Starting, gen : 0..MaxSessions, win : Nat]
      /\ starter'.at = "preflight" /\ starter'.gen = starter.gen
  BY <1>0, <1>1 DEF Types, Starting
<1>c. /\ flags' \in [recording : BOOLEAN, transcribing : BOOLEAN, test : BOOLEAN]
      /\ flags'.test = TRUE
  BY <1>0, <1>1 DEF Types
<1>2. Types'
  <2>1. Begun' = Begun
    BY <1>1, <1>b DEF Begun
  <2>2. /\ starter' \in [at : {"idle", "reserve"} \cup Starting, gen : 0..MaxSessions, win : Nat]
        /\ (starter'.at \in Starting => starter'.gen >= 1)
        /\ flags' \in [recording : BOOLEAN, transcribing : BOOLEAN, test : BOOLEAN]
    BY <1>0, <1>1, <1>b, <1>c, BoundAssumption DEF Types, Starting, NoSlot
  <2>3. QED  BY <1>0, <1>1, <2>1, <2>2 DEF Types
<1>3. SlotInv'
  BY <1>0, <1>1, <1>b, <1>c DEF SlotInv, Starting
<1>4. PauseInv'
  <2>1. starter'.at \notin {"wait", "paused", "reserved"} /\ starter.at \notin {"wait", "paused", "reserved"}
    BY <1>1, <1>b
  <2>2. QED  BY <1>0, <1>1, <2>1 DEF PauseInv, Suspended, Resuming
<1>5. ReservedInv(mgr)'
  BY <1>0, <1>1, <1>b DEF ReservedInv
<1>6. QED  BY <1>1, <1>2, <1>3, <1>4, <1>5, CallFrame DEF Inv

\* The worker gets the slot of its start.
LEMMA InstallTesterKeeps ==
  ASSUME Inv, InstallTester PROVE Inv'
<1>0. Types /\ SlotInv /\ PauseInv /\ ReservedInv(mgr)
  BY DEF Inv, Locked
<1>1. /\ starter.at = "install" /\ starter' = [starter EXCEPT !.at = "idle"]
      /\ slot' = [slot EXCEPT !.st = "Running"]
      /\ UNCHANGED <<det, paused, ctrl, mgr, thread, verdict, outcome, note, pipe,
                    pipeline, row, job, taken, flags, window, tester>>
  BY DEF InstallTester, callVars, queueVars
<1>b. /\ starter' \in [at : {"idle", "reserve"} \cup Starting, gen : 0..MaxSessions, win : Nat]
      /\ starter'.at = "idle" /\ starter'.gen = starter.gen
  BY <1>0, <1>1 DEF Types, Starting
<1>2. Types'
  <2>1. Begun' = Begun
    BY <1>1, <1>b DEF Begun
  <2>2. /\ starter' \in [at : {"idle", "reserve"} \cup Starting, gen : 0..MaxSessions, win : Nat]
        /\ (starter'.at \in Starting => starter'.gen >= 1)
        /\ slot' \in [st : {"none", "Starting", "Running"}, gen : 0..MaxSessions, win : Nat, stop : BOOLEAN]
    BY <1>0, <1>1, <1>b, BoundAssumption DEF Types, Starting, NoSlot
  <2>3. QED  BY <1>0, <1>1, <2>1, <2>2 DEF Types
<1>3. SlotInv'
  <2>1. /\ slot.st = "Starting" /\ slot.gen = starter.gen /\ slot'.st = "Running" /\ slot'.gen = slot.gen
        /\ starter.gen \in Nat /\ starter.gen >= 1
    BY <1>0, <1>1 DEF SlotInv, Starting, Types
  <2>2. QED  BY <1>0, <1>1, <1>b, <2>1 DEF SlotInv, Starting
<1>4. PauseInv'
  <2>1. starter'.at \notin {"wait", "paused", "reserved"} /\ starter.at \notin {"wait", "paused", "reserved"}
    BY <1>1, <1>b
  <2>2. QED  BY <1>0, <1>1, <2>1 DEF PauseInv, Suspended, Resuming
<1>5. ReservedInv(mgr)'
  BY <1>0, <1>1, <1>b DEF ReservedInv
<1>6. QED  BY <1>1, <1>2, <1>3, <1>4, <1>5, CallFrame DEF Inv

\* A start that is undone has no worker: the flag is its own.
LEMMA UndoFlagKeeps ==
  ASSUME Inv, UndoFlag PROVE Inv'
<1>0. Types /\ SlotInv /\ PauseInv /\ ReservedInv(mgr)
  BY DEF Inv, Locked
<1>1. /\ starter.at = "undo" /\ starter' = [starter EXCEPT !.at = "free"]
      /\ flags' = [flags EXCEPT !.test = FALSE]
      /\ UNCHANGED <<det, paused, ctrl, mgr, thread, verdict, outcome, note, pipe,
                    pipeline, row, job, taken, slot, window, tester>>
  BY DEF UndoFlag, callVars, queueVars
<1>b. /\ starter' \in [at : {"idle", "reserve"} \cup Starting, gen : 0..MaxSessions, win : Nat]
      /\ starter'.at = "free" /\ starter'.gen = starter.gen
  BY <1>0, <1>1 DEF Types, Starting
<1>c. /\ flags' \in [recording : BOOLEAN, transcribing : BOOLEAN, test : BOOLEAN]
      /\ flags'.test = FALSE
  BY <1>0, <1>1 DEF Types
<1>2. Types'
  <2>1. Begun' = Begun
    BY <1>1, <1>b DEF Begun
  <2>2. /\ starter' \in [at : {"idle", "reserve"} \cup Starting, gen : 0..MaxSessions, win : Nat]
        /\ (starter'.at \in Starting => starter'.gen >= 1)
        /\ flags' \in [recording : BOOLEAN, transcribing : BOOLEAN, test : BOOLEAN]
    BY <1>0, <1>1, <1>b, <1>c, BoundAssumption DEF Types, Starting, NoSlot
  <2>3. QED  BY <1>0, <1>1, <2>1, <2>2 DEF Types
<1>3. SlotInv'
  <2>1. ~Suspended /\ \A h \in Generations : tester[h] \in {"none", "ended"}
    BY <1>0, <1>1, NoTester DEF Starting
  <2>2. \A g \in Generations : tester[g] \notin Suspending \cup {"resumed"}
    BY <2>1 DEF Suspending
  <2>3. QED  BY <1>0, <1>1, <1>b, <1>c, <2>1, <2>2 DEF SlotInv, Starting
<1>4. PauseInv'
  <2>1. starter'.at \notin {"wait", "paused", "reserved"} /\ starter.at \notin {"wait", "paused", "reserved"}
    BY <1>1, <1>b
  <2>2. QED  BY <1>0, <1>1, <2>1 DEF PauseInv, Suspended, Resuming
<1>5. ReservedInv(mgr)'
  BY <1>0, <1>1, <1>b DEF ReservedInv
<1>6. QED  BY <1>1, <1>2, <1>3, <1>4, <1>5, CallFrame DEF Inv

\* So is the slot.
LEMMA UndoSlotKeeps ==
  ASSUME Inv, UndoSlot PROVE Inv'
<1>0. Types /\ SlotInv /\ PauseInv /\ ReservedInv(mgr)
  BY DEF Inv, Locked
<1>1. /\ starter.at = "free" /\ starter' = [starter EXCEPT !.at = "idle"]
      /\ slot' = NoSlot
      /\ UNCHANGED <<det, paused, ctrl, mgr, thread, verdict, outcome, note, pipe,
                    pipeline, row, job, taken, flags, window, tester>>
  BY DEF UndoSlot, callVars, queueVars
<1>b. /\ starter' \in [at : {"idle", "reserve"} \cup Starting, gen : 0..MaxSessions, win : Nat]
      /\ starter'.at = "idle" /\ starter'.gen = starter.gen
  BY <1>0, <1>1 DEF Types, Starting
<1>2. Types'
  <2>1. Begun' = Begun
    BY <1>1, <1>b DEF Begun
  <2>2. /\ starter' \in [at : {"idle", "reserve"} \cup Starting, gen : 0..MaxSessions, win : Nat]
        /\ (starter'.at \in Starting => starter'.gen >= 1)
        /\ slot' \in [st : {"none", "Starting", "Running"}, gen : 0..MaxSessions, win : Nat, stop : BOOLEAN]
    BY <1>0, <1>1, <1>b, BoundAssumption DEF Types, Starting, NoSlot
  <2>3. QED  BY <1>0, <1>1, <2>1, <2>2 DEF Types
<1>3. SlotInv'
  <2>0. slot'.st = "none"
    BY <1>1 DEF NoSlot
  <2>1. ~Suspended /\ \A h \in Generations : tester[h] \in {"none", "ended"}
    BY <1>0, <1>1, NoTester DEF Starting
  <2>2. \A g \in Generations : tester[g] \notin Suspending \cup {"resumed"}
    BY <2>1 DEF Suspending
  <2>3. QED  BY <1>0, <1>1, <1>b, <2>0, <2>1, <2>2 DEF SlotInv, Starting
<1>4. PauseInv'
  <2>1. starter'.at \notin {"wait", "paused", "reserved"} /\ starter.at \notin {"wait", "paused", "reserved"}
    BY <1>1, <1>b
  <2>2. QED  BY <1>0, <1>1, <2>1 DEF PauseInv, Suspended, Resuming
<1>5. ReservedInv(mgr)'
  BY <1>0, <1>1, <1>b DEF ReservedInv
<1>6. QED  BY <1>1, <1>2, <1>3, <1>4, <1>5, CallFrame DEF Inv

\* The request goes last, to a detector nobody else relies on.
LEMMA RequestPauseKeeps ==
  ASSUME Inv, RequestPause PROVE Inv'
<1>0. Types /\ SlotInv /\ PauseInv /\ ReservedInv(mgr)
  BY DEF Inv, Locked
<1>1. /\ starter.at = "preflight"
      /\ \/ starter' = [starter EXCEPT !.at = "undo"] /\ ctrl' = ctrl
         \/ starter' = [starter EXCEPT !.at = "wait"] /\ ctrl' = Append(ctrl, "Pause")
      /\ UNCHANGED <<det, paused, mgr, thread, verdict, outcome, note, pipe, pipeline,
                    row, job, taken, flags, slot, window, tester>>
  BY DEF RequestPause, callVars, queueVars
<1>n. /\ \A h \in Generations : tester[h] \in {"none", "ended"}
      /\ Suspended => starter.at \in {"paused", "reserved"}
  BY <1>0, <1>1, NoTester DEF Starting
<1>b. /\ starter' \in [at : {"idle", "reserve"} \cup Starting, gen : 0..MaxSessions, win : Nat]
      /\ starter'.at \in {"undo", "wait"} /\ starter'.gen = starter.gen
      /\ starter'.at = "undo" => ctrl' = ctrl
      /\ starter'.at = "wait" => ctrl' = Append(ctrl, "Pause")
  BY <1>0, <1>1 DEF Types, Starting
<1>c. /\ ctrl' \in Seq(Control) /\ Orderly(ctrl', starter'.at = "wait") /\ (Resuming => Resuming')
  <2>1. ctrl \in Seq(Control) /\ Orderly(ctrl, FALSE) /\ "Pause" \in {"Pause", "Resume"}
    BY <1>0, <1>1 DEF Types, Control, PauseInv
  <2>2. CASE starter'.at = "undo"
    BY <1>b, <2>1, <2>2 DEF Resuming
  <2>3. CASE starter'.at = "wait"
    <3>1. /\ Append(ctrl, "Pause") \in Seq(Control) /\ Orderly(Append(ctrl, "Pause"), TRUE)
          /\ \A i \in DOMAIN ctrl : i \in DOMAIN Append(ctrl, "Pause") /\ Append(ctrl, "Pause")[i] = ctrl[i]
      BY <2>1, AppendOrderly
    <3>2. ctrl' \in Seq(Control) /\ Orderly(ctrl', TRUE) /\ \A i \in DOMAIN ctrl : i \in DOMAIN ctrl' /\ ctrl'[i] = ctrl[i]
      BY <1>b, <2>3, <3>1
    <3>3. QED  BY <2>3, <3>2 DEF Resuming
  <2>4. QED  BY <1>b, <2>2, <2>3
<1>u. /\ UNCHANGED <<det, paused, mgr, thread, verdict, outcome, note, pipe, pipeline,
                    row, job, taken, flags, slot, window, tester>>
      /\ starter.at = "preflight"
  BY <1>1
<1>2. Types'
  <2>1. Begun' = Begun
    BY <1>u, <1>b DEF Begun
  <2>2. /\ starter' \in [at : {"idle", "reserve"} \cup Starting, gen : 0..MaxSessions, win : Nat]
        /\ ctrl' \in Seq(Control) /\ starter'.gen >= 1
    BY <1>0, <1>u, <1>b, <1>c DEF Types, Starting
  <2>3. QED  BY <1>0, <1>u, <2>1, <2>2 DEF Types, Control
<1>3. SlotInv'
  <2>1. starter'.at \in Starting \ {"install"} /\ starter.at \in Starting \ {"install"}
    BY <1>u, <1>b DEF Starting
  <2>2. QED  BY <1>0, <1>u, <1>b, <2>1 DEF SlotInv
<1>4. PauseInv'
  <2>1. ~Suspended'
    BY <1>u, <1>n, <1>b DEF Suspended, Suspending
  <2>2. QED  BY <1>0, <1>u, <1>n, <1>c, <2>1 DEF PauseInv
<1>5. ReservedInv(mgr)'
  BY <1>0, <1>u, <1>b DEF ReservedInv
<1>6. QED  BY <1>u, <1>2, <1>3, <1>4, <1>5, CallFrame DEF Inv

\* The request is abandoned with a Resume behind it.
LEMMA PauseTimesOutKeeps ==
  ASSUME Inv, PauseTimesOut PROVE Inv'
<1>0. Types /\ SlotInv /\ PauseInv /\ ReservedInv(mgr)
  BY DEF Inv, Locked
<1>1. /\ starter.at = "wait"
      /\ ctrl' = Append([i \in DOMAIN ctrl |-> IF ctrl[i] = "Pause" THEN "Abandoned" ELSE ctrl[i]],
                        "Resume")
      /\ starter' = [starter EXCEPT !.at = "undo"]
      /\ UNCHANGED <<det, paused, mgr, thread, verdict, outcome, note, pipe, pipeline,
                    row, job, taken, flags, slot, window, tester>>
  BY DEF PauseTimesOut, callVars, queueVars
<1>n. /\ \A h \in Generations : tester[h] \in {"none", "ended"}
      /\ Suspended => starter.at \in {"paused", "reserved"}
  BY <1>0, <1>1, NoTester DEF Starting
<1>b. /\ starter' \in [at : {"idle", "reserve"} \cup Starting, gen : 0..MaxSessions, win : Nat]
      /\ starter'.at = "undo" /\ starter'.gen = starter.gen
  BY <1>0, <1>1 DEF Types, Starting
<1>c. ctrl' \in Seq(Control) /\ Orderly(ctrl', FALSE) /\ Resuming'
  <2> DEFINE t == [i \in DOMAIN ctrl |-> IF ctrl[i] = "Pause" THEN "Abandoned" ELSE ctrl[i]]
  <2>1. ctrl \in Seq(Control)
    BY <1>0 DEF Types, Control
  <2>2. /\ Append(t, "Resume") \in Seq(Control) /\ Orderly(Append(t, "Resume"), FALSE)
        /\ \E i \in DOMAIN Append(t, "Resume") : Append(t, "Resume")[i] = "Resume"
    BY <2>1, AbandonOrderly
  <2>3. ctrl' = Append(t, "Resume")
    BY <1>1
  <2> HIDE DEF t
  <2>4. QED  BY <2>2, <2>3 DEF Resuming
<1>u. /\ UNCHANGED <<det, paused, mgr, thread, verdict, outcome, note, pipe, pipeline,
                    row, job, taken, flags, slot, window, tester>>
      /\ starter.at = "wait"
  BY <1>1
<1>2. Types'
  <2>1. Begun' = Begun
    BY <1>u, <1>b DEF Begun
  <2>2. /\ starter' \in [at : {"idle", "reserve"} \cup Starting, gen : 0..MaxSessions, win : Nat]
        /\ ctrl' \in Seq(Control) /\ starter'.gen >= 1
    BY <1>0, <1>u, <1>b, <1>c DEF Types, Starting
  <2>3. QED  BY <1>0, <1>u, <2>1, <2>2 DEF Types, Control
<1>3. SlotInv'
  <2>1. starter'.at \in Starting \ {"install"} /\ starter.at \in Starting \ {"install"}
    BY <1>u, <1>b DEF Starting
  <2>2. QED  BY <1>0, <1>u, <1>b, <2>1 DEF SlotInv
<1>4. PauseInv'
  <2>1. ~Suspended'
    BY <1>u, <1>n, <1>b DEF Suspended, Suspending
  <2>2. QED  BY <1>b, <1>c, <2>1 DEF PauseInv
<1>5. ReservedInv(mgr)'
  BY <1>0, <1>u, <1>b DEF ReservedInv
<1>6. QED  BY <1>u, <1>2, <1>3, <1>4, <1>5, CallFrame DEF Inv

\* reserve_test takes the slot when nobody holds it, or hands the detector back.
LEMMA ReserveModelKeeps ==
  ASSUME Inv, ReserveModel PROVE Inv'
<1>0. Types /\ SlotInv /\ PauseInv /\ ReservedInv(mgr)
  BY DEF Inv, Locked
<1>1. PICK m, n, p, ok :
      /\ Locked(m, n, p) /\ starter.at = "paused" /\ ok \in BOOLEAN /\ (ok => GateIsOpen(m))
      /\ mgr' = [m EXCEPT !.test = IF ok THEN starter.gen ELSE m.test] /\ note' = n /\ pipe' = p
      /\ ctrl' = Handback(ok) /\ starter' = [starter EXCEPT !.at = IF ok THEN "reserved" ELSE "undo"]
      /\ UNCHANGED <<det, paused, thread, verdict, outcome, pipeline, row,
                    job, taken, flags, slot, window, tester>>
  <2>1. PICK u \in May("unlink") :
          /\ starter.at = "paused"
          /\ IF starting_canceled THEN UNCHANGED <<mgr, note, pipe>>
             ELSE /\ mgr' = (IF ~starting_canceled /\ GateIsOpen(Reaped(mgr))
                             THEN [Reaped(mgr) EXCEPT !.test = starter.gen] ELSE Reaped(mgr))
                  /\ Lock(u, <<>>)
          /\ ctrl' = Handback(~starting_canceled /\ GateIsOpen(Reaped(mgr)))
          /\ starter' = [starter EXCEPT !.at = IF ~starting_canceled /\ GateIsOpen(Reaped(mgr))
                                               THEN "reserved" ELSE "undo"]
          /\ UNCHANGED <<det, paused, thread, verdict, outcome, taken, pipeline, row, job, flags,
                         slot, window, tester>>
    BY DEF ReserveModel, callVars, queueVars
  <2> DEFINE free == ~starting_canceled /\ GateIsOpen(Reaped(mgr))
  <2>2. free \in BOOLEAN /\ (free => GateIsOpen(Reaped(mgr))) /\ (starting_canceled => ~free)
    BY DEF GateIsOpen
  <2>3. ctrl' = Handback(free) /\ starter' = [starter EXCEPT !.at = IF free THEN "reserved" ELSE "undo"]
    BY <2>1
  <2>4. \A k \in Manager : k = [k EXCEPT !.test = k.test]
    BY DEF Manager
  <2>5. CASE starting_canceled
    <3>1. mgr' = [mgr EXCEPT !.test = IF free THEN starter.gen ELSE mgr.test]
          /\ note' = note /\ pipe' = pipe
      BY <2>1, <2>2, <2>4, <2>5 DEF Inv, Locked, LockedTypes
    <3> HIDE DEF free
    <3>2. QED  BY <2>1, <2>2, <2>3, <2>5, <3>1 DEF Inv
  <2>6. CASE ~starting_canceled
    <3> DEFINE m == Reaped(mgr)  n == Unlinked(Unspawned, u)  p == pipe \o Reported(Unspawned, u)
    <3>1. Locked(m, n, p) /\ p \o <<>> = p
      BY Reaping
    <3>2. note' = n /\ pipe' = p /\ m \in Manager
      BY <2>1, <2>6, <3>1 DEF Lock, Locked, LockedTypes
    <3>3. mgr' = IF free THEN [m EXCEPT !.test = starter.gen] ELSE m
      BY <2>1, <2>6
    <3>4. free => GateIsOpen(m)
      BY <2>2
    <3> HIDE DEF m, n, p, free
    <3>5. mgr' = [m EXCEPT !.test = IF free THEN starter.gen ELSE m.test]
      BY <2>4, <3>2, <3>3
    <3>6. QED  BY <2>1, <2>2, <2>3, <3>1, <3>2, <3>4, <3>5
  <2>7. QED  BY <2>5, <2>6
<1>n. /\ \A h \in Generations : tester[h] \in {"none", "ended"}
      /\ Suspended => starter.at \in {"paused", "reserved"}
  BY <1>0, <1>1, NoTester DEF Starting
<1>c. /\ ctrl = <<>> /\ ctrl' \in Seq(Control) /\ Orderly(ctrl', FALSE)
      /\ ok => ctrl' = <<>>
      /\ ~ok => Resuming'
  <2>1. ctrl = <<>> /\ ctrl \in Seq(Control) /\ Orderly(ctrl, FALSE) /\ "Resume" \in {"Pause", "Resume"}
    BY <1>0, <1>1 DEF Types, Control, PauseInv, Suspended
  <2>2. CASE ok
    BY <1>1, <2>1, <2>2 DEF Handback
  <2>3. CASE ~ok
    <3>1. /\ Append(ctrl, "Resume") \in Seq(Control) /\ Orderly(Append(ctrl, "Resume"), FALSE)
          /\ \E i \in DOMAIN Append(ctrl, "Resume") : Append(ctrl, "Resume")[i] = "Resume"
      BY <2>1, AppendOrderly
    <3>2. ctrl' = Append(ctrl, "Resume")
      BY <1>1, <2>3 DEF Handback
    <3>3. QED  BY <2>1, <2>3, <3>1, <3>2 DEF Resuming
  <2>4. QED  BY <2>2, <2>3
<1>b. /\ starter' \in [at : {"idle", "reserve"} \cup Starting, gen : 0..MaxSessions, win : Nat]
      /\ starter'.at = (IF ok THEN "reserved" ELSE "undo") /\ starter'.gen = starter.gen
  BY <1>0, <1>1 DEF Types, Starting
<1>a. m \in Manager /\ mgr'.test = IF ok THEN starter.gen ELSE m.test
  BY <1>1 DEF Locked, LockedTypes, Manager
<1>u. /\ UNCHANGED <<det, paused, thread, verdict, outcome, pipeline, row,
                    job, taken, flags, slot, window, tester>>
      /\ starter.at = "paused" /\ ok \in BOOLEAN /\ paused /\ det.at = "idle"
  BY <1>0, <1>1 DEF PauseInv, Suspended
<1>2. Types'
  <2>1. Begun' = Begun
    BY <1>u, <1>b DEF Begun
  <2>2. /\ starter' \in [at : {"idle", "reserve"} \cup Starting, gen : 0..MaxSessions, win : Nat]
        /\ ctrl' \in Seq(Control) /\ starter'.gen >= 1
    BY <1>0, <1>u, <1>b, <1>c DEF Types, Starting
  <2>3. QED  BY <1>0, <1>u, <2>1, <2>2 DEF Types, Control
<1>3. SlotInv'
  <2>1. starter'.at \in Starting \ {"install"} /\ starter.at \in Starting \ {"install"}
    BY <1>u, <1>b DEF Starting
  <2>2. QED  BY <1>0, <1>u, <1>b, <2>1 DEF SlotInv
<1>4. PauseInv'
  <2>1. starter'.at # "wait" /\ Orderly(ctrl, starter.at = "wait")'
    BY <1>b, <1>c
  <2>2. CASE ok
    BY <1>u, <1>b, <1>c, <2>1, <2>2 DEF PauseInv, Suspended
  <2>3. CASE ~ok
    <3>1. ~Suspended'
      BY <1>u, <1>n, <1>b, <2>3 DEF Suspended, Suspending
    <3>2. QED  BY <1>c, <2>1, <2>3, <3>1 DEF PauseInv
  <2>4. QED  BY <2>2, <2>3
<1>5. ReservedInv(mgr)'
  <2>1. \A g \in Generations : tester'[g] \notin Owning
    BY <1>u, <1>n DEF Owning
  <2>2. QED  BY <1>a, <1>b, <2>1 DEF ReservedInv
<1>6. Locked(mgr, note, pipe)'
  <2> DEFINE t == IF ok THEN starter.gen ELSE m.test
  <2>1. t \in 0..MaxSessions
    BY <1>0, <1>a DEF Types, Manager
  <2>2. t # 0 => ~m.pending /\ \A r \in Calls : ~Holds(m, r)
    <3>0. HolderInv(m)
      BY <1>1 DEF Locked
    <3>1. CASE ok
      <4>1. GateIsOpen(m) /\ 0 \notin Calls
        BY <1>1, <3>1 DEF Calls
      <4>2. QED  BY <1>u, <4>1 DEF GateIsOpen, has_finishing_thread, Holds
    <3>2. CASE ~ok
      BY <3>0, <3>2 DEF HolderInv
    <3>3. QED  BY <1>u, <3>1, <3>2
  <2>3. mgr' = [m EXCEPT !.test = t] /\ note' = n /\ pipe' = p /\ Locked(m, n, p)
    BY <1>1
  <2> HIDE DEF t
  <2>4. QED  BY <1>0, <1>u, <1>5, <2>1, <2>2, <2>3, ReservationKeeps
<1>7. QED  BY <1>2, <1>3, <1>4, <1>6 DEF Inv

\* release_test lets go of the test's own reservation.
LEMMA ReleaseKeeps ==
  ASSUME Inv, NEW g, mgr' = Released(g), ReservedInv(mgr)',
         UNCHANGED <<det, note, pipe, thread, verdict, outcome, taken, pipeline, row, job>>
  PROVE  Locked(mgr, note, pipe)'
<1> DEFINE t == IF mgr.test = g THEN 0 ELSE mgr.test
<1>0. Types /\ Locked(mgr, note, pipe) /\ mgr \in Manager /\ HolderInv(mgr)
  BY DEF Inv, Locked, LockedTypes
<1>1. t \in 0..MaxSessions /\ (t # 0 => mgr.test # 0)
  BY <1>0, BoundAssumption DEF Manager
<1>2. \A k \in Manager : k = [k EXCEPT !.test = k.test]
  BY DEF Manager
<1>3. mgr' = [mgr EXCEPT !.test = t]
  BY <1>0, <1>2 DEF Released
<1>4. t # 0 => ~mgr.pending /\ \A r \in Calls : ~Holds(mgr, r)
  BY <1>0, <1>1 DEF HolderInv
<1> HIDE DEF t
<1>5. QED  BY <1>0, <1>1, <1>3, <1>4, ReservationKeeps

\* The worker is spawned with the slot reserved and the detector asleep, or both
\* are handed back.
LEMMA SpawnTesterKeeps ==
  ASSUME Inv, SpawnTester PROVE Inv'
<1>0. Types /\ SlotInv /\ PauseInv /\ ReservedInv(mgr)
  BY DEF Inv, Locked
<1>1. PICK ok :
      /\ starter.at = "reserved" /\ ok \in BOOLEAN
      /\ tester' = IF ok THEN [tester EXCEPT ![starter.gen] = "loading"] ELSE tester
      /\ mgr' = IF ok THEN mgr ELSE Released(starter.gen)
      /\ ctrl' = Handback(ok) /\ starter' = [starter EXCEPT !.at = IF ok THEN "install" ELSE "undo"]
      /\ UNCHANGED <<det, paused, thread, verdict, outcome, note, pipe, pipeline,
                    row, job, taken, flags, slot, window>>
  <2>1. PICK spawned \in May("worker") :
          /\ starter.at = "reserved"
          /\ IF ~starting_canceled /\ spawned
             THEN tester' = [tester EXCEPT ![starter.gen] = "loading"] /\ mgr' = mgr
             ELSE tester' = tester /\ mgr' = Released(starter.gen)
          /\ ctrl' = Handback(~starting_canceled /\ spawned)
          /\ starter' = [starter EXCEPT !.at = IF ~starting_canceled /\ spawned THEN "install" ELSE "undo"]
          /\ UNCHANGED <<det, paused, thread, verdict, outcome, taken, note, pipe, pipeline, row, job,
                         flags, slot, window>>
    BY DEF SpawnTester, callVars, queueVars
  <2> DEFINE go == ~starting_canceled /\ spawned
  <2>2. /\ go \in BOOLEAN /\ tester' = (IF go THEN [tester EXCEPT ![starter.gen] = "loading"] ELSE tester)
        /\ mgr' = (IF go THEN mgr ELSE Released(starter.gen))
        /\ ctrl' = Handback(go) /\ starter' = [starter EXCEPT !.at = IF go THEN "install" ELSE "undo"]
    BY <2>1
  <2> HIDE DEF go
  <2>3. QED  BY <2>1, <2>2
<1>n. /\ \A h \in Generations : tester[h] \in {"none", "ended"}
      /\ Suspended => starter.at \in {"paused", "reserved"}
  BY <1>0, <1>1, NoTester DEF Starting
<1>c. /\ ctrl = <<>> /\ ctrl' \in Seq(Control) /\ Orderly(ctrl', FALSE)
      /\ ok => ctrl' = <<>>
      /\ ~ok => Resuming'
  <2>1. ctrl = <<>> /\ ctrl \in Seq(Control) /\ Orderly(ctrl, FALSE) /\ "Resume" \in {"Pause", "Resume"}
    BY <1>0, <1>1 DEF Types, Control, PauseInv, Suspended
  <2>2. CASE ok
    BY <1>1, <2>1, <2>2 DEF Handback
  <2>3. CASE ~ok
    <3>1. /\ Append(ctrl, "Resume") \in Seq(Control) /\ Orderly(Append(ctrl, "Resume"), FALSE)
          /\ \E i \in DOMAIN Append(ctrl, "Resume") : Append(ctrl, "Resume")[i] = "Resume"
      BY <2>1, AppendOrderly
    <3>2. ctrl' = Append(ctrl, "Resume")
      BY <1>1, <2>3 DEF Handback
    <3>3. QED  BY <2>1, <2>3, <3>1, <3>2 DEF Resuming
  <2>4. QED  BY <2>2, <2>3
<1>g. starter.gen \in Generations /\ starter.gen >= 1
  BY <1>0, <1>1, BoundAssumption DEF Types, Generations, Starting
<1>b. /\ starter' \in [at : {"idle", "reserve"} \cup Starting, gen : 0..MaxSessions, win : Nat]
      /\ starter'.at = (IF ok THEN "install" ELSE "undo") /\ starter'.gen = starter.gen
  BY <1>0, <1>1 DEF Types, Starting
<1>t. /\ tester' \in [Generations -> {"none", "loading", "open", "closed", "released", "resumed",
                                         "exiting", "ended"}]
      /\ \A h \in Generations : tester'[h] = IF ok /\ h = starter.gen THEN "loading" ELSE tester[h]
  BY <1>0, <1>1, <1>g DEF Types
<1>u. /\ UNCHANGED <<det, paused, thread, verdict, outcome, note, pipe, pipeline,
                    row, job, taken, flags, slot, window>>
      /\ starter.at = "reserved" /\ ok \in BOOLEAN /\ paused /\ det.at = "idle"
      /\ mgr.test = starter.gen /\ flags.test /\ slot.st = "Starting" /\ slot.gen = starter.gen
  BY <1>0, <1>1 DEF PauseInv, Suspended, ReservedInv, SlotInv, Starting
<1>2. Types'
  <2>1. Begun' = Begun
    BY <1>u, <1>b DEF Begun
  <2>2. /\ starter' \in [at : {"idle", "reserve"} \cup Starting, gen : 0..MaxSessions, win : Nat]
        /\ ctrl' \in Seq(Control) /\ starter'.gen >= 1
        /\ tester' \in [Generations -> {"none", "loading", "open", "closed", "released", "resumed",
                                         "exiting", "ended"}]
    BY <1>b, <1>c, <1>g, <1>t
  <2>3. QED  BY <1>0, <1>u, <2>1, <2>2 DEF Types, Control
<1>3. SlotInv'
  <2>1. starter'.at \in Starting
    BY <1>b DEF Starting
  <2>2. ok => starter'.at \notin Starting \ {"install"} /\ starter'.at \notin {"preflight", "wait", "paused", "reserved"}
    BY <1>b
  <2>3. starter.gen \in Int /\ \A h \in Generations : h \in Int
    BY <1>g DEF Generations
  <2>4. CASE ok
    BY <1>0, <1>u, <1>n, <1>b, <1>t, <1>g, <2>1, <2>2, <2>3, <2>4 DEF SlotInv
  <2>5. CASE ~ok
    <3>1. tester' = tester /\ starter.at \in Starting \ {"install"}
      BY <1>1, <1>u, <2>5 DEF Starting
    <3>2. QED  BY <1>0, <1>u, <1>b, <2>1, <2>5, <3>1 DEF SlotInv
  <2>6. QED  BY <2>4, <2>5, <1>u
<1>4. PauseInv'
  <2>1. starter'.at # "wait" /\ Orderly(ctrl, starter.at = "wait")'
    BY <1>b, <1>c
  <2>2. CASE ok
    <3>1. Suspended'
      BY <1>t, <1>g, <2>2 DEF Suspended, Suspending
    <3>2. QED  BY <1>u, <1>c, <2>1, <2>2, <3>1 DEF PauseInv
  <2>3. CASE ~ok
    <3>1. ~Suspended'
      BY <1>n, <1>b, <1>t, <2>3 DEF Suspended, Suspending
    <3>2. QED  BY <1>c, <2>1, <2>3, <3>1 DEF PauseInv
  <2>4. QED  BY <2>2, <2>3, <1>u
<1>5. ReservedInv(mgr)'
  <2>1. CASE ok
    <3>1. mgr' = mgr /\ starter'.at = "install" /\ \A h \in Generations : h # starter.gen => tester'[h] \notin Owning
      BY <1>1, <1>n, <1>b, <1>t, <2>1 DEF Owning
    <3>2. QED  BY <1>u, <3>1 DEF ReservedInv
  <2>2. CASE ~ok
    <3>1. starter'.at = "undo" /\ \A h \in Generations : tester'[h] \notin Owning
      BY <1>n, <1>b, <1>t, <2>2 DEF Owning
    <3>2. QED  BY <3>1 DEF ReservedInv
  <2>3. QED  BY <2>1, <2>2, <1>u
<1>6. Locked(mgr, note, pipe)'
  <2>1. CASE ok
    BY <1>1, <1>u, <1>5, <2>1, CallFrame
  <2>2. CASE ~ok
    BY <1>1, <1>u, <1>5, <2>2, ReleaseKeeps
  <2>3. QED  BY <2>1, <2>2, <1>u
<1>7. QED  BY <1>2, <1>3, <1>4, <1>6 DEF Inv

\* The microphone opens, or a stop came first.
LEMMA OpenMicKeeps ==
  ASSUME Inv, NEW g \in Generations, OpenMic(g) PROVE Inv'
<1>0. Types /\ SlotInv /\ PauseInv /\ ReservedInv(mgr)
  BY DEF Inv, Locked
<1>1. PICK x :
      /\ tester[g] \in {"loading"} /\ x \in {"open", "closed"} /\ tester' = [tester EXCEPT ![g] = x]
      /\ UNCHANGED <<det, paused, ctrl, mgr, thread, verdict, outcome, note, pipe,
                    pipeline, row, job, taken, flags, slot, window, starter>>
  BY DEF OpenMic, TesterAt, callVars, queueVars
<1>b. /\ tester' \in [Generations -> {"none", "loading", "open", "closed", "released", "resumed",
                                         "exiting", "ended"}]
      /\ \A h \in Generations : tester'[h] = IF h = g THEN x ELSE tester[h]
  BY <1>0, <1>1 DEF Types
<1>n. /\ \A h \in Generations : h # g => tester[h] \in {"none", "ended"}
      /\ starter.at \in {"idle", "reserve", "install"}
      /\ slot.st # "none" /\ slot.gen = g /\ g <= starter.gen
  <2>1. tester[g] \notin {"none", "ended"}
    BY <1>1
  <2>2. QED  BY <1>0, <2>1, LiveTester
<1>i. \A h \in Generations : h \in Int /\ (starter.gen < h => h # g)
  BY <1>0, <1>n DEF Types, Generations
<1>u. UNCHANGED <<det, paused, ctrl, mgr, thread, verdict, outcome, note, pipe,
                    pipeline, row, job, taken, flags, slot, window, starter>>
  BY <1>1
<1>2. Types'
  <2>1. Begun' = Begun
    BY <1>u DEF Begun
  <2>2. tester' \in [Generations -> {"none", "loading", "open", "closed", "released", "resumed",
                                         "exiting", "ended"}]
    BY <1>b
  <2>3. QED  BY <1>0, <1>u, <2>1, <2>2 DEF Types
<1>3. SlotInv'
  <2>1. tester[g] \in Suspending \cup {"resumed"} /\ x \in Suspending \cup {"resumed"} => flags'.test
    BY <1>0, <1>1 DEF SlotInv, Suspending
  <2>2. starter.at \notin Starting \ {"install"} /\ starter.at \notin {"preflight", "wait", "paused", "reserved"}
    BY <1>n DEF Starting
  <2>3. QED  BY <1>0, <1>1, <1>b, <1>n, <1>i, <2>1, <2>2 DEF SlotInv, Suspending
<1>4. PauseInv'
  <2>1. tester[g] \in Suspending <=> x \in Suspending
    BY <1>1 DEF Suspending
  <2>2. Suspended' <=> Suspended
    BY <1>u, <1>b, <2>1 DEF Suspended
  <2>3. QED  BY <1>0, <1>u, <2>2 DEF PauseInv, Resuming
<1>5. ReservedInv(mgr)'
  <2>1. x \in Owning => tester[g] \in Owning
    BY <1>1 DEF Owning
  <2>2. QED  BY <1>0, <1>u, <1>b, <2>1 DEF ReservedInv
<1>6. QED  BY <1>u, <1>2, <1>3, <1>4, <1>5, CallFrame DEF Inv

\* The session of the test ends; the worker still holds what it borrowed.
LEMMA CloseMicKeeps ==
  ASSUME Inv, NEW g \in Generations, CloseMic(g) PROVE Inv'
<1>0. Types /\ SlotInv /\ PauseInv /\ ReservedInv(mgr)
  BY DEF Inv, Locked
<1>1. PICK x :
      /\ tester[g] \in {"open", "loading"} /\ x \in {"closed"} /\ tester' = [tester EXCEPT ![g] = x]
      /\ UNCHANGED <<det, paused, ctrl, mgr, thread, verdict, outcome, note, pipe,
                    pipeline, row, job, taken, flags, slot, window, starter>>
  BY DEF CloseMic, TesterAt, callVars, queueVars
<1>b. /\ tester' \in [Generations -> {"none", "loading", "open", "closed", "released", "resumed",
                                         "exiting", "ended"}]
      /\ \A h \in Generations : tester'[h] = IF h = g THEN x ELSE tester[h]
  BY <1>0, <1>1 DEF Types
<1>n. /\ \A h \in Generations : h # g => tester[h] \in {"none", "ended"}
      /\ starter.at \in {"idle", "reserve", "install"}
      /\ slot.st # "none" /\ slot.gen = g /\ g <= starter.gen
  <2>1. tester[g] \notin {"none", "ended"}
    BY <1>1
  <2>2. QED  BY <1>0, <2>1, LiveTester
<1>i. \A h \in Generations : h \in Int /\ (starter.gen < h => h # g)
  BY <1>0, <1>n DEF Types, Generations
<1>u. UNCHANGED <<det, paused, ctrl, mgr, thread, verdict, outcome, note, pipe,
                    pipeline, row, job, taken, flags, slot, window, starter>>
  BY <1>1
<1>2. Types'
  <2>1. Begun' = Begun
    BY <1>u DEF Begun
  <2>2. tester' \in [Generations -> {"none", "loading", "open", "closed", "released", "resumed",
                                         "exiting", "ended"}]
    BY <1>b
  <2>3. QED  BY <1>0, <1>u, <2>1, <2>2 DEF Types
<1>3. SlotInv'
  <2>1. tester[g] \in Suspending \cup {"resumed"} /\ x \in Suspending \cup {"resumed"} => flags'.test
    BY <1>0, <1>1 DEF SlotInv, Suspending
  <2>2. starter.at \notin Starting \ {"install"} /\ starter.at \notin {"preflight", "wait", "paused", "reserved"}
    BY <1>n DEF Starting
  <2>3. QED  BY <1>0, <1>1, <1>b, <1>n, <1>i, <2>1, <2>2 DEF SlotInv, Suspending
<1>4. PauseInv'
  <2>1. tester[g] \in Suspending <=> x \in Suspending
    BY <1>1 DEF Suspending
  <2>2. Suspended' <=> Suspended
    BY <1>u, <1>b, <2>1 DEF Suspended
  <2>3. QED  BY <1>0, <1>u, <2>2 DEF PauseInv, Resuming
<1>5. ReservedInv(mgr)'
  <2>1. x \in Owning => tester[g] \in Owning
    BY <1>1 DEF Owning
  <2>2. QED  BY <1>0, <1>u, <1>b, <2>1 DEF ReservedInv
<1>6. QED  BY <1>u, <1>2, <1>3, <1>4, <1>5, CallFrame DEF Inv

\* The slot goes back while the detector still sleeps.
LEMMA ReleaseModelKeeps ==
  ASSUME Inv, NEW g \in Generations, ReleaseModel(g) PROVE Inv'
<1>0. Types /\ SlotInv /\ PauseInv /\ ReservedInv(mgr)
  BY DEF Inv, Locked
<1>1. PICK x :
      /\ tester[g] \in {"closed"} /\ x \in {"released"} /\ tester' = [tester EXCEPT ![g] = x]
      /\ mgr' = Released(g)
      /\ UNCHANGED <<det, paused, ctrl, thread, verdict, outcome, note, pipe, pipeline,
                    row, job, taken, flags, slot, window, starter>>
  BY DEF ReleaseModel, TesterAt, callVars, queueVars
<1>b. /\ tester' \in [Generations -> {"none", "loading", "open", "closed", "released", "resumed",
                                         "exiting", "ended"}]
      /\ \A h \in Generations : tester'[h] = IF h = g THEN x ELSE tester[h]
  BY <1>0, <1>1 DEF Types
<1>n. /\ \A h \in Generations : h # g => tester[h] \in {"none", "ended"}
      /\ starter.at \in {"idle", "reserve", "install"}
      /\ slot.st # "none" /\ slot.gen = g /\ g <= starter.gen
  <2>1. tester[g] \notin {"none", "ended"}
    BY <1>1
  <2>2. QED  BY <1>0, <2>1, LiveTester
<1>i. \A h \in Generations : h \in Int /\ (starter.gen < h => h # g)
  BY <1>0, <1>n DEF Types, Generations
<1>u. UNCHANGED <<det, paused, ctrl, thread, verdict, outcome, note, pipe, pipeline,
                    row, job, taken, flags, slot, window, starter>>
  BY <1>1
<1>2. Types'
  <2>1. Begun' = Begun
    BY <1>u DEF Begun
  <2>2. tester' \in [Generations -> {"none", "loading", "open", "closed", "released", "resumed",
                                         "exiting", "ended"}]
    BY <1>b
  <2>3. QED  BY <1>0, <1>u, <2>1, <2>2 DEF Types
<1>3. SlotInv'
  <2>1. tester[g] \in Suspending \cup {"resumed"} /\ x \in Suspending \cup {"resumed"} => flags'.test
    BY <1>0, <1>1 DEF SlotInv, Suspending
  <2>2. starter.at \notin Starting \ {"install"} /\ starter.at \notin {"preflight", "wait", "paused", "reserved"}
    BY <1>n DEF Starting
  <2>3. QED  BY <1>0, <1>1, <1>b, <1>n, <1>i, <2>1, <2>2 DEF SlotInv, Suspending
<1>4. PauseInv'
  <2>1. tester[g] \in Suspending <=> x \in Suspending
    BY <1>1 DEF Suspending
  <2>2. Suspended' <=> Suspended
    BY <1>u, <1>b, <2>1 DEF Suspended
  <2>3. QED  BY <1>0, <1>u, <2>2 DEF PauseInv, Resuming
<1>5. ReservedInv(mgr)'
  <2>1. \A h \in Generations : tester'[h] \notin Owning
    BY <1>1, <1>b, <1>n DEF Owning
  <2>2. starter'.at # "reserved"
    BY <1>u, <1>n
  <2>3. QED  BY <2>1, <2>2 DEF ReservedInv
<1>6. QED  BY <1>1, <1>u, <1>2, <1>3, <1>4, <1>5, ReleaseKeeps DEF Inv

\* The worker wakes the detector; nobody else relies on its sleep.
LEMMA ResumeDetectorKeeps ==
  ASSUME Inv, NEW g \in Generations, ResumeDetector(g) PROVE Inv'
<1>0. Types /\ SlotInv /\ PauseInv /\ ReservedInv(mgr)
  BY DEF Inv, Locked
<1>1. PICK x :
      /\ tester[g] \in {"released"} /\ x \in {"resumed"} /\ tester' = [tester EXCEPT ![g] = x]
      /\ ctrl' = Append(ctrl, "Resume")
      /\ UNCHANGED <<det, paused, mgr, thread, verdict, outcome, note, pipe, pipeline,
                    row, job, taken, flags, slot, window, starter>>
  BY DEF ResumeDetector, TesterAt, callVars, queueVars
<1>b. /\ tester' \in [Generations -> {"none", "loading", "open", "closed", "released", "resumed",
                                         "exiting", "ended"}]
      /\ \A h \in Generations : tester'[h] = IF h = g THEN x ELSE tester[h]
  BY <1>0, <1>1 DEF Types
<1>n. /\ \A h \in Generations : h # g => tester[h] \in {"none", "ended"}
      /\ starter.at \in {"idle", "reserve", "install"}
      /\ slot.st # "none" /\ slot.gen = g /\ g <= starter.gen
  <2>1. tester[g] \notin {"none", "ended"}
    BY <1>1
  <2>2. QED  BY <1>0, <2>1, LiveTester
<1>i. \A h \in Generations : h \in Int /\ (starter.gen < h => h # g)
  BY <1>0, <1>n DEF Types, Generations
<1>u. UNCHANGED <<det, paused, mgr, thread, verdict, outcome, note, pipe, pipeline,
                    row, job, taken, flags, slot, window, starter>>
  BY <1>1
<1>c. ctrl' \in Seq(Control) /\ Orderly(ctrl', FALSE) /\ Resuming' /\ starter.at # "wait"
  <2>1. ctrl \in Seq(Control) /\ Orderly(ctrl, FALSE) /\ starter.at # "wait" /\ "Resume" \in {"Pause", "Resume"}
    BY <1>0, <1>n DEF Types, Control, PauseInv
  <2>2. /\ Append(ctrl, "Resume") \in Seq(Control) /\ Orderly(Append(ctrl, "Resume"), FALSE)
        /\ \E i \in DOMAIN Append(ctrl, "Resume") : Append(ctrl, "Resume")[i] = "Resume"
    BY <2>1, AppendOrderly
  <2>3. ctrl' = Append(ctrl, "Resume")
    BY <1>1
  <2>4. QED  BY <2>1, <2>2, <2>3 DEF Resuming
<1>s. tester[g] = "released" /\ x = "resumed"
  BY <1>1
<1>2. Types'
  <2>1. Begun' = Begun
    BY <1>u DEF Begun
  <2>2. /\ tester' \in [Generations -> {"none", "loading", "open", "closed", "released", "resumed",
                                         "exiting", "ended"}]
        /\ ctrl' \in Seq(Control)
    BY <1>b, <1>c
  <2>3. QED  BY <1>0, <1>u, <2>1, <2>2 DEF Types, Control
<1>3. SlotInv'
  <2>1. flags'.test
    BY <1>0, <1>u, <1>s DEF SlotInv, Suspending
  <2>2. starter.at \notin Starting \ {"install"} /\ starter.at \notin {"preflight", "wait", "paused", "reserved"}
    BY <1>n DEF Starting
  <2>3. QED  BY <1>0, <1>u, <1>s, <1>b, <1>n, <1>i, <2>1, <2>2 DEF SlotInv, Suspending
<1>4. PauseInv'
  <2>1. ~Suspended'
    BY <1>u, <1>s, <1>b, <1>n DEF Suspended, Suspending
  <2>2. Orderly(ctrl, starter.at = "wait")'
    BY <1>u, <1>c
  <2>3. QED  BY <1>c, <2>1, <2>2 DEF PauseInv
<1>5. ReservedInv(mgr)'
  <2>1. x \notin Owning
    BY <1>s DEF Owning
  <2>2. QED  BY <1>0, <1>u, <1>b, <2>1 DEF ReservedInv
<1>6. QED  BY <1>u, <1>2, <1>3, <1>4, <1>5, CallFrame DEF Inv

\* The flag comes down after the detector is woken.
LEMMA ClearFlagKeeps ==
  ASSUME Inv, NEW g \in Generations, ClearFlag(g) PROVE Inv'
<1>0. Types /\ SlotInv /\ PauseInv /\ ReservedInv(mgr)
  BY DEF Inv, Locked
<1>1. PICK x :
      /\ tester[g] \in {"resumed"} /\ x \in {"exiting"} /\ tester' = [tester EXCEPT ![g] = x]
      /\ flags' = [flags EXCEPT !.test = FALSE]
      /\ UNCHANGED <<det, paused, ctrl, mgr, thread, verdict, outcome, note, pipe,
                    pipeline, row, job, taken, slot, window, starter>>
  BY DEF ClearFlag, TesterAt, callVars, queueVars
<1>b. /\ tester' \in [Generations -> {"none", "loading", "open", "closed", "released", "resumed",
                                         "exiting", "ended"}]
      /\ \A h \in Generations : tester'[h] = IF h = g THEN x ELSE tester[h]
  BY <1>0, <1>1 DEF Types
<1>n. /\ \A h \in Generations : h # g => tester[h] \in {"none", "ended"}
      /\ starter.at \in {"idle", "reserve", "install"}
      /\ slot.st # "none" /\ slot.gen = g /\ g <= starter.gen
  <2>1. tester[g] \notin {"none", "ended"}
    BY <1>1
  <2>2. QED  BY <1>0, <2>1, LiveTester
<1>i. \A h \in Generations : h \in Int /\ (starter.gen < h => h # g)
  BY <1>0, <1>n DEF Types, Generations
<1>u. UNCHANGED <<det, paused, ctrl, mgr, thread, verdict, outcome, note, pipe,
                    pipeline, row, job, taken, slot, window, starter>>
  BY <1>1
<1>c. flags' \in [recording : BOOLEAN, transcribing : BOOLEAN, test : BOOLEAN]
  BY <1>0, <1>1 DEF Types
<1>2. Types'
  <2>1. Begun' = Begun
    BY <1>u DEF Begun
  <2>2. /\ tester' \in [Generations -> {"none", "loading", "open", "closed", "released", "resumed",
                                         "exiting", "ended"}]
        /\ flags' \in [recording : BOOLEAN, transcribing : BOOLEAN, test : BOOLEAN]
    BY <1>b, <1>c
  <2>3. QED  BY <1>0, <1>u, <2>1, <2>2 DEF Types
<1>3. SlotInv'
  <2>1. \A h \in Generations : tester'[h] \notin Suspending \cup {"resumed"}
    BY <1>1, <1>b, <1>n DEF Suspending
  <2>2. starter.at \notin Starting \ {"install"} /\ starter.at \notin {"preflight", "wait", "paused", "reserved"}
    BY <1>n DEF Starting
  <2>3. QED  BY <1>0, <1>u, <1>b, <1>n, <1>i, <2>1, <2>2 DEF SlotInv
<1>4. PauseInv'
  <2>1. tester[g] \in Suspending <=> x \in Suspending
    BY <1>1 DEF Suspending
  <2>2. Suspended' <=> Suspended
    BY <1>u, <1>b, <2>1 DEF Suspended
  <2>3. QED  BY <1>0, <1>u, <2>2 DEF PauseInv, Resuming
<1>5. ReservedInv(mgr)'
  <2>1. x \in Owning => tester[g] \in Owning
    BY <1>1 DEF Owning
  <2>2. QED  BY <1>0, <1>u, <1>b, <2>1 DEF ReservedInv
<1>6. QED  BY <1>u, <1>2, <1>3, <1>4, <1>5, CallFrame DEF Inv

\* The worker ends.
LEMMA TesterExitsKeeps ==
  ASSUME Inv, NEW g \in Generations, TesterExits(g) PROVE Inv'
<1>0. Types /\ SlotInv /\ PauseInv /\ ReservedInv(mgr)
  BY DEF Inv, Locked
<1>1. PICK x :
      /\ tester[g] \in {"exiting"} /\ x \in {"ended"} /\ tester' = [tester EXCEPT ![g] = x]
      /\ UNCHANGED <<det, paused, ctrl, mgr, thread, verdict, outcome, note, pipe,
                    pipeline, row, job, taken, flags, slot, window, starter>>
  BY DEF TesterExits, TesterAt, callVars, queueVars
<1>b. /\ tester' \in [Generations -> {"none", "loading", "open", "closed", "released", "resumed",
                                         "exiting", "ended"}]
      /\ \A h \in Generations : tester'[h] = IF h = g THEN x ELSE tester[h]
  BY <1>0, <1>1 DEF Types
<1>n. /\ \A h \in Generations : h # g => tester[h] \in {"none", "ended"}
      /\ starter.at \in {"idle", "reserve", "install"}
      /\ slot.st # "none" /\ slot.gen = g /\ g <= starter.gen
  <2>1. tester[g] \notin {"none", "ended"}
    BY <1>1
  <2>2. QED  BY <1>0, <2>1, LiveTester
<1>i. \A h \in Generations : h \in Int /\ (starter.gen < h => h # g)
  BY <1>0, <1>n DEF Types, Generations
<1>u. UNCHANGED <<det, paused, ctrl, mgr, thread, verdict, outcome, note, pipe,
                    pipeline, row, job, taken, flags, slot, window, starter>>
  BY <1>1
<1>2. Types'
  <2>1. Begun' = Begun
    BY <1>u DEF Begun
  <2>2. tester' \in [Generations -> {"none", "loading", "open", "closed", "released", "resumed",
                                         "exiting", "ended"}]
    BY <1>b
  <2>3. QED  BY <1>0, <1>u, <2>1, <2>2 DEF Types
<1>3. SlotInv'
  <2>1. tester[g] \in Suspending \cup {"resumed"} /\ x \in Suspending \cup {"resumed"} => flags'.test
    BY <1>0, <1>1 DEF SlotInv, Suspending
  <2>2. starter.at \notin Starting \ {"install"} /\ starter.at \notin {"preflight", "wait", "paused", "reserved"}
    BY <1>n DEF Starting
  <2>3. QED  BY <1>0, <1>1, <1>b, <1>n, <1>i, <2>1, <2>2 DEF SlotInv, Suspending
<1>4. PauseInv'
  <2>1. tester[g] \in Suspending <=> x \in Suspending
    BY <1>1 DEF Suspending
  <2>2. Suspended' <=> Suspended
    BY <1>u, <1>b, <2>1 DEF Suspended
  <2>3. QED  BY <1>0, <1>u, <2>2 DEF PauseInv, Resuming
<1>5. ReservedInv(mgr)'
  <2>1. x \in Owning => tester[g] \in Owning
    BY <1>1 DEF Owning
  <2>2. QED  BY <1>0, <1>u, <1>b, <2>1 DEF ReservedInv
<1>6. QED  BY <1>u, <1>2, <1>3, <1>4, <1>5, CallFrame DEF Inv

-----------------------------------------------------------------------------
(* The theorems                                                            *)

\* Nothing has begun.
LEMMA InitInv ==
  Init => Inv
<1> SUFFICES ASSUME Init PROVE Inv
  OBVIOUS
<1> USE DEF Init
<1>1. /\ det.at = "idle" /\ det.rec = 0 /\ det.tee = FALSE /\ starter.at = "idle" /\ starter.gen = 0
      /\ pipeline.at = "idle" /\ pipeline.rec = 0 /\ slot.st = "none" /\ MaxSessions \in Nat
      /\ mgr.pending = FALSE /\ mgr.test = 0 /\ mgr.active = 0
      /\ \A r \in Calls : /\ mgr.awaiting[r] = "none" /\ mgr.discarding[r] = "none"
                          /\ thread[r] = "none" /\ verdict[r] = "none" /\ outcome[r] = "none"
                          /\ taken[r] = "none" /\ note[r] = "none" /\ row[r] = "none" /\ job[r] = "none"
      /\ \A g \in Generations : tester[g] = "none"
  BY BoundAssumption DEF NoSlot
<1>2. \A r \in Calls : r # 0 /\ r \in Int
  BY DEF Calls
<1>3. pipe \in Seq(Mail) /\ Letters(pipe) = {} /\ Once(pipe) /\ ctrl \in Seq({"Pause", "Abandoned", "Resume"})
  BY DEF Letters, Once
<1>4. \A k, r : ~Queued(pipe, k, r)
  BY <1>3 DEF Queued
<1>5. Types
  <2>1. Begun = 0
    BY <1>1 DEF Begun
  <2>2. /\ det \in [at : {"idle", "starting", "spawned", "recording", "finished", "discarded"},
                    rec : 0..MaxSessions, tee : BOOLEAN]
        /\ pipeline \in [at : {"idle", "collect", "join", "settle", "reap", "drain", "claim",
                               "claimed", "batch"}, rec : 0..MaxSessions, queued : BOOLEAN]
        /\ slot \in [st : {"none", "Starting", "Running"}, gen : 0..MaxSessions, win : Nat,
                     stop : BOOLEAN]
        /\ window \in [current : Nat, last : Nat, closed : BOOLEAN]
        /\ starter \in [at : {"idle", "reserve"} \cup Starting, gen : 0..MaxSessions, win : Nat]
        /\ flags \in [recording : BOOLEAN, transcribing : BOOLEAN, test : BOOLEAN]
    BY BoundAssumption DEF NoSlot
  <2>3. /\ thread \in [Calls -> {"none", "running", "ended"}]
        /\ verdict \in [Calls -> {"none", "Finish", "Discard"}]
        /\ outcome \in [Calls -> Outcomes] /\ taken \in [Calls -> Outcomes \cup {"None"}]
        /\ row \in [Calls -> {"none", "Recording", "Pending", "Done", "Failed"}]
        /\ job \in [Calls -> {"none", "refused", "due", "running", "done"}]
        /\ tester \in [Generations -> {"none", "loading", "open", "closed", "released", "resumed",
                                       "exiting", "ended"}]
    BY DEF Outcomes
  <2>4. paused \in BOOLEAN /\ starter.at \notin Starting
    BY <1>1 DEF Starting
  <2>5. QED  BY <1>1, <1>3, <2>1, <2>2, <2>3, <2>4 DEF Types
<1>6. SlotInv
  BY <1>1 DEF SlotInv, Starting, Suspending
<1>7. PauseInv
  <2>1. Orderly(ctrl, FALSE) /\ ~paused
    BY DEF Orderly
  <2>2. ~Suspended
    BY <1>1 DEF Suspended, Suspending
  <2>3. QED  BY <1>1, <2>1, <2>2 DEF PauseInv
<1>8. LockedTypes(mgr, note, pipe)
  <2>1. mgr \in Manager
    BY <1>1 DEF Manager
  <2>2. note \in [Calls -> NoteStates]
    BY DEF NoteStates
  <2>3. QED  BY <1>3, <2>1, <2>2 DEF LockedTypes
<1>9. \A r \in Calls : ~Holds(mgr, r) /\ ~Kept(pipe, r)
  BY <1>1, <1>2, <1>4 DEF Holds, Kept
<1>10. ReservedInv(mgr) /\ PastInv(mgr, note, pipe)
  BY <1>1, <1>3 DEF ReservedInv, Owning, PastInv, Past
<1>11. HolderInv(mgr)
  BY <1>1, <1>9 DEF HolderInv
<1>12. StageInv(mgr, pipe)
  BY <1>1, <1>2, <1>9 DEF StageInv, Stage
<1>13. ProcessInv(pipe)
  BY <1>1, <1>3, <1>4 DEF ProcessInv
<1>14. OutcomeInv(note) /\ NoteInv(mgr, note, pipe) /\ RowInv(pipe)
  BY <1>1 DEF OutcomeInv, NoteInv, RowInv
<1>15. QED
  BY <1>5, <1>6, <1>7, <1>8, <1>10, <1>11, <1>12, <1>13, <1>14 DEF Inv, Locked

\* Every step of the detector, the session threads, the pipeline, the user and the
\* microphone test keeps the invariant.
LEMMA NextInv ==
  Inv /\ [Next]_vars => Inv'
<1> SUFFICES ASSUME Inv, [Next]_vars PROVE Inv'
  OBVIOUS
<1>1. CASE Detector
  BY <1>1, AttachKeeps, StartOkKeeps, InstallKeeps, StartFailsKeeps, RebindErrorKeeps,
     FinishLiveKeeps, EmitFinishedKeeps, DiscardLiveKeeps, EmitDiscardedKeeps, OnPauseKeeps,
     OnResumeKeeps DEF Detector
<1>2. CASE PipelineThread
  BY <1>2, OnProcessKeeps, CollectKeeps, JoinKeeps, SettleKeeps, OnLiveNoteCreatedKeeps,
     OnDiscardKeeps, ReapUnspawnedKeeps, OnDiscardCleanupKeeps, BatchKeeps DEF PipelineThread
<1>3. CASE Window
  BY <1>3, WindowKeeps, StopKeeps DEF Window, StopForClose, UserStop
<1>4. CASE Starter
  BY <1>4, StartTestKeeps, ReserveSlotKeeps, PublishKeeps, RequestPauseKeeps, PauseTimesOutKeeps,
     ReserveModelKeeps, SpawnTesterKeeps, InstallTesterKeeps, UndoFlagKeeps, UndoSlotKeeps DEF Starter
<1>5. CASE \E r \in Calls : Session(r)
  BY <1>5, CreateNoteKeeps, SessionEndsKeep, ReapDiscardKeeps DEF Session
<1>6. CASE \E g \in Generations : Tester(g)
  BY <1>6, OpenMicKeeps, CloseMicKeeps, ReleaseModelKeeps, ResumeDetectorKeeps, ClearFlagKeeps,
     TesterExitsKeeps DEF Tester
<1>7. CASE UNCHANGED vars
  <2>1. UNCHANGED <<det, paused, ctrl, mgr, thread, verdict, outcome, note, pipe, pipeline,
                    row, job, taken, flags, slot, window, starter, tester>>
    BY <1>7 DEF vars
  <2>2. Types'
    BY <2>1 DEF Inv, Types, Begun
  <2>3. SlotInv' /\ PauseInv'
    BY <2>1, TestFrame
  <2>4. ReservedInv(mgr)'
    BY <2>1 DEF Inv, Locked, ReservedInv
  <2>5. QED  BY <2>1, <2>2, <2>3, <2>4, CallFrame DEF Inv
<1>8. QED  BY <1>1, <1>2, <1>3, <1>4, <1>5, <1>6, <1>7 DEF Next

\* The invariant holds throughout.
LEMMA InvHolds ==
  Spec => []Inv
BY InitInv, NextInv, PTL DEF Spec

\* A set without two different elements has one at most.
LEMMA AtMostOne ==
  ASSUME NEW S, \A x, y \in S : x = y
  PROVE  Cardinality(S) \in {0, 1} /\ (S = {} => Cardinality(S) = 0)
<1>1. CASE S = {}
  BY <1>1, FS_EmptySet
<1>2. CASE S # {}
  <2>1. PICK x : x \in S
    BY <1>2
  <2>2. S = {x}
    BY <2>1
  <2>3. QED  BY <1>2, <2>2, FS_Singleton
<1>3. QED  BY <1>1, <1>2

\* The manager, the flags and the threads of live.rs and live_test.rs keep to their
\* values, and the pipeline's channel holds only messages about calls that have begun.
THEOREM SessionTypes ==
  Spec => []TypeOK
<1>1. Inv => TypeOK
  <2> SUFFICES ASSUME Inv PROVE TypeOK
    OBVIOUS
  <2>0. Types /\ mgr \in Manager /\ pipe \in Seq(Mail) /\ PastInv(mgr, note, pipe)
    BY DEF Inv, Locked, LockedTypes
  <2>1. /\ mgr.pending \in BOOLEAN /\ mgr.test \in 0..MaxSessions /\ mgr.active \in 0..MaxSessions
        /\ \A r \in Calls : /\ mgr.awaiting[r] \in {"none", "Running", "Collecting", "Ready"}
                            /\ mgr.discarding[r] \in {"none", "Reaper", "Reaped", "Inline",
                                                      "Collecting"}
    BY <2>0 DEF Manager
  <2>2. ASSUME NEW i \in DOMAIN pipe PROVE pipe[i].rec \in 1..det.rec
    <3>1. pipe[i].rec \in Calls /\ pipe[i] \in Letters(pipe)
      BY <2>0, LettersTyped DEF Letters
    <3>2. pipe[i].rec <= Past
      BY <2>0, <3>1 DEF PastInv
    <3>3. det.rec \in Nat /\ Past \in Int /\ Past <= det.rec
      BY <2>0 DEF Types, Past
    <3>4. QED  BY <3>1, <3>2, <3>3 DEF Calls
  <2>3. QED  BY <2>0, <2>1, <2>2 DEF Types, TypeOK
<1>2. QED  BY <1>1, InvHolds, PTL

\* However calls, discards, collections and microphone tests interleave and fail, two
\* model sessions never overlap (LiveManager's gate), a test that has the model or the
\* microphone has its own reservation, its flag, and a detector that is idle and asleep,
\* and a detector that sleeps has somebody who will wake it.
THEOREM TestExcludesCalls ==
  Spec => []TestIsExclusive
<1>1. Inv => TestIsExclusive
  <2> SUFFICES ASSUME Inv PROVE TestIsExclusive
    OBVIOUS
  <2>0. Types /\ SlotInv /\ PauseInv /\ ReservedInv(mgr) /\ HolderInv(mgr)
    BY DEF Inv, Locked
  <2> DEFINE R == {r \in Calls : thread[r] = "running"}
             T == {g \in Generations : tester[g] \in {"loading", "open"}}
  <2>1. \A r, s \in R : r = s
    BY <2>0 DEF HolderInv
  <2>2. \A g, h \in T : g = h
    BY <2>0, LiveTester
  <2>3. T = {} \/ R = {}
    <3>1. ASSUME NEW g \in T PROVE R = {}
      <4>1. mgr.test = g /\ g # 0
        BY <2>0, <3>1 DEF ReservedInv, Owning, Generations
      <4>2. QED  BY <2>0, <4>1 DEF HolderInv
    <3>2. QED  BY <3>1
  <2>4. OneModel
    <3>1. /\ Cardinality(R) \in {0, 1} /\ (R = {} => Cardinality(R) = 0)
          /\ Cardinality(T) \in {0, 1} /\ (T = {} => Cardinality(T) = 0)
      <4> HIDE DEF R, T
      <4>1. QED  BY <2>1, <2>2, AtMostOne
    <3>2. Cardinality(R) + Cardinality(T) <= 1
      <4> HIDE DEF R, T
      <4>1. QED  BY <2>3, <3>1
    <3>3. QED  BY <3>2 DEF OneModel
  <2>5. ASSUME NEW g \in Generations, tester[g] \in {"loading", "open", "closed"}
        PROVE  mgr.test = g /\ flags.test /\ paused /\ det.at = "idle"
    <3>1. Suspended
      BY <2>5 DEF Suspended, Suspending
    <3>2. mgr.test = g /\ flags.test
      BY <2>0, <2>5 DEF ReservedInv, Owning, SlotInv, Suspending
    <3>3. QED  BY <2>0, <3>1, <3>2 DEF PauseInv
  <2>6. paused => \/ Resuming \/ starter.at \in {"paused", "reserved"}
                  \/ \E g \in Generations :
                        tester[g] \in {"loading", "open", "closed", "released"}
    BY <2>0 DEF PauseInv, Suspended, Suspending
  <2>7. QED  BY <2>4, <2>5, <2>6 DEF TestIsExclusive, TestOwnsDetection
<1>2. QED  BY <1>1, InvHolds, PTL

\* collect hands the pipeline exactly what the call's own session produced: nothing only
\* when the call had none, and never the outcome of a discarded one.
THEOREM CollectIsExact ==
  Spec => []CollectsItsOwn
<1>1. Inv => CollectsItsOwn
  BY DEF Inv, Locked, OutcomeInv, CollectsItsOwn
<1>2. QED  BY <1>1, InvHolds, PTL

\* Whatever fails, a note that still says "transcribing" has a thread, a manager entry,
\* a message or a job that will see to it, and a row at Recording the message that moves
\* or closes it.
THEOREM EverythingIsSeenTo ==
  Spec => []NothingDangles
<1>1. Inv => NothingDangles
  <2> SUFFICES ASSUME Inv PROVE NothingDangles
    OBVIOUS
  <2>0. NoteInv(mgr, note, pipe) /\ RowInv(pipe)
    BY DEF Inv, Locked
  <2>1. \A k, r : Sent(k, r) <=> Queued(pipe, k, r)
    BY SentIsQueued
  <2>2. QED  BY <2>0, <2>1 DEF NothingDangles, NoteInv, RowInv
<1>2. QED  BY <1>1, InvHolds, PTL
=============================================================================
