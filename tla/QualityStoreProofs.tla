------------------------- MODULE QualityStoreProofs -------------------------
(***************************************************************************)
(* Proofs about QualityStore, for any set of attempts, any capture facts   *)
(* and any bounds.                                                         *)
(***************************************************************************)
EXTENDS QualityStore, TLAPS

-----------------------------------------------------------------------------
(* The invariants.                                                          *)

Facts == CaptureFacts \cup Attempts
Values == Snapshot \cup {None}
Before == {"check", "link", "recheck"}
After == {"prepare", "create", "write", "swap", "commit", "undo", "restore", "resync",
          "clean", "release"}
Swapped == {"commit", "undo", "restore", "resync", "release"}
Places == Before \cup After \cup Idle \cup {"open", "wav", "audio", "look", "read", "load"}
CapturePlaces == Before \cup After \cup Idle \cup {"open", "wav", "audio"}
AttemptPlaces == Before \cup After \cup Idle \cup {"look", "read", "load"}

Readings == [frames : 0..MaxFrames \cup {None}, interrupted : BOOLEAN, primary : Values,
             complete : BOOLEAN, settled : (SUBSET Facts) \cup {None}, quality : SUBSET Facts]

FilesOK ==
    /\ dir = [n \in Names |-> dir[n]] /\ options = [n \in Names |-> options[n]]
    /\ \A n \in Names : dir[n] \in options[n]
    /\ options["sidecar"] \subseteq Values /\ options["previous"] \subseteq Values
    /\ options["restore"] \subseteq Values /\ options["pending"] \subseteq Values \cup {Torn}
    /\ options["audio"] \subseteq {None, "wav"}

StateOK ==
    /\ audio \in [frames : 0..MaxFrames, final : BOOLEAN, synced : BOOLEAN]
    /\ known \subseteq CaptureFacts
    /\ store \in Values /\ intent \in {"run", "complete", "abort"}
    /\ pc \in [Processes -> Places]
    /\ pc["capture"] \in CapturePlaces /\ \A a \in Attempts : pc[a] \in AttemptPlaces
    /\ bytes \in [Processes -> Values]
    /\ prior \in [Processes -> BOOLEAN] /\ owned \in [Processes -> BOOLEAN]
    /\ loaded \in [Attempts -> Readings]
    /\ acked \in [phase : {"none", "in_progress", "finalizing", "audio_durable"},
                  frames : 0..MaxFrames, facts : SUBSET Facts]
    /\ faults \in 0..MaxFaults /\ crashes \in 0..MaxCrashes

TypeInv == FilesOK /\ StateOK

\* p holds the copy of the prior record; p owns the pending file.
Holds(p) == pc[p] \in After /\ prior[p]
Owns(p) == pc[p] \in After /\ owned[p]

\* A record of the capture writer.
Kind(s) == /\ s \in Snapshot
           /\ s.phase \in {"in_progress", "finalizing", "audio_durable"}
           /\ s.frames \in 0..MaxFrames

\* Who is where holds what.
Place(p) ==
    /\ pc[p] \in Before \cup {"prepare", "create", "restore"} => ~owned[p]
    /\ pc[p] \in {"write", "swap"} => owned[p]
    /\ pc[p] \in Swapped => owned[p] = ~prior[p]
    /\ pc[p] \in {"prepare", "restore"} => prior[p]
    /\ pc[p] = "recheck" => p # "capture" /\ ~prior[p]
    /\ pc[p] = "link" /\ p = "capture" => prior[p]
    /\ p # "capture" /\ pc[p] \in Before \cup {"idle", "look", "read", "load"} => ~prior[p]
    /\ pc[p] \in After \ {"prepare", "clean"} => bytes[p] \in Snapshot
    /\ pc[p] = "recheck" => bytes[p] \in Snapshot
    /\ p = "capture" /\ pc[p] \in Before \cup After => Kind(bytes[p])
    /\ p = "capture" /\ pc[p] \in {"open", "wav", "audio"} => Kind(store)
    /\ pc[p] \in {"idle", "look", "read", "load", "open", "wav", "audio"} => ~owned[p]

PlaceInv == \A p \in Processes : Place(p)

FileInv ==
    /\ \A p \in Processes : /\ Holds(p) => dir["previous"] \in Snapshot
                            /\ Owns(p) => dir["pending"] # None
                            /\ pc[p] = "swap" => dir["pending"] = bytes[p]
                            /\ pc[p] = "restore" => dir["restore"] = dir["previous"]
    /\ \A p, q \in Processes : Holds(p) /\ Holds(q) => p = q
    /\ \A p, q \in Processes : Owns(p) /\ Owns(q) => p = q

Struct == TypeInv /\ PlaceInv /\ FileInv

\* As long as nothing failed, each transaction file has its owner.
Attended ==
    faults = 0 /\ crashes = 0 =>
      /\ dir["previous"] # None => \E p \in Processes : Holds(p)
      /\ dir["pending"] # None => \E p \in Processes : Owns(p)
      /\ dir["restore"] = None
      /\ \A p \in Processes : pc[p] \notin {"undo", "restore", "resync"}

\* The capture writer: what it last published, and what it is publishing.
Captured == acked.phase # "none"
Publishing == pc["capture"] \in Before \cup After

WriterInv ==
    /\ pc["capture"] \in {"open", "wav", "audio"} =>
         /\ Captured /\ store \in Snapshot /\ store.settled = None /\ store.quality = known
         /\ store.phase = acked.phase /\ store.frames = acked.frames
         /\ acked.frames <= audio.frames
    /\ pc["capture"] = "open" => intent = "run" /\ acked.phase = "in_progress"
    /\ Publishing =>
         /\ bytes["capture"] \in Snapshot /\ bytes["capture"].quality = known
         /\ bytes["capture"].phase \in {"in_progress", "finalizing", "audio_durable"}
         /\ Rank(bytes["capture"].phase) >= Rank(acked.phase)
         /\ bytes["capture"].frames \in acked.frames .. audio.frames
         /\ intent = "run" => bytes["capture"].phase = "in_progress"
         /\ prior["capture"] = Captured
    /\ pc["capture"] = "done" => Captured
    /\ pc["capture"] = "idle" => ~Captured /\ known = {} /\ acked.frames = 0 /\ intent = "run"

\* Until the first record is acknowledged there is no recording to transcribe.
Beginning ==
    ~Captured /\ pc["capture"] \notin {"off", "failed"} =>
      /\ acked.facts = {} /\ \A a \in Attempts : pc[a] = "idle"
      /\ options["audio"] = {None} /\ options["previous"] = {None}
      /\ pc["capture"] \in {"idle", "check", "create", "write", "swap"}
            => options["sidecar"] = {None}
      /\ pc["capture"] = "commit" => dir["sidecar"] = bytes["capture"]
      /\ pc["capture"] = "release" => options["sidecar"] = {bytes["capture"]}

\* A record that has everything calls have promised.
Good(s) ==
    /\ s \in Snapshot
    /\ acked.facts \subseteq History(s)
    /\ Rank(s.phase) >= Rank(acked.phase)
    /\ s.frames \in acked.frames .. MaxFrames
    /\ s.quality \subseteq known

\* Where the publication of p stands.
Stage(p) ==
    /\ pc[p] # "recheck"
    /\ pc[p] \in After => prior[p]
    /\ pc[p] \in {"prepare", "create", "write", "swap", "clean", "release"}
          => options["sidecar"] = {dir["sidecar"]}
    /\ pc[p] \in {"prepare", "create", "write", "swap", "resync"}
          => dir["sidecar"] = dir["previous"]
    /\ pc[p] \in {"create", "write", "swap", "commit", "undo", "restore", "resync", "release"}
          => options["previous"] = {dir["previous"]} /\ Good(dir["previous"])
    /\ pc[p] \in {"create", "write", "swap", "commit", "release"}
          => Good(bytes[p]) /\ Preserves(bytes[p], dir["previous"])
    /\ pc[p] \in {"commit", "release"} => dir["sidecar"] = bytes[p]

\* Whatever a power failure leaves is such a record, and preserves what it replaces.
Safe ==
    /\ \A s \in options["sidecar"] : Good(s)
    /\ \A s \in options["sidecar"], v \in options["previous"] : v # None => Preserves(s, v)
    /\ dir["previous"] = None => options["sidecar"] = {dir["sidecar"]}

Kept == Captured => Safe /\ \A p \in Processes : Stage(p)

\* Certificates.
Durable(v) == v \in Snapshot /\ v.phase = "audio_durable"
TellsAll(v) == known \subseteq v.quality /\ (v.settled # None => known \subseteq v.settled)
Fair(v) == Durable(v) => Durable(bytes["capture"]) /\ TellsAll(v)

\* A writer that finishes has a WAV, and finalizes it before it syncs it.
Recorded ==
    /\ pc["capture"] \in {"wav", "audio"} \/ (Publishing /\ intent # "run") => dir["audio"] = "wav"
    /\ pc["capture"] = "audio" => audio.final

Sealed ==
    Durable(bytes["capture"]) =>
      /\ Captured /\ audio.final /\ audio.synced /\ options["audio"] = {"wav"}
      /\ pc["capture"] \in Before \cup After \cup {"done", "failed", "off"}

Honest ==
    /\ \A n \in Names \ {"audio"} : \A v \in options[n] : Fair(v)
    /\ \A p \in Processes : Fair(bytes[p])
    /\ \A a \in Attempts : /\ Fair(loaded[a].primary)
                           /\ loaded[a].complete => /\ Durable(bytes["capture"])
                                                    /\ known \subseteq loaded[a].quality

\* A certificate is in the files only if the capture's last publication put it there.
Copied == \/ \E n \in {"previous", "restore"} : \E v \in options[n] : Durable(v)
          \/ \E a \in Attempts : Durable(bytes[a])
Shown == Copied \/ \E v \in options["sidecar"] : Durable(v)
Barred == None \notin options["previous"] /\ \A p \in Processes : ~Holds(p)

Withheld ==
    /\ Shown => \/ pc["capture"] \in Swapped \cup {"done", "off"}
                \/ pc["capture"] = "failed" /\ Barred
    /\ pc["capture"] \in Swapped => ~Copied

-----------------------------------------------------------------------------
(* The operators the store is built from.                                   *)

\* The phases are told apart by their rank.
LEMMA Ranks ==
    /\ Rank("none") = 1 /\ Rank("legacy_unknown") = 2 /\ Rank("in_progress") = 3
    /\ Rank("finalizing") = 4 /\ Rank("audio_durable") = 5
  <1>. DOMAIN Phases = 1..5
    BY DEF Phases
  <1>. /\ Phases[1] = "none" /\ Phases[2] = "legacy_unknown" /\ Phases[3] = "in_progress"
       /\ Phases[4] = "finalizing" /\ Phases[5] = "audio_durable"
    BY DEF Phases
  <1>1. \A i, j \in 1..5 : Phases[i] = Phases[j] => i = j
    OBVIOUS
  <1>2. \A i \in 1..5 : Rank(Phases[i]) = i
    BY <1>1 DEF Rank
  <1>. QED
    BY <1>2

LEMMA RecordPhases ==
    {Phases[i] : i \in 2..5} = {"legacy_unknown", "in_progress", "finalizing", "audio_durable"}
  <1>. /\ Phases[2] = "legacy_unknown" /\ Phases[3] = "in_progress"
       /\ Phases[4] = "finalizing" /\ Phases[5] = "audio_durable"
    BY DEF Phases
  <1>. 2..5 = {2, 3, 4, 5}
    OBVIOUS
  <1>. QED
    OBVIOUS

\* A record is told apart from no file and from a torn one.
LEMMA RecordIsWhole ==
    /\ None # Torn /\ None # "wav" /\ None \notin Snapshot /\ Torn \notin Snapshot
    /\ \A s \in Snapshot : Whole(s)
    /\ \A facts \in SUBSET Facts : facts # None
  BY ValueAssumption DEF Whole, Facts

LEMMA RecordFields ==
    ASSUME NEW s \in Snapshot
    PROVE  /\ s.phase \in {"legacy_unknown", "in_progress", "finalizing", "audio_durable"}
           /\ s.frames \in 0..MaxFrames \cup {None}
           /\ s.quality \subseteq CaptureFacts
           /\ s.settled \in (SUBSET Facts) \cup {None}
           /\ s.settled # None => s.settled \subseteq Facts
  <1>1. s.settled \in (SUBSET Facts) \cup {None}
    BY DEF Snapshot, Facts
  <1>2. s.settled # None => s.settled \subseteq Facts
    BY <1>1, Zenon
  <1>3. /\ s.phase \in {"legacy_unknown", "in_progress", "finalizing", "audio_durable"}
        /\ s.frames \in 0..MaxFrames \cup {None}
        /\ s.quality \subseteq CaptureFacts
    BY RecordPhases DEF Snapshot
  <1>. QED
    BY <1>1, <1>2, <1>3

LEMMA RecordIs ==
    ASSUME NEW s \in Snapshot
    PROVE  s = [phase |-> s.phase, frames |-> s.frames, quality |-> s.quality,
                settled |-> s.settled]
  BY RecordPhases DEF Snapshot, Facts

LEMMA RecordMade ==
    ASSUME NEW phase \in {"legacy_unknown", "in_progress", "finalizing", "audio_durable"},
           NEW frames \in 0..MaxFrames \cup {None}, NEW quality \in SUBSET CaptureFacts,
           NEW settled \in (SUBSET Facts) \cup {None}
    PROVE  [phase |-> phase, frames |-> frames, quality |-> quality, settled |-> settled]
             \in Snapshot
  BY RecordPhases DEF Snapshot, Facts

\* Setting the settled history of a record leaves the rest of it.
LEMMA Resettled ==
    ASSUME NEW s \in Snapshot, NEW settled \in (SUBSET Facts) \cup {None}
    PROVE  LET t == [s EXCEPT !.settled = settled]
           IN  /\ t \in Snapshot /\ t.settled = settled
               /\ t.phase = s.phase /\ t.frames = s.frames /\ t.quality = s.quality
  <1>1. [s EXCEPT !.settled = settled] =
          [phase |-> s.phase, frames |-> s.frames, quality |-> s.quality, settled |-> settled]
    BY RecordIs
  <1>2. [phase |-> s.phase, frames |-> s.frames, quality |-> s.quality, settled |-> settled]
          \in Snapshot
    BY RecordFields, RecordMade
  <1>. QED
    BY <1>1, <1>2

\* The records the writer makes.
LEMMA KindIs ==
    ASSUME NEW phase \in {"in_progress", "finalizing", "audio_durable"},
           NEW frames \in 0..MaxFrames, NEW quality \in SUBSET CaptureFacts
    PROVE  /\ Kind(Record(phase, frames, quality))
           /\ Record(phase, frames, quality).phase = phase
           /\ Record(phase, frames, quality).frames = frames
           /\ Record(phase, frames, quality).quality = quality
           /\ Record(phase, frames, quality).settled = None
  BY RecordMade DEF Kind, Record

LEMMA PreservesReflexive ==
    ASSUME NEW s \in Snapshot PROVE Preserves(s, s)
  BY DEF Preserves

\* What the writer or an attempt makes of the record it has linked is a record that
\* preserves it.
LEMMA PreparedRecord ==
    ASSUME NEW p \in Processes, NEW old \in Snapshot, TypeInv,
           p = "capture" => bytes[p] \in Snapshot, Prepared(p, old) # None
    PROVE  LET next == Prepared(p, old)
           IN  /\ next \in Snapshot
               /\ p = "capture" => /\ next.phase = bytes[p].phase /\ next.frames = bytes[p].frames
                                   /\ next.quality = bytes[p].quality
               /\ p # "capture" => /\ next.phase = old.phase /\ next.frames = old.frames
                                   /\ next.quality = old.quality
               /\ old.quality \subseteq next.quality =>
                     Preserves(next, old) /\ History(old) \subseteq History(next)
               /\ p = "capture" /\ next.settled # None => next.quality \subseteq next.settled
  <1>1. CASE p = "capture"
    <2>. DEFINE settled == IF old.settled = None THEN None ELSE old.settled \cup bytes[p].quality
    <2>1. settled \in (SUBSET Facts) \cup {None}
      BY <1>1, RecordFields DEF Facts
    <2>2. Prepared(p, old) = [bytes[p] EXCEPT !.settled = settled]
      BY <1>1 DEF Prepared
    <2>3. /\ Prepared(p, old) \in Snapshot /\ Prepared(p, old).settled = settled
          /\ Prepared(p, old).phase = bytes[p].phase /\ Prepared(p, old).frames = bytes[p].frames
          /\ Prepared(p, old).quality = bytes[p].quality
      <3>. HIDE DEF settled
      <3>1. bytes[p] \in Snapshot
        BY <1>1
      <3>. QED
        BY <3>1, <2>1, <2>2, Resettled
    <2>4. old.settled # None => settled # None
      <3>1. SUFFICES ASSUME old.settled # None PROVE settled # None
        OBVIOUS
      <3>2. old.settled \cup bytes[p].quality \in SUBSET Facts
        <4>1. old.settled \in SUBSET Facts
          BY <3>1, RecordFields
        <4>2. bytes[p].quality \subseteq CaptureFacts
          BY <1>1, RecordFields
        <4>. QED
          BY <4>1, <4>2 DEF Facts
      <3>. QED
        BY <3>1, <3>2, RecordIsWhole, Zenon
    <2>5. Prepared(p, old) # None /\ old # None
      BY RecordIsWhole
    <2>. HIDE DEF settled
    <2>6. old.settled = None => settled = None
      BY DEF settled
    <2>7. old.settled # None => settled = old.settled \cup bytes[p].quality
      BY DEF settled
    <2>. QED
      BY <1>1, <2>3, <2>4, <2>5, <2>6, <2>7 DEF Preserves, History
  <1>2. CASE p # "capture"
    <2>1. p \in Attempts /\ loaded[p].quality \in SUBSET Facts
      BY <1>2 DEF Processes, TypeInv, StateOK, Readings
    <2>2. /\ History(old) \subseteq loaded[p].quality
          /\ Prepared(p, old) = [old EXCEPT !.settled = loaded[p].quality]
      BY <1>2 DEF Prepared
    <2>3. /\ Prepared(p, old) \in Snapshot /\ Prepared(p, old).settled = loaded[p].quality
          /\ Prepared(p, old).phase = old.phase /\ Prepared(p, old).frames = old.frames
          /\ Prepared(p, old).quality = old.quality
      BY <2>1, <2>2, Resettled
    <2>4. loaded[p].quality # None /\ Prepared(p, old) # None /\ old # None
      BY <2>1, RecordIsWhole
    <2>. QED
      BY <1>2, <2>2, <2>3, <2>4 DEF Preserves, History
  <1>. QED
    BY <1>1, <1>2

-----------------------------------------------------------------------------
(* What a step does to the directory.                                       *)

LEMMA NamesAre == Names = {"pending", "previous", "restore", "sidecar", "audio"}
  BY DEF Names, Temporaries

LEMMA SetNameEffect ==
    ASSUME NEW x \in Names, NEW v, SetName(x, v)
    PROVE  /\ dir'[x] = v /\ options'[x] = options[x] \cup {v}
           /\ \A n \in Names \ {x} : dir'[n] = dir[n] /\ options'[n] = options[n]
           /\ dir' = [n \in Names |-> dir'[n]] /\ options' = [n \in Names |-> options'[n]]
  BY DEF SetName, Becomes

LEMMA RenameEffect ==
    ASSUME NEW x \in Names, NEW y \in Names, x # y, Rename(x, y)
    PROVE  /\ dir'[x] = None /\ options'[x] = options[x] \cup {None}
           /\ dir'[y] = dir[x] /\ options'[y] = options[y] \cup {dir[x]}
           /\ \A n \in Names \ {x, y} : dir'[n] = dir[n] /\ options'[n] = options[n]
           /\ dir' = [n \in Names |-> dir'[n]] /\ options' = [n \in Names |-> options'[n]]
  BY DEF Rename, Becomes

LEMMA SyncEffect ==
    ASSUME FilesOK, SyncParent
    PROVE  /\ dir' = dir
           /\ \A n \in Names : options'[n] = {dir[n]} /\ options'[n] \subseteq options[n]
           /\ options' = [n \in Names |-> options'[n]]
  BY DEF SyncParent, FilesOK

LEMMA SetNameFiles ==
    ASSUME FilesOK, NEW x \in Names, NEW v, SetName(x, v),
           x \in {"sidecar", "previous", "restore"} => v \in Values,
           x = "pending" => v \in Values \cup {Torn},
           x = "audio" => v \in {None, "wav"}
    PROVE  FilesOK'
  BY SetNameEffect, NamesAre DEF FilesOK

LEMMA RenameFiles ==
    ASSUME FilesOK, NEW x \in {"pending", "restore"}, Rename(x, "sidecar"), dir[x] \in Values
    PROVE  FilesOK'
  <1>1. x \in Names /\ "sidecar" \in Names /\ x # "sidecar" /\ None \in Values
    BY NamesAre DEF Values
  <1>. QED
    BY <1>1, RenameEffect, NamesAre DEF FilesOK

LEMMA SyncFiles ==
    ASSUME FilesOK, SyncParent
    PROVE  FilesOK'
  BY SyncEffect, NamesAre DEF FilesOK

\* After a power failure every name has one of its values.
PowerFails ==
    /\ \A n \in Names : dir'[n] \in options[n] /\ options'[n] = {dir'[n]}
    /\ dir' = [n \in Names |-> dir'[n]] /\ options' = [n \in Names |-> options'[n]]

LEMMA PowerEffect ==
    ASSUME PowerFailure
    PROVE  PowerFails
  <1>1. PICK sidecar \in options["sidecar"], pending \in options["pending"],
             previous \in options["previous"], restore \in options["restore"],
             wav \in options["audio"] :
          dir' = [sidecar |-> sidecar, pending |-> pending, previous |-> previous,
                  restore |-> restore, audio |-> wav]
    BY DEF PowerFailure
  <1>2. DOMAIN dir' = Names
    BY <1>1, NamesAre
  <1>3. dir' = [n \in Names |-> dir'[n]]
    BY <1>1, <1>2
  <1>4. options' = [n \in Names |-> {dir'[n]}]
    BY DEF PowerFailure
  <1>5. /\ dir'["sidecar"] \in options["sidecar"] /\ dir'["pending"] \in options["pending"]
        /\ dir'["previous"] \in options["previous"] /\ dir'["restore"] \in options["restore"]
        /\ dir'["audio"] \in options["audio"]
    BY <1>1
  <1>. QED
    BY <1>3, <1>4, <1>5, NamesAre DEF PowerFails

LEMMA PowerFiles ==
    ASSUME FilesOK, PowerFails
    PROVE  FilesOK'
  BY NamesAre DEF FilesOK, PowerFails

-----------------------------------------------------------------------------
(* Who is where.                                                            *)

\* The step of p leaves the others alone.
Others(p) ==
    /\ \A q \in Processes \ {p} : /\ pc'[q] = pc[q] /\ prior'[q] = prior[q]
                                  /\ owned'[q] = owned[q] /\ bytes'[q] = bytes[q]
    /\ p # "capture" => store' = store

LEMMA FaultCount ==
    ASSUME StateOK, Works \/ Fails
    PROVE  faults' \in 0..MaxFaults
  BY StoreAssumption DEF StateOK, Works, Fails

LEMMA AbandonState ==
    ASSUME StateOK, NEW p \in Processes, Abandon(p), Works \/ Fails
    PROVE  /\ StateOK' /\ Others(p) /\ pc'[p] = "failed"
           /\ bytes' = bytes /\ prior' = prior /\ owned' = owned
  <1>1. faults' \in 0..MaxFaults
    BY FaultCount
  <1>2. audio' \in [frames : 0..MaxFrames, final : BOOLEAN, synced : BOOLEAN]
    <2>1. audio \in [frames : 0..MaxFrames, final : BOOLEAN, synced : BOOLEAN]
      BY DEF StateOK
    <2>2. \A b \in BOOLEAN : [audio EXCEPT !.final = b]
                               \in [frames : 0..MaxFrames, final : BOOLEAN, synced : BOOLEAN]
      BY <2>1
    <2>3. (dir["audio"] # None) \in BOOLEAN
      OBVIOUS
    <2>. QED
      BY <2>1, <2>2, <2>3 DEF Abandon
  <1>3. pc \in [Processes -> Places] /\ pc' = [pc EXCEPT ![p] = "failed"]
    BY DEF StateOK, Abandon, Goto
  <1>4. /\ pc' \in [Processes -> Places] /\ pc'["capture"] \in CapturePlaces
        /\ \A a \in Attempts : pc'[a] \in AttemptPlaces
    BY <1>3 DEF StateOK, Places, CapturePlaces, AttemptPlaces, Idle, Processes
  <1>5. UNCHANGED <<known, store, intent, bytes, prior, owned, loaded, acked, crashes>>
    BY DEF Abandon
  <1>6. StateOK'
    BY <1>1, <1>2, <1>4, <1>5 DEF StateOK
  <1>. QED
    BY <1>3, <1>5, <1>6 DEF Others

LEMMA ProceedState ==
    ASSUME StateOK, NEW p \in Processes, NEW place \in Before \cup After, Proceed(p, place),
           Works \/ Fails,
           NEW b \in Values, bytes' = [bytes EXCEPT ![p] = b] \/ (bytes' = bytes /\ b = bytes[p]),
           NEW h \in BOOLEAN, prior' = [prior EXCEPT ![p] = h] \/ (prior' = prior /\ h = prior[p]),
           NEW o \in BOOLEAN, owned' = [owned EXCEPT ![p] = o] \/ (owned' = owned /\ o = owned[p])
    PROVE  /\ StateOK' /\ Others(p) /\ pc'[p] = place
           /\ bytes'[p] = b /\ prior'[p] = h /\ owned'[p] = o
  <1>1. faults' \in 0..MaxFaults
    BY FaultCount
  <1>2. pc \in [Processes -> Places] /\ pc' = [pc EXCEPT ![p] = place]
    BY DEF StateOK, Proceed, Goto
  <1>3. /\ pc' \in [Processes -> Places] /\ pc'["capture"] \in CapturePlaces
        /\ \A a \in Attempts : pc'[a] \in AttemptPlaces
    BY <1>2 DEF StateOK, Places, CapturePlaces, AttemptPlaces, Processes
  <1>4. bytes' \in [Processes -> Values] /\ bytes'[p] = b
        /\ \A q \in Processes \ {p} : bytes'[q] = bytes[q]
    BY DEF StateOK
  <1>5. prior' \in [Processes -> BOOLEAN] /\ prior'[p] = h
        /\ \A q \in Processes \ {p} : prior'[q] = prior[q]
    BY DEF StateOK
  <1>6. owned' \in [Processes -> BOOLEAN] /\ owned'[p] = o
        /\ \A q \in Processes \ {p} : owned'[q] = owned[q]
    BY DEF StateOK
  <1>7. UNCHANGED <<captureVars, loaded, acked, crashes>>
    BY DEF Proceed
  <1>8. StateOK'
    BY <1>1, <1>3, <1>4, <1>5, <1>6, <1>7 DEF StateOK, captureVars
  <1>. QED
    BY <1>2, <1>4, <1>5, <1>6, <1>7, <1>8 DEF Others, captureVars

LEMMA PlaceStep ==
    ASSUME PlaceInv, NEW p \in Processes, Others(p), Place(p)'
    PROVE  PlaceInv'
  BY DEF PlaceInv, Place, Others

LEMMA AbandonPlaces ==
    ASSUME StateOK, PlaceInv, NEW p \in Processes, Abandon(p), Works \/ Fails
    PROVE  PlaceInv'
  <1>1. Others(p) /\ pc'[p] = "failed"
    BY AbandonState
  <1>2. Place(p)'
    BY <1>1 DEF Place, Before, After, Swapped
  <1>. QED
    BY <1>1, <1>2, PlaceStep

\* The files of the others stay what they are when a step of p touches only what p holds or
\* owns, or what nobody does.
LEMMA FileStep ==
    ASSUME PlaceInv, FileInv, NEW p \in Processes, Others(p),
           Holds(p)' => /\ dir'["previous"] \in Snapshot
                        /\ Holds(p) \/ \A q \in Processes : ~Holds(q),
           Owns(p)' => /\ dir'["pending"] # None
                       /\ Owns(p) \/ \A q \in Processes : ~Owns(q),
           pc'[p] = "swap" => dir'["pending"] = bytes'[p],
           pc'[p] = "restore" => dir'["restore"] = dir'["previous"],
           dir'["previous"] = dir["previous"] \/ Holds(p) \/ \A q \in Processes : ~Holds(q),
           dir'["pending"] = dir["pending"] \/ Owns(p) \/ \A q \in Processes : ~Owns(q),
           dir'["restore"] = dir["restore"] \/ Holds(p)
    PROVE  FileInv'
  <1>1. \A q \in Processes \ {p} : (Holds(q)' <=> Holds(q)) /\ (Owns(q)' <=> Owns(q))
    BY DEF Others, Holds, Owns
  <1>2. \A q \in Processes : /\ pc[q] = "swap" => Owns(q)
                             /\ pc[q] = "restore" => Holds(q)
    BY DEF PlaceInv, Place, Owns, Holds, After
  <1>3. ASSUME NEW q \in Processes \ {p}
        PROVE  /\ Holds(q)' => dir'["previous"] \in Snapshot /\ ~Holds(p)'
               /\ Owns(q)' => dir'["pending"] # None /\ ~Owns(p)'
               /\ pc'[q] = "swap" => dir'["pending"] = bytes'[q]
               /\ pc'[q] = "restore" => dir'["restore"] = dir'["previous"]
    <2>1. Holds(q) => dir'["previous"] = dir["previous"] /\ dir'["restore"] = dir["restore"]
      BY DEF FileInv
    <2>2. Owns(q) => dir'["pending"] = dir["pending"]
      BY DEF FileInv
    <2>3. pc'[q] = pc[q] /\ bytes'[q] = bytes[q]
      BY DEF Others
    <2>4. (Holds(q)' => ~Holds(p)') /\ (Owns(q)' => ~Owns(p)')
      BY <1>1 DEF FileInv
    <2>. QED
      BY <1>1, <1>2, <2>1, <2>2, <2>3, <2>4 DEF FileInv
  <1>4. ASSUME NEW q \in Processes, NEW r \in Processes
        PROVE  /\ Holds(q)' /\ Holds(r)' => q = r
               /\ Owns(q)' /\ Owns(r)' => q = r
    BY <1>1, <1>3 DEF FileInv
  <1>5. ASSUME NEW q \in Processes
        PROVE  /\ Holds(q)' => dir'["previous"] \in Snapshot
               /\ Owns(q)' => dir'["pending"] # None
               /\ pc'[q] = "swap" => dir'["pending"] = bytes'[q]
               /\ pc'[q] = "restore" => dir'["restore"] = dir'["previous"]
    BY <1>3
  <1>. QED
    BY <1>4, <1>5 DEF FileInv

LEMMA SameFiles ==
    ASSUME FilesOK, UNCHANGED fileVars
    PROVE  FilesOK' /\ dir' = dir /\ options' = options
  BY DEF FilesOK, fileVars

LEMMA AbandonStruct ==
    ASSUME Struct, NEW p \in Processes, Abandon(p), Works \/ Fails, UNCHANGED fileVars
    PROVE  Struct'
  <1>1. StateOK' /\ Others(p) /\ pc'[p] = "failed" /\ bytes' = bytes
    BY AbandonState DEF Struct, TypeInv
  <1>2. PlaceInv'
    BY AbandonPlaces DEF Struct, TypeInv
  <1>3. FilesOK' /\ dir' = dir
    BY SameFiles DEF Struct, TypeInv
  <1>4. FileInv'
    BY <1>1, <1>3, FileStep DEF Struct, Holds, Owns, After
  <1>. QED
    BY <1>1, <1>2, <1>3, <1>4 DEF Struct, TypeInv

LEMMA PlainState ==
    ASSUME StateOK, NEW p \in Processes, NEW place \in Before \cup After, Proceed(p, place),
           Works \/ Fails, UNCHANGED <<bytes, prior, owned>>
    PROVE  StateOK' /\ Others(p) /\ pc'[p] = place
  <1>1. bytes[p] \in Values /\ prior[p] \in BOOLEAN /\ owned[p] \in BOOLEAN
    BY DEF StateOK
  <1>. QED
    BY <1>1, ProceedState

\* One conclusion for every step of a publication.
Stepped(p) == Struct' /\ Others(p)

LEMMA CheckStruct ==
    ASSUME Struct, NEW p \in Processes, Check(p)
    PROVE  Stepped(p)
  <1>. DEFINE place == IF pc[p] = "recheck" \/ (p = "capture" /\ ~prior[p])
                       THEN "create" ELSE "link"
  <1>1. CASE Abandon(p)
    BY <1>1, AbandonStruct, AbandonState DEF Check, Stepped, Struct, TypeInv
  <1>2. CASE Proceed(p, place) /\ UNCHANGED <<bytes, prior, owned>>
    <2>1. place \in Before \cup After
      BY DEF Before, After
    <2>2. StateOK' /\ Others(p) /\ pc'[p] = place
      BY <1>2, <2>1, PlainState DEF Check, Struct, TypeInv
    <2>3. FilesOK' /\ dir' = dir
      BY SameFiles DEF Check, Struct, TypeInv
    <2>4. Place(p) /\ pc[p] \in {"check", "recheck"}
      BY DEF Struct, PlaceInv, Check
    <2>5. p = "capture" /\ pc[p] = "check" /\ ~prior[p] => bytes[p] \in Snapshot
      BY <2>4 DEF Place, Before, Kind
    <2>6. Place(p)'
      BY <1>2, <2>2, <2>4, <2>5 DEF Place, Before, After, Swapped
    <2>7. ~Holds(p)' /\ ~Owns(p)' /\ pc'[p] \notin {"swap", "restore"}
      BY <1>2, <2>2, <2>4 DEF Holds, Owns, Place, Before, After
    <2>8. FileInv'
      BY <2>2, <2>3, <2>7, FileStep DEF Struct
    <2>. QED
      BY <2>2, <2>3, <2>6, <2>8, PlaceStep DEF Struct, TypeInv, Stepped
  <1>. QED
    BY <1>1, <1>2 DEF Check

LEMMA LinkStruct ==
    ASSUME Struct, NEW p \in Processes, Link(p)
    PROVE  Stepped(p)
  <1>. Place(p) /\ pc[p] = "link"
    BY DEF Struct, PlaceInv, Link
  <1>0. FilesOK /\ StateOK /\ PlaceInv /\ FileInv
    BY DEF Struct, TypeInv
  <1>1. CASE /\ dir["sidecar"] # None /\ dir["previous"] = None
             /\ Works /\ SetName("previous", dir["sidecar"])
             /\ prior' = [prior EXCEPT ![p] = TRUE]
             /\ Proceed(p, "prepare") /\ UNCHANGED <<bytes, owned>>
    <2>1. dir["sidecar"] \in Snapshot /\ dir["sidecar"] \in Values
      BY <1>0, <1>1, NamesAre DEF FilesOK, Values
    <2>2. bytes[p] \in Values /\ owned[p] \in BOOLEAN /\ "prepare" \in Before \cup After
      BY <1>0 DEF StateOK, After
    <2>3. StateOK' /\ Others(p) /\ pc'[p] = "prepare" /\ bytes'[p] = bytes[p] /\ prior'[p] = TRUE
          /\ owned'[p] = owned[p]
      BY <1>0, <1>1, <2>2, ProceedState
    <2>4. FilesOK'
      BY <1>0, <1>1, <2>1, SetNameFiles, NamesAre
    <2>5. dir'["previous"] = dir["sidecar"] /\ dir'["pending"] = dir["pending"]
          /\ dir'["restore"] = dir["restore"]
      BY <1>1, SetNameEffect, NamesAre
    <2>6. Place(p)'
      BY <2>3 DEF Place, Before, After, Swapped
    <2>7. \A q \in Processes : ~Holds(q)
      BY <1>0, <1>1, RecordIsWhole DEF FileInv
    <2>8. ~Owns(p)'
      BY <2>3 DEF Owns, Place, Before
    <2>9. FileInv'
      BY <1>0, <2>1, <2>3, <2>5, <2>7, <2>8, FileStep
    <2>. QED
      BY <1>0, <2>3, <2>4, <2>6, <2>9, PlaceStep DEF Struct, TypeInv, Stepped
  <1>2. CASE /\ p # "capture" /\ Works /\ UNCHANGED fileVars
             /\ bytes' = [bytes EXCEPT ![p] = [phase |-> "legacy_unknown", frames |-> None,
                                               quality |-> {}, settled |-> loaded[p].quality]]
             /\ Proceed(p, "recheck") /\ UNCHANGED <<prior, owned>>
    <2>. DEFINE b == [phase |-> "legacy_unknown", frames |-> None,
                      quality |-> {}, settled |-> loaded[p].quality]
    <2>1. p \in Attempts /\ loaded[p].quality \in (SUBSET Facts) \cup {None}
      BY <1>0, <1>2 DEF StateOK, Processes, Readings
    <2>2. b \in Snapshot
      BY <2>1, RecordMade
    <2>. HIDE DEF b
    <2>3. b \in Values /\ prior[p] \in BOOLEAN /\ owned[p] \in BOOLEAN
          /\ "recheck" \in Before \cup After
      BY <1>0, <2>2 DEF StateOK, Before, Values
    <2>4. /\ bytes' = [bytes EXCEPT ![p] = b] /\ Proceed(p, "recheck") /\ Works
          /\ prior' = prior /\ owned' = owned
      BY <1>2 DEF b
    <2>5. StateOK' /\ Others(p) /\ pc'[p] = "recheck" /\ bytes'[p] = b /\ prior'[p] = prior[p]
          /\ owned'[p] = owned[p]
      BY <1>0, <2>3, <2>4, ProceedState
    <2>6. FilesOK' /\ dir' = dir
      BY <1>0, <1>2, SameFiles
    <2>7. Place(p)'
      BY <1>2, <2>2, <2>5 DEF Place, Before, After, Swapped
    <2>8. ~Owns(p)' /\ ~Holds(p)' /\ pc'[p] \notin {"swap", "restore"}
      BY <2>5 DEF Owns, Holds, After
    <2>9. FileInv'
      BY <1>0, <2>5, <2>6, <2>8, FileStep
    <2>. QED
      BY <1>0, <2>5, <2>6, <2>7, <2>9, PlaceStep DEF Struct, TypeInv, Stepped
  <1>3. CASE Abandon(p) /\ UNCHANGED fileVars /\ (Works \/ Fails)
    BY <1>0, <1>3, AbandonStruct, AbandonState DEF Stepped
  <1>. QED
    BY <1>1, <1>2, <1>3 DEF Link

LEMMA PrepareStruct ==
    ASSUME Struct, NEW p \in Processes, Prepare(p)
    PROVE  Stepped(p)
  <1>. Place(p) /\ pc[p] = "prepare"
    BY DEF Struct, PlaceInv, Prepare
  <1>0. FilesOK /\ StateOK /\ PlaceInv /\ FileInv
    BY DEF Struct, TypeInv
  <1>. DEFINE next == Prepared(p, dir["previous"])
  <1>1. Holds(p) /\ dir["previous"] \in Snapshot /\ ~owned[p] /\ prior[p]
    BY <1>0 DEF Holds, Place, After, FileInv
  <1>2. p = "capture" => Kind(bytes[p]) /\ bytes[p] \in Snapshot
    BY DEF Place, After, Kind
  <1>3. next # None => next \in Snapshot /\ (p = "capture" => Kind(next))
    BY <1>1, <1>2, PreparedRecord DEF Struct, Kind
  <1>4. next \in Values
    BY <1>3 DEF Values
  <1>4a. p = "capture" => next # None
    <2>1. SUFFICES ASSUME p = "capture" PROVE next \in Snapshot
      BY RecordIsWhole
    <2>. DEFINE settled == IF dir["previous"].settled = None THEN None
                           ELSE dir["previous"].settled \cup bytes[p].quality
    <2>2. next = [bytes[p] EXCEPT !.settled = settled]
      BY <2>1 DEF Prepared
    <2>3. settled \in (SUBSET Facts) \cup {None}
      <3>1. bytes[p].quality \subseteq CaptureFacts
        BY <1>2, <2>1, RecordFields
      <3>2. dir["previous"].settled # None => dir["previous"].settled \subseteq Facts
        BY <1>1, RecordFields
      <3>. QED
        BY <3>1, <3>2 DEF Facts
    <2>. HIDE DEF settled
    <2>4. bytes[p] \in Snapshot
      BY <1>2, <2>1
    <2>. QED
      BY <2>2, <2>3, <2>4, Resettled
  <1>. HIDE DEF next
  <1>5. CASE Works /\ SyncParent /\ bytes' = [bytes EXCEPT ![p] = next] /\ UNCHANGED <<prior, owned>>
             /\ Proceed(p, IF next = None THEN "clean" ELSE "create")
    <2>. DEFINE place == IF next = None THEN "clean" ELSE "create"
    <2>1. prior[p] \in BOOLEAN /\ owned[p] \in BOOLEAN /\ place \in Before \cup After
      BY <1>0 DEF StateOK, After
    <2>2. StateOK' /\ Others(p) /\ pc'[p] = place /\ bytes'[p] = next /\ prior'[p] = prior[p]
          /\ owned'[p] = owned[p]
      BY <1>0, <1>4, <1>5, <2>1, ProceedState
    <2>3. FilesOK' /\ dir' = dir
      BY <1>0, <1>5, SyncFiles, SyncEffect
    <2>4. Place(p)'
      BY <1>3, <1>4a, <2>2, <1>1 DEF Place, Before, After, Swapped
    <2>5. ~Owns(p)' /\ pc'[p] \notin {"swap", "restore"}
      BY <1>1, <2>2 DEF Owns
    <2>6. FileInv'
      BY <1>0, <1>1, <2>2, <2>3, <2>5, FileStep
    <2>. QED
      BY <1>0, <2>2, <2>3, <2>4, <2>6, PlaceStep DEF Struct, TypeInv, Stepped
  <1>6. CASE Fails /\ UNCHANGED <<fileVars, bytes>> /\ Proceed(p, "clean") /\ UNCHANGED <<prior, owned>>
    <2>1. "clean" \in Before \cup After
      BY DEF After
    <2>2. StateOK' /\ Others(p) /\ pc'[p] = "clean" /\ UNCHANGED <<bytes, prior, owned>>
      BY <1>0, <1>6, <2>1, PlainState
    <2>3. FilesOK' /\ dir' = dir
      BY <1>0, <1>6, SameFiles
    <2>4. Place(p)'
      BY <2>2, <1>1, <1>2 DEF Place, Before, After, Swapped
    <2>5. ~Owns(p)' /\ pc'[p] \notin {"swap", "restore"}
      BY <1>1, <2>2 DEF Owns
    <2>6. FileInv'
      BY <1>0, <1>1, <2>2, <2>3, <2>5, FileStep
    <2>. QED
      BY <1>0, <2>2, <2>3, <2>4, <2>6, PlaceStep DEF Struct, TypeInv, Stepped
  <1>. QED
    BY <1>5, <1>6 DEF Prepare, next

\* The steps that leave all but the place of p, and the files p does not need, alone.
LEMMA PlainStruct ==
    ASSUME Struct, NEW p \in Processes, NEW place \in Before \cup After, Proceed(p, place),
           Works \/ Fails, UNCHANGED <<bytes, prior, owned>>, FilesOK', Place(p)',
           Holds(p)' => Holds(p), Owns(p)' => Owns(p),
           dir'["previous"] = dir["previous"], dir'["pending"] = dir["pending"] \/ Owns(p),
           dir'["restore"] = dir["restore"] \/ Holds(p),
           Owns(p)' => dir'["pending"] # None,
           place = "swap" => dir'["pending"] = bytes[p],
           place = "restore" => dir'["restore"] = dir'["previous"]
    PROVE  Stepped(p)
  <1>0. FilesOK /\ StateOK /\ PlaceInv /\ FileInv
    BY DEF Struct, TypeInv
  <1>1. StateOK' /\ Others(p) /\ pc'[p] = place
    BY <1>0, PlainState
  <1>2. Holds(p)' => dir'["previous"] \in Snapshot
    BY <1>0 DEF FileInv
  <1>3. FileInv'
    BY <1>0, <1>1, <1>2, FileStep
  <1>. QED
    BY <1>0, <1>1, <1>3, PlaceStep DEF Struct, TypeInv, Stepped

LEMMA CreateStruct ==
    ASSUME Struct, NEW p \in Processes, Create(p)
    PROVE  Stepped(p)
  <1>. Place(p) /\ pc[p] = "create"
    BY DEF Struct, PlaceInv, Create
  <1>0. FilesOK /\ StateOK /\ PlaceInv /\ FileInv
    BY DEF Struct, TypeInv
  <1>a. ~owned[p] /\ bytes[p] \in Snapshot /\ pc \in [Processes -> Places]
    BY <1>0 DEF Place, After, StateOK
  <1>1. CASE /\ dir["pending"] = None /\ Works /\ SetName("pending", Torn)
             /\ owned' = [owned EXCEPT ![p] = TRUE] /\ Proceed(p, "write")
             /\ UNCHANGED <<bytes, prior>>
    <2>1. bytes[p] \in Values /\ prior[p] \in BOOLEAN /\ "write" \in Before \cup After
      BY <1>0 DEF StateOK, After
    <2>2. StateOK' /\ Others(p) /\ pc'[p] = "write" /\ bytes'[p] = bytes[p]
          /\ prior'[p] = prior[p] /\ owned'[p] = TRUE
      BY <1>0, <1>1, <2>1, ProceedState
    <2>3. FilesOK'
      BY <1>0, <1>1, SetNameFiles, NamesAre
    <2>4. dir'["pending"] = Torn /\ dir'["previous"] = dir["previous"]
          /\ dir'["restore"] = dir["restore"]
      BY <1>1, SetNameEffect, NamesAre
    <2>5. Place(p)'
      BY <1>a, <2>2 DEF Place, Before, After, Swapped
    <2>6. \A q \in Processes : ~Owns(q)
      BY <1>0, <1>1 DEF FileInv
    <2>7. Holds(p)' => Holds(p)
      BY <2>2 DEF Holds, After
    <2>8. FileInv'
      BY <1>0, <2>2, <2>4, <2>6, <2>7, RecordIsWhole, FileStep DEF FileInv
    <2>. QED
      BY <1>0, <2>2, <2>3, <2>5, <2>8, PlaceStep DEF Struct, TypeInv, Stepped
  <1>2. CASE UNCHANGED <<fileVars, owned>> /\ Proceed(p, "clean") /\ (Works \/ Fails)
             /\ UNCHANGED <<bytes, prior>>
    <2>1. "clean" \in After /\ pc[p] \in After
      BY DEF After
    <2>2. pc'[p] = "clean"
      BY <1>a, <1>2 DEF Proceed, Goto
    <2>3. Place(p)'
      BY <1>2, <1>a, <2>2 DEF Place, Before, After, Swapped
    <2>4. FilesOK' /\ dir' = dir
      BY <1>0, <1>2, SameFiles
    <2>5. (Holds(p)' => Holds(p)) /\ ~Owns(p)'
      BY <1>2, <1>a, <2>1, <2>2 DEF Holds, Owns
    <2>. QED
      BY <1>2, <2>1, <2>3, <2>4, <2>5, PlainStruct
  <1>. QED
    BY <1>1, <1>2 DEF Create

LEMMA WriteEffect ==
    ASSUME FilesOK, NEW b, dir' = [dir EXCEPT !["pending"] = b],
           options' = [options EXCEPT !["pending"] = (@ \ {Torn}) \cup {b}]
    PROVE  /\ dir'["pending"] = b /\ options'["pending"] = (options["pending"] \ {Torn}) \cup {b}
           /\ \A n \in Names \ {"pending"} : dir'[n] = dir[n] /\ options'[n] = options[n]
           /\ dir' = [n \in Names |-> dir'[n]] /\ options' = [n \in Names |-> options'[n]]
           /\ b \in Values => FilesOK'
  <1>1. /\ dir'["pending"] = b /\ options'["pending"] = (options["pending"] \ {Torn}) \cup {b}
        /\ \A n \in Names \ {"pending"} : dir'[n] = dir[n] /\ options'[n] = options[n]
        /\ dir' = [n \in Names |-> dir'[n]] /\ options' = [n \in Names |-> options'[n]]
    BY NamesAre DEF FilesOK
  <1>. QED
    BY <1>1, NamesAre DEF FilesOK

LEMMA WriteStruct ==
    ASSUME Struct, NEW p \in Processes, Write(p)
    PROVE  Stepped(p)
  <1>. Place(p) /\ pc[p] = "write"
    BY DEF Struct, PlaceInv, Write
  <1>0. FilesOK /\ StateOK /\ PlaceInv /\ FileInv
    BY DEF Struct, TypeInv
  <1>a. owned[p] /\ bytes[p] \in Snapshot /\ pc \in [Processes -> Places] /\ Owns(p)
    BY <1>0 DEF Place, After, StateOK, Owns
  <1>1. CASE /\ Works /\ dir' = [dir EXCEPT !["pending"] = bytes[p]]
             /\ options' = [options EXCEPT !["pending"] = (@ \ {Torn}) \cup {bytes[p]}]
             /\ Proceed(p, "swap") /\ UNCHANGED <<bytes, prior, owned>>
    <2>1. "swap" \in After /\ pc[p] \in After /\ bytes[p] \in Values /\ bytes[p] # None
      BY <1>a, RecordIsWhole DEF After, Values
    <2>2. pc'[p] = "swap"
      BY <1>a, <1>1 DEF Proceed, Goto
    <2>3. Place(p)'
      BY <1>1, <1>a, <2>2 DEF Place, Before, After, Swapped
    <2>4. FilesOK' /\ dir'["pending"] = bytes[p] /\ dir'["previous"] = dir["previous"]
          /\ dir'["restore"] = dir["restore"]
      BY <1>0, <1>1, <2>1, WriteEffect, NamesAre
    <2>5. Holds(p)' => Holds(p)
      BY <1>1, <2>1, <2>2 DEF Holds
    <2>. QED
      BY <1>1, <1>a, <2>1, <2>3, <2>4, <2>5, PlainStruct
  <1>2. CASE Fails /\ UNCHANGED fileVars /\ Proceed(p, "clean") /\ UNCHANGED <<bytes, prior, owned>>
    <2>1. "clean" \in After /\ pc[p] \in After
      BY DEF After
    <2>2. pc'[p] = "clean"
      BY <1>a, <1>2 DEF Proceed, Goto
    <2>3. Place(p)'
      BY <1>2, <1>a, <2>2 DEF Place, Before, After, Swapped
    <2>4. FilesOK' /\ dir' = dir
      BY <1>0, <1>2, SameFiles
    <2>5. (Holds(p)' => Holds(p)) /\ dir["pending"] # None
      BY <1>0, <1>2, <1>a, <2>1, <2>2 DEF Holds, FileInv
    <2>. QED
      BY <1>2, <1>a, <2>1, <2>3, <2>4, <2>5, PlainStruct
  <1>. QED
    BY <1>1, <1>2 DEF Write

\* A call failed, or had nothing to do: p moves on and the files stay.
LEMMA MoveStruct ==
    ASSUME Struct, NEW p \in Processes, NEW place \in After, Proceed(p, place),
           Works \/ Fails, UNCHANGED <<fileVars, bytes, prior, owned>>, pc[p] \in After,
           place \notin {"swap", "restore"}, pc'[p] = place => Place(p)'
    PROVE  Stepped(p)
  <1>0. FilesOK /\ StateOK /\ PlaceInv /\ FileInv /\ pc \in [Processes -> Places]
    BY DEF Struct, TypeInv, StateOK
  <1>1. pc'[p] = place
    BY <1>0 DEF Proceed, Goto
  <1>2. FilesOK' /\ dir' = dir
    BY <1>0, SameFiles
  <1>3. (Holds(p)' => Holds(p)) /\ (Owns(p)' => Owns(p)) /\ (Owns(p)' => dir["pending"] # None)
    BY <1>0, <1>1 DEF Holds, Owns, FileInv
  <1>. QED
    BY <1>0, <1>1, <1>2, <1>3, PlainStruct

\* The directory is synced and p moves on.
LEMMA SyncStruct ==
    ASSUME Struct, NEW p \in Processes, NEW place \in After, Proceed(p, place),
           Works \/ Fails, SyncParent, UNCHANGED <<bytes, prior, owned>>, pc[p] \in After,
           place \notin {"swap", "restore"}, pc'[p] = place => Place(p)'
    PROVE  Stepped(p)
  <1>0. FilesOK /\ StateOK /\ PlaceInv /\ FileInv /\ pc \in [Processes -> Places]
    BY DEF Struct, TypeInv, StateOK
  <1>1. pc'[p] = place
    BY <1>0 DEF Proceed, Goto
  <1>2. FilesOK' /\ dir' = dir
    BY <1>0, SyncFiles, SyncEffect
  <1>3. (Holds(p)' => Holds(p)) /\ (Owns(p)' => Owns(p)) /\ (Owns(p)' => dir["pending"] # None)
    BY <1>0, <1>1 DEF Holds, Owns, FileInv
  <1>. QED
    BY <1>0, <1>1, <1>2, <1>3, PlainStruct

LEMMA SwapStruct ==
    ASSUME Struct, NEW p \in Processes, Swap(p)
    PROVE  Stepped(p)
  <1>. Place(p) /\ pc[p] = "swap"
    BY DEF Struct, PlaceInv, Swap
  <1>0. FilesOK /\ StateOK /\ PlaceInv /\ FileInv /\ pc \in [Processes -> Places]
    BY DEF Struct, TypeInv, StateOK
  <1>a. owned[p] /\ bytes[p] \in Snapshot /\ Owns(p) /\ dir["pending"] = bytes[p]
        /\ bytes[p] \in Values /\ bytes[p] # None
    BY <1>0, RecordIsWhole DEF Place, After, Owns, FileInv, Values
  <1>b. "commit" \in After /\ "clean" \in After /\ pc[p] \in After
    BY DEF After
  <1>1. CASE /\ prior[p] /\ Works /\ Rename("pending", "sidecar") /\ UNCHANGED <<bytes, prior>>
             /\ owned' = [owned EXCEPT ![p] = FALSE] /\ Proceed(p, "commit")
    <2>1. prior[p] \in BOOLEAN /\ FALSE \in BOOLEAN /\ "commit" \in Before \cup After
      BY <1>0, <1>b DEF StateOK
    <2>2. StateOK' /\ Others(p) /\ pc'[p] = "commit" /\ bytes'[p] = bytes[p]
          /\ prior'[p] = prior[p] /\ owned'[p] = FALSE
      BY <1>0, <1>1, <1>a, <2>1, ProceedState
    <2>3. FilesOK'
      BY <1>0, <1>1, <1>a, RenameFiles
    <2>4. dir'["previous"] = dir["previous"] /\ dir'["restore"] = dir["restore"]
      BY <1>1, RenameEffect, NamesAre
    <2>5. Place(p)'
      BY <1>1, <1>a, <2>2 DEF Place, Before, After, Swapped
    <2>6. ~Owns(p)' /\ Holds(p)
      BY <1>1, <1>b, <2>2 DEF Owns, Holds
    <2>7. FileInv'
      BY <1>0, <1>a, <2>2, <2>4, <2>6, FileStep DEF FileInv
    <2>. QED
      BY <1>0, <2>2, <2>3, <2>5, <2>7, PlaceStep DEF Struct, TypeInv, Stepped
  <1>2. CASE /\ ~prior[p] /\ Works /\ SetName("sidecar", dir["pending"]) /\ UNCHANGED <<bytes, prior>>
             /\ owned' = owned /\ Proceed(p, "commit")
    <2>1. pc'[p] = "commit"
      BY <1>0, <1>2 DEF Proceed, Goto
    <2>2. Place(p)'
      BY <1>2, <1>a, <2>1 DEF Place, Before, After, Swapped
    <2>3. FilesOK' /\ dir'["previous"] = dir["previous"] /\ dir'["pending"] = dir["pending"]
          /\ dir'["restore"] = dir["restore"]
      BY <1>0, <1>2, <1>a, SetNameFiles, SetNameEffect, NamesAre
    <2>4. (Holds(p)' => Holds(p))
      BY <1>2, <1>b, <2>1 DEF Holds
    <2>. QED
      BY <1>2, <1>a, <1>b, <2>2, <2>3, <2>4, PlainStruct
  <1>3. CASE UNCHANGED <<fileVars, owned>> /\ Proceed(p, "clean") /\ (Works \/ Fails)
             /\ UNCHANGED <<bytes, prior>>
    <2>1. pc'[p] = "clean" => Place(p)'
      BY <1>3, <1>a DEF Place, Before, After, Swapped
    <2>. QED
      BY <1>3, <1>b, <2>1, MoveStruct
  <1>. QED
    BY <1>1, <1>2, <1>3 DEF Swap

LEMMA CommitStruct ==
    ASSUME Struct, NEW p \in Processes, Commit(p)
    PROVE  Stepped(p)
  <1>. Place(p) /\ pc[p] = "commit"
    BY DEF Struct, PlaceInv, Commit
  <1>b. "release" \in After /\ "undo" \in After /\ pc[p] \in After
    BY DEF After
  <1>1. CASE Works /\ SyncParent /\ Proceed(p, "release") /\ UNCHANGED <<bytes, prior, owned>>
    <2>1. pc'[p] = "release" => Place(p)'
      BY <1>1 DEF Place, Before, After, Swapped
    <2>. QED
      BY <1>1, <1>b, <2>1, SyncStruct
  <1>2. CASE Fails /\ UNCHANGED fileVars /\ Proceed(p, "undo") /\ UNCHANGED <<bytes, prior, owned>>
    <2>1. pc'[p] = "undo" => Place(p)'
      BY <1>2 DEF Place, Before, After, Swapped
    <2>. QED
      BY <1>2, <1>b, <2>1, MoveStruct
  <1>. QED
    BY <1>1, <1>2 DEF Commit

LEMMA UndoStruct ==
    ASSUME Struct, NEW p \in Processes, Undo(p)
    PROVE  Stepped(p)
  <1>. Place(p) /\ pc[p] = "undo"
    BY DEF Struct, PlaceInv, Undo
  <1>0. FilesOK /\ StateOK /\ PlaceInv /\ FileInv /\ pc \in [Processes -> Places]
    BY DEF Struct, TypeInv, StateOK
  <1>b. "restore" \in After /\ "resync" \in After /\ pc[p] \in After
        /\ (owned[p] = ~prior[p]) /\ bytes[p] \in Snapshot
    BY DEF After, Place, Swapped
  <1>1. CASE /\ prior[p] /\ Works /\ SetName("restore", dir["previous"]) /\ Proceed(p, "restore")
             /\ UNCHANGED <<bytes, prior, owned>>
    <2>1. pc'[p] = "restore" /\ Holds(p) /\ dir["previous"] \in Values
      BY <1>0, <1>1, <1>b DEF Proceed, Goto, Holds, FileInv, Values
    <2>2. Place(p)'
      BY <1>1, <1>b, <2>1 DEF Place, Before, After, Swapped
    <2>3. FilesOK' /\ dir'["previous"] = dir["previous"] /\ dir'["pending"] = dir["pending"]
          /\ dir'["restore"] = dir["previous"]
      BY <1>0, <1>1, <2>1, SetNameFiles, SetNameEffect, NamesAre
    <2>4. ~Owns(p)'
      BY <1>1, <1>b DEF Owns
    <2>. QED
      BY <1>1, <1>b, <2>1, <2>2, <2>3, <2>4, PlainStruct
  <1>2. CASE /\ ~prior[p] /\ Works /\ SetName("sidecar", None) /\ Proceed(p, "resync")
             /\ UNCHANGED <<bytes, prior, owned>>
    <2>1. pc'[p] = "resync" /\ Owns(p) /\ None \in Values
      BY <1>0, <1>2, <1>b DEF Proceed, Goto, Owns, Values
    <2>2. Place(p)'
      BY <1>2, <1>b, <2>1 DEF Place, Before, After, Swapped
    <2>3. FilesOK' /\ dir'["previous"] = dir["previous"] /\ dir'["pending"] = dir["pending"]
          /\ dir'["restore"] = dir["restore"]
      BY <1>0, <1>2, <2>1, SetNameFiles, SetNameEffect, NamesAre
    <2>4. ~Holds(p)' /\ dir["pending"] # None
      BY <1>0, <1>2, <2>1 DEF Holds, FileInv
    <2>. QED
      BY <1>2, <1>b, <2>1, <2>2, <2>3, <2>4, PlainStruct
  <1>3. CASE Fails /\ UNCHANGED fileVars /\ Abandon(p)
    BY <1>0, <1>3, AbandonStruct, AbandonState DEF Stepped
  <1>. QED
    BY <1>1, <1>2, <1>3 DEF Undo

LEMMA RestoreStruct ==
    ASSUME Struct, NEW p \in Processes, Restore(p)
    PROVE  Stepped(p)
  <1>. Place(p) /\ pc[p] = "restore"
    BY DEF Struct, PlaceInv, Restore
  <1>0. FilesOK /\ StateOK /\ PlaceInv /\ FileInv /\ pc \in [Processes -> Places]
    BY DEF Struct, TypeInv, StateOK
  <1>b. "resync" \in After /\ pc[p] \in After /\ prior[p] /\ ~owned[p] /\ bytes[p] \in Snapshot
    BY DEF After, Place, Swapped
  <1>1. CASE Works /\ Rename("restore", "sidecar") /\ Proceed(p, "resync")
             /\ UNCHANGED <<bytes, prior, owned>>
    <2>1. pc'[p] = "resync" /\ Holds(p) /\ dir["restore"] \in Values
      BY <1>0, <1>1, <1>b DEF Proceed, Goto, Holds, FileInv, Values
    <2>2. Place(p)'
      BY <1>1, <1>b, <2>1 DEF Place, Before, After, Swapped
    <2>3. FilesOK' /\ dir'["previous"] = dir["previous"] /\ dir'["pending"] = dir["pending"]
      BY <1>0, <1>1, <2>1, RenameFiles, RenameEffect, NamesAre
    <2>4. ~Owns(p)'
      BY <1>1, <1>b DEF Owns
    <2>. QED
      BY <1>1, <1>b, <2>1, <2>2, <2>3, <2>4, PlainStruct
  <1>2. CASE Fails /\ UNCHANGED fileVars /\ Abandon(p)
    BY <1>0, <1>2, AbandonStruct, AbandonState DEF Stepped
  <1>. QED
    BY <1>1, <1>2 DEF Restore

LEMMA ResyncStruct ==
    ASSUME Struct, NEW p \in Processes, Resync(p)
    PROVE  Stepped(p)
  <1>. Place(p) /\ pc[p] = "resync"
    BY DEF Struct, PlaceInv, Resync
  <1>0. StateOK
    BY DEF Struct, TypeInv
  <1>b. "clean" \in After /\ pc[p] \in After
    BY DEF After
  <1>1. CASE Works /\ SyncParent /\ Proceed(p, "clean") /\ UNCHANGED <<bytes, prior, owned>>
    <2>1. pc'[p] = "clean" => Place(p)'
      BY <1>1 DEF Place, Before, After, Swapped
    <2>. QED
      BY <1>1, <1>b, <2>1, SyncStruct
  <1>2. CASE Fails /\ UNCHANGED fileVars /\ Abandon(p)
    BY <1>0, <1>2, AbandonStruct, AbandonState DEF Stepped
  <1>. QED
    BY <1>1, <1>2 DEF Resync

\* p gives up, after taking away what it held or owned.
LEMMA LeaveStruct ==
    ASSUME Struct, NEW p \in Processes, Others(p), StateOK', FilesOK', Place(p)',
           pc'[p] \notin After,
           dir'["previous"] = dir["previous"] \/ Holds(p),
           dir'["pending"] = dir["pending"] \/ Owns(p),
           dir'["restore"] = dir["restore"]
    PROVE  Stepped(p)
  <1>0. PlaceInv /\ FileInv
    BY DEF Struct, TypeInv
  <1>1. ~Holds(p)' /\ ~Owns(p)' /\ pc'[p] \notin {"swap", "restore"}
    BY DEF Holds, Owns, After
  <1>2. FileInv'
    BY <1>0, <1>1, FileStep
  <1>. QED
    BY <1>0, <1>2, PlaceStep DEF Struct, TypeInv, Stepped

LEMMA FailedPlace ==
    ASSUME NEW p, pc'[p] \in {"failed", "off"}
    PROVE  Place(p)' /\ pc'[p] \notin After
  BY DEF Place, Before, After, Swapped

LEMMA CleanStruct ==
    ASSUME Struct, NEW p \in Processes, Clean(p)
    PROVE  Stepped(p)
  <1>. Place(p) /\ pc[p] = "clean"
    BY DEF Struct, PlaceInv, Clean
  <1>0. FilesOK /\ StateOK /\ PlaceInv /\ FileInv /\ pc \in [Processes -> Places]
    BY DEF Struct, TypeInv, StateOK
  <1>b. "clean" \in After /\ pc[p] \in After /\ None \in Values /\ None \in Values \cup {Torn}
    BY DEF After, Values
  <1>. DEFINE name == IF owned[p] THEN "pending" ELSE "previous"
  <1>1. /\ FilesOK' /\ dir'["restore"] = dir["restore"] /\ (Works \/ Fails)
        /\ dir'["previous"] = dir["previous"] \/ (~owned[p] /\ prior[p])
        /\ dir'["pending"] = dir["pending"] \/ owned[p]
    <2>1. CASE UNCHANGED fileVars /\ (Works \/ Fails)
      BY <1>0, <2>1, SameFiles
    <2>2. CASE Works /\ SetName(name, None) /\ (owned[p] \/ prior[p])
      <3>1. name \in Names /\ "restore" \in Names \ {name}
            /\ (owned[p] => "previous" \in Names \ {name})
            /\ (~owned[p] => "pending" \in Names \ {name})
        BY NamesAre
      <3>2. FilesOK'
        BY <1>0, <1>b, <2>2, <3>1, SetNameFiles
      <3>. QED
        BY <2>2, <3>1, <3>2, SetNameEffect
    <2>. QED
      BY <2>1, <2>2 DEF Clean
  <1>2. CASE /\ owned[p] /\ prior[p] /\ owned' = [owned EXCEPT ![p] = FALSE]
             /\ Proceed(p, "clean") /\ UNCHANGED <<bytes, prior>>
    <2>1. bytes[p] \in Values /\ prior[p] \in BOOLEAN /\ FALSE \in BOOLEAN
          /\ "clean" \in Before \cup After
      BY <1>0, <1>b DEF StateOK
    <2>2. StateOK' /\ Others(p) /\ pc'[p] = "clean" /\ bytes'[p] = bytes[p]
          /\ prior'[p] = prior[p] /\ owned'[p] = FALSE
      BY <1>0, <1>1, <1>2, <2>1, ProceedState
    <2>3. Place(p)'
      BY <2>2 DEF Place, Before, After, Swapped
    <2>4. ~Owns(p)' /\ Holds(p) /\ Owns(p)
      BY <1>2, <1>b, <2>2 DEF Owns, Holds
    <2>5. FileInv'
      BY <1>0, <1>1, <1>2, <2>2, <2>4, FileStep DEF FileInv
    <2>. QED
      BY <1>0, <1>1, <2>2, <2>3, <2>5, PlaceStep DEF Struct, TypeInv, Stepped
  <1>3. CASE Abandon(p)
    <2>1. StateOK' /\ Others(p) /\ pc'[p] = "failed"
      BY <1>0, <1>1, <1>3, AbandonState
    <2>2. Place(p)' /\ pc'[p] \notin After
      BY <2>1, FailedPlace
    <2>3. (~owned[p] /\ prior[p] => Holds(p)) /\ (owned[p] => Owns(p))
      BY <1>b DEF Holds, Owns
    <2>. QED
      BY <1>1, <2>1, <2>2, <2>3, LeaveStruct
  <1>. QED
    BY <1>2, <1>3 DEF Clean

\* What the writer or an attempt holds after its call has returned Ok.
LEMMA AcknowledgeState ==
    ASSUME StateOK, NEW p \in Processes, Place(p), pc[p] = "release", Acknowledge(p), Works
    PROVE  /\ StateOK' /\ Others(p) /\ ~prior'[p] /\ ~owned'[p] /\ bytes' = bytes
           /\ pc'[p] = IF p # "capture" \/ bytes[p].phase = "audio_durable" THEN "done"
                       ELSE IF intent = "run" THEN "open" ELSE "wav"
           /\ p = "capture" => /\ store' \in Snapshot /\ store'.settled = None
                               /\ store'.phase = bytes[p].phase /\ store'.frames = bytes[p].frames
                               /\ store'.quality = bytes[p].quality /\ Kind(store')
  <1>. DEFINE place == IF p # "capture" \/ bytes[p].phase = "audio_durable" THEN "done"
                       ELSE IF intent = "run" THEN "open" ELSE "wav"
  <1>1. pc \in [Processes -> Places] /\ pc' = [pc EXCEPT ![p] = place]
    BY DEF StateOK, Acknowledge, Goto
  <1>2. place \in {"done", "open", "wav"} /\ (p # "capture" => place = "done")
    OBVIOUS
  <1>3. bytes[p] \in Snapshot /\ (p = "capture" => Kind(bytes[p]))
    BY DEF Place, After, Before
  <1>4. p = "capture" => /\ store' \in Snapshot /\ store'.settled = None
                         /\ store'.phase = bytes[p].phase /\ store'.frames = bytes[p].frames
                         /\ store'.quality = bytes[p].quality /\ Kind(store')
    <2>1. SUFFICES ASSUME p = "capture"
                   PROVE  /\ store' \in Snapshot /\ store'.settled = None
                          /\ store'.phase = bytes[p].phase /\ store'.frames = bytes[p].frames
                          /\ store'.quality = bytes[p].quality /\ Kind(store')
      OBVIOUS
    <2>2. store' = Record(bytes[p].phase, bytes[p].frames, bytes[p].quality)
      BY <2>1 DEF Acknowledge
    <2>3. /\ bytes[p].phase \in {"in_progress", "finalizing", "audio_durable"}
          /\ bytes[p].frames \in 0..MaxFrames /\ bytes[p].quality \in SUBSET CaptureFacts
      BY <1>3, <2>1, RecordFields DEF Kind
    <2>. QED
      BY <2>2, <2>3, KindIs DEF Kind
  <1>5. store' \in Values /\ (p # "capture" => store' = store)
    BY <1>4 DEF Acknowledge, Values, StateOK
  <1>6. acked' \in [phase : {"none", "in_progress", "finalizing", "audio_durable"},
                    frames : 0..MaxFrames, facts : SUBSET Facts]
    <2>1. History(bytes[p]) \subseteq Facts
      BY <1>3, RecordFields, RecordIsWhole DEF History, Facts
    <2>2. acked.facts \cup History(bytes[p]) \in SUBSET Facts
      BY <2>1 DEF StateOK
    <2>3. (IF p = "capture" THEN bytes[p].phase ELSE acked.phase)
             \in {"none", "in_progress", "finalizing", "audio_durable"}
      BY <1>3 DEF StateOK, Kind
    <2>4. (IF p = "capture" THEN bytes[p].frames ELSE acked.frames) \in 0..MaxFrames
      BY <1>3 DEF StateOK, Kind
    <2>. QED
      BY <2>2, <2>3, <2>4 DEF Acknowledge
  <1>. HIDE DEF place
  <1>7. /\ pc' \in [Processes -> Places] /\ pc'["capture"] \in CapturePlaces
        /\ \A a \in Attempts : pc'[a] \in AttemptPlaces
    BY <1>1, <1>2, StoreAssumption DEF StateOK, Places, CapturePlaces, AttemptPlaces, Idle, Processes
  <1>8. /\ prior' \in [Processes -> BOOLEAN] /\ owned' \in [Processes -> BOOLEAN]
        /\ ~prior'[p] /\ ~owned'[p]
        /\ \A q \in Processes \ {p} : prior'[q] = prior[q] /\ owned'[q] = owned[q]
    BY DEF StateOK, Acknowledge
  <1>9. UNCHANGED <<audio, known, intent, bytes, loaded, crashes, faults>>
    BY DEF Acknowledge, Works
  <1>10. StateOK'
    BY <1>5, <1>6, <1>7, <1>8, <1>9 DEF StateOK
  <1>11. pc'[p] = place /\ Others(p)
    BY <1>1, <1>5, <1>8, <1>9 DEF Others
  <1>. QED
    BY <1>4, <1>8, <1>9, <1>10, <1>11 DEF place

LEMMA ReleaseStruct ==
    ASSUME Struct, NEW p \in Processes, Release(p)
    PROVE  Stepped(p)
  <1>. Place(p) /\ pc[p] = "release"
    BY DEF Struct, PlaceInv, Release
  <1>0. FilesOK /\ StateOK /\ PlaceInv /\ FileInv /\ pc \in [Processes -> Places]
    BY DEF Struct, TypeInv, StateOK
  <1>b. pc[p] \in After /\ None \in Values /\ None \in Values \cup {Torn}
        /\ owned[p] = ~prior[p]
    BY DEF After, Values, Place, Swapped
  <1>1. CASE Works /\ SetName(IF prior[p] THEN "previous" ELSE "pending", None) /\ Acknowledge(p)
    <2>. DEFINE name == IF prior[p] THEN "previous" ELSE "pending"
    <2>1. name \in Names /\ "restore" \in Names \ {name}
          /\ (prior[p] => "pending" \in Names \ {name})
          /\ (~prior[p] => "previous" \in Names \ {name})
      BY NamesAre
    <2>2. FilesOK'
      BY <1>0, <1>1, <1>b, <2>1, SetNameFiles
    <2>3. /\ dir'["restore"] = dir["restore"]
          /\ dir'["previous"] = dir["previous"] \/ prior[p]
          /\ dir'["pending"] = dir["pending"] \/ ~prior[p]
      BY <1>1, <2>1, SetNameEffect
    <2>4. (prior[p] => Holds(p)) /\ (~prior[p] => Owns(p))
      BY <1>b DEF Holds, Owns
    <2>5. /\ StateOK' /\ Others(p) /\ ~prior'[p] /\ ~owned'[p]
          /\ pc'[p] \in {"done", "open", "wav"} /\ (p = "capture" => Kind(store'))
      BY <1>0, <1>1, AcknowledgeState
    <2>6. Place(p)' /\ pc'[p] \notin After
      BY <2>5 DEF Place, Before, After, Swapped
    <2>. QED
      BY <2>2, <2>3, <2>4, <2>5, <2>6, LeaveStruct
  <1>2. CASE Fails /\ UNCHANGED fileVars /\ Abandon(p)
    BY <1>0, <1>2, AbandonStruct, AbandonState DEF Stepped
  <1>. QED
    BY <1>1, <1>2 DEF Release

LEMMA KillStruct ==
    ASSUME Struct, NEW p \in Processes, Kill(p)
    PROVE  Stepped(p)
  <1>0. FilesOK /\ StateOK /\ PlaceInv /\ FileInv /\ pc \in [Processes -> Places]
    BY DEF Struct, TypeInv, StateOK
  <1>1. pc' = [pc EXCEPT ![p] = "off"]
    BY DEF Kill, Goto
  <1>2. /\ pc' \in [Processes -> Places] /\ pc'["capture"] \in CapturePlaces
        /\ \A a \in Attempts : pc'[a] \in AttemptPlaces
    BY <1>0, <1>1 DEF StateOK, Places, CapturePlaces, AttemptPlaces, Idle, Processes
  <1>3. crashes' \in 0..MaxCrashes
    BY <1>0, StoreAssumption DEF StateOK, Kill
  <1>4. UNCHANGED <<captureVars, bytes, prior, owned, loaded, acked, faults>>
    BY DEF Kill
  <1>5. StateOK'
    BY <1>0, <1>2, <1>3, <1>4 DEF StateOK, captureVars
  <1>6. Others(p) /\ pc'[p] = "off"
    BY <1>0, <1>1, <1>4 DEF Others, captureVars
  <1>7. FilesOK' /\ dir' = dir
    BY <1>0, SameFiles DEF Kill
  <1>. QED
    BY <1>5, <1>6, <1>7, FailedPlace, LeaveStruct

-----------------------------------------------------------------------------
(* Who is where: the writer, the attempts, and crashes.                     *)

LEMMA CaptureIs == "capture" \in Processes /\ \A a \in Attempts : a \in Processes /\ a # "capture"
  BY StoreAssumption DEF Processes

\* The place of the writer and what it holds, when it starts a publication.
LEMMA PublishPlaces ==
    ASSUME StateOK, NEW s, Kind(s), NEW r \in BOOLEAN, Publish(s, r), owned' = owned,
           ~owned["capture"]
    PROVE  /\ pc' \in [Processes -> Places] /\ pc'["capture"] = "check"
           /\ pc'["capture"] \in CapturePlaces /\ \A a \in Attempts : pc'[a] \in AttemptPlaces
           /\ bytes' \in [Processes -> Values] /\ bytes'["capture"] = s
           /\ prior' \in [Processes -> BOOLEAN] /\ prior'["capture"] = r
           /\ Others("capture") /\ Place("capture")'
  <1>1. pc' = [pc EXCEPT !["capture"] = "check"]
    BY DEF Publish, Goto
  <1>2. /\ pc' \in [Processes -> Places] /\ pc'["capture"] = "check"
        /\ pc'["capture"] \in CapturePlaces /\ \A a \in Attempts : pc'[a] \in AttemptPlaces
        /\ \A q \in Processes \ {"capture"} : pc'[q] = pc[q]
    BY <1>1, CaptureIs DEF StateOK, Places, CapturePlaces, Before
  <1>3. s \in Values
    BY DEF Kind, Values
  <1>4. /\ bytes' \in [Processes -> Values] /\ bytes'["capture"] = s
        /\ \A q \in Processes \ {"capture"} : bytes'[q] = bytes[q]
    BY <1>3, CaptureIs DEF Publish, StateOK
  <1>5. /\ prior' \in [Processes -> BOOLEAN] /\ prior'["capture"] = r
        /\ \A q \in Processes \ {"capture"} : prior'[q] = prior[q]
    BY CaptureIs DEF Publish, StateOK
  <1>6. Others("capture")
    BY <1>2, <1>4, <1>5 DEF Others
  <1>7. Place("capture")'
    BY <1>2, <1>4, <1>5 DEF Place, Before, After, Swapped
  <1>. QED
    BY <1>2, <1>4, <1>5, <1>6, <1>7

LEMMA BeginStruct ==
    ASSUME Struct, Begin
    PROVE  Stepped("capture")
  <1>. DEFINE s == Record("in_progress", 0, {})
  <1>0. FilesOK /\ StateOK /\ PlaceInv /\ FileInv /\ "capture" \in Processes
    BY CaptureIs DEF Struct, TypeInv
  <1>1. Kind(s)
    BY KindIs, StoreAssumption
  <1>2. Publish(s, FALSE) /\ UNCHANGED <<fileVars, captureVars, owned, loaded, acked, faults, crashes>>
    BY DEF Begin
  <1>3. ~owned["capture"]
    BY <1>0 DEF PlaceInv, Place, Begin
  <1>. HIDE DEF s
  <1>4. /\ pc' \in [Processes -> Places] /\ pc'["capture"] = "check"
        /\ pc'["capture"] \in CapturePlaces /\ \A a \in Attempts : pc'[a] \in AttemptPlaces
        /\ bytes' \in [Processes -> Values] /\ prior' \in [Processes -> BOOLEAN]
        /\ Others("capture") /\ Place("capture")'
    BY <1>0, <1>1, <1>2, <1>3, PublishPlaces
  <1>5. StateOK'
    BY <1>0, <1>2, <1>4 DEF StateOK, captureVars
  <1>6. FilesOK' /\ dir' = dir
    BY <1>0, <1>2, SameFiles
  <1>. QED
    BY <1>0, <1>4, <1>5, <1>6, LeaveStruct DEF After

LEMMA PersistStruct ==
    ASSUME Struct, PersistBeforeAudio
    PROVE  Stepped("capture")
  <1>0. FilesOK /\ StateOK /\ PlaceInv /\ FileInv /\ "capture" \in Processes
    BY CaptureIs DEF Struct, TypeInv
  <1>1. PICK fact \in CaptureFacts \ known :
           /\ known' = known \cup {fact}
           /\ Publish(Record(store.phase, audio.frames, known'), TRUE)
    BY DEF PersistBeforeAudio
  <1>. DEFINE s == Record(store.phase, audio.frames, known')
  <1>2. Kind(store) /\ ~owned["capture"]
    BY <1>0, CaptureIs DEF PersistBeforeAudio, PlaceInv, Place
  <1>3. audio.frames \in 0..MaxFrames /\ known' \in SUBSET CaptureFacts
    BY <1>0, <1>1 DEF StateOK
  <1>4. Kind(s)
    BY <1>2, <1>3, KindIs DEF Kind
  <1>5. Publish(s, TRUE) /\ UNCHANGED <<fileVars, audio, store, intent, owned, loaded, acked, faults, crashes>>
    BY <1>1 DEF PersistBeforeAudio
  <1>. HIDE DEF s
  <1>6. /\ pc' \in [Processes -> Places] /\ pc'["capture"] = "check"
        /\ pc'["capture"] \in CapturePlaces /\ \A a \in Attempts : pc'[a] \in AttemptPlaces
        /\ bytes' \in [Processes -> Values] /\ prior' \in [Processes -> BOOLEAN]
        /\ Others("capture") /\ Place("capture")'
    BY <1>0, <1>2, <1>4, <1>5, PublishPlaces
  <1>7. StateOK'
    BY <1>0, <1>3, <1>5, <1>6 DEF StateOK
  <1>8. FilesOK' /\ dir' = dir
    BY <1>0, <1>5, SameFiles
  <1>. QED
    BY <1>0, <1>6, <1>7, <1>8, LeaveStruct DEF After

\* The writer goes to another place, and publishes nothing.
LEMMA WriterMoves ==
    ASSUME Struct, NEW place \in {"open", "wav", "audio", "failed"}, Goto("capture", place),
           UNCHANGED <<bytes, prior, owned, store>>, pc["capture"] \in {"open", "wav", "audio"}
    PROVE  /\ pc' \in [Processes -> Places] /\ pc'["capture"] = place
           /\ pc'["capture"] \in CapturePlaces /\ \A a \in Attempts : pc'[a] \in AttemptPlaces
           /\ Others("capture") /\ Place("capture")'
  <1>0. StateOK /\ PlaceInv
    BY DEF Struct, TypeInv
  <1>1. pc' = [pc EXCEPT !["capture"] = place]
    BY DEF Goto
  <1>2. /\ pc' \in [Processes -> Places] /\ pc'["capture"] = place
        /\ pc'["capture"] \in CapturePlaces /\ \A a \in Attempts : pc'[a] \in AttemptPlaces
        /\ \A q \in Processes \ {"capture"} : pc'[q] = pc[q]
    BY <1>0, <1>1, CaptureIs DEF StateOK, Places, CapturePlaces, Idle
  <1>3. Place("capture") /\ Kind(store) /\ ~owned["capture"]
    BY <1>0, CaptureIs DEF PlaceInv, Place
  <1>4. Place("capture")'
    BY <1>2, <1>3 DEF Place, Before, After, Swapped
  <1>. QED
    BY <1>2, <1>4 DEF Others

LEMMA WriteFrameStruct ==
    ASSUME Struct, WriteFrame
    PROVE  Stepped("capture")
  <1>0. FilesOK /\ StateOK /\ PlaceInv /\ FileInv /\ "capture" \in Processes
    BY CaptureIs DEF Struct, TypeInv
  <1>1. CASE /\ Works /\ SetName("audio", "wav")
             /\ audio' = [frames |-> audio.frames + 1, final |-> FALSE, synced |-> FALSE]
             /\ UNCHANGED <<known, store, intent, pc, bytes, prior, owned, loaded, acked, crashes>>
    <2>1. FilesOK' /\ dir'["previous"] = dir["previous"] /\ dir'["pending"] = dir["pending"]
          /\ dir'["restore"] = dir["restore"]
      BY <1>0, <1>1, SetNameFiles, SetNameEffect, NamesAre
    <2>2. audio' \in [frames : 0..MaxFrames, final : BOOLEAN, synced : BOOLEAN]
      BY <1>0, <1>1, StoreAssumption DEF StateOK, WriteFrame
    <2>3. StateOK'
      BY <1>0, <1>1, <2>2 DEF StateOK, Works
    <2>4. Others("capture") /\ Place("capture")' /\ pc'["capture"] \notin After
      BY <1>0, <1>1 DEF Others, PlaceInv, Place, WriteFrame, After
    <2>. QED
      BY <1>0, <2>1, <2>3, <2>4, LeaveStruct
  <1>2. CASE Fails /\ UNCHANGED fileVars /\ Abandon("capture")
    BY <1>0, <1>2, AbandonStruct, AbandonState DEF Stepped
  <1>. QED
    BY <1>1, <1>2 DEF WriteFrame

LEMMA FinishStruct ==
    ASSUME Struct, Finish
    PROVE  Stepped("capture")
  <1>0. FilesOK /\ StateOK /\ PlaceInv /\ FileInv /\ "capture" \in Processes
    BY CaptureIs DEF Struct, TypeInv
  <1>1. CASE UNCHANGED <<fileVars, faults>> /\ Abandon("capture")
    BY <1>0, <1>1, AbandonStruct, AbandonState DEF Stepped, Works
  <1>2. CASE /\ dir["audio"] # None
             /\ intent' \in {"complete", "abort"}
             /\ Publish(Record(IF intent' = "complete" THEN "finalizing" ELSE store.phase,
                               audio.frames, store.quality), TRUE)
             /\ UNCHANGED <<fileVars, audio, known, store, owned, loaded, acked, faults, crashes>>
    <2>. DEFINE phase == IF intent' = "complete" THEN "finalizing" ELSE store.phase
                s == Record(phase, audio.frames, store.quality)
    <2>1. Kind(store) /\ ~owned["capture"]
      BY <1>0, CaptureIs DEF Finish, PlaceInv, Place
    <2>2. audio.frames \in 0..MaxFrames /\ phase \in {"in_progress", "finalizing", "audio_durable"}
      BY <1>0, <2>1 DEF StateOK, Kind
    <2>. HIDE DEF phase
    <2>4. Kind(s)
      <3>1. store.quality \in SUBSET CaptureFacts
        BY <2>1, RecordFields DEF Kind
      <3>. QED
        BY <2>2, <3>1, KindIs
    <2>5. Publish(s, TRUE)
      BY <1>2 DEF phase
    <2>. HIDE DEF s
    <2>6. /\ pc' \in [Processes -> Places] /\ pc'["capture"] = "check"
          /\ pc'["capture"] \in CapturePlaces /\ \A a \in Attempts : pc'[a] \in AttemptPlaces
          /\ bytes' \in [Processes -> Values] /\ prior' \in [Processes -> BOOLEAN]
          /\ Others("capture") /\ Place("capture")'
      BY <1>0, <1>2, <2>1, <2>4, <2>5, PublishPlaces
    <2>7. StateOK'
      BY <1>0, <1>2, <2>6 DEF StateOK
    <2>8. FilesOK' /\ dir' = dir
      BY <1>0, <1>2, SameFiles
    <2>. QED
      BY <1>0, <2>6, <2>7, <2>8, LeaveStruct DEF After
  <1>. QED
    BY <1>1, <1>2 DEF Finish

LEMMA AudioMarked ==
    ASSUME StateOK
    PROVE  /\ [audio EXCEPT !.final = TRUE] \in [frames : 0..MaxFrames, final : BOOLEAN, synced : BOOLEAN]
           /\ [audio EXCEPT !.synced = TRUE] \in [frames : 0..MaxFrames, final : BOOLEAN, synced : BOOLEAN]
           /\ [audio EXCEPT !.final = TRUE].frames = audio.frames
           /\ [audio EXCEPT !.synced = TRUE].frames = audio.frames
  BY DEF StateOK

LEMMA FinalizeStruct ==
    ASSUME Struct, FinalizeWav
    PROVE  Stepped("capture")
  <1>0. FilesOK /\ StateOK /\ PlaceInv /\ FileInv /\ "capture" \in Processes
    BY CaptureIs DEF Struct, TypeInv
  <1>1. /\ audio' \in [frames : 0..MaxFrames, final : BOOLEAN, synced : BOOLEAN]
        /\ Works \/ Fails
    BY <1>0, AudioMarked DEF FinalizeWav, StateOK
  <1>2. PICK place \in {"audio", "failed"} : Goto("capture", place)
    BY DEF FinalizeWav
  <1>3. /\ pc' \in [Processes -> Places] /\ pc'["capture"] = place
        /\ pc'["capture"] \in CapturePlaces /\ \A a \in Attempts : pc'[a] \in AttemptPlaces
        /\ Others("capture") /\ Place("capture")'
    BY <1>2, WriterMoves DEF FinalizeWav
  <1>4. StateOK'
    BY <1>0, <1>1, <1>3, FaultCount DEF StateOK, FinalizeWav
  <1>5. FilesOK' /\ dir' = dir
    BY <1>0, SameFiles DEF FinalizeWav
  <1>. QED
    BY <1>0, <1>3, <1>4, <1>5, LeaveStruct DEF After

LEMMA SyncAudioStruct ==
    ASSUME Struct, SyncAudio
    PROVE  Stepped("capture")
  <1>0. FilesOK /\ StateOK /\ PlaceInv /\ FileInv /\ "capture" \in Processes
    BY CaptureIs DEF Struct, TypeInv
  <1>1. /\ audio' \in [frames : 0..MaxFrames, final : BOOLEAN, synced : BOOLEAN]
        /\ Works \/ Fails
    BY <1>0, AudioMarked DEF SyncAudio, StateOK
  <1>2. faults' \in 0..MaxFaults
    BY <1>0, <1>1, FaultCount
  <1>3. FilesOK' /\ dir' = dir
    BY <1>0, SameFiles, SyncFiles, SyncEffect DEF SyncAudio
  <1>4. UNCHANGED <<known, store, intent, owned, loaded, acked, crashes>>
    BY DEF SyncAudio
  <1>5. CASE Publish(Record("audio_durable", store.frames, store.quality), TRUE)
    <2>. DEFINE s == Record("audio_durable", store.frames, store.quality)
    <2>1. Kind(store) /\ ~owned["capture"]
      BY <1>0, CaptureIs DEF SyncAudio, PlaceInv, Place
    <2>2. Kind(s)
      <3>1. store.quality \in SUBSET CaptureFacts /\ store.frames \in 0..MaxFrames
        BY <2>1, RecordFields DEF Kind
      <3>. QED
        BY <3>1, KindIs
    <2>. HIDE DEF s
    <2>3. /\ pc' \in [Processes -> Places] /\ pc'["capture"] = "check"
          /\ pc'["capture"] \in CapturePlaces /\ \A a \in Attempts : pc'[a] \in AttemptPlaces
          /\ bytes' \in [Processes -> Values] /\ prior' \in [Processes -> BOOLEAN]
          /\ Others("capture") /\ Place("capture")'
      BY <1>0, <1>4, <1>5, <2>1, <2>2, PublishPlaces DEF s
    <2>4. StateOK'
      BY <1>0, <1>1, <1>2, <1>4, <2>3 DEF StateOK
    <2>. QED
      BY <1>0, <1>3, <2>3, <2>4, LeaveStruct DEF After
  <1>6. CASE Goto("capture", "failed") /\ UNCHANGED <<bytes, prior>>
    <2>1. /\ pc' \in [Processes -> Places] /\ pc'["capture"] = "failed"
          /\ pc'["capture"] \in CapturePlaces /\ \A a \in Attempts : pc'[a] \in AttemptPlaces
          /\ Others("capture") /\ Place("capture")'
      BY <1>4, <1>6, WriterMoves DEF SyncAudio
    <2>2. StateOK'
      BY <1>0, <1>1, <1>2, <1>4, <1>6, <2>1 DEF StateOK
    <2>. QED
      BY <1>0, <1>3, <2>1, <2>2, LeaveStruct DEF After
  <1>. QED
    BY <1>5, <1>6 DEF SyncAudio

\* An attempt goes on reading.
LEMMA ReaderMoves ==
    ASSUME Struct, NEW a \in Attempts, NEW place \in {"look", "read", "load", "check"},
           Goto(a, place), loaded' \in [Attempts -> Readings],
           pc[a] \in {"idle", "look", "read", "load"},
           UNCHANGED <<fileVars, captureVars, bytes, prior, owned, acked, faults, crashes>>
    PROVE  Stepped(a) /\ pc'[a] = place
  <1>0. FilesOK /\ StateOK /\ PlaceInv /\ FileInv /\ a \in Processes /\ a # "capture"
    BY CaptureIs DEF Struct, TypeInv
  <1>1. pc' = [pc EXCEPT ![a] = place]
    BY DEF Goto
  <1>2. /\ pc' \in [Processes -> Places] /\ pc'[a] = place
        /\ pc'["capture"] \in CapturePlaces /\ \A b \in Attempts : pc'[b] \in AttemptPlaces
        /\ \A q \in Processes \ {a} : pc'[q] = pc[q]
    BY <1>0, <1>1, CaptureIs DEF StateOK, Places, AttemptPlaces, Before
  <1>3. StateOK'
    BY <1>0, <1>2 DEF StateOK, captureVars
  <1>4. FilesOK' /\ dir' = dir
    BY <1>0, SameFiles
  <1>5. Place(a)
    BY <1>0 DEF PlaceInv
  <1>6. Place(a)'
    BY <1>0, <1>2, <1>5 DEF Place, Before, After, Swapped
  <1>7. Others(a)
    BY <1>0, <1>2 DEF Others, captureVars
  <1>. QED
    BY <1>0, <1>2, <1>3, <1>4, <1>6, <1>7, LeaveStruct DEF After

LEMMA CountFramesStruct ==
    ASSUME Struct, NEW a \in Attempts, CountFrames(a)
    PROVE  Stepped(a)
  <1>1. PICK frames \in FrameCounts : loaded' = [loaded EXCEPT ![a].frames = frames]
    BY DEF CountFrames
  <1>2. frames \in 0..MaxFrames \cup {None}
    BY <1>1, StoreAssumption DEF FrameCounts, Struct, TypeInv, StateOK
  <1>3. loaded' \in [Attempts -> Readings]
    BY <1>1, <1>2 DEF Struct, TypeInv, StateOK, Readings
  <1>. QED
    BY <1>3, ReaderMoves DEF CountFrames

LEMMA LookStruct ==
    ASSUME Struct, NEW a \in Attempts, Look(a)
    PROVE  Stepped(a)
  <1>1. HasTemporary \in BOOLEAN
    BY DEF HasTemporary
  <1>2. loaded' \in [Attempts -> Readings]
    BY <1>1 DEF Struct, TypeInv, StateOK, Readings, Look
  <1>. QED
    BY <1>2, ReaderMoves DEF Look

LEMMA ReadPrimaryStruct ==
    ASSUME Struct, NEW a \in Attempts, ReadPrimary(a)
    PROVE  Stepped(a)
  <1>1. dir["sidecar"] \in Values
    BY NamesAre DEF Struct, TypeInv, FilesOK
  <1>2. loaded' \in [Attempts -> Readings]
    BY <1>1 DEF Struct, TypeInv, StateOK, Readings, ReadPrimary
  <1>. QED
    BY <1>2, ReaderMoves DEF ReadPrimary

\* What a reader gets is a record, nothing, or an error.
LEMMA LoadedValue ==
    ASSUME FilesOK, NEW interrupted \in BOOLEAN, NEW primary \in Values
    PROVE  /\ LoadQuality(interrupted, primary) \in Values \cup {Torn}
           /\ ~interrupted => LoadQuality(interrupted, primary) = primary
  <1>1. dir["previous"] \in Values /\ dir["pending"] \in Values \cup {Torn}
    BY NamesAre DEF FilesOK
  <1>. QED
    BY <1>1 DEF LoadQuality

LEMMA HistoryFacts ==
    ASSUME NEW s \in Values
    PROVE  History(s) \subseteq Facts
  BY RecordFields DEF History, Values, Facts

\* The outcome of load_recording_quality.
LoadStep(a, snapshot) ==
    /\ snapshot = LoadQuality(loaded[a].interrupted, loaded[a].primary)
    /\ snapshot \in Values
    /\ \A b \in Attempts \ {a} : loaded'[b] = loaded[b]
    /\ loaded'[a].complete = PermitsCompletion(loaded[a].interrupted, snapshot, loaded[a].frames)
    /\ loaded'[a].quality = History(snapshot) \cup {a}
    /\ loaded'[a].primary = None

LEMMA LoadEffect ==
    ASSUME Struct, NEW a \in Attempts, Load(a)
    PROVE  \/ UNCHANGED fileVars /\ Works /\ Abandon(a)
           \/ /\ loaded' \in [Attempts -> Readings] /\ Goto(a, "check")
              /\ UNCHANGED <<fileVars, captureVars, bytes, prior, owned, acked, faults, crashes>>
              /\ \E snapshot : LoadStep(a, snapshot)
  <1>. DEFINE read == loaded[a]
              snapshot == LoadQuality(read.interrupted, read.primary)
              complete == PermitsCompletion(read.interrupted, snapshot, read.frames)
              settled == IF snapshot = None THEN None ELSE snapshot.settled
              quality == History(snapshot) \cup {a}
  <1>0. loaded \in [Attempts -> Readings] /\ FilesOK
    BY DEF Struct, TypeInv, StateOK
  <1>1. SUFFICES ASSUME snapshot # Torn,
                        loaded' = [loaded EXCEPT ![a] =
                          [@ EXCEPT !.frames = None, !.interrupted = FALSE, !.primary = None,
                                    !.complete = complete, !.settled = settled,
                                    !.quality = quality]],
                        Goto(a, "check"), Works,
                        UNCHANGED <<fileVars, captureVars, bytes, prior, owned, acked, crashes>>
                 PROVE  /\ loaded' \in [Attempts -> Readings]
                        /\ \E s : LoadStep(a, s)
    BY DEF Load, Works
  <1>2. snapshot \in Values
    <2>1. read.interrupted \in BOOLEAN /\ read.primary \in Values
      BY <1>0 DEF Readings
    <2>. QED
      BY <1>0, <1>1, <2>1, LoadedValue
  <1>3. complete \in BOOLEAN
    BY DEF PermitsCompletion
  <1>4. settled \in (SUBSET Facts) \cup {None}
    BY <1>2, RecordFields DEF Values
  <1>5. quality \in SUBSET Facts
    BY <1>2, HistoryFacts DEF Facts
  <1>6. loaded[a] \in Readings /\ None \in Values /\ None \in 0..MaxFrames \cup {None}
    BY <1>0 DEF Values
  <1>. DEFINE next == [loaded[a] EXCEPT !.frames = None, !.interrupted = FALSE, !.primary = None,
                                        !.complete = complete, !.settled = settled,
                                        !.quality = quality]
  <1>7. loaded' = [loaded EXCEPT ![a] = next]
    BY <1>1
  <1>. HIDE DEF complete, settled, quality
  <1>8. next \in Readings /\ next.complete = complete /\ next.quality = quality
        /\ next.primary = None
    BY <1>3, <1>4, <1>5, <1>6 DEF Readings
  <1>. HIDE DEF next
  <1>9. loaded' \in [Attempts -> Readings] /\ loaded'[a] = next
        /\ \A b \in Attempts \ {a} : loaded'[b] = loaded[b]
    BY <1>0, <1>7, <1>8
  <1>10. LoadStep(a, snapshot)
    BY <1>2, <1>8, <1>9 DEF LoadStep, complete, quality
  <1>. QED
    BY <1>9, <1>10

LEMMA LoadStruct ==
    ASSUME Struct, NEW a \in Attempts, Load(a)
    PROVE  Stepped(a)
  <1>0. StateOK /\ a \in Processes
    BY CaptureIs DEF Struct, TypeInv
  <1>1. CASE UNCHANGED fileVars /\ Works /\ Abandon(a)
    BY <1>0, <1>1, AbandonStruct, AbandonState DEF Stepped
  <1>2. CASE /\ loaded' \in [Attempts -> Readings] /\ Goto(a, "check")
             /\ UNCHANGED <<fileVars, captureVars, bytes, prior, owned, acked, faults, crashes>>
    BY <1>2, ReaderMoves DEF Load
  <1>. QED
    BY <1>1, <1>2, LoadEffect

\* A power failure ends every process.
LEMMA PowerStruct ==
    ASSUME Struct, PowerFailure
    PROVE  /\ Struct' /\ \A p \in Processes : pc'[p] \in Idle
           /\ \A p \in Processes : pc'[p] # "idle" \/ pc[p] = "idle"
           /\ pc'["capture"] \in Idle \ {"idle"}
           /\ pc'["capture"] # "off" => pc'["capture"] = pc["capture"]
  <1>0. FilesOK /\ StateOK /\ PlaceInv /\ FileInv
    BY DEF Struct, TypeInv
  <1>1. FilesOK'
    BY <1>0, PowerEffect, PowerFiles
  <1>2. audio' \in [frames : 0..MaxFrames, final : BOOLEAN, synced : BOOLEAN]
    BY <1>0, StoreAssumption DEF PowerFailure, StateOK
  <1>3. crashes' \in 0..MaxCrashes
    BY <1>0, StoreAssumption DEF StateOK, PowerFailure
  <1>4. pc' = [p \in Processes |-> IF pc[p] \in Idle \ {"idle"} THEN pc[p]
                                   ELSE IF pc[p] = "idle" /\ p # "capture" THEN "idle"
                                   ELSE "off"]
    BY DEF PowerFailure
  <1>5. /\ \A p \in Processes : pc'[p] \in Idle /\ (pc'[p] # "idle" \/ pc[p] = "idle")
        /\ pc'["capture"] \in Idle \ {"idle"}
        /\ pc'["capture"] # "off" => pc'["capture"] = pc["capture"]
    BY <1>4, CaptureIs DEF Idle
  <1>6. /\ pc' \in [Processes -> Places] /\ pc'["capture"] \in CapturePlaces
        /\ \A a \in Attempts : pc'[a] \in AttemptPlaces
    BY <1>4, <1>5, CaptureIs DEF Places, CapturePlaces, AttemptPlaces
  <1>7. UNCHANGED <<known, store, intent, bytes, prior, owned, loaded, acked, faults>>
    BY DEF PowerFailure
  <1>8. StateOK'
    BY <1>0, <1>2, <1>3, <1>6, <1>7 DEF StateOK
  <1>9. PlaceInv'
    <2>1. SUFFICES ASSUME NEW p \in Processes PROVE Place(p)'
      BY DEF PlaceInv
    <2>2. Place(p) /\ pc'[p] \in Idle /\ (pc'[p] = "idle" => pc[p] = "idle")
      BY <1>0, <1>5 DEF PlaceInv
    <2>. QED
      BY <1>7, <2>2 DEF Place, Before, After, Swapped, Idle
  <1>10. \A p \in Processes : ~Holds(p)' /\ ~Owns(p)' /\ pc'[p] \notin {"swap", "restore"}
    BY <1>5 DEF Holds, Owns, After, Idle
  <1>11. FileInv'
    BY <1>10 DEF FileInv
  <1>. QED
    BY <1>1, <1>5, <1>8, <1>9, <1>11 DEF Struct, TypeInv

LEMMA InitStruct ==
    ASSUME Init
    PROVE  Struct
  <1>1. FilesOK
    BY NamesAre, RecordIsWhole DEF Init, FilesOK, Values
  <1>2. StateOK
    <2>1. audio \in [frames : 0..MaxFrames, final : BOOLEAN, synced : BOOLEAN]
      BY StoreAssumption DEF Init
    <2>2. pc \in [Processes -> Places] /\ pc["capture"] \in CapturePlaces
          /\ \A a \in Attempts : pc[a] \in AttemptPlaces
      BY CaptureIs DEF Init, Places, CapturePlaces, AttemptPlaces, Idle
    <2>3. loaded \in [Attempts -> Readings]
      BY DEF Init, Readings, Values
    <2>4. acked \in [phase : {"none", "in_progress", "finalizing", "audio_durable"},
                     frames : 0..MaxFrames, facts : SUBSET Facts]
      BY StoreAssumption DEF Init
    <2>5. faults \in 0..MaxFaults /\ crashes \in 0..MaxCrashes
      BY StoreAssumption DEF Init
    <2>6. /\ known \subseteq CaptureFacts /\ store \in Values
          /\ intent \in {"run", "complete", "abort"} /\ bytes \in [Processes -> Values]
          /\ prior \in [Processes -> BOOLEAN] /\ owned \in [Processes -> BOOLEAN]
      BY DEF Init, Values
    <2>. QED
      BY <2>1, <2>2, <2>3, <2>4, <2>5, <2>6 DEF StateOK
  <1>3. \A p \in Processes : pc[p] \in {"idle", "off"} /\ ~prior[p] /\ ~owned[p]
    BY DEF Init
  <1>4. PlaceInv /\ FileInv
    BY <1>3 DEF PlaceInv, Place, FileInv, Before, After, Swapped, Holds, Owns
  <1>. QED
    BY <1>1, <1>2, <1>4 DEF Struct, TypeInv

\* The steps of the processes, one by one.
PublisherStep(p) ==
    \/ Check(p) \/ Link(p) \/ Prepare(p) \/ Create(p) \/ Write(p) \/ Swap(p) \/ Commit(p)
    \/ Undo(p) \/ Restore(p) \/ Resync(p) \/ Clean(p) \/ Release(p) \/ Kill(p)

LEMMA NextStruct ==
    ASSUME Struct, [Next]_vars
    PROVE  Struct'
  <1>1. ASSUME NEW p \in Processes, PublisherStep(p)
        PROVE  Struct'
    BY <1>1, CheckStruct, LinkStruct, PrepareStruct, CreateStruct, WriteStruct, SwapStruct,
       CommitStruct, UndoStruct, RestoreStruct, ResyncStruct, CleanStruct, ReleaseStruct,
       KillStruct DEF PublisherStep, Stepped
  <1>2. CASE Begin \/ PersistBeforeAudio \/ WriteFrame \/ Finish \/ FinalizeWav \/ SyncAudio
    BY <1>2, BeginStruct, PersistStruct, WriteFrameStruct, FinishStruct, FinalizeStruct,
       SyncAudioStruct DEF Stepped
  <1>3. ASSUME NEW a \in Attempts, CountFrames(a) \/ Look(a) \/ ReadPrimary(a) \/ Load(a)
        PROVE  Struct'
    BY <1>3, CountFramesStruct, LookStruct, ReadPrimaryStruct, LoadStruct DEF Stepped
  <1>4. CASE PowerFailure
    BY <1>4, PowerStruct
  <1>5. CASE UNCHANGED vars
    BY <1>5 DEF vars, Struct, TypeInv, FilesOK, StateOK, PlaceInv, Place, FileInv, Holds, Owns, Kind
  <1>. QED
    BY <1>1, <1>2, <1>3, <1>4, <1>5 DEF Next, PublisherStep

-----------------------------------------------------------------------------
(* Types.                                                                   *)

LEMMA StructAlways == Spec => []Struct
  <1>1. Init => Struct
    BY InitStruct
  <1>2. Struct /\ [Next]_vars => Struct'
    BY NextStruct
  <1>. QED
    BY <1>1, <1>2, PTL DEF Spec

\* Every file of the store is absent, empty or a whole record, and only a file that is still
\* being written is ever seen without its content (private_new, write_all and sync_all come
\* before the rename).
THEOREM StoreTypes == Spec => []TypeOK
  <1>1. Struct => TypeOK
    <2>1. SUFFICES ASSUME Struct PROVE TypeOK
      OBVIOUS
    <2>2. \A n \in Names : dir[n] \in options[n]
      BY <2>1 DEF Struct, TypeInv, FilesOK
    <2>3. \A n \in Names \ {"audio"} : dir[n] \in {None, Torn} \/ dir[n] \in Snapshot
      BY <2>1, <2>2, NamesAre DEF Struct, TypeInv, FilesOK, Values
    <2>4. dir["audio"] \in {None, "wav"}
      BY <2>1, <2>2, NamesAre DEF Struct, TypeInv, FilesOK
    <2>. QED
      BY <2>1, <2>2, <2>3, <2>4, NamesAre DEF TypeOK, Struct, TypeInv, StateOK
  <1>. QED
    BY <1>1, StructAlways, PTL

-----------------------------------------------------------------------------
(* Publishers that get into each other's way clean up.                      *)

\* What a step of p does to the transaction files while nothing fails.
Tidy(p) ==
    /\ Others(p) /\ faults = 0 /\ crashes = 0
    /\ Holds(p) => Holds(p)' \/ dir'["previous"] = None
    /\ Owns(p) => Owns(p)' \/ dir'["pending"] = None
    /\ dir'["previous"] \in {dir["previous"], None} \/ Holds(p)'
    /\ dir'["pending"] \in {dir["pending"], None} \/ Owns(p)'
    /\ dir'["restore"] = dir["restore"]
    /\ pc'[p] \notin {"undo", "restore", "resync"}

LEMMA TidyKeepsAttended ==
    ASSUME Attended, NEW p \in Processes, Tidy(p)
    PROVE  Attended'
  <1>1. \A q \in Processes \ {p} : /\ Holds(q)' <=> Holds(q)
                                   /\ Owns(q)' <=> Owns(q)
                                   /\ pc'[q] = pc[q]
    BY DEF Tidy, Others, Holds, Owns
  <1>2. /\ dir["previous"] # None => \E q \in Processes : Holds(q)
        /\ dir["pending"] # None => \E q \in Processes : Owns(q)
        /\ dir["restore"] = None
        /\ \A q \in Processes : pc[q] \notin {"undo", "restore", "resync"}
    BY DEF Attended, Tidy
  <1>3. dir'["previous"] # None => \E q \in Processes : Holds(q)'
    BY <1>1, <1>2 DEF Tidy
  <1>4. dir'["pending"] # None => \E q \in Processes : Owns(q)'
    BY <1>1, <1>2 DEF Tidy
  <1>5. dir'["restore"] = None /\ \A q \in Processes : pc'[q] \notin {"undo", "restore", "resync"}
    BY <1>1, <1>2 DEF Tidy
  <1>. QED
    BY <1>3, <1>4, <1>5 DEF Attended

LEMMA NothingFailed ==
    ASSUME StateOK, faults' = 0
    PROVE  ~Fails /\ (Works => faults = 0)
  BY DEF StateOK, Fails, Works

LEMMA AbandonTidy ==
    ASSUME Struct, NEW p \in Processes, Abandon(p), Works, faults = 0, crashes' = 0,
           ~Holds(p) \/ dir'["previous"] = None, ~Owns(p) \/ dir'["pending"] = None,
           dir'["previous"] \in {dir["previous"], None}, dir'["pending"] \in {dir["pending"], None},
           dir'["restore"] = dir["restore"]
    PROVE  Tidy(p)
  BY AbandonState DEF Tidy, Struct, TypeInv, Abandon

LEMMA PlainTidy ==
    ASSUME Struct, NEW p \in Processes, Stepped(p), NEW place \in Before \cup After, Proceed(p, place),
           faults = 0, crashes' = 0, UNCHANGED <<bytes, prior, owned>>,
           place \notin {"undo", "restore", "resync"}, pc[p] \in Before \/ place \in After,
           dir'["previous"] = dir["previous"], dir'["pending"] = dir["pending"] \/ Owns(p),
           dir'["restore"] = dir["restore"]
    PROVE  Tidy(p)
  <1>1. pc'[p] = place /\ crashes = 0
    BY DEF Proceed, Goto, Struct, TypeInv, StateOK
  <1>2. (Holds(p) => Holds(p)') /\ (Owns(p) => Owns(p)')
    BY <1>1 DEF Holds, Owns, Before, After
  <1>. QED
    BY <1>1, <1>2 DEF Tidy, Stepped

LEMMA PublisherTidy ==
    ASSUME Struct, Attended, NEW p \in Processes, PublisherStep(p), faults' = 0, crashes' = 0
    PROVE  Tidy(p)
  <1>0. FilesOK /\ StateOK /\ PlaceInv /\ FileInv /\ Place(p) /\ pc \in [Processes -> Places]
    BY DEF Struct, TypeInv, StateOK, PlaceInv
  <1>. USE NothingFailed
  <1>1. CASE Check(p)
    <2>1. Stepped(p) /\ dir' = dir /\ faults = 0 /\ ~Holds(p) /\ ~Owns(p) /\ pc[p] \in Before
      BY <1>0, <1>1, CheckStruct DEF Check, fileVars, Holds, Owns, Before, After
    <2>2. CASE Abandon(p)
      BY <1>1, <2>1, <2>2, AbandonTidy DEF Check
    <2>3. CASE Proceed(p, IF pc[p] = "recheck" \/ (p = "capture" /\ ~prior[p])
                          THEN "create" ELSE "link") /\ UNCHANGED <<bytes, prior, owned>>
      <3>1. PICK place \in {"create", "link"} : Proceed(p, place)
        BY <2>3
      <3>. QED
        BY <2>1, <2>3, <3>1, PlainTidy DEF Before, After
    <2>. QED
      BY <1>1, <2>2, <2>3 DEF Check
  <1>2. CASE Link(p)
    <2>1. Stepped(p) /\ faults = 0 /\ ~Holds(p) /\ ~Owns(p) /\ pc[p] \in Before
      BY <1>0, <1>2, LinkStruct DEF Link, Holds, Owns, Before, After
    <2>2. CASE Abandon(p) /\ UNCHANGED fileVars /\ Works
      BY <2>1, <2>2, AbandonTidy DEF fileVars
    <2>3. CASE Proceed(p, "recheck") /\ UNCHANGED <<fileVars, prior, owned>>
      <3>1. pc'[p] = "recheck" /\ crashes = 0 /\ dir' = dir
        BY <1>0, <2>3 DEF Proceed, Goto, fileVars
      <3>. QED
        BY <2>1, <3>1 DEF Tidy, Stepped
    <2>4. CASE /\ SetName("previous", dir["sidecar"]) /\ prior' = [prior EXCEPT ![p] = TRUE]
               /\ Proceed(p, "prepare") /\ UNCHANGED <<bytes, owned>>
      <3>1. pc'[p] = "prepare" /\ crashes = 0 /\ prior'[p]
        BY <1>0, <2>4 DEF Proceed, Goto, StateOK
      <3>2. dir'["pending"] = dir["pending"] /\ dir'["restore"] = dir["restore"]
        BY <2>4, SetNameEffect, NamesAre
      <3>. QED
        BY <2>1, <3>1, <3>2 DEF Tidy, Stepped, Holds, After
    <2>. QED
      BY <1>0, <1>2, <2>2, <2>3, <2>4 DEF Link
  <1>3. CASE Prepare(p)
    <2>1. /\ Stepped(p) /\ faults = 0 /\ dir' = dir /\ crashes = 0
          /\ prior' = prior /\ owned' = owned
      BY <1>0, <1>3, PrepareStruct DEF Prepare, SyncParent, Proceed
    <2>2. pc[p] = "prepare" /\ pc'[p] \in {"create", "clean"}
      BY <1>0, <1>3 DEF Prepare, Proceed, Goto
    <2>. QED
      BY <2>1, <2>2 DEF Tidy, Stepped, Holds, Owns, After
  <1>4. CASE Create(p)
    <2>1. Stepped(p) /\ faults = 0 /\ pc[p] = "create" /\ crashes = 0
      BY <1>0, <1>4, CreateStruct DEF Create, Proceed
    <2>2. CASE UNCHANGED <<fileVars, owned, bytes, prior>> /\ Proceed(p, "clean")
      BY <2>1, <2>2, PlainTidy DEF fileVars, After
    <2>3. CASE /\ SetName("pending", Torn) /\ owned' = [owned EXCEPT ![p] = TRUE]
               /\ Proceed(p, "write") /\ UNCHANGED <<bytes, prior>>
      <3>1. pc'[p] = "write" /\ owned'[p] /\ prior' = prior
        BY <1>0, <2>3 DEF Proceed, Goto, StateOK
      <3>2. dir'["previous"] = dir["previous"] /\ dir'["restore"] = dir["restore"]
        BY <2>3, SetNameEffect, NamesAre
      <3>. QED
        BY <2>1, <3>1, <3>2 DEF Tidy, Stepped, Holds, Owns, After
    <2>. QED
      BY <1>0, <1>4, <2>2, <2>3 DEF Create
  <1>5. CASE Write(p)
    <2>1. Stepped(p) /\ faults = 0 /\ pc[p] = "write" /\ Owns(p)
      BY <1>0, <1>5, WriteStruct DEF Write, Owns, Place, After
    <2>2. /\ Proceed(p, "swap") /\ UNCHANGED <<bytes, prior, owned>>
          /\ dir'["previous"] = dir["previous"] /\ dir'["restore"] = dir["restore"]
      BY <1>0, <1>5, NamesAre, WriteEffect DEF Write
    <2>. QED
      BY <2>1, <2>2, PlainTidy DEF After
  <1>6. CASE Swap(p)
    <2>1. Stepped(p) /\ faults = 0 /\ pc[p] = "swap" /\ Owns(p)
      BY <1>0, <1>6, SwapStruct DEF Swap, Owns, Place, After
    <2>2. CASE UNCHANGED <<fileVars, owned, bytes, prior>> /\ Proceed(p, "clean")
      BY <2>1, <2>2, PlainTidy DEF fileVars, After
    <2>3. CASE /\ SetName("sidecar", dir["pending"]) /\ owned' = owned /\ Proceed(p, "commit")
               /\ UNCHANGED <<bytes, prior>>
      <3>1. dir'["previous"] = dir["previous"] /\ dir'["restore"] = dir["restore"]
            /\ dir'["pending"] = dir["pending"]
        BY <2>3, SetNameEffect, NamesAre
      <3>. QED
        BY <2>1, <2>3, <3>1, PlainTidy DEF After
    <2>4. CASE /\ Rename("pending", "sidecar") /\ owned' = [owned EXCEPT ![p] = FALSE]
               /\ Proceed(p, "commit") /\ UNCHANGED <<bytes, prior>>
      <3>1. pc'[p] = "commit" /\ prior' = prior /\ crashes = 0
        BY <1>0, <2>4 DEF Proceed, Goto, StateOK
      <3>2. dir'["previous"] = dir["previous"] /\ dir'["restore"] = dir["restore"]
            /\ dir'["pending"] = None
        BY <2>4, RenameEffect, NamesAre
      <3>. QED
        BY <2>1, <3>1, <3>2 DEF Tidy, Stepped, Holds, After
    <2>. QED
      BY <1>0, <1>6, <2>2, <2>3, <2>4 DEF Swap
  <1>7. CASE Commit(p)
    <2>1. /\ Stepped(p) /\ faults = 0 /\ dir' = dir /\ Proceed(p, "release")
          /\ UNCHANGED <<bytes, prior, owned>>
      BY <1>0, <1>7, CommitStruct DEF Commit, SyncParent
    <2>. QED
      BY <2>1, PlainTidy DEF After
  <1>8. CASE Undo(p) \/ Restore(p) \/ Resync(p)
    <2>1. crashes = 0 /\ faults = 0
      BY <1>0, <1>8 DEF Undo, Restore, Resync, Proceed, Abandon
    <2>. QED
      BY <1>8, <2>1 DEF Attended, Undo, Restore, Resync
  <1>9. CASE Clean(p)
    <2>1. Stepped(p) /\ pc[p] = "clean" /\ faults = 0 /\ Works /\ crashes = 0
      BY <1>0, <1>9, CleanStruct DEF Clean, Proceed, Abandon
    <2>2. /\ dir'["restore"] = dir["restore"]
          /\ owned[p] => dir'["pending"] = None /\ dir'["previous"] = dir["previous"]
          /\ ~owned[p] /\ prior[p] => dir'["previous"] = None /\ dir'["pending"] = dir["pending"]
          /\ ~owned[p] /\ ~prior[p] => dir' = dir
      <3>. DEFINE name == IF owned[p] THEN "pending" ELSE "previous"
      <3>1. ~owned[p] /\ ~prior[p] => dir' = dir
        BY <1>9 DEF Clean, fileVars
      <3>2. owned[p] \/ prior[p] => SetName(name, None)
        BY <1>0, <1>9 DEF Clean
      <3>. QED
        BY <3>1, <3>2, SetNameEffect, NamesAre
    <2>3. CASE owned[p] /\ prior[p]
      <3>1. pc'[p] = "clean" /\ prior' = prior /\ Proceed(p, "clean")
        BY <1>0, <1>9, <2>3 DEF Clean, Proceed, Goto
      <3>. QED
        BY <2>1, <2>2, <2>3, <3>1 DEF Tidy, Stepped, Holds, After
    <2>4. CASE ~(owned[p] /\ prior[p])
      <3>1. Abandon(p) /\ crashes' = 0
        BY <1>9, <2>4 DEF Clean
      <3>. QED
        BY <2>1, <2>2, <2>4, <3>1, AbandonTidy DEF Holds, Owns
    <2>. QED
      BY <2>3, <2>4
  <1>10. CASE Release(p)
    <2>1. /\ Stepped(p) /\ pc[p] = "release" /\ faults = 0 /\ Works /\ crashes = 0
          /\ owned[p] = ~prior[p] /\ Acknowledge(p)
          /\ SetName(IF prior[p] THEN "previous" ELSE "pending", None)
      BY <1>0, <1>10, ReleaseStruct DEF Release, Acknowledge, Place, Swapped
    <2>2. /\ dir'["restore"] = dir["restore"]
          /\ prior[p] => dir'["previous"] = None /\ dir'["pending"] = dir["pending"]
          /\ ~prior[p] => dir'["pending"] = None /\ dir'["previous"] = dir["previous"]
      BY <2>1, SetNameEffect, NamesAre
    <2>3. pc'[p] \in {"done", "open", "wav"}
      BY <1>0, <2>1, AcknowledgeState
    <2>. QED
      BY <2>1, <2>2, <2>3 DEF Tidy, Stepped, Holds, Owns
  <1>11. CASE Kill(p)
    BY <1>0, <1>11 DEF Kill, StateOK
  <1>. QED
    BY <1>1, <1>2, <1>3, <1>4, <1>5, <1>6, <1>7, <1>8, <1>9, <1>10, <1>11 DEF PublisherStep

LEMMA OtherTidy ==
    ASSUME Struct, NEW p \in Processes, Stepped(p), faults = 0, crashes = 0, pc[p] \notin After,
           pc'[p] \notin {"undo", "restore", "resync"},
           dir'["previous"] = dir["previous"], dir'["pending"] = dir["pending"],
           dir'["restore"] = dir["restore"]
    PROVE  Tidy(p)
  BY DEF Tidy, Stepped, Holds, Owns

LEMMA NextAttended ==
    ASSUME Struct, Attended, [Next]_vars
    PROVE  Attended'
  <1>. SUFFICES ASSUME faults' = 0, crashes' = 0 PROVE Attended'
    BY DEF Attended
  <1>0. FilesOK /\ StateOK /\ PlaceInv /\ FileInv /\ pc \in [Processes -> Places]
        /\ "capture" \in Processes
    BY CaptureIs DEF Struct, TypeInv, StateOK, PlaceInv
  <1>. USE NothingFailed
  <1>1. ASSUME NEW p \in Processes, PublisherStep(p)
        PROVE  Attended'
    BY <1>1, PublisherTidy, TidyKeepsAttended
  <1>2. CASE Begin \/ PersistBeforeAudio \/ WriteFrame \/ Finish \/ FinalizeWav \/ SyncAudio
    <2>1. Stepped("capture")
      BY <1>2, BeginStruct, PersistStruct, WriteFrameStruct, FinishStruct, FinalizeStruct,
         SyncAudioStruct
    <2>2. faults = 0 /\ crashes = 0 /\ pc["capture"] \notin After
      BY <1>0, <1>2 DEF Begin, PersistBeforeAudio, WriteFrame, Finish, FinalizeWav, SyncAudio,
         Abandon, After
    <2>3. pc'["capture"] \notin {"undo", "restore", "resync"}
      BY <1>0, <1>2 DEF Begin, PersistBeforeAudio, WriteFrame, Finish, FinalizeWav, SyncAudio,
         Abandon, Publish, Goto
    <2>4. dir'["previous"] = dir["previous"] /\ dir'["pending"] = dir["pending"]
          /\ dir'["restore"] = dir["restore"]
      <3>1. CASE WriteFrame
        BY <3>1, SetNameEffect, NamesAre DEF WriteFrame, fileVars
      <3>2. CASE ~WriteFrame
        BY <1>2, <3>2 DEF Begin, PersistBeforeAudio, Finish, FinalizeWav, SyncAudio, fileVars, SyncParent
      <3>. QED
        BY <3>1, <3>2
    <2>. QED
      BY <1>0, <2>1, <2>2, <2>3, <2>4, OtherTidy, TidyKeepsAttended
  <1>3. ASSUME NEW a \in Attempts, CountFrames(a) \/ Look(a) \/ ReadPrimary(a) \/ Load(a)
        PROVE  Attended'
    <2>1. Stepped(a) /\ a \in Processes
      BY <1>3, CountFramesStruct, LookStruct, ReadPrimaryStruct, LoadStruct, CaptureIs
    <2>2. faults = 0 /\ crashes = 0 /\ pc[a] \notin After /\ dir' = dir
      BY <1>0, <1>3 DEF CountFrames, Look, ReadPrimary, Load, Abandon, After, fileVars
    <2>3. pc'[a] \notin {"undo", "restore", "resync"}
      BY <1>0, <1>3, <2>1 DEF CountFrames, Look, ReadPrimary, Load, Abandon, Goto
    <2>. QED
      BY <2>1, <2>2, <2>3, OtherTidy, TidyKeepsAttended
  <1>4. CASE PowerFailure
    BY <1>0, <1>4 DEF PowerFailure, StateOK
  <1>5. CASE UNCHANGED vars
    BY <1>5 DEF vars, Attended, Holds, Owns
  <1>. QED
    BY <1>1, <1>2, <1>3, <1>4, <1>5 DEF Next, PublisherStep

\* Publishers that meet, in any number and in any order, leave no transaction file behind as
\* long as no file system call fails and nothing crashes (publish_owned removes `pending` and
\* `previous` on every early return): a refused publication never bars the next one.
THEOREM NoBarrierLeft == Spec => []RefusalLeavesNoBarrier
  <1>1. Init => Attended
    BY NamesAre DEF Init, Attended, Names
  <1>2. Struct /\ Attended /\ [Next]_vars => Attended'
    BY NextAttended
  <1>3. Struct /\ Attended => RefusalLeavesNoBarrier
    BY DEF Attended, RefusalLeavesNoBarrier, HasTemporary, Temporaries, Holds, Owns, After, Idle
  <1>. QED
    BY <1>1, <1>2, <1>3, StructAlways, PTL DEF Spec

-----------------------------------------------------------------------------
(* The capture writer.                                                      *)

LEMMA WriterGone ==
    ASSUME pc'["capture"] \in {"off", "failed"}
    PROVE  WriterInv'
  BY DEF WriterInv, Publishing, Before, After

LEMMA WriterSame ==
    ASSUME WriterInv, pc'["capture"] = pc["capture"], bytes'["capture"] = bytes["capture"],
           prior'["capture"] = prior["capture"], acked'.phase = acked.phase,
           acked'.frames = acked.frames, UNCHANGED <<audio, known, store, intent>>
    PROVE  WriterInv'
  BY DEF WriterInv, Publishing, Captured

LEMMA WriterGoesOn ==
    ASSUME WriterInv, Publishing, Publishing', bytes'["capture"] \in Snapshot,
           bytes'["capture"].phase = bytes["capture"].phase,
           bytes'["capture"].frames = bytes["capture"].frames,
           bytes'["capture"].quality = bytes["capture"].quality,
           prior'["capture"] = prior["capture"],
           UNCHANGED <<audio, known, store, intent, acked>>
    PROVE  WriterInv'
  BY DEF WriterInv, Publishing, Captured, Before, After

\* A step of another process, as far as the writer is concerned.
LEMMA WriterApart ==
    ASSUME Struct, WriterInv, NEW p \in Processes, p # "capture", PublisherStep(p)
    PROVE  /\ WriterInv' /\ UNCHANGED <<audio, known, store, intent>> /\ Others(p)
           /\ acked'.phase = acked.phase /\ acked'.frames = acked.frames
           /\ pc'["capture"] = pc["capture"] /\ bytes'["capture"] = bytes["capture"]
           /\ prior'["capture"] = prior["capture"]
  <1>0. StateOK
    BY DEF Struct, TypeInv
  <1>1. Others(p)
    BY CheckStruct, LinkStruct, PrepareStruct, CreateStruct, WriteStruct, SwapStruct,
       CommitStruct, UndoStruct, RestoreStruct, ResyncStruct, CleanStruct, ReleaseStruct,
       KillStruct DEF PublisherStep, Stepped
  <1>2. pc'["capture"] = pc["capture"] /\ bytes'["capture"] = bytes["capture"]
        /\ prior'["capture"] = prior["capture"]
    BY <1>1, CaptureIs DEF Others
  <1>3. UNCHANGED <<audio, known, store, intent>>
    BY DEF PublisherStep, Check, Link, Prepare, Create, Write, Swap, Commit, Undo, Restore, Resync,
       Clean, Release, Kill, Abandon, Proceed, Acknowledge, captureVars
  <1>4. acked'.phase = acked.phase /\ acked'.frames = acked.frames
    <2>1. CASE Acknowledge(p)
      BY <2>1 DEF Acknowledge
    <2>2. CASE ~Acknowledge(p)
      BY <2>2 DEF PublisherStep, Check, Link, Prepare, Create, Write, Swap, Commit, Undo, Restore,
         Resync, Clean, Release, Kill, Abandon, Proceed
    <2>. QED
      BY <2>1, <2>2
  <1>. QED
    BY <1>1, <1>2, <1>3, <1>4, WriterSame

LEMMA PublisherWriter ==
    ASSUME Struct, WriterInv, NEW p \in Processes, PublisherStep(p)
    PROVE  WriterInv'
  <1>0. FilesOK /\ StateOK /\ PlaceInv /\ FileInv /\ Place(p) /\ pc \in [Processes -> Places]
    BY DEF Struct, TypeInv, StateOK, PlaceInv
  <1>1. CASE p # "capture"
    BY <1>1, WriterApart
  <1>2. CASE p = "capture"
    <2>1. CASE Abandon(p)
      BY <1>0, <1>2, <2>1, WriterGone DEF Abandon, Goto
    <2>2. CASE Kill(p)
      BY <1>0, <1>2, <2>2, WriterGone DEF Kill, Goto
    <2>3. ASSUME NEW place \in Before \cup After, Proceed(p, place), pc[p] \in Before \cup After,
                 bytes' = bytes, prior' = prior \/ (prior[p] /\ prior' = [prior EXCEPT ![p] = TRUE])
          PROVE  WriterInv'
      <3>1. pc'["capture"] = place
        BY <1>0, <1>2, <2>3 DEF Proceed, Goto
      <3>2. Publishing /\ Publishing' /\ prior'["capture"] = prior["capture"]
            /\ bytes["capture"] \in Snapshot
        BY <1>0, <1>2, <2>3, <3>1 DEF Publishing, StateOK, Place, Kind
      <3>. QED
        BY <2>3, <3>2, WriterGoesOn DEF Proceed, captureVars
    <2>4. CASE Prepare(p)
      <3>. DEFINE next == Prepared(p, dir["previous"])
      <3>1. Holds(p) /\ dir["previous"] \in Snapshot /\ bytes[p] \in Snapshot /\ pc[p] = "prepare"
            /\ bytes["capture"] \in Snapshot
        BY <1>0, <1>2, <2>4 DEF Prepare, Place, Holds, FileInv, After, Kind
      <3>2. pc'["capture"] \in After /\ Publishing /\ Publishing' /\ prior' = prior
        BY <1>0, <1>2, <2>4 DEF Prepare, Proceed, Goto, Publishing, After
      <3>3. UNCHANGED <<audio, known, store, intent, acked>>
        BY <2>4 DEF Prepare, Proceed, captureVars
      <3>4. CASE bytes' = bytes
        BY <3>1, <3>2, <3>3, <3>4, WriterGoesOn
      <3>5. CASE bytes' = [bytes EXCEPT ![p] = next]
        <4>1. Place(p)' /\ bytes'["capture"] = next
          BY <1>0, <1>2, <2>4, <3>5, PrepareStruct DEF Stepped, Struct, PlaceInv, StateOK
        <4>2. next \in Snapshot /\ next # None
          BY <1>2, <3>2, <4>1, RecordIsWhole DEF Place, Kind
        <4>3. next.phase = bytes[p].phase /\ next.frames = bytes[p].frames
              /\ next.quality = bytes[p].quality
          BY <1>2, <3>1, <4>2, PreparedRecord DEF Struct
        <4>. QED
          BY <1>2, <3>2, <3>3, <4>1, <4>2, <4>3, WriterGoesOn
      <3>. QED
        BY <2>4, <3>4, <3>5 DEF Prepare
    <2>5. CASE Acknowledge(p) /\ pc[p] = "release" /\ Works
      <3>1. /\ pc'[p] = IF p # "capture" \/ bytes[p].phase = "audio_durable" THEN "done"
                        ELSE IF intent = "run" THEN "open" ELSE "wav"
            /\ store' \in Snapshot /\ store'.settled = None
            /\ store'.phase = bytes[p].phase /\ store'.frames = bytes[p].frames
            /\ store'.quality = bytes[p].quality
        BY <1>0, <1>2, <2>5, AcknowledgeState
      <3>2. UNCHANGED <<audio, known, intent>> /\ acked'.phase = bytes[p].phase
            /\ acked'.frames = bytes[p].frames
        BY <1>2, <2>5 DEF Acknowledge
      <3>3. /\ bytes[p] \in Snapshot /\ bytes[p].quality = known
            /\ bytes[p].phase \in {"in_progress", "finalizing", "audio_durable"}
            /\ bytes[p].frames \in acked.frames .. audio.frames
            /\ intent = "run" => bytes[p].phase = "in_progress"
        BY <1>2, <2>5 DEF WriterInv, Publishing, After
      <3>4. pc'["capture"] \in {"done", "open", "wav"} /\ Captured'
            /\ (pc'["capture"] = "open" => intent = "run")
        BY <1>2, <3>1, <3>2, <3>3 DEF Captured
      <3>5. acked'.frames <= audio'.frames
        BY <1>0, <3>2, <3>3 DEF StateOK
      <3>. QED
        BY <1>2, <3>1, <3>2, <3>3, <3>4, <3>5 DEF WriterInv, Publishing, Before, After
    <2>6. \/ Abandon(p) \/ Kill(p) \/ Prepare(p) \/ (Acknowledge(p) /\ pc[p] = "release" /\ Works)
          \/ /\ \E place \in Before \cup After : Proceed(p, place)
             /\ pc[p] \in Before \cup After /\ bytes' = bytes
             /\ prior' = prior \/ (prior[p] /\ prior' = [prior EXCEPT ![p] = TRUE])
      <3>. USE DEF PublisherStep, Before, After
      <3>1. CASE Check(p) \/ Create(p) \/ Write(p) \/ Swap(p) \/ Commit(p)
        BY <3>1 DEF Check, Create, Write, Swap, Commit
      <3>2. CASE Undo(p) \/ Restore(p) \/ Resync(p) \/ Clean(p) \/ Release(p) \/ Kill(p) \/ Prepare(p)
        BY <3>2 DEF Undo, Restore, Resync, Clean, Release
      <3>3. CASE Link(p)
        BY <1>0, <1>2, <3>3 DEF Link, Place
      <3>. QED
        BY <3>1, <3>2, <3>3
    <2>. QED
      BY <2>1, <2>2, <2>3, <2>4, <2>5, <2>6
  <1>. QED
    BY <1>1, <1>2

\* The writer starts to publish s.
LEMMA WriterPublishes ==
    ASSUME StateOK, NEW s, Kind(s), NEW r \in BOOLEAN, Publish(s, r), s.quality = known',
           Rank(s.phase) >= Rank(acked.phase), s.frames \in acked.frames .. audio'.frames,
           intent' = "run" => s.phase = "in_progress", r = Captured, acked' = acked
    PROVE  WriterInv'
  <1>1. pc'["capture"] = "check" /\ bytes'["capture"] = s /\ prior'["capture"] = r
    BY CaptureIs DEF Publish, Goto, StateOK
  <1>. QED
    BY <1>1 DEF WriterInv, Publishing, Captured, Before, After, Kind

LEMMA WriterStepsWriter ==
    ASSUME Struct, WriterInv,
           Begin \/ PersistBeforeAudio \/ WriteFrame \/ Finish \/ FinalizeWav \/ SyncAudio
    PROVE  WriterInv'
  <1>0. FilesOK /\ StateOK /\ PlaceInv /\ pc \in [Processes -> Places] /\ "capture" \in Processes
        /\ Place("capture") /\ audio.frames \in 0..MaxFrames /\ acked.frames \in 0..MaxFrames
        /\ MaxFrames \in Nat
    BY CaptureIs, StoreAssumption DEF Struct, TypeInv, StateOK, PlaceInv
  <1>a. pc["capture"] \in {"open", "wav", "audio"} =>
           /\ Kind(store) /\ Captured /\ store.settled = None /\ store.quality = known
           /\ store.phase = acked.phase /\ store.frames = acked.frames
           /\ acked.frames <= audio.frames
    BY <1>0 DEF WriterInv, Place
  <1>1. CASE Begin
    <2>. DEFINE s == Record("in_progress", 0, {})
    <2>1. pc["capture"] = "idle" /\ Publish(s, FALSE) /\ UNCHANGED <<captureVars, acked>>
      BY <1>1 DEF Begin
    <2>2. Kind(s) /\ s.quality = {} /\ s.phase = "in_progress" /\ s.frames = 0
      BY KindIs, StoreAssumption
    <2>. HIDE DEF s
    <2>3. ~Captured /\ known = {} /\ acked.frames = 0 /\ acked.phase = "none"
      BY <2>1 DEF WriterInv, Captured
    <2>4. 0 \in acked.frames .. audio'.frames
      BY <1>0, <2>1, <2>3 DEF captureVars
    <2>5. /\ s.quality = known' /\ Rank(s.phase) >= Rank(acked.phase) /\ FALSE = Captured
          /\ s.frames \in acked.frames .. audio'.frames /\ acked' = acked
      BY <2>1, <2>2, <2>3, <2>4, Ranks DEF captureVars
    <2>. QED
      BY <1>0, <2>1, <2>2, <2>5, WriterPublishes
  <1>2. CASE PersistBeforeAudio
    <2>1. PICK fact \in CaptureFacts \ known :
             /\ known' = known \cup {fact}
             /\ Publish(Record(store.phase, audio.frames, known'), TRUE)
      BY <1>2 DEF PersistBeforeAudio
    <2>. DEFINE s == Record(store.phase, audio.frames, known')
    <2>2. pc["capture"] = "open" /\ UNCHANGED <<audio, acked, intent>> /\ Publish(s, TRUE)
      BY <1>2, <2>1 DEF PersistBeforeAudio
    <2>3. known' \in SUBSET CaptureFacts
      BY <1>0, <2>1 DEF StateOK
    <2>4. Kind(s) /\ s.quality = known' /\ s.phase = store.phase /\ s.frames = audio.frames
      <3>1. Kind(store) /\ audio.frames \in 0..MaxFrames
        BY <1>0, <1>a, <2>2
      <3>. QED
        BY <2>3, <3>1, KindIs DEF Kind
    <2>. HIDE DEF s
    <2>5. s.frames \in acked.frames .. audio'.frames
      BY <1>0, <1>a, <2>2, <2>4
    <2>6. s.phase = "in_progress" /\ acked.phase = "in_progress" /\ TRUE = Captured
      BY <1>a, <2>2, <2>4 DEF WriterInv
    <2>7. Rank(s.phase) >= Rank(acked.phase)
      BY <2>6, Ranks
    <2>. QED
      BY <1>0, <2>2, <2>4, <2>5, <2>6, <2>7, WriterPublishes
  <1>3. CASE WriteFrame
    <2>1. CASE Abandon("capture")
      BY <1>0, <2>1, WriterGone DEF Abandon, Goto
    <2>2. CASE /\ audio' = [frames |-> audio.frames + 1, final |-> FALSE, synced |-> FALSE]
               /\ UNCHANGED <<known, store, intent, pc, bytes, prior, owned, loaded, acked, crashes>>
      <3>1. pc["capture"] = "open" /\ pc'["capture"] = "open" /\ acked.frames <= audio'.frames
        BY <1>0, <1>a, <1>3, <2>2 DEF WriteFrame
      <3>. QED
        BY <2>2, <3>1 DEF WriterInv, Publishing, Captured, Before, After
    <2>. QED
      BY <1>3, <2>1, <2>2 DEF WriteFrame
  <1>4. CASE Finish
    <2>1. CASE Abandon("capture")
      BY <1>0, <2>1, WriterGone DEF Abandon, Goto
    <2>2. CASE /\ intent' \in {"complete", "abort"}
               /\ Publish(Record(IF intent' = "complete" THEN "finalizing" ELSE store.phase,
                                 audio.frames, store.quality), TRUE)
               /\ UNCHANGED <<fileVars, audio, known, store, owned, loaded, acked, faults, crashes>>
      <3>. DEFINE phase == IF intent' = "complete" THEN "finalizing" ELSE store.phase
                  s == Record(phase, audio.frames, store.quality)
      <3>1. pc["capture"] = "open" /\ acked.phase = "in_progress"
        BY <1>4 DEF Finish, WriterInv
      <3>2. phase \in {"in_progress", "finalizing", "audio_durable"} /\ Rank(phase) >= 3
        BY <1>a, <3>1, Ranks
      <3>4. Publish(s, TRUE)
        BY <2>2
      <3>. HIDE DEF phase
      <3>5. Kind(s) /\ s.quality = store.quality /\ s.phase = phase /\ s.frames = audio.frames
        <4>1. Kind(store) /\ audio.frames \in 0..MaxFrames
          BY <1>0, <1>a, <3>1
        <4>2. store.quality \in SUBSET CaptureFacts
          BY <4>1, RecordFields DEF Kind
        <4>. QED
          BY <3>2, <4>1, <4>2, KindIs
      <3>. HIDE DEF s
      <3>6. s.frames \in acked.frames .. audio'.frames
        BY <1>0, <1>a, <2>2, <3>1, <3>5
      <3>7. s.quality = known' /\ TRUE = Captured /\ Rank(s.phase) >= Rank(acked.phase)
            /\ intent' # "run"
        BY <1>a, <2>2, <3>1, <3>2, <3>5, Ranks
      <3>. QED
        BY <1>0, <2>2, <3>4, <3>5, <3>6, <3>7, WriterPublishes
    <2>. QED
      BY <1>4, <2>1, <2>2 DEF Finish
  <1>5. CASE FinalizeWav
    <2>1. /\ pc["capture"] = "wav" /\ pc'["capture"] \in {"audio", "failed"}
          /\ UNCHANGED <<known, store, intent, acked>> /\ audio'.frames = audio.frames
      BY <1>0, <1>5, AudioMarked DEF FinalizeWav, Goto
    <2>. QED
      BY <1>0, <1>a, <2>1 DEF WriterInv, Publishing, Captured, Before, After
  <1>6. CASE SyncAudio
    <2>1. CASE Goto("capture", "failed")
      BY <1>0, <2>1, WriterGone DEF Goto
    <2>2. CASE intent = "complete" /\ Publish(Record("audio_durable", store.frames, store.quality), TRUE)
      <3>. DEFINE s == Record("audio_durable", store.frames, store.quality)
      <3>1. pc["capture"] = "audio" /\ UNCHANGED <<known, store, intent, acked>>
            /\ audio'.frames = audio.frames
        BY <1>0, <1>6, AudioMarked DEF SyncAudio
      <3>2. Kind(s) /\ s.quality = store.quality /\ s.phase = "audio_durable"
            /\ s.frames = store.frames
        <4>1. store.quality \in SUBSET CaptureFacts /\ store.frames \in 0..MaxFrames
          BY <1>a, <3>1, RecordFields DEF Kind
        <4>. QED
          BY <4>1, KindIs
      <3>3. Publish(s, TRUE)
        BY <2>2
      <3>. HIDE DEF s
      <3>4. s.frames \in acked.frames .. audio'.frames
        BY <1>0, <1>a, <3>1, <3>2
      <3>5. Rank(s.phase) >= Rank(acked.phase)
        BY <1>0, <3>2, Ranks DEF StateOK
      <3>6. s.quality = known' /\ TRUE = Captured /\ intent' # "run"
        BY <1>a, <2>2, <3>1, <3>2
      <3>. QED
        BY <1>0, <3>1, <3>2, <3>3, <3>4, <3>5, <3>6, WriterPublishes
    <2>. QED
      BY <1>6, <2>1, <2>2 DEF SyncAudio
  <1>. QED
    BY <1>1, <1>2, <1>3, <1>4, <1>5, <1>6

\* A step of a reader, as far as the rest is concerned.
LEMMA ReaderApart ==
    ASSUME Struct, NEW a \in Attempts, CountFrames(a) \/ Look(a) \/ ReadPrimary(a) \/ Load(a)
    PROVE  /\ UNCHANGED <<fileVars, captureVars, bytes, prior, owned, acked, faults, crashes>>
           /\ Stepped(a) /\ a \in Processes /\ a # "capture"
           /\ pc[a] \in {"idle", "look", "read", "load"}
           /\ pc'[a] \in {"look", "read", "load", "check", "failed"}
           /\ pc'["capture"] = pc["capture"]
  <1>0. a \in Processes /\ a # "capture" /\ pc \in [Processes -> Places]
    BY CaptureIs DEF Struct, TypeInv, StateOK
  <1>1. Stepped(a)
    BY CountFramesStruct, LookStruct, ReadPrimaryStruct, LoadStruct
  <1>2. UNCHANGED <<fileVars, captureVars, bytes, prior, owned, acked, faults, crashes>>
    BY <1>0 DEF CountFrames, Look, ReadPrimary, Load, Abandon, captureVars, Works
  <1>3. pc[a] \in {"idle", "look", "read", "load"} /\ pc'[a] \in {"look", "read", "load", "check", "failed"}
    BY <1>0 DEF CountFrames, Look, ReadPrimary, Load, Abandon, Goto
  <1>. QED
    BY <1>0, <1>1, <1>2, <1>3, CaptureIs DEF Stepped, Others

LEMMA NextWriter ==
    ASSUME Struct, WriterInv, [Next]_vars
    PROVE  WriterInv'
  <1>1. ASSUME NEW p \in Processes, PublisherStep(p)
        PROVE  WriterInv'
    BY <1>1, PublisherWriter
  <1>2. CASE Begin \/ PersistBeforeAudio \/ WriteFrame \/ Finish \/ FinalizeWav \/ SyncAudio
    BY <1>2, WriterStepsWriter
  <1>3. ASSUME NEW a \in Attempts, CountFrames(a) \/ Look(a) \/ ReadPrimary(a) \/ Load(a)
        PROVE  WriterInv'
    BY <1>3, ReaderApart, WriterSame DEF captureVars
  <1>4. CASE PowerFailure
    <2>1. pc'["capture"] \in {"off", "failed", "done"} /\ UNCHANGED acked
          /\ (pc'["capture"] = "done" => pc["capture"] = "done")
      BY <1>4, PowerStruct DEF Idle, PowerFailure
    <2>. QED
      BY <2>1 DEF WriterInv, Captured, Publishing, Before, After
  <1>5. CASE UNCHANGED vars
    BY <1>5, WriterSame DEF vars
  <1>. QED
    BY <1>1, <1>2, <1>3, <1>4, <1>5 DEF Next, PublisherStep

LEMMA InitWriter ==
    ASSUME Init
    PROVE  WriterInv
  <1>1. pc["capture"] \in {"idle", "off"} /\ acked.phase = "none" /\ acked.frames = 0
        /\ known = {} /\ intent = "run"
    BY CaptureIs DEF Init
  <1>. QED
    BY <1>1 DEF WriterInv, Publishing, Captured, Before, After

-----------------------------------------------------------------------------
(* The first record.                                                        *)

\* A step of the writer, or one that leaves the files alone, before there is a recording.
LEMMA PublisherBeginning ==
    ASSUME Struct, WriterInv, Beginning, NEW p \in Processes, PublisherStep(p)
    PROVE  Beginning'
  <1>0. FilesOK /\ StateOK /\ PlaceInv /\ FileInv /\ Place(p) /\ pc \in [Processes -> Places]
    BY DEF Struct, TypeInv, StateOK, PlaceInv
  <1>1. pc[p] \notin {"idle", "off", "failed"}
    BY DEF PublisherStep, Check, Link, Prepare, Create, Write, Swap, Commit, Undo, Restore, Resync,
       Clean, Release, Kill, Idle
  <1>2. Others(p)
    BY CheckStruct, LinkStruct, PrepareStruct, CreateStruct, WriteStruct, SwapStruct,
       CommitStruct, UndoStruct, RestoreStruct, ResyncStruct, CleanStruct, ReleaseStruct,
       KillStruct DEF PublisherStep, Stepped
  <1>3. SUFFICES ASSUME ~Captured', pc'["capture"] \notin {"off", "failed"}
                 PROVE  Beginning'
    BY DEF Beginning
  <1>4. ~Captured
    <2>1. CASE p # "capture"
      BY <1>3, <2>1, WriterApart DEF Captured
    <2>2. CASE p = "capture" /\ Release(p)
      <3>1. bytes[p].phase # "none"
        BY <1>0, <2>2 DEF Release, Place, After, Kind
      <3>2. Abandon(p) \/ Acknowledge(p)
        BY <2>2 DEF Release
      <3>. QED
        BY <1>3, <2>2, <3>1, <3>2 DEF Captured, Acknowledge, Abandon
    <2>3. CASE p = "capture" /\ ~Release(p)
      BY <1>3, <2>3 DEF Captured, PublisherStep, Check, Link, Prepare, Create, Write, Swap, Commit,
         Undo, Restore, Resync, Clean, Kill, Abandon, Proceed
    <2>. QED
      BY <2>1, <2>2, <2>3
  <1>5. p = "capture"
    <2>1. SUFFICES ASSUME p # "capture" PROVE FALSE
      OBVIOUS
    <2>2. pc["capture"] \notin {"off", "failed"} /\ p \in Attempts
      BY <1>3, <2>1, WriterApart DEF Processes
    <2>. QED
      BY <1>1, <1>4, <2>2 DEF Beginning
  <1>6. /\ acked.facts = {} /\ \A a \in Attempts : pc[a] = "idle"
        /\ options["audio"] = {None} /\ options["previous"] = {None}
        /\ pc[p] \in {"idle", "check", "create", "write", "swap"} => options["sidecar"] = {None}
        /\ pc[p] = "commit" => dir["sidecar"] = bytes[p]
        /\ pc[p] = "release" => options["sidecar"] = {bytes[p]}
    BY <1>1, <1>4, <1>5 DEF Beginning
  <1>7. \A a \in Attempts : pc'[a] = "idle"
    BY <1>2, <1>5, <1>6, CaptureIs DEF Others
  <1>8. pc[p] \in Before \cup After => ~prior[p]
    BY <1>4, <1>5 DEF WriterInv, Publishing
  <1>9. ~Abandon(p) /\ ~Kill(p) /\ ~Acknowledge(p)
    <2>1. ~Abandon(p) /\ ~Kill(p)
      BY <1>0, <1>3, <1>5 DEF Abandon, Kill, Goto
    <2>2. Acknowledge(p) => pc[p] = "release"
      BY <1>0, <1>3, <1>5 DEF PublisherStep, Check, Link, Prepare, Create, Write, Swap, Commit,
         Undo, Restore, Resync, Clean, Release, Kill, Abandon, Proceed, Acknowledge, Goto
    <2>3. Acknowledge(p) => Captured'
      <3>1. pc[p] = "release" => bytes[p].phase # "none"
        BY <1>0, <1>5 DEF Place, After, Kind
      <3>. QED
        BY <1>5, <2>2, <3>1 DEF Acknowledge, Captured
    <2>. QED
      BY <1>3, <2>1, <2>3
  <1>10. /\ acked' = acked /\ options'["audio"] = {None} /\ options'["previous"] = {None}
         /\ pc'[p] \in {"idle", "check", "create", "write", "swap"} => options'["sidecar"] = {None}
         /\ pc'[p] = "commit" => dir'["sidecar"] = bytes'[p]
         /\ pc'[p] = "release" => options'["sidecar"] = {bytes'[p]}
    <2>. DEFINE Goal == /\ acked' = acked /\ options'["audio"] = {None} /\ options'["previous"] = {None}
                        /\ pc'[p] \in {"idle", "check", "create", "write", "swap"}
                              => options'["sidecar"] = {None}
                        /\ pc'[p] = "commit" => dir'["sidecar"] = bytes'[p]
                        /\ pc'[p] = "release" => options'["sidecar"] = {bytes'[p]}
    <2>0. \A place : Proceed(p, place) => pc'[p] = place /\ acked' = acked
      BY <1>0 DEF Proceed, Goto
    <2>1. CASE Check(p)
      <3>1. UNCHANGED <<fileVars, bytes>> /\ Proceed(p, "create")
        BY <1>5, <1>8, <1>9, <2>1 DEF Check, Before, Place, PlaceInv
      <3>2. pc[p] = "check"
        BY <1>0, <1>5, <2>1 DEF Check, Place
      <3>. QED
        BY <1>6, <2>0, <3>1, <3>2 DEF fileVars
    <2>2. CASE Link(p) \/ Prepare(p) \/ Restore(p)
      BY <1>0, <1>5, <1>8, <2>2 DEF Link, Prepare, Restore, Place, Before, After
    <2>3. CASE Create(p)
      <3>1. SetName("pending", Torn) \/ UNCHANGED fileVars
        BY <2>3 DEF Create
      <3>2. \A n \in Names \ {"pending"} : dir'[n] = dir[n] /\ options'[n] = options[n]
        BY <3>1, SetNameEffect, NamesAre DEF fileVars
      <3>3. pc[p] = "create" /\ pc'[p] \in {"write", "clean"} /\ acked' = acked
        BY <2>0, <2>3 DEF Create
      <3>. QED
        BY <1>6, <3>2, <3>3, NamesAre
    <2>4. CASE Write(p)
      <3>1. \A n \in Names \ {"pending"} : dir'[n] = dir[n] /\ options'[n] = options[n]
        BY <1>0, <2>4, WriteEffect DEF Write, fileVars
      <3>2. pc[p] = "write" /\ pc'[p] \in {"swap", "clean"} /\ acked' = acked
        BY <2>0, <2>4 DEF Write
      <3>. QED
        BY <1>6, <3>1, <3>2, NamesAre
    <2>5. CASE Swap(p)
      <3>1. ~prior[p] /\ pc[p] = "swap" /\ dir["pending"] = bytes[p] /\ bytes' = bytes
        BY <1>0, <1>8, <2>5 DEF Swap, FileInv, After
      <3>2. CASE SetName("sidecar", dir["pending"]) /\ Proceed(p, "commit")
        <4>1. dir'["sidecar"] = bytes[p]
              /\ \A n \in Names \ {"sidecar"} : dir'[n] = dir[n] /\ options'[n] = options[n]
          BY <3>1, <3>2, SetNameEffect, NamesAre
        <4>. QED
          BY <1>6, <2>0, <3>1, <3>2, <4>1, NamesAre
      <3>3. CASE UNCHANGED fileVars /\ Proceed(p, "clean")
        BY <1>6, <2>0, <3>1, <3>3 DEF fileVars
      <3>. QED
        BY <2>5, <3>1, <3>2, <3>3 DEF Swap
    <2>6. CASE Commit(p)
      <3>1. pc[p] = "commit" /\ bytes' = bytes
        BY <2>6 DEF Commit
      <3>2. CASE SyncParent /\ Proceed(p, "release")
        <4>1. dir["sidecar"] = bytes[p] /\ options'["sidecar"] = {dir["sidecar"]}
              /\ options'["audio"] = {dir["audio"]} /\ options'["previous"] = {dir["previous"]}
              /\ dir["audio"] = None /\ dir["previous"] = None
          BY <1>0, <1>6, <3>1, <3>2, SyncEffect, NamesAre DEF FilesOK
        <4>. QED
          BY <2>0, <3>1, <3>2, <4>1
      <3>3. CASE UNCHANGED fileVars /\ Proceed(p, "undo")
        BY <1>6, <2>0, <3>1, <3>3 DEF fileVars
      <3>. QED
        BY <2>6, <3>2, <3>3 DEF Commit
    <2>7. CASE Undo(p)
      <3>1. SetName("sidecar", None) /\ Proceed(p, "resync")
        BY <1>8, <1>9, <2>7 DEF Undo, After
      <3>2. \A n \in Names \ {"sidecar"} : options'[n] = options[n]
        BY <3>1, SetNameEffect, NamesAre
      <3>. QED
        BY <1>6, <2>0, <3>1, <3>2, NamesAre
    <2>8. CASE Resync(p)
      <3>1. SyncParent /\ Proceed(p, "clean")
        BY <1>9, <2>8 DEF Resync
      <3>2. options'["audio"] = {dir["audio"]} /\ options'["previous"] = {dir["previous"]}
            /\ dir["audio"] = None /\ dir["previous"] = None
        BY <1>0, <1>6, <3>1, SyncEffect, NamesAre DEF FilesOK
      <3>. QED
        BY <2>0, <3>1, <3>2
    <2>9. CASE Clean(p)
      BY <1>8, <1>9, <2>9 DEF Clean, After
    <2>10. CASE Release(p)
      BY <1>9, <2>10 DEF Release
    <2>. QED
      BY <1>9, <2>1, <2>2, <2>3, <2>4, <2>5, <2>6, <2>7, <2>8, <2>9, <2>10 DEF PublisherStep
  <1>. QED
    BY <1>3, <1>5, <1>6, <1>7, <1>10 DEF Beginning

LEMMA NextBeginning ==
    ASSUME Struct, WriterInv, Beginning, [Next]_vars
    PROVE  Beginning'
  <1>0. FilesOK /\ StateOK /\ pc \in [Processes -> Places] /\ "capture" \in Processes
    BY CaptureIs DEF Struct, TypeInv, StateOK
  <1>1. ASSUME NEW p \in Processes, PublisherStep(p)
        PROVE  Beginning'
    BY <1>1, PublisherBeginning
  <1>2. CASE Begin
    <2>1. /\ pc["capture"] = "idle" /\ pc' = [pc EXCEPT !["capture"] = "check"]
          /\ UNCHANGED <<dir, options, acked>>
      BY <1>2 DEF Begin, Publish, Goto, fileVars
    <2>. QED
      BY <1>0, <2>1, CaptureIs DEF Beginning, Captured
  <1>3. CASE PersistBeforeAudio \/ WriteFrame \/ Finish \/ FinalizeWav \/ SyncAudio
    <2>1. Captured
      BY <1>3 DEF WriterInv, PersistBeforeAudio, WriteFrame, Finish, FinalizeWav, SyncAudio
    <2>2. acked' = acked
      BY <1>3 DEF PersistBeforeAudio, WriteFrame, Finish, FinalizeWav, SyncAudio, Abandon
    <2>. QED
      BY <2>1, <2>2 DEF Beginning, Captured
  <1>4. ASSUME NEW a \in Attempts, CountFrames(a) \/ Look(a) \/ ReadPrimary(a) \/ Load(a)
        PROVE  Beginning'
    <2>1. /\ UNCHANGED <<dir, options, bytes, acked>> /\ pc'["capture"] = pc["capture"]
      BY <1>4, ReaderApart DEF fileVars
    <2>2. pc[a] # "idle" \/ dir["audio"] # None
      BY <1>4 DEF CountFrames, Look, ReadPrimary, Load
    <2>3. dir["audio"] \in options["audio"]
      BY <1>0, NamesAre DEF FilesOK
    <2>. QED
      BY <2>1, <2>2, <2>3 DEF Beginning, Captured
  <1>5. CASE PowerFailure
    <2>1. pc'["capture"] \in {"off", "failed", "done"} /\ UNCHANGED acked
          /\ (pc'["capture"] = "done" => pc["capture"] = "done")
      BY <1>5, PowerStruct DEF Idle, PowerFailure
    <2>. QED
      BY <2>1 DEF Beginning, WriterInv, Captured
  <1>6. CASE UNCHANGED vars
    BY <1>6 DEF vars, Beginning, Captured
  <1>. QED
    BY <1>1, <1>2, <1>3, <1>4, <1>5, <1>6 DEF Next, PublisherStep

LEMMA InitBeginning ==
    ASSUME Init
    PROVE  Beginning
  <1>1. /\ acked.facts = {} /\ \A a \in Attempts : pc[a] = "idle"
        /\ options["previous"] = {None} /\ options["sidecar"] = {None}
    BY CaptureIs, NamesAre DEF Init
  <1>2. pc["capture"] \in {"idle", "off"}
    BY CaptureIs DEF Init
  <1>3. pc["capture"] = "idle" => options["audio"] = {None}
    BY CaptureIs, NamesAre DEF Init
  <1>. QED
    BY <1>1, <1>2, <1>3 DEF Beginning

-----------------------------------------------------------------------------
(* What was acknowledged is kept.                                           *)

LEMMA GoodStays ==
    ASSUME acked' = acked, known \subseteq known'
    PROVE  \A s : Good(s) => Good(s)'
  BY DEF Good, History

\* While p is publishing nobody else is.
LEMMA Alone ==
    ASSUME Struct, Captured, Kept, NEW p \in Processes, pc[p] \in After
    PROVE  \A q \in Processes \ {p} : pc[q] \notin After
  BY DEF Kept, Stage, Struct, FileInv, Holds

\* p is not publishing a record.
LEMMA StageOutside ==
    ASSUME NEW p, pc'[p] \notin After, pc'[p] # "recheck"
    PROVE  Stage(p)'
  BY DEF Stage, After

LEMMA KeptStep ==
    ASSUME Struct, Captured, Kept, NEW p \in Processes, Others(p),
           acked' = acked, known \subseteq known', Safe', Stage(p)',
           \/ \A q \in Processes \ {p} : pc[q] \notin After
           \/ \A n \in {"sidecar", "previous"} :
                dir'[n] = dir[n] /\ options'[n] \in {options[n], {dir[n]}}
    PROVE  Kept'
  <1>1. \A q \in Processes \ {p} : Stage(q)'
    <2>1. SUFFICES ASSUME NEW q \in Processes \ {p} PROVE Stage(q)'
      OBVIOUS
    <2>2. Stage(q) /\ pc'[q] = pc[q] /\ prior'[q] = prior[q] /\ bytes'[q] = bytes[q]
      BY <2>1 DEF Kept, Others
    <2>3. CASE pc[q] \notin After
      BY <2>2, <2>3, StageOutside DEF Stage
    <2>4. CASE /\ dir'["sidecar"] = dir["sidecar"] /\ dir'["previous"] = dir["previous"]
               /\ options'["sidecar"] \in {options["sidecar"], {dir["sidecar"]}}
               /\ options'["previous"] \in {options["previous"], {dir["previous"]}}
      BY <2>2, <2>4, GoodStays DEF Stage
    <2>. QED
      BY <2>3, <2>4
  <1>. QED
    BY <1>1 DEF Kept

\* The files the record depends on are as they were, or synced.
LEMMA SafeSame ==
    ASSUME FilesOK, Safe, acked' = acked, known \subseteq known',
           \A n \in {"sidecar", "previous"} :
             dir'[n] = dir[n] /\ options'[n] \in {options[n], {dir[n]}}
    PROVE  Safe'
  <1>1. options'["sidecar"] \subseteq options["sidecar"] /\ options'["previous"] \subseteq options["previous"]
    BY NamesAre DEF FilesOK
  <1>2. \A s \in options'["sidecar"] : Good(s)'
    BY <1>1, GoodStays DEF Safe
  <1>3. \A s \in options'["sidecar"], v \in options'["previous"] : v # None => Preserves(s, v)
    BY <1>1 DEF Safe
  <1>4. dir'["previous"] = None => options'["sidecar"] = {dir'["sidecar"]}
    BY DEF Safe
  <1>. QED
    BY <1>2, <1>3, <1>4 DEF Safe

LEMMA KeptSame ==
    ASSUME Struct, Captured, Kept, NEW p \in Processes, Others(p),
           acked' = acked, known \subseteq known', Stage(p)',
           \A n \in {"sidecar", "previous"} :
             dir'[n] = dir[n] /\ options'[n] \in {options[n], {dir[n]}}
    PROVE  Kept'
  <1>1. Safe /\ FilesOK
    BY DEF Kept, Struct, TypeInv
  <1>2. Safe'
    BY <1>1, SafeSame
  <1>. QED
    BY <1>2, KeptStep

\* p gives up or is killed.
LEMMA KeptAbandon ==
    ASSUME Struct, Captured, Kept, NEW p \in Processes, Others(p), Abandon(p) \/ Kill(p),
           UNCHANGED fileVars
    PROVE  Kept'
  <1>1. pc'[p] \in {"failed", "off"} /\ acked' = acked /\ known' = known
    BY DEF Abandon, Kill, Goto, Struct, TypeInv, StateOK, captureVars
  <1>2. Stage(p)'
    BY <1>1, StageOutside DEF After
  <1>. QED
    BY <1>1, <1>2, KeptSame DEF fileVars

LEMMA KeptCheck ==
    ASSUME Struct, WriterInv, Captured, Kept, NEW p \in Processes, Check(p)
    PROVE  Kept'
  <1>0. Others(p) /\ pc \in [Processes -> Places] /\ Place(p) /\ Stage(p) /\ UNCHANGED fileVars
    BY CheckStruct DEF Stepped, Struct, TypeInv, StateOK, PlaceInv, Kept, Check
  <1>1. CASE Abandon(p)
    BY <1>0, <1>1, KeptAbandon
  <1>2. CASE Proceed(p, IF pc[p] = "recheck" \/ (p = "capture" /\ ~prior[p]) THEN "create" ELSE "link")
    <2>1. p = "capture" => prior[p]
      BY DEF WriterInv, Publishing, Check, Before
    <2>2. pc'[p] = "link" /\ acked' = acked /\ known' = known
      BY <1>0, <1>2, <2>1 DEF Stage, Proceed, Goto, captureVars
    <2>3. Stage(p)'
      BY <2>2, StageOutside DEF After
    <2>. QED
      BY <1>0, <2>2, <2>3, KeptSame DEF fileVars
  <1>. QED
    BY <1>1, <1>2 DEF Check

LEMMA KeptLink ==
    ASSUME Struct, WriterInv, Captured, Kept, NEW p \in Processes, Link(p)
    PROVE  Kept'
  <1>0. /\ Others(p) /\ pc \in [Processes -> Places] /\ Place(p) /\ FilesOK /\ Safe
        /\ prior \in [Processes -> BOOLEAN]
    BY LinkStruct DEF Stepped, Struct, TypeInv, StateOK, PlaceInv, Kept
  <1>1. dir["sidecar"] \in options["sidecar"] /\ Good(dir["sidecar"]) /\ dir["sidecar"] \in Snapshot
    BY <1>0, NamesAre DEF FilesOK, Safe, Good
  <1>2. CASE Abandon(p) /\ UNCHANGED fileVars
    BY <1>0, <1>2, KeptAbandon
  <1>3. CASE /\ dir["previous"] = None /\ SetName("previous", dir["sidecar"])
             /\ prior' = [prior EXCEPT ![p] = TRUE] /\ Proceed(p, "prepare")
    <2>1. pc'[p] = "prepare" /\ prior'[p] /\ acked' = acked /\ known' = known
      BY <1>0, <1>3 DEF Proceed, Goto, captureVars
    <2>2. /\ dir'["previous"] = dir["sidecar"] /\ dir'["sidecar"] = dir["sidecar"]
          /\ options'["previous"] = options["previous"] \cup {dir["sidecar"]}
          /\ options'["sidecar"] = options["sidecar"]
      BY <1>3, SetNameEffect, NamesAre
    <2>3. options["sidecar"] = {dir["sidecar"]} /\ Preserves(dir["sidecar"], dir["sidecar"])
      BY <1>0, <1>1, <1>3, PreservesReflexive DEF Safe
    <2>4. \A s \in options'["sidecar"] : Good(s)'
      BY <1>0, <2>1, <2>2, GoodStays DEF Safe
    <2>5. Safe'
      BY <1>0, <2>2, <2>3, <2>4 DEF Safe
    <2>6. Stage(p)'
      BY <2>1, <2>2, <2>3 DEF Stage
    <2>7. \A q \in Processes : ~Holds(q)
      BY <1>3, RecordIsWhole DEF Struct, FileInv
    <2>8. \A q \in Processes : pc[q] \notin After
      BY <2>7 DEF Kept, Stage, Holds
    <2>. QED
      BY <1>0, <2>1, <2>5, <2>6, <2>8, KeptStep
  <1>. QED
    BY <1>1, <1>2, <1>3, RecordIsWhole DEF Link

LEMMA KeptPrepare ==
    ASSUME Struct, WriterInv, Captured, Kept, NEW p \in Processes, Prepare(p)
    PROVE  Kept'
  <1>0. /\ Others(p) /\ StateOK /\ pc \in [Processes -> Places] /\ Place(p) /\ FilesOK /\ Safe
        /\ Stage(p) /\ pc[p] = "prepare" /\ bytes \in [Processes -> Values] /\ TypeInv
    BY PrepareStruct DEF Stepped, Struct, TypeInv, StateOK, PlaceInv, Kept, Prepare
  <1>. DEFINE old == dir["previous"]
              next == Prepared(p, old)
  <1>1. prior' = prior /\ acked' = acked /\ known' = known /\ prior[p]
    BY <1>0 DEF Prepare, Proceed, captureVars, Place
  <1>2. dir["sidecar"] = old /\ options["sidecar"] = {dir["sidecar"]} /\ Good(old) /\ old \in Snapshot
    BY <1>0 DEF Stage, Safe, Good
  <1>3. CASE Fails /\ UNCHANGED fileVars /\ Proceed(p, "clean")
    <2>1. pc'[p] = "clean"
      BY <1>0, <1>3 DEF Proceed, Goto
    <2>2. Stage(p)'
      BY <1>1, <1>2, <1>3, <2>1 DEF Stage, fileVars
    <2>. QED
      BY <1>0, <1>1, <1>3, <2>2, KeptSame DEF fileVars
  <1>4. CASE /\ SyncParent /\ bytes' = [bytes EXCEPT ![p] = next]
             /\ Proceed(p, IF next = None THEN "clean" ELSE "create")
    <2>1. /\ dir' = dir /\ options'["sidecar"] = {dir["sidecar"]} /\ options'["previous"] = {old}
      BY <1>0, <1>4, SyncEffect, NamesAre
    <2>2. pc'[p] = (IF next = None THEN "clean" ELSE "create") /\ bytes'[p] = next
      BY <1>0, <1>4 DEF Proceed, Goto
    <2>3. CASE next = None
      <3>1. Stage(p)'
        BY <1>1, <2>1, <2>2, <2>3 DEF Stage
      <3>. QED
        BY <1>0, <1>1, <2>1, <3>1, KeptSame
    <2>4. CASE next # None
      <3>1. p = "capture" => /\ Kind(bytes[p]) /\ bytes[p].quality = known
                             /\ Rank(bytes[p].phase) >= Rank(acked.phase)
                             /\ bytes[p].frames \in acked.frames .. audio.frames
        BY <1>0 DEF WriterInv, Publishing, After, Place
      <3>2. p = "capture" => bytes[p].frames \in acked.frames .. MaxFrames
        <4>1. audio.frames \in 0..MaxFrames /\ acked.frames \in 0..MaxFrames /\ MaxFrames \in Nat
          BY <1>0, StoreAssumption DEF StateOK
        <4>. QED
          BY <3>1, <4>1
      <3>3. /\ next \in Snapshot
            /\ p = "capture" => /\ next.phase = bytes[p].phase /\ next.frames = bytes[p].frames
                                /\ next.quality = bytes[p].quality
            /\ p # "capture" => /\ next.phase = old.phase /\ next.frames = old.frames
                                /\ next.quality = old.quality
            /\ old.quality \subseteq next.quality =>
                  Preserves(next, old) /\ History(old) \subseteq History(next)
        BY <1>0, <1>2, <2>4, <3>1, PreparedRecord DEF Kind
      <3>. HIDE DEF next
      <3>4. old.quality \subseteq next.quality /\ next.quality \subseteq known
        BY <1>2, <3>1, <3>3 DEF Good
      <3>5. Good(next) /\ Preserves(next, old)
        BY <1>2, <3>1, <3>2, <3>3, <3>4 DEF Good
      <3>6. Good(bytes[p])' /\ Good(dir["previous"])'
        BY <1>1, <1>2, <2>1, <2>2, <3>5 DEF Good, History
      <3>7. Stage(p)'
        BY <1>1, <1>2, <2>1, <2>2, <2>4, <3>5, <3>6 DEF Stage
      <3>. QED
        BY <1>0, <1>1, <2>1, <3>7, KeptSame
    <2>. QED
      BY <2>3, <2>4
  <1>. QED
    BY <1>3, <1>4 DEF Prepare

\* p is at work on its own pending file; what it has prepared stays good.
LEMMA KeptPending ==
    ASSUME Struct, Captured, Kept, NEW p \in Processes, Others(p),
           pc[p] \in {"create", "write", "swap"}, pc'[p] \in {"write", "swap", "clean"},
           bytes' = bytes, prior' = prior, acked' = acked, known' = known,
           \A n \in {"sidecar", "previous"} : dir'[n] = dir[n] /\ options'[n] = options[n]
    PROVE  Kept'
  <1>1. Stage(p)
    BY DEF Kept
  <1>2. /\ prior[p] /\ options["sidecar"] = {dir["sidecar"]} /\ dir["sidecar"] = dir["previous"]
        /\ options["previous"] = {dir["previous"]} /\ Good(dir["previous"])
        /\ Good(bytes[p]) /\ Preserves(bytes[p], dir["previous"])
    BY <1>1 DEF Stage, After
  <1>3. Good(bytes[p])' /\ Good(dir["previous"])'
    BY <1>2 DEF Good, History
  <1>4. Stage(p)'
    BY <1>2, <1>3 DEF Stage, After
  <1>. QED
    BY <1>4, KeptSame

LEMMA KeptCreate ==
    ASSUME Struct, Captured, Kept, NEW p \in Processes, Create(p)
    PROVE  Kept'
  <1>0. Others(p) /\ pc \in [Processes -> Places]
    BY CreateStruct DEF Stepped, Struct, TypeInv, StateOK
  <1>1. SetName("pending", Torn) \/ UNCHANGED fileVars
    BY DEF Create
  <1>2. \A n \in {"sidecar", "previous"} : dir'[n] = dir[n] /\ options'[n] = options[n]
    BY <1>1, SetNameEffect, NamesAre DEF fileVars
  <1>3. /\ pc[p] = "create" /\ pc'[p] \in {"write", "clean"} /\ bytes' = bytes /\ prior' = prior
        /\ acked' = acked /\ known' = known
    BY <1>0 DEF Create, Proceed, Goto, captureVars
  <1>. QED
    BY <1>0, <1>2, <1>3, KeptPending

LEMMA KeptWrite ==
    ASSUME Struct, Captured, Kept, NEW p \in Processes, Write(p)
    PROVE  Kept'
  <1>0. Others(p) /\ pc \in [Processes -> Places] /\ FilesOK
    BY WriteStruct DEF Stepped, Struct, TypeInv, StateOK
  <1>1. \A n \in {"sidecar", "previous"} : dir'[n] = dir[n] /\ options'[n] = options[n]
    BY <1>0, WriteEffect, NamesAre DEF Write, fileVars
  <1>2. /\ pc[p] = "write" /\ pc'[p] \in {"swap", "clean"} /\ bytes' = bytes /\ prior' = prior
        /\ acked' = acked /\ known' = known
    BY <1>0 DEF Write, Proceed, Goto, captureVars
  <1>. QED
    BY <1>0, <1>1, <1>2, KeptPending

\* p puts a good record, which preserves the prior one, in its place.
LEMMA KeptReplace ==
    ASSUME Struct, Captured, Kept, NEW p \in Processes, Others(p),
           pc[p] \in {"swap", "restore"}, NEW s, Good(s), Preserves(s, dir["previous"]),
           dir'["sidecar"] = s, options'["sidecar"] = options["sidecar"] \cup {s},
           dir'["previous"] = dir["previous"], options'["previous"] = options["previous"],
           bytes' = bytes, prior' = prior, acked' = acked, known' = known,
           \/ pc'[p] = "commit" /\ pc[p] = "swap" /\ s = bytes[p]
           \/ pc'[p] = "resync" /\ s = dir["previous"]
    PROVE  Kept'
  <1>1. Stage(p) /\ Safe
    BY DEF Kept
  <1>2. /\ prior[p] /\ options["previous"] = {dir["previous"]} /\ Good(dir["previous"])
        /\ pc[p] = "swap" => Good(bytes[p]) /\ Preserves(bytes[p], dir["previous"])
    BY <1>1 DEF Stage, After
  <1>3. /\ Good(dir["previous"])' /\ (pc[p] = "swap" => Good(bytes[p])')
    BY <1>2 DEF Good, History
  <1>4. Stage(p)'
    BY <1>2, <1>3 DEF Stage, After
  <1>5. dir["previous"] # None
    BY <1>2, RecordIsWhole DEF Good
  <1>6. \A t \in options'["sidecar"] : Good(t)'
    BY <1>1, GoodStays DEF Safe
  <1>7. Safe'
    BY <1>1, <1>2, <1>5, <1>6 DEF Safe
  <1>8. \A q \in Processes \ {p} : pc[q] \notin After
    BY Alone DEF After
  <1>. QED
    BY <1>4, <1>7, <1>8, KeptStep

LEMMA KeptSwap ==
    ASSUME Struct, Captured, Kept, NEW p \in Processes, Swap(p)
    PROVE  Kept'
  <1>0. Others(p) /\ pc \in [Processes -> Places] /\ FileInv /\ Stage(p) /\ pc[p] = "swap"
    BY SwapStruct DEF Stepped, Struct, TypeInv, StateOK, Kept, Swap
  <1>1. prior[p] /\ dir["pending"] = bytes[p] /\ Good(bytes[p]) /\ Preserves(bytes[p], dir["previous"])
    BY <1>0 DEF Stage, After, FileInv
  <1>2. bytes' = bytes /\ prior' = prior /\ acked' = acked /\ known' = known
    BY DEF Swap, Proceed, captureVars
  <1>3. CASE Rename("pending", "sidecar") /\ Proceed(p, "commit")
    <2>1. /\ dir'["sidecar"] = bytes[p] /\ options'["sidecar"] = options["sidecar"] \cup {bytes[p]}
          /\ dir'["previous"] = dir["previous"] /\ options'["previous"] = options["previous"]
      BY <1>1, <1>3, RenameEffect, NamesAre
    <2>2. pc'[p] = "commit"
      BY <1>0, <1>3 DEF Proceed, Goto
    <2>. QED
      BY <1>0, <1>1, <1>2, <2>1, <2>2, KeptReplace
  <1>4. CASE UNCHANGED fileVars /\ Proceed(p, "clean")
    <2>1. pc'[p] = "clean"
      BY <1>0, <1>4 DEF Proceed, Goto
    <2>. QED
      BY <1>0, <1>2, <1>4, <2>1, KeptPending DEF fileVars
  <1>. QED
    BY <1>1, <1>3, <1>4 DEF Swap

LEMMA KeptCommit ==
    ASSUME Struct, Captured, Kept, NEW p \in Processes, Commit(p)
    PROVE  Kept'
  <1>0. Others(p) /\ pc \in [Processes -> Places] /\ FilesOK /\ Stage(p) /\ pc[p] = "commit"
    BY CommitStruct DEF Stepped, Struct, TypeInv, StateOK, Kept, Commit
  <1>1. /\ prior[p] /\ options["previous"] = {dir["previous"]} /\ Good(dir["previous"])
        /\ Good(bytes[p]) /\ Preserves(bytes[p], dir["previous"]) /\ dir["sidecar"] = bytes[p]
    BY <1>0 DEF Stage, After
  <1>2. bytes' = bytes /\ prior' = prior /\ acked' = acked /\ known' = known
    BY DEF Commit, Proceed, captureVars
  <1>3. CASE SyncParent /\ Proceed(p, "release")
    <2>1. pc'[p] = "release"
      BY <1>0, <1>3 DEF Proceed, Goto
    <2>2. dir' = dir /\ options'["sidecar"] = {dir["sidecar"]} /\ options'["previous"] = {dir["previous"]}
      BY <1>0, <1>3, SyncEffect, NamesAre
    <2>3. Good(bytes[p])' /\ Good(dir["previous"])'
      BY <1>1, <1>2, <2>2 DEF Good, History
    <2>4. Stage(p)'
      BY <1>1, <1>2, <2>1, <2>2, <2>3 DEF Stage, After
    <2>. QED
      BY <1>0, <1>2, <2>2, <2>4, KeptSame
  <1>4. CASE UNCHANGED fileVars /\ Proceed(p, "undo")
    <2>1. pc'[p] = "undo" /\ dir' = dir /\ options' = options
      BY <1>0, <1>4 DEF Proceed, Goto, fileVars
    <2>2. Good(dir["previous"])'
      BY <1>1, <1>2, <2>1 DEF Good, History
    <2>3. Stage(p)'
      BY <1>1, <1>2, <2>1, <2>2 DEF Stage, After
    <2>. QED
      BY <1>0, <1>2, <2>1, <2>3, KeptSame
  <1>. QED
    BY <1>3, <1>4 DEF Commit

LEMMA KeptUndo ==
    ASSUME Struct, Captured, Kept, NEW p \in Processes, Undo(p) \/ Restore(p) \/ Resync(p)
    PROVE  Kept'
  <1>0. /\ Others(p) /\ pc \in [Processes -> Places] /\ FilesOK /\ FileInv /\ Stage(p)
        /\ pc[p] \in {"undo", "restore", "resync"}
    BY UndoStruct, RestoreStruct, ResyncStruct
       DEF Stepped, Struct, TypeInv, StateOK, Kept, Undo, Restore, Resync
  <1>1. /\ prior[p] /\ options["previous"] = {dir["previous"]} /\ Good(dir["previous"])
        /\ pc[p] = "resync" => dir["sidecar"] = dir["previous"]
        /\ dir["previous"] \in Snapshot
    BY <1>0 DEF Stage, After, Good
  <1>2. CASE Abandon(p) /\ UNCHANGED fileVars
    BY <1>0, <1>2, KeptAbandon
  <1>3. CASE /\ pc[p] = "undo" /\ SetName("restore", dir["previous"]) /\ Proceed(p, "restore")
             /\ UNCHANGED <<bytes, prior, owned>>
    <2>1. pc'[p] = "restore" /\ acked' = acked /\ known' = known
      BY <1>0, <1>3 DEF Proceed, Goto, captureVars
    <2>2. \A n \in {"sidecar", "previous"} : dir'[n] = dir[n] /\ options'[n] = options[n]
      BY <1>3, SetNameEffect, NamesAre
    <2>3. Good(dir["previous"])'
      BY <1>1, <2>1, <2>2 DEF Good, History
    <2>4. Stage(p)'
      BY <1>1, <1>3, <2>1, <2>2, <2>3 DEF Stage, After
    <2>. QED
      BY <1>0, <2>1, <2>2, <2>4, KeptSame
  <1>4. CASE /\ pc[p] = "restore" /\ Rename("restore", "sidecar") /\ Proceed(p, "resync")
             /\ UNCHANGED <<bytes, prior, owned>>
    <2>1. pc'[p] = "resync" /\ acked' = acked /\ known' = known
      BY <1>0, <1>4 DEF Proceed, Goto, captureVars
    <2>2. dir["restore"] = dir["previous"]
      BY <1>0, <1>4 DEF FileInv
    <2>3. /\ dir'["sidecar"] = dir["previous"]
          /\ options'["sidecar"] = options["sidecar"] \cup {dir["previous"]}
          /\ dir'["previous"] = dir["previous"] /\ options'["previous"] = options["previous"]
      BY <1>4, <2>2, RenameEffect, NamesAre
    <2>4. Preserves(dir["previous"], dir["previous"])
      BY <1>1, PreservesReflexive
    <2>. QED
      BY <1>0, <1>1, <1>4, <2>1, <2>3, <2>4, KeptReplace
  <1>5. CASE /\ pc[p] = "resync" /\ SyncParent /\ Proceed(p, "clean")
             /\ UNCHANGED <<bytes, prior, owned>>
    <2>1. pc'[p] = "clean" /\ acked' = acked /\ known' = known
      BY <1>0, <1>5 DEF Proceed, Goto, captureVars
    <2>2. dir' = dir /\ options'["sidecar"] = {dir["sidecar"]} /\ options'["previous"] = {dir["previous"]}
      BY <1>0, <1>5, SyncEffect, NamesAre
    <2>3. Stage(p)'
      BY <1>1, <1>5, <2>1, <2>2 DEF Stage, After
    <2>. QED
      BY <1>0, <2>1, <2>2, <2>3, KeptSame
  <1>. QED
    BY <1>1, <1>2, <1>3, <1>4, <1>5 DEF Undo, Restore, Resync

LEMMA KeptClean ==
    ASSUME Struct, Captured, Kept, NEW p \in Processes, Clean(p)
    PROVE  Kept'
  <1>0. /\ Others(p) /\ pc \in [Processes -> Places] /\ FilesOK /\ Stage(p) /\ Safe
        /\ pc[p] = "clean"
    BY CleanStruct DEF Stepped, Struct, TypeInv, StateOK, Kept, Clean
  <1>1. prior[p] /\ options["sidecar"] = {dir["sidecar"]}
    BY <1>0 DEF Stage, After
  <1>2. acked' = acked /\ known' = known /\ pc'[p] \in {"clean", "failed"} /\ prior' = prior
    BY <1>0 DEF Clean, Abandon, Proceed, Goto, captureVars
  <1>3. \/ UNCHANGED fileVars \/ SetName("pending", None)
        \/ SetName("previous", None) /\ ~owned[p]
    BY DEF Clean
  <1>4. CASE UNCHANGED fileVars \/ SetName("pending", None)
    <2>1. \A n \in {"sidecar", "previous"} : dir'[n] = dir[n] /\ options'[n] = options[n]
      BY <1>4, SetNameEffect, NamesAre DEF fileVars
    <2>2. Stage(p)'
      BY <1>1, <1>2, <2>1 DEF Stage, After
    <2>. QED
      BY <1>0, <1>2, <2>1, <2>2, KeptSame
  <1>5. CASE SetName("previous", None) /\ ~owned[p]
    <2>1. pc'[p] = "failed"
      BY <1>0, <1>5 DEF Clean, Abandon, Goto
    <2>2. /\ dir'["sidecar"] = dir["sidecar"] /\ options'["sidecar"] = options["sidecar"]
          /\ options'["previous"] = options["previous"] \cup {None}
      BY <1>5, SetNameEffect, NamesAre
    <2>3. \A s \in options'["sidecar"] : Good(s)'
      BY <1>0, <1>2, <2>2, GoodStays DEF Safe
    <2>4. Safe'
      BY <1>0, <1>1, <2>2, <2>3 DEF Safe
    <2>5. Stage(p)'
      BY <2>1, StageOutside DEF After
    <2>6. \A q \in Processes \ {p} : pc[q] \notin After
      BY <1>0, Alone DEF After
    <2>. QED
      BY <1>0, <1>2, <2>4, <2>5, <2>6, KeptStep
  <1>. QED
    BY <1>3, <1>4, <1>5

\* A call returns Ok: what it has published is all there is.
LEMMA ReleaseGood ==
    ASSUME Struct, NEW p \in Processes, Acknowledge(p), bytes[p] \in Snapshot,
           acked.facts \subseteq History(bytes[p]), bytes[p].quality \subseteq known,
           p = "capture" => Kind(bytes[p]),
           p # "capture" => /\ Rank(bytes[p].phase) >= Rank(acked.phase)
                            /\ bytes[p].frames \in acked.frames .. MaxFrames,
           options'["sidecar"] = {bytes[p]}, dir'["sidecar"] = bytes[p],
           \A v \in options'["previous"] : v # None => Preserves(bytes[p], v),
           \A q \in Processes : pc'[q] \notin After /\ pc'[q] # "recheck"
    PROVE  Kept'
  <1>1. /\ known' = known /\ acked'.facts = acked.facts \cup History(bytes[p])
        /\ acked'.phase = IF p = "capture" THEN bytes[p].phase ELSE acked.phase
        /\ acked'.frames = IF p = "capture" THEN bytes[p].frames ELSE acked.frames
    BY DEF Acknowledge
  <1>2. bytes[p].phase \in {"legacy_unknown", "in_progress", "finalizing", "audio_durable"}
    BY RecordFields
  <1>3. /\ Rank(bytes[p].phase) >= Rank(acked'.phase)
        /\ bytes[p].frames \in acked'.frames .. MaxFrames
    <2>1. CASE p # "capture"
      BY <1>1, <2>1
    <2>2. CASE p = "capture"
      <3>1. Rank(bytes[p].phase) \in Nat
        BY <1>2, Ranks
      <3>2. bytes[p].frames \in 0..MaxFrames /\ MaxFrames \in Nat
        BY <2>2, StoreAssumption DEF Kind
      <3>. QED
        BY <1>1, <2>2, <3>1, <3>2
    <2>. QED
      BY <2>1, <2>2
  <1>4. Safe'
    BY <1>1, <1>3 DEF Safe, Good, History
  <1>5. \A q \in Processes : Stage(q)'
    BY StageOutside
  <1>. QED
    BY <1>4, <1>5 DEF Kept

LEMMA KeptRelease ==
    ASSUME Struct, WriterInv, Beginning, Kept, NEW p \in Processes, Release(p)
    PROVE  Kept'
  <1>0. /\ Others(p) /\ pc \in [Processes -> Places] /\ FilesOK /\ StateOK /\ Place(p)
        /\ pc[p] = "release" /\ pc[p] \in After
    BY ReleaseStruct DEF Stepped, Struct, TypeInv, StateOK, PlaceInv, Release, After
  <1>a. bytes[p] \in Snapshot /\ (p = "capture" => Kind(bytes[p]))
    BY <1>0 DEF Place, After
  <1>1. CASE UNCHANGED fileVars /\ Abandon(p)
    <2>1. CASE Captured
      BY <1>0, <1>1, <2>1, KeptAbandon
    <2>2. CASE ~Captured
      BY <1>1, <2>2 DEF Kept, Captured, Abandon
    <2>. QED
      BY <2>1, <2>2
  <1>2. CASE Works /\ SetName(IF prior[p] THEN "previous" ELSE "pending", None) /\ Acknowledge(p)
    <2>1. pc'[p] \notin After /\ pc'[p] # "recheck"
      <3>1. pc'[p] \in {"done", "open", "wav"}
        BY <1>0, <1>2, AcknowledgeState
      <3>. QED
        BY <3>1 DEF After
    <2>2. CASE Captured
      <3>1. Stage(p) /\ Safe /\ \A q \in Processes : Stage(q)
        BY <2>2 DEF Kept
      <3>2. /\ prior[p] /\ options["sidecar"] = {bytes[p]} /\ dir["sidecar"] = bytes[p]
            /\ Good(bytes[p])
        BY <1>0, <3>1 DEF Stage
      <3>3. /\ dir'["sidecar"] = bytes[p] /\ options'["sidecar"] = {bytes[p]}
            /\ options'["previous"] = options["previous"] \cup {None}
        BY <1>2, <3>2, SetNameEffect, NamesAre
      <3>4. \A v \in options'["previous"] : v # None => Preserves(bytes[p], v)
        BY <3>1, <3>2, <3>3 DEF Safe
      <3>5. \A q \in Processes \ {p} : pc[q] \notin After /\ pc[q] # "recheck"
        BY <1>0, <2>2, <3>1, Alone DEF Stage
      <3>6. \A q \in Processes : pc'[q] \notin After /\ pc'[q] # "recheck"
        BY <1>0, <2>1, <3>5 DEF Others
      <3>. QED
        BY <1>2, <1>a, <3>2, <3>3, <3>4, <3>6, ReleaseGood DEF Good
    <2>3. CASE ~Captured /\ p # "capture"
      BY <1>2, <2>3 DEF Kept, Captured, Acknowledge
    <2>4. CASE ~Captured /\ p = "capture"
      <3>1. /\ acked.facts = {} /\ \A a \in Attempts : pc[a] = "idle"
            /\ options["previous"] = {None} /\ options["sidecar"] = {bytes[p]}
        BY <1>0, <2>4 DEF Beginning
      <3>2. ~prior[p] /\ bytes[p].quality = known
        BY <1>0, <2>4 DEF WriterInv, Publishing
      <3>3. dir["sidecar"] = bytes[p]
        BY <1>0, <3>1, NamesAre DEF FilesOK
      <3>4. /\ dir'["sidecar"] = bytes[p] /\ options'["sidecar"] = {bytes[p]}
            /\ options'["previous"] = {None}
        BY <1>2, <3>1, <3>2, <3>3, SetNameEffect, NamesAre
      <3>5. \A q \in Processes : pc'[q] \notin After /\ pc'[q] # "recheck"
        BY <1>0, <2>1, <2>4, <3>1 DEF Others, Processes, After
      <3>. QED
        BY <1>2, <1>a, <2>4, <3>1, <3>2, <3>4, <3>5, ReleaseGood
    <2>. QED
      BY <2>2, <2>3, <2>4
  <1>. QED
    BY <1>1, <1>2 DEF Release

\* A step of the writer between two publications.
LEMMA WriterKept ==
    ASSUME Struct, WriterInv, Kept,
           Begin \/ PersistBeforeAudio \/ WriteFrame \/ Finish \/ FinalizeWav \/ SyncAudio
    PROVE  Kept'
  <1>0. /\ FilesOK /\ StateOK /\ pc \in [Processes -> Places] /\ "capture" \in Processes
        /\ Stepped("capture")
    BY CaptureIs, BeginStruct, PersistStruct, WriteFrameStruct, FinishStruct, FinalizeStruct,
       SyncAudioStruct DEF Struct, TypeInv, StateOK
  <1>1. acked' = acked /\ known \subseteq known'
    BY DEF Begin, PersistBeforeAudio, WriteFrame, Finish, FinalizeWav, SyncAudio, Abandon, captureVars
  <1>2. pc'["capture"] \in {"check", "open", "audio", "failed"}
    BY <1>0 DEF Begin, PersistBeforeAudio, WriteFrame, Finish, FinalizeWav, SyncAudio, Abandon,
       Publish, Goto
  <1>3. Stage("capture")'
    BY <1>2, StageOutside DEF After
  <1>4. \A n \in {"sidecar", "previous"} :
          dir'[n] = dir[n] /\ options'[n] \in {options[n], {dir[n]}}
    <2>1. CASE SetName("audio", "wav")
      BY <2>1, SetNameEffect, NamesAre
    <2>2. CASE UNCHANGED fileVars
      BY <2>2 DEF fileVars
    <2>3. CASE SyncParent
      BY <1>0, <2>3, SyncEffect, NamesAre
    <2>. QED
      BY <2>1, <2>2, <2>3 DEF Begin, PersistBeforeAudio, WriteFrame, Finish, FinalizeWav, SyncAudio
  <1>5. CASE Captured
    BY <1>0, <1>1, <1>3, <1>4, <1>5, KeptSame DEF Stepped
  <1>6. CASE ~Captured
    BY <1>1, <1>6 DEF Kept, Captured
  <1>. QED
    BY <1>5, <1>6

LEMMA PowerKept ==
    ASSUME Struct, Kept, PowerFailure
    PROVE  Kept'
  <1>1. FilesOK /\ StateOK /\ PowerFails /\ acked' = acked /\ known' = known
    BY PowerEffect DEF Struct, TypeInv, PowerFailure
  <1>2. SUFFICES ASSUME Captured PROVE Kept'
    BY <1>1 DEF Kept, Captured
  <1>3. /\ Safe /\ options'["sidecar"] = {dir'["sidecar"]} /\ dir'["sidecar"] \in options["sidecar"]
        /\ options'["previous"] = {dir'["previous"]} /\ dir'["previous"] \in options["previous"]
    BY <1>1, <1>2, NamesAre DEF Kept, PowerFails
  <1>4. Good(dir["sidecar"])'
    BY <1>1, <1>3 DEF Safe, Good, History
  <1>5. Safe'
    BY <1>3, <1>4 DEF Safe
  <1>6. \A p \in Processes : pc'[p] \in Idle
    BY DEF PowerFailure, Idle
  <1>7. \A p \in Processes : Stage(p)'
    BY <1>6, StageOutside DEF Idle, After
  <1>. QED
    BY <1>5, <1>7 DEF Kept

LEMMA NextKept ==
    ASSUME Struct, WriterInv, Beginning, Kept, [Next]_vars
    PROVE  Kept'
  <1>1. ASSUME NEW p \in Processes, PublisherStep(p)
        PROVE  Kept'
    <2>1. CASE Release(p)
      BY <2>1, KeptRelease
    <2>2. CASE Captured /\ ~Release(p)
      <3>1. CASE Kill(p)
        BY <2>2, <3>1, KillStruct, KeptAbandon DEF Kill, Stepped
      <3>. QED
        BY <1>1, <2>2, <3>1, KeptCheck, KeptLink, KeptPrepare, KeptCreate, KeptWrite, KeptSwap,
           KeptCommit, KeptUndo, KeptClean DEF PublisherStep
    <2>3. CASE ~Captured /\ ~Release(p)
      <3>1. acked' = acked
        BY <1>1, <2>3 DEF PublisherStep, Check, Link, Prepare, Create, Write, Swap, Commit, Undo,
           Restore, Resync, Clean, Kill, Abandon, Proceed
      <3>. QED
        BY <2>3, <3>1 DEF Kept, Captured
    <2>. QED
      BY <2>1, <2>2, <2>3
  <1>2. CASE Begin \/ PersistBeforeAudio \/ WriteFrame \/ Finish \/ FinalizeWav \/ SyncAudio
    BY <1>2, WriterKept
  <1>3. ASSUME NEW a \in Attempts, CountFrames(a) \/ Look(a) \/ ReadPrimary(a) \/ Load(a)
        PROVE  Kept'
    <2>1. /\ UNCHANGED <<dir, options, known, acked>> /\ a \in Processes /\ Others(a)
          /\ pc'[a] \in {"look", "read", "load", "check", "failed"}
      BY <1>3, ReaderApart DEF fileVars, captureVars, Stepped
    <2>2. Stage(a)'
      BY <2>1, StageOutside DEF After
    <2>3. CASE Captured
      BY <2>1, <2>2, <2>3, KeptSame
    <2>4. CASE ~Captured
      BY <2>1, <2>4 DEF Kept, Captured
    <2>. QED
      BY <2>3, <2>4
  <1>4. CASE PowerFailure
    BY <1>4, PowerKept
  <1>5. CASE UNCHANGED vars
    BY <1>5 DEF vars, Kept, Captured, Safe, Stage, Good, History, Preserves
  <1>. QED
    BY <1>1, <1>2, <1>3, <1>4, <1>5 DEF Next, PublisherStep

\* What a reader makes of the files, behind a publication or not, is the record.
LEMMA KeptIsRead ==
    ASSUME Struct, Captured, Kept
    PROVE  AcknowledgedIsKept
  <1>1. FilesOK /\ StateOK /\ Safe
    BY DEF Struct, TypeInv, Kept
  <1>2. Good(dir["sidecar"]) /\ dir["sidecar"] \in options["sidecar"]
        /\ dir["previous"] \in options["previous"]
    BY <1>1, NamesAre DEF Safe, FilesOK
  <1>3. dir["sidecar"] \in Snapshot /\ Whole(dir["sidecar"])
    BY <1>2, RecordIsWhole DEF Good
  <1>4. dir["previous"] # None => Preserves(dir["sidecar"], dir["previous"])
    BY <1>1, <1>2 DEF Safe
  <1>5. LoadQuality(HasTemporary, dir["sidecar"]) = dir["sidecar"]
    <2>1. Whole(dir["previous"]) => dir["previous"] # None
      BY DEF Whole
    <2>. QED
      BY <1>3, <1>4, <2>1, Zenon DEF LoadQuality
  <1>6. acked.frames \in 0..MaxFrames /\ MaxFrames \in Nat
    BY <1>1, StoreAssumption DEF StateOK
  <1>7. dir["sidecar"].frames >= acked.frames
    BY <1>2, <1>6 DEF Good
  <1>. QED
    BY <1>2, <1>3, <1>5, <1>7 DEF AcknowledgedIsKept, Good

\* The invariants together.
LEMMA KeptAlways == Spec => [](Struct /\ WriterInv /\ Beginning /\ Kept)
  <1>1. Init => WriterInv /\ Beginning /\ Kept
    BY InitWriter, InitBeginning DEF Init, Kept, Captured
  <1>2. Struct /\ WriterInv /\ Beginning /\ Kept /\ [Next]_vars => WriterInv' /\ Beginning' /\ Kept'
    BY NextWriter, NextBeginning, NextKept
  <1>. QED
    BY <1>1, <1>2, StructAlways, PTL DEF Spec

\* Once the capture writer's first record is acknowledged, what any call that returned Ok has
\* published is what a reader finds from then on (publish_owned links the prior record, swaps the
\* new one in and removes the link; load_quality compares the two): with any number of redo
\* attempts at a time, of failing file system calls, kills and power failures.  A recording
\* without a record of its capture is the exception, see README.md.
THEOREM CapturedIsKept == Spec => [](acked.phase # "none" => AcknowledgedIsKept)
  <1>1. Struct /\ Kept => (acked.phase # "none" => AcknowledgedIsKept)
    BY KeptIsRead DEF Captured
  <1>. QED
    BY <1>1, KeptAlways, PTL

-----------------------------------------------------------------------------
(* Certificates.                                                            *)

\* Publishing leaves the audio's name alone, or syncs it.
LEMMA PublisherAudio ==
    ASSUME FilesOK, NEW p \in Processes, PublisherStep(p)
    PROVE  dir'["audio"] = dir["audio"] /\ options'["audio"] \in {options["audio"], {dir["audio"]}}
  <1>1. \/ UNCHANGED fileVars \/ SyncParent
        \/ \E n \in {"pending", "previous", "restore", "sidecar"}, v \in {dir["sidecar"], Torn, None,
              dir["pending"], dir["previous"]} : SetName(n, v)
        \/ \E n \in {"pending", "restore"} : Rename(n, "sidecar")
        \/ Write(p)
    <2>1. CASE Check(p) \/ Kill(p)
      BY <2>1 DEF Check, Kill
    <2>2. CASE Link(p) \/ Prepare(p) \/ Create(p) \/ Swap(p)
      BY <2>2 DEF Link, Prepare, Create, Swap
    <2>3. CASE Commit(p) \/ Undo(p) \/ Restore(p) \/ Resync(p)
      BY <2>3 DEF Commit, Undo, Restore, Resync
    <2>4. CASE Clean(p) \/ Release(p)
      BY <2>4 DEF Clean, Release
    <2>. QED
      BY <2>1, <2>2, <2>3, <2>4 DEF PublisherStep
  <1>2. CASE UNCHANGED fileVars
    BY <1>2 DEF fileVars
  <1>3. CASE SyncParent
    BY <1>3, SyncEffect, NamesAre
  <1>4. ASSUME NEW n \in {"pending", "previous", "restore", "sidecar"}, NEW v, SetName(n, v)
        PROVE  dir'["audio"] = dir["audio"] /\ options'["audio"] = options["audio"]
    BY <1>4, SetNameEffect, NamesAre
  <1>5. ASSUME NEW n \in {"pending", "restore"}, Rename(n, "sidecar")
        PROVE  dir'["audio"] = dir["audio"] /\ options'["audio"] = options["audio"]
    BY <1>5, RenameEffect, NamesAre
  <1>6. CASE Write(p)
    BY <1>6, WriteEffect, NamesAre DEF Write, fileVars
  <1>. QED
    BY <1>1, <1>2, <1>3, <1>4, <1>5, <1>6

\* What a step of publishing makes of the writer.
LEMMA CapturePublishes ==
    ASSUME Struct, WriterInv, PublisherStep("capture")
    PROVE  \/ Abandon("capture") \/ Kill("capture")
           \/ Acknowledge("capture") /\ pc["capture"] = "release" /\ Release("capture")
           \/ /\ Publishing /\ Publishing' /\ UNCHANGED <<audio, known, store, intent, acked>>
              /\ bytes'["capture"] \in Snapshot /\ bytes'["capture"].phase = bytes["capture"].phase
              /\ bytes'["capture"].quality = bytes["capture"].quality
  <1>. DEFINE p == "capture"
  <1>0. /\ FilesOK /\ StateOK /\ FileInv /\ Place(p) /\ pc \in [Processes -> Places] /\ p \in Processes
        /\ bytes \in [Processes -> Values]
    BY CaptureIs DEF Struct, TypeInv, StateOK, PlaceInv
  <1>. HIDE DEF p
  <1>p. p = "capture"
    BY DEF p
  <1>a. PublisherStep(p)
    BY <1>p
  <1>1. CASE Prepare(p)
    <2>. DEFINE next == Prepared(p, dir["previous"])
    <2>1. Holds(p) /\ dir["previous"] \in Snapshot /\ bytes[p] \in Snapshot /\ pc[p] = "prepare"
      BY <1>0, <1>1, <1>p DEF Prepare, Place, Holds, FileInv, After, Kind
    <2>2. pc'[p] \in After /\ pc[p] \in After /\ UNCHANGED <<audio, known, store, intent, acked>>
      BY <1>0, <1>1 DEF Prepare, Proceed, Goto, After, captureVars
    <2>3. CASE bytes' = bytes
      BY <1>p, <2>1, <2>2, <2>3 DEF Publishing
    <2>4. CASE bytes' = [bytes EXCEPT ![p] = next]
      <3>1. Place(p)' /\ bytes'[p] = next
        BY <1>0, <1>1, <2>4, PrepareStruct DEF Stepped, Struct, PlaceInv
      <3>2. next \in Snapshot /\ next # None
        BY <1>p, <2>2, <3>1, RecordIsWhole DEF Place, Kind
      <3>3. next.phase = bytes[p].phase /\ next.quality = bytes[p].quality
        BY <1>0, <1>p, <2>1, <3>2, PreparedRecord DEF Struct
      <3>. QED
        BY <1>p, <2>2, <3>1, <3>2, <3>3 DEF Publishing
    <2>. QED
      BY <1>1, <2>3, <2>4 DEF Prepare
  <1>2. ASSUME NEW place \in Before \cup After, Proceed(p, place), pc[p] \in Before \cup After,
               bytes' = bytes
        PROVE  /\ Publishing /\ Publishing' /\ UNCHANGED <<audio, known, store, intent, acked>>
               /\ bytes'["capture"] \in Snapshot /\ bytes'["capture"].phase = bytes["capture"].phase
               /\ bytes'["capture"].quality = bytes["capture"].quality
    <2>1. pc'[p] = place /\ bytes[p] \in Snapshot
      BY <1>0, <1>p, <1>2 DEF Proceed, Goto, Place, Kind
    <2>. QED
      BY <1>p, <1>2, <2>1 DEF Publishing, Proceed, captureVars
  <1>3. \/ Abandon(p) \/ Kill(p) \/ Prepare(p) \/ (Acknowledge(p) /\ pc[p] = "release" /\ Release(p))
        \/ /\ \E place \in Before \cup After : Proceed(p, place)
           /\ pc[p] \in Before \cup After /\ bytes' = bytes
    <2>. USE DEF Before, After
    <2>1. CASE Check(p) \/ Create(p) \/ Write(p) \/ Swap(p) \/ Commit(p)
      BY <2>1 DEF Check, Create, Write, Swap, Commit
    <2>2. CASE Undo(p) \/ Restore(p) \/ Resync(p) \/ Clean(p) \/ Release(p) \/ Kill(p) \/ Prepare(p)
      BY <2>2 DEF Undo, Restore, Resync, Clean, Release
    <2>3. CASE Link(p)
      BY <1>0, <1>p, <2>3 DEF Link
    <2>. QED
      BY <1>a, <2>1, <2>2, <2>3 DEF PublisherStep
  <1>. QED
    BY <1>p, <1>1, <1>2, <1>3

\* A step that leaves the writer and the audio alone.
LEMMA SealedSame ==
    ASSUME FilesOK, Recorded, Sealed, pc'["capture"] = pc["capture"], bytes'["capture"] = bytes["capture"],
           UNCHANGED <<audio, intent>>, acked'.phase = acked.phase, dir'["audio"] = dir["audio"],
           options'["audio"] \in {options["audio"], {dir["audio"]}}
    PROVE  Recorded' /\ Sealed'
  <1>1. options["audio"] = {"wav"} => dir["audio"] = "wav"
    BY NamesAre DEF FilesOK
  <1>. QED
    BY <1>1 DEF Recorded, Sealed, Durable, Captured, Publishing

\* A certificate, once the writer publishes it, is the writer's last word.
Final ==
    /\ Durable(bytes["capture"]) => Durable(bytes["capture"])' /\ known' = known
    /\ Durable(bytes["capture"])' => Durable(bytes["capture"]) \/ SyncAudio

LEMMA PublisherSealed ==
    ASSUME Struct, WriterInv, Recorded, Sealed, NEW p \in Processes, PublisherStep(p)
    PROVE  Recorded' /\ Sealed' /\ Final
  <1>0. FilesOK /\ StateOK /\ PlaceInv /\ pc \in [Processes -> Places]
    BY DEF Struct, TypeInv, StateOK
  <1>1. dir'["audio"] = dir["audio"] /\ options'["audio"] \in {options["audio"], {dir["audio"]}}
    BY <1>0, PublisherAudio
  <1>2. CASE p # "capture"
    <2>1. /\ UNCHANGED <<audio, known, intent>> /\ pc'["capture"] = pc["capture"]
          /\ bytes'["capture"] = bytes["capture"] /\ acked'.phase = acked.phase
      BY <1>2, WriterApart
    <2>. QED
      BY <1>0, <1>1, <2>1, SealedSame DEF Final, Durable
  <1>3. CASE p = "capture"
    <2>1. options["audio"] = {"wav"} => dir["audio"] = "wav" /\ options'["audio"] = {"wav"}
      BY <1>0, <1>1, NamesAre DEF FilesOK
    <2>2. CASE Abandon(p)
      <3>1. /\ pc'["capture"] = "failed" /\ bytes' = bytes /\ acked' = acked /\ known' = known
            /\ audio'.final = (dir["audio"] # None) /\ audio'.synced = audio.synced
        BY <1>0, <1>3, <2>2 DEF Abandon, Goto, StateOK
      <3>2. dir["audio"] = "wav" => audio'.final
        BY <3>1, RecordIsWhole
      <3>. QED
        BY <2>1, <3>1, <3>2 DEF Recorded, Sealed, Durable, Captured, Publishing, Before, After, Final
    <2>3. CASE Kill(p)
      <3>1. pc'["capture"] = "off" /\ bytes' = bytes /\ acked' = acked /\ known' = known /\ audio' = audio
        BY <1>0, <1>3, <2>3 DEF Kill, Goto, captureVars
      <3>. QED
        BY <2>1, <3>1 DEF Recorded, Sealed, Durable, Captured, Publishing, Before, After, Final
    <2>4. CASE Acknowledge(p) /\ pc[p] = "release" /\ Release(p)
      <3>1. Works
        BY <1>0, <1>3, <2>4 DEF Release, Acknowledge, Abandon, Goto
      <3>2. /\ bytes' = bytes /\ UNCHANGED <<audio, known, intent>>
            /\ pc'[p] = IF p # "capture" \/ bytes[p].phase = "audio_durable" THEN "done"
                        ELSE IF intent = "run" THEN "open" ELSE "wav"
        BY <1>0, <2>4, <3>1, AcknowledgeState DEF PlaceInv, Acknowledge
      <3>3. Captured'
        BY <1>0, <1>3, <2>4 DEF Acknowledge, Captured, PlaceInv, Place, Kind, After
      <3>4. pc["capture"] = "release" /\ (intent # "run" => dir["audio"] = "wav")
        BY <1>3, <2>4 DEF Recorded, Publishing, After
      <3>5. Recorded'
        BY <1>1, <1>3, <3>2, <3>4 DEF Recorded, Publishing, Before, After
      <3>6. Sealed'
        BY <1>3, <2>1, <3>2, <3>3, <3>4 DEF Sealed, Durable
      <3>. QED
        BY <3>2, <3>5, <3>6 DEF Final, Durable
    <2>5. CASE /\ Publishing /\ Publishing' /\ UNCHANGED <<audio, known, store, intent, acked>>
               /\ bytes'["capture"] \in Snapshot /\ bytes'["capture"].phase = bytes["capture"].phase
               /\ bytes'["capture"].quality = bytes["capture"].quality
      <3>1. bytes["capture"] \in Snapshot
        BY <2>5 DEF WriterInv
      <3>2. pc'["capture"] \in Before \cup After /\ pc'["capture"] \notin {"wav", "audio"}
        BY <2>5 DEF Publishing, Before, After
      <3>3. Durable(bytes["capture"])' = Durable(bytes["capture"])
        BY <2>5, <3>1 DEF Durable
      <3>. QED
        BY <1>1, <2>1, <2>5, <3>2, <3>3 DEF Recorded, Sealed, Captured, Final
    <2>. QED
      BY <1>3, <2>2, <2>3, <2>4, <2>5, CapturePublishes
  <1>. QED
    BY <1>2, <1>3

\* The writer starts to publish a record.
LEMMA PublishedRecord ==
    ASSUME StateOK, NEW s, NEW r, Publish(s, r)
    PROVE  pc'["capture"] = "check" /\ bytes'["capture"] = s
  BY CaptureIs DEF StateOK, Publish, Goto

LEMMA WriterSealed ==
    ASSUME Struct, WriterInv, Recorded, Sealed,
           Begin \/ PersistBeforeAudio \/ WriteFrame \/ Finish \/ FinalizeWav \/ SyncAudio
    PROVE  /\ Recorded' /\ Sealed' /\ Final /\ ~Durable(bytes["capture"])
           /\ Durable(bytes["capture"])' => bytes'["capture"].quality = known
                                         /\ bytes'["capture"].settled = None
  <1>0. FilesOK /\ StateOK /\ PlaceInv /\ pc \in [Processes -> Places] /\ "capture" \in Processes
        /\ audio.frames \in 0..MaxFrames /\ dir["audio"] \in {None, "wav"}
    BY CaptureIs, NamesAre DEF Struct, TypeInv, StateOK, FilesOK
  <1>1. pc["capture"] \in {"idle", "open", "wav", "audio"}
    BY DEF Begin, PersistBeforeAudio, WriteFrame, Finish, FinalizeWav, SyncAudio
  <1>2. ~Durable(bytes["capture"])
    BY <1>1 DEF Sealed, Before, After
  <1>3. pc["capture"] \in {"open", "wav", "audio"} =>
           /\ Kind(store) /\ Captured /\ store.quality = known /\ store.phase = acked.phase
    BY <1>0 DEF WriterInv, PlaceInv, Place
  <1>4. ASSUME NEW phase \in {"in_progress", "finalizing"}, NEW frames \in 0..MaxFrames,
               NEW quality \in SUBSET CaptureFacts, NEW r, Publish(Record(phase, frames, quality), r)
        PROVE  ~Durable(bytes["capture"])' /\ pc'["capture"] = "check"
    <2>1. bytes'["capture"] = Record(phase, frames, quality) /\ pc'["capture"] = "check"
      BY <1>0, <1>4, PublishedRecord
    <2>. QED
      BY <2>1, KindIs DEF Durable
  <1>5. CASE Begin
    <2>1. Publish(Record("in_progress", 0, {}), FALSE) /\ intent' = intent
      BY <1>5 DEF Begin, captureVars
    <2>2. ~Durable(bytes["capture"])' /\ pc'["capture"] = "check"
      <3>1. 0 \in 0..MaxFrames /\ {} \in SUBSET CaptureFacts
        BY StoreAssumption
      <3>. QED
        BY <1>4, <2>1, <3>1
    <2>3. intent' = "run"
      BY <1>5, <2>1 DEF WriterInv, Begin
    <2>. QED
      BY <1>2, <2>2, <2>3 DEF Recorded, Sealed, Final, Publishing
  <1>6. CASE PersistBeforeAudio
    <2>1. pc["capture"] = "open" /\ intent = "run" /\ intent' = intent /\ store.phase = "in_progress"
          /\ known' \in SUBSET CaptureFacts
      BY <1>0, <1>3, <1>6 DEF PersistBeforeAudio, WriterInv, StateOK
    <2>2. Publish(Record(store.phase, audio.frames, known'), TRUE)
      BY <1>6 DEF PersistBeforeAudio
    <2>3. ~Durable(bytes["capture"])' /\ pc'["capture"] = "check"
      BY <1>0, <1>4, <2>1, <2>2
    <2>. QED
      BY <1>2, <2>1, <2>3 DEF Recorded, Sealed, Final
  <1>7. CASE WriteFrame
    <2>1. pc'["capture"] \in {"open", "failed"} /\ bytes' = bytes
      BY <1>0, <1>7 DEF WriteFrame, Abandon, Goto
    <2>. QED
      BY <1>2, <2>1 DEF Recorded, Sealed, Final, Durable, Publishing, Before, After
  <1>8. CASE Finish
    <2>1. CASE Abandon("capture")
      <3>1. pc'["capture"] = "failed" /\ bytes' = bytes
        BY <1>0, <2>1 DEF Abandon, Goto
      <3>. QED
        BY <1>2, <3>1 DEF Recorded, Sealed, Final, Durable, Publishing, Before, After
    <2>2. CASE /\ dir["audio"] # None /\ UNCHANGED fileVars
               /\ Publish(Record(IF intent' = "complete" THEN "finalizing" ELSE store.phase,
                                 audio.frames, store.quality), TRUE)
      <3>1. store.phase = "in_progress" /\ store.quality \in SUBSET CaptureFacts
        BY <1>3, <1>8, RecordFields DEF Finish, WriterInv, Kind
      <3>2. (IF intent' = "complete" THEN "finalizing" ELSE store.phase) \in {"in_progress", "finalizing"}
        BY <3>1
      <3>3. ~Durable(bytes["capture"])' /\ pc'["capture"] = "check"
        BY <1>0, <1>4, <2>2, <3>1, <3>2
      <3>4. dir'["audio"] = "wav"
        BY <1>0, <2>2 DEF fileVars
      <3>. QED
        BY <1>2, <3>3, <3>4 DEF Recorded, Sealed, Final
    <2>. QED
      BY <1>8, <2>1, <2>2 DEF Finish
  <1>9. CASE FinalizeWav
    <2>1. /\ pc["capture"] = "wav" /\ bytes' = bytes /\ dir' = dir
          /\ pc'["capture"] \in {"audio", "failed"}
          /\ pc'["capture"] = "audio" => audio'.final
      BY <1>0, <1>9 DEF FinalizeWav, Goto, fileVars, StateOK
    <2>. QED
      BY <1>2, <2>1 DEF Recorded, Sealed, Final, Durable, Publishing, Before, After
  <1>10. CASE SyncAudio
    <2>1. CASE Goto("capture", "failed") /\ bytes' = bytes
      <3>1. pc'["capture"] = "failed"
        BY <1>0, <2>1 DEF Goto
      <3>. QED
        BY <1>2, <2>1, <3>1 DEF Recorded, Sealed, Final, Durable, Publishing, Before, After
    <2>2. CASE /\ SyncParent /\ audio' = [audio EXCEPT !.synced = TRUE]
               /\ Publish(Record("audio_durable", store.frames, store.quality), TRUE)
      <3>1. /\ Kind(store) /\ Captured /\ store.quality = known /\ audio.final /\ dir["audio"] = "wav"
            /\ known' = known /\ acked' = acked
        BY <1>3, <1>10 DEF SyncAudio, Recorded
      <3>2. /\ pc'["capture"] = "check"
            /\ bytes'["capture"] = Record("audio_durable", store.frames, store.quality)
        BY <1>0, <2>2, PublishedRecord
      <3>3. bytes'["capture"].quality = known /\ bytes'["capture"].settled = None
        BY <3>1, <3>2 DEF Record
      <3>4. dir'["audio"] = "wav" /\ options'["audio"] = {"wav"} /\ audio'.final /\ audio'.synced
        BY <1>0, <2>2, <3>1, SyncEffect, NamesAre DEF StateOK
      <3>5. Recorded'
        BY <3>2, <3>4 DEF Recorded
      <3>6. Sealed'
        BY <3>1, <3>2, <3>4 DEF Sealed, Captured, Before
      <3>. QED
        BY <1>2, <1>10, <3>1, <3>3, <3>5, <3>6 DEF Final
    <2>. QED
      BY <1>10, <2>1, <2>2 DEF SyncAudio
  <1>. QED
    BY <1>2, <1>5, <1>6, <1>7, <1>8, <1>9, <1>10

LEMMA PowerSealed ==
    ASSUME Struct, WriterInv, Recorded, Sealed, PowerFailure
    PROVE  Recorded' /\ Sealed' /\ Final
  <1>1. PowerFails /\ bytes' = bytes /\ acked' = acked /\ known' = known
    BY PowerEffect DEF PowerFailure
  <1>2. pc'["capture"] \in {"off", "failed", "done"}
    BY PowerStruct DEF Idle
  <1>3. dir'["audio"] \in options["audio"] /\ options'["audio"] = {dir'["audio"]}
    BY <1>1, NamesAre DEF PowerFails
  <1>4. dir'["audio"] = "wav" /\ audio.synced => audio' = audio
    <2>1. PICK sidecar \in options["sidecar"], pending \in options["pending"],
               previous \in options["previous"], restore \in options["restore"],
               wav \in options["audio"] :
            /\ dir' = [sidecar |-> sidecar, pending |-> pending, previous |-> previous,
                       restore |-> restore, audio |-> wav]
            /\ audio' = IF wav # None /\ audio.synced THEN audio
                        ELSE [frames |-> IF wav = None THEN 0 ELSE audio.frames,
                              final |-> FALSE, synced |-> FALSE]
      BY DEF PowerFailure
    <2>2. dir'["audio"] = wav
      BY <2>1
    <2>. QED
      BY <2>1, <2>2, RecordIsWhole
  <1>5. Recorded'
    BY <1>2 DEF Recorded, Publishing, Before, After
  <1>6. Sealed'
    BY <1>1, <1>2, <1>3, <1>4 DEF Sealed, Durable, Captured
  <1>. QED
    BY <1>1, <1>5, <1>6 DEF Final, Durable

LEMMA NextSealed ==
    ASSUME Struct, WriterInv, Recorded, Sealed, [Next]_vars
    PROVE  Recorded' /\ Sealed' /\ Final
  <1>0. FilesOK
    BY DEF Struct, TypeInv
  <1>1. ASSUME NEW p \in Processes, PublisherStep(p)
        PROVE  Recorded' /\ Sealed' /\ Final
    BY <1>1, PublisherSealed
  <1>2. CASE Begin \/ PersistBeforeAudio \/ WriteFrame \/ Finish \/ FinalizeWav \/ SyncAudio
    BY <1>2, WriterSealed
  <1>3. ASSUME NEW a \in Attempts, CountFrames(a) \/ Look(a) \/ ReadPrimary(a) \/ Load(a)
        PROVE  Recorded' /\ Sealed' /\ Final
    <2>1. UNCHANGED <<dir, options, audio, known, intent, bytes, acked>> /\ pc'["capture"] = pc["capture"]
      BY <1>3, ReaderApart DEF fileVars, captureVars
    <2>. QED
      BY <1>0, <2>1, SealedSame DEF Final, Durable
  <1>4. CASE PowerFailure
    BY <1>4, PowerSealed
  <1>5. CASE UNCHANGED vars
    BY <1>0, <1>5, SealedSame DEF vars, Final, Durable
  <1>. QED
    BY <1>1, <1>2, <1>3, <1>4, <1>5 DEF Next, PublisherStep

LEMMA InitSealed ==
    ASSUME Init
    PROVE  Recorded /\ Sealed
  <1>1. pc["capture"] \in {"idle", "off"} /\ bytes["capture"] = None
    BY CaptureIs DEF Init
  <1>. QED
    BY <1>1, RecordIsWhole DEF Recorded, Sealed, Durable, Publishing, Before, After

\* What is fair stays fair.
LEMMA FairStays ==
    ASSUME Final
    PROVE  \A v : Fair(v) => Fair(v)'
  BY DEF Final, Fair, Durable, TellsAll

LEMMA NotDurable ==
    ASSUME NEW v, v \notin Snapshot \/ v.phase # "audio_durable"
    PROVE  ~Durable(v)
  BY DEF Durable

\* The names of the record and its temporaries get nothing but what is there already.
LEMMA PublisherNames ==
    ASSUME FilesOK, FileInv, NEW p \in Processes, PublisherStep(p)
    PROVE  \A n \in Names \ {"audio"} : \A v \in options'[n] :
             \/ v \in {None, Torn} \/ v = bytes[p]
             \/ \E m \in Names \ {"audio"} : v \in options[m]
  <1>. DEFINE New(v) == \/ v \in {None, Torn} \/ v = bytes[p]
                        \/ \E m \in Names \ {"audio"} : v \in options[m]
  <1>0. \A n \in Names \ {"audio"} : New(dir[n]) /\ \A v \in options[n] : New(v)
    BY DEF FilesOK
  <1>1. \/ UNCHANGED fileVars \/ SyncParent
        \/ \E n \in {"pending", "previous", "restore", "sidecar"}, v \in {dir["sidecar"], Torn, None,
              dir["pending"], dir["previous"]} : SetName(n, v)
        \/ \E n \in {"pending", "restore"} : Rename(n, "sidecar")
        \/ Write(p)
    <2>1. CASE Check(p) \/ Kill(p)
      BY <2>1 DEF Check, Kill
    <2>2. CASE Link(p) \/ Prepare(p) \/ Create(p) \/ Swap(p)
      BY <2>2 DEF Link, Prepare, Create, Swap
    <2>3. CASE Commit(p) \/ Undo(p) \/ Restore(p) \/ Resync(p)
      BY <2>3 DEF Commit, Undo, Restore, Resync
    <2>4. CASE Clean(p) \/ Release(p)
      BY <2>4 DEF Clean, Release
    <2>. QED
      BY <2>1, <2>2, <2>3, <2>4 DEF PublisherStep
  <1>a. New(None) /\ New(Torn) /\ New(bytes[p])
    OBVIOUS
  <1>b. \A n \in {"pending", "previous", "restore", "sidecar"} : New(dir[n])
    BY <1>0, NamesAre
  <1>. SUFFICES \A n \in Names \ {"audio"} : \A v \in options'[n] : New(v)
    OBVIOUS
  <1>. HIDE DEF New
  <1>2. CASE UNCHANGED fileVars
    BY <1>0, <1>2 DEF fileVars
  <1>3. CASE SyncParent
    BY <1>0, <1>3, SyncEffect
  <1>4. ASSUME NEW x \in {"pending", "previous", "restore", "sidecar"}, NEW w, New(w), SetName(x, w)
        PROVE  \A n \in Names \ {"audio"} : \A v \in options'[n] : New(v)
    <2>1. /\ options'[x] = options[x] \cup {w} /\ x \in Names \ {"audio"}
          /\ \A n \in Names \ {x} : options'[n] = options[n]
      BY <1>4, SetNameEffect, NamesAre
    <2>. QED
      BY <1>0, <1>4, <2>1
  <1>5. ASSUME NEW x \in {"pending", "restore"}, Rename(x, "sidecar")
        PROVE  \A n \in Names \ {"audio"} : \A v \in options'[n] : New(v)
    <2>1. /\ options'[x] = options[x] \cup {None} /\ x \in Names \ {"audio"}
          /\ options'["sidecar"] = options["sidecar"] \cup {dir[x]} /\ "sidecar" \in Names \ {"audio"}
          /\ \A n \in Names \ {x, "sidecar"} : options'[n] = options[n]
      BY <1>5, RenameEffect, NamesAre
    <2>. QED
      BY <1>0, <1>a, <2>1
  <1>6. CASE Write(p)
    <2>1. UNCHANGED fileVars \/
          (/\ options'["pending"] = (options["pending"] \ {Torn}) \cup {bytes[p]}
           /\ "pending" \in Names \ {"audio"}
           /\ \A n \in Names \ {"pending"} : options'[n] = options[n])
      BY <1>6, WriteEffect, NamesAre DEF Write
    <2>. QED
      BY <1>0, <1>2, <1>a, <2>1
  <1>. QED
    BY <1>1, <1>2, <1>3, <1>4, <1>5, <1>6, <1>a, <1>b

\* What an attempt or the writer makes of a fair record is fair.
LEMMA PreparedFair ==
    ASSUME Struct, WriterInv, NEW p \in Processes, pc[p] = "prepare", Fair(bytes[p]),
           Fair(dir["previous"])
    PROVE  LET next == Prepared(p, dir["previous"])
           IN  /\ Fair(next)
               /\ p # "capture" /\ Durable(next) => Durable(dir["previous"])
  <1>. DEFINE old == dir["previous"]
              next == Prepared(p, old)
  <1>1. /\ old \in Snapshot /\ TypeInv /\ (p = "capture" => bytes[p] \in Snapshot /\ bytes[p].quality = known)
    <2>1. Place(p) /\ Holds(p)
      BY DEF Struct, PlaceInv, Place, Holds, After
    <2>. QED
      BY <2>1 DEF Struct, FileInv, Place, After, Kind, WriterInv, Publishing
  <1>2. SUFFICES ASSUME Durable(next)
                 PROVE  /\ Durable(bytes["capture"]) /\ TellsAll(next)
                        /\ p # "capture" => Durable(old)
    BY DEF Fair
  <1>3. next # None
    BY <1>2, RecordIsWhole DEF Durable
  <1>4. /\ next \in Snapshot
        /\ p = "capture" => /\ next.phase = bytes[p].phase /\ next.quality = bytes[p].quality
        /\ p # "capture" => /\ next.phase = old.phase /\ next.quality = old.quality
        /\ old.quality \subseteq next.quality => History(old) \subseteq History(next)
        /\ p = "capture" /\ next.settled # None => next.quality \subseteq next.settled
    BY <1>1, <1>3, PreparedRecord
  <1>. HIDE DEF next
  <1>5. CASE p = "capture"
    BY <1>1, <1>2, <1>4, <1>5 DEF Durable, TellsAll
  <1>6. CASE p # "capture"
    <2>1. Durable(old) /\ Durable(bytes["capture"]) /\ TellsAll(old)
      BY <1>1, <1>2, <1>4, <1>6 DEF Durable, Fair
    <2>2. known \subseteq next.quality /\ known \subseteq History(old) /\ History(old) \subseteq History(next)
      BY <1>1, <1>4, <1>6, <2>1, RecordIsWhole DEF TellsAll, History
    <2>3. TellsAll(next)
      BY <1>3, <2>2 DEF TellsAll, History
    <2>. QED
      BY <2>1, <2>3
  <1>. QED
    BY <1>5, <1>6

LEMMA PublisherHonest ==
    ASSUME Struct, WriterInv, Final, Honest, NEW p \in Processes, PublisherStep(p)
    PROVE  Honest'
  <1>0. /\ FilesOK /\ StateOK /\ FileInv /\ Place(p) /\ pc \in [Processes -> Places]
        /\ bytes \in [Processes -> Values]
    BY DEF Struct, TypeInv, StateOK, PlaceInv
  <1>1. Others(p)
    BY CheckStruct, LinkStruct, PrepareStruct, CreateStruct, WriteStruct, SwapStruct,
       CommitStruct, UndoStruct, RestoreStruct, ResyncStruct, CleanStruct, ReleaseStruct,
       KillStruct DEF PublisherStep, Stepped
  <1>2. Fair(None) /\ Fair(Torn)
    BY RecordIsWhole DEF Fair, Durable
  <1>3. \A n \in Names \ {"audio"} : \A v \in options'[n] : Fair(v)'
    <2>1. \A n \in Names \ {"audio"} : \A v \in options'[n] : Fair(v)
      BY <1>0, <1>2, PublisherNames DEF Honest
    <2>. QED
      BY <2>1, FairStays
  <1>4. Fair(bytes'[p])
    <2>1. CASE bytes' = bytes
      BY <2>1 DEF Honest
    <2>2. CASE bytes' # bytes
      <3>1. CASE Prepare(p)
        <4>1. bytes'[p] = Prepared(p, dir["previous"]) /\ pc[p] = "prepare"
          BY <1>0, <2>2, <3>1 DEF Prepare
        <4>2. Fair(dir["previous"]) /\ Fair(bytes[p])
          BY <1>0, NamesAre DEF Honest, FilesOK
        <4>. QED
          BY <4>1, <4>2, PreparedFair
      <3>2. CASE Link(p)
        <4>1. bytes' = [bytes EXCEPT ![p] = [phase |-> "legacy_unknown", frames |-> None,
                                             quality |-> {}, settled |-> loaded[p].quality]]
          BY <2>2, <3>2 DEF Link, Abandon
        <4>2. bytes'[p].phase = "legacy_unknown"
          BY <1>0, <4>1
        <4>. QED
          BY <4>2 DEF Fair, Durable
      <3>. QED
        BY <2>2, <3>1, <3>2 DEF PublisherStep, Check, Create, Write, Swap, Commit, Undo, Restore,
           Resync, Clean, Release, Kill, Abandon, Acknowledge
    <2>. QED
      BY <2>1, <2>2
  <1>5. \A q \in Processes : Fair(bytes[q])'
    <2>1. \A q \in Processes : Fair(bytes'[q])
      BY <1>1, <1>4 DEF Others, Honest
    <2>2. ASSUME NEW q \in Processes
          PROVE  Fair(bytes[q])'
      <3>1. Fair(bytes'[q])
        BY <2>1
      <3>. QED
        BY <3>1 DEF Fair, Durable, TellsAll, Final
    <2>. QED
      BY <2>2
  <1>6. loaded' = loaded
    BY DEF PublisherStep, Check, Link, Prepare, Create, Write, Swap, Commit, Undo, Restore,
       Resync, Clean, Release, Kill, Abandon, Acknowledge, Proceed
  <1>7. \A a \in Attempts : /\ Fair(loaded[a].primary)'
                            /\ loaded'[a].complete => /\ Durable(bytes["capture"])'
                                                      /\ known' \subseteq loaded'[a].quality
    <2>1. \A a \in Attempts : Fair(loaded[a].primary)'
      BY <1>6 DEF Honest, Fair, Durable, TellsAll, Final
    <2>2. \A a \in Attempts : loaded'[a].complete => /\ Durable(bytes["capture"])'
                                                     /\ known' \subseteq loaded'[a].quality
      BY <1>6 DEF Honest, Final
    <2>. QED
      BY <2>1, <2>2
  <1>. QED
    BY <1>3, <1>5, <1>7 DEF Honest

LEMMA WriterHonest ==
    ASSUME Struct, WriterInv, Recorded, Sealed, Honest,
           Begin \/ PersistBeforeAudio \/ WriteFrame \/ Finish \/ FinalizeWav \/ SyncAudio
    PROVE  Honest'
  <1>0. FilesOK /\ StateOK /\ "capture" \in Processes /\ Others("capture")
    BY CaptureIs, BeginStruct, PersistStruct, WriteFrameStruct, FinishStruct, FinalizeStruct,
       SyncAudioStruct DEF Struct, TypeInv, Stepped
  <1>1. /\ Final /\ ~Durable(bytes["capture"])
        /\ Durable(bytes["capture"])' => bytes'["capture"].quality = known
                                      /\ bytes'["capture"].settled = None
    BY WriterSealed
  <1>2. \A n \in Names \ {"audio"} : options'[n] \subseteq options[n]
    <2>1. CASE SetName("audio", "wav")
      BY <2>1, SetNameEffect, NamesAre
    <2>2. CASE UNCHANGED fileVars
      BY <2>2 DEF fileVars
    <2>3. CASE SyncParent
      BY <1>0, <2>3, SyncEffect, NamesAre
    <2>. QED
      BY <2>1, <2>2, <2>3 DEF Begin, PersistBeforeAudio, WriteFrame, Finish, FinalizeWav, SyncAudio
  <1>3. \A n \in Names \ {"audio"} : \A v \in options'[n] : Fair(v)'
    BY <1>1, <1>2, FairStays DEF Honest
  <1>4. \A q \in Processes \ {"capture"} : Fair(bytes[q])'
    BY <1>0, <1>1 DEF Honest, Others, Fair, Durable, TellsAll, Final
  <1>5. Fair(bytes["capture"])'
    <2>1. Durable(bytes["capture"])' => known' = known
      BY <1>1 DEF Final, SyncAudio
    <2>. QED
      BY <1>1, <2>1 DEF Fair, TellsAll
  <1>6. loaded' = loaded
    BY DEF Begin, PersistBeforeAudio, WriteFrame, Finish, FinalizeWav, SyncAudio, Abandon
  <1>7. \A a \in Attempts : /\ Fair(loaded[a].primary)' /\ ~loaded'[a].complete
    BY <1>1, <1>6 DEF Honest, Fair, Durable, TellsAll, Final
  <1>. QED
    BY <1>3, <1>4, <1>5, <1>7 DEF Honest

LEMMA ReaderHonest ==
    ASSUME Struct, Honest, NEW a \in Attempts, CountFrames(a) \/ Look(a) \/ ReadPrimary(a) \/ Load(a)
    PROVE  Honest'
  <1>0. FilesOK /\ StateOK /\ loaded \in [Attempts -> Readings]
    BY DEF Struct, TypeInv, StateOK
  <1>1. UNCHANGED <<options, bytes, known>>
    BY ReaderApart DEF fileVars, captureVars
  <1>2. ASSUME NEW b \in Attempts
        PROVE  /\ Fair(loaded'[b].primary)
               /\ loaded'[b].complete => /\ Durable(bytes["capture"]) /\ known \subseteq loaded'[b].quality
    <2>0. /\ Fair(loaded[b].primary)
          /\ loaded[b].complete => /\ Durable(bytes["capture"]) /\ known \subseteq loaded[b].quality
      BY DEF Honest
    <2>1. CASE loaded'[b] = loaded[b]
      BY <2>0, <2>1
    <2>2. CASE b = a /\ CountFrames(a)
      <3>1. PICK frames : loaded' = [loaded EXCEPT ![a].frames = frames]
        BY <2>2 DEF CountFrames
      <3>. QED
        BY <1>0, <2>0, <2>2, <3>1 DEF Readings
    <2>3. CASE b = a /\ Look(a)
      BY <1>0, <2>0, <2>3 DEF Look, Readings
    <2>4. CASE b = a /\ ReadPrimary(a)
      <3>1. /\ loaded'[a].primary = dir["sidecar"] /\ loaded'[a].complete = loaded[a].complete
            /\ loaded'[a].quality = loaded[a].quality
        BY <1>0, <2>4 DEF ReadPrimary, Readings
      <3>2. Fair(dir["sidecar"])
        BY <1>0, NamesAre DEF Honest, FilesOK
      <3>. QED
        BY <2>0, <2>4, <3>1, <3>2
    <2>5. CASE b = a /\ Load(a) /\ loaded' # loaded
      <3>1. PICK snapshot : LoadStep(a, snapshot)
        BY <2>5, LoadEffect DEF Abandon
      <3>2. loaded'[a].primary = None /\ Fair(None)
        BY <3>1, RecordIsWhole DEF LoadStep, Fair, Durable
      <3>3. ASSUME loaded'[a].complete
            PROVE  Durable(bytes["capture"]) /\ known \subseteq loaded'[a].quality
        <4>1. PermitsCompletion(loaded[a].interrupted, snapshot, loaded[a].frames)
          BY <3>1, <3>3 DEF LoadStep
        <4>2. ~loaded[a].interrupted /\ Whole(snapshot) /\ snapshot.phase = "audio_durable"
          BY <4>1 DEF PermitsCompletion
        <4>3. snapshot = loaded[a].primary
          BY <3>1, <4>2 DEF LoadStep, LoadQuality
        <4>4. Durable(loaded[a].primary)
          BY <3>1, <4>2, <4>3 DEF LoadStep, Durable, Values, Whole
        <4>5. Durable(bytes["capture"]) /\ TellsAll(loaded[a].primary)
          BY <2>0, <2>5, <4>4 DEF Fair
        <4>6. known \subseteq History(loaded[a].primary)
          BY <4>4, <4>5, RecordIsWhole DEF TellsAll, History, Durable
        <4>. QED
          BY <3>1, <4>3, <4>5, <4>6 DEF LoadStep
      <3>. QED
        BY <2>5, <3>2, <3>3
    <2>6. \/ loaded'[b] = loaded[b]
          \/ b = a /\ (CountFrames(a) \/ Look(a) \/ ReadPrimary(a) \/ (Load(a) /\ loaded' # loaded))
      <3>1. CASE b = a
        BY <3>1
      <3>2. CASE b # a
        <4>1. CASE Load(a)
          BY <1>0, <3>2, <4>1 DEF Load, Abandon
        <4>2. CASE ~Load(a)
          BY <1>0, <3>2, <4>2 DEF CountFrames, Look, ReadPrimary
        <4>. QED
          BY <4>1, <4>2
      <3>. QED
        BY <3>1, <3>2
    <2>. QED
      BY <2>1, <2>2, <2>3, <2>4, <2>5, <2>6
  <1>. QED
    BY <1>1, <1>2 DEF Honest, Fair, Durable, TellsAll

LEMMA NextHonest ==
    ASSUME Struct, WriterInv, Recorded, Sealed, Honest, [Next]_vars
    PROVE  Honest'
  <1>0. Final
    BY NextSealed
  <1>1. ASSUME NEW p \in Processes, PublisherStep(p)
        PROVE  Honest'
    BY <1>0, <1>1, PublisherHonest
  <1>2. CASE Begin \/ PersistBeforeAudio \/ WriteFrame \/ Finish \/ FinalizeWav \/ SyncAudio
    BY <1>2, WriterHonest
  <1>3. ASSUME NEW a \in Attempts, CountFrames(a) \/ Look(a) \/ ReadPrimary(a) \/ Load(a)
        PROVE  Honest'
    BY <1>3, ReaderHonest
  <1>4. CASE PowerFailure
    <2>1. PowerFails /\ UNCHANGED <<bytes, known, loaded>>
      BY <1>4, PowerEffect DEF PowerFailure
    <2>2. \A n \in Names : options'[n] \subseteq options[n]
      BY <2>1 DEF PowerFails
    <2>. QED
      BY <2>1, <2>2 DEF Honest, Fair, Durable, TellsAll
  <1>5. CASE UNCHANGED vars
    BY <1>5 DEF vars, Honest, Fair, Durable, TellsAll
  <1>. QED
    BY <1>1, <1>2, <1>3, <1>4, <1>5 DEF Next, PublisherStep

LEMMA InitHonest ==
    ASSUME Init
    PROVE  Honest
  <1>1. /\ \A n \in Names \ {"audio"} : options[n] = {None}
        /\ \A p \in Processes : bytes[p] = None
        /\ \A a \in Attempts : loaded[a].primary = None /\ ~loaded[a].complete
    BY DEF Init
  <1>. QED
    BY <1>1, RecordIsWhole DEF Honest, Fair, Durable

-----------------------------------------------------------------------------
(* A certificate is withdrawn when its publication fails.                   *)

\* A certificate in the files is one the writer has published.
LEMMA ShownIsPublished ==
    ASSUME Sealed, Honest, Shown
    PROVE  Durable(bytes["capture"]) /\ Captured
  <1>1. PICK v : Durable(v) /\ Fair(v)
    BY NamesAre, CaptureIs DEF Shown, Copied, Honest
  <1>. QED
    BY <1>1 DEF Fair, Sealed

\* Where a step of publishing may put a certificate.
LEMMA PublisherShows ==
    ASSUME Struct, WriterInv, Honest, NEW p \in Processes, PublisherStep(p)
    PROVE  /\ \A v \in options'["previous"] : Durable(v) =>
                v \in options["previous"] \/ (Link(p) /\ dir["previous"] = None /\ v = dir["sidecar"])
           /\ \A v \in options'["restore"] : Durable(v) =>
                v \in options["restore"] \/ v \in options["previous"]
           /\ \A v \in options'["sidecar"] : Durable(v) =>
                \/ v \in options["sidecar"] \/ v \in options["restore"]
                \/ pc[p] = "swap" /\ pc'[p] = "commit" /\ v = bytes[p]
           /\ \A a \in Attempts : Durable(bytes'[a]) => Durable(bytes[a]) \/ Durable(dir["previous"])
  <1>0. /\ FilesOK /\ StateOK /\ FileInv /\ pc \in [Processes -> Places]
        /\ bytes \in [Processes -> Values] /\ \A n \in Names : dir[n] \in options[n]
    BY DEF Struct, TypeInv, StateOK, FilesOK
  <1>1. ~Durable(None) /\ ~Durable(Torn)
    BY RecordIsWhole DEF Durable
  <1>2. \A a \in Attempts : Durable(bytes'[a]) => Durable(bytes[a]) \/ Durable(dir["previous"])
    <2>1. SUFFICES ASSUME NEW a \in Attempts, Durable(bytes'[a]), bytes'[a] # bytes[a]
                   PROVE  Durable(dir["previous"])
      OBVIOUS
    <2>2. p = a
      <3>1. Others(p)
        BY CheckStruct, LinkStruct, PrepareStruct, CreateStruct, WriteStruct, SwapStruct,
           CommitStruct, UndoStruct, RestoreStruct, ResyncStruct, CleanStruct, ReleaseStruct,
           KillStruct DEF PublisherStep, Stepped
      <3>. QED
        BY <2>1, <3>1, CaptureIs DEF Others
    <2>3. CASE Prepare(p)
      <3>1. bytes'[p] = Prepared(p, dir["previous"]) /\ pc[p] = "prepare"
        BY <1>0, <2>1, <2>2, <2>3 DEF Prepare
      <3>2. Fair(dir["previous"]) /\ Fair(bytes[p])
        BY <1>0, NamesAre DEF Honest
      <3>. QED
        BY <2>1, <2>2, <3>1, <3>2, PreparedFair, CaptureIs
    <2>4. CASE Link(p)
      <3>1. bytes' = [bytes EXCEPT ![p] = [phase |-> "legacy_unknown", frames |-> None,
                                           quality |-> {}, settled |-> loaded[p].quality]]
        BY <2>1, <2>4 DEF Link, Abandon
      <3>2. bytes'[p].phase = "legacy_unknown"
        BY <1>0, <3>1
      <3>. QED
        BY <2>1, <2>2, <3>2 DEF Durable
    <2>. QED
      BY <2>1, <2>3, <2>4 DEF PublisherStep, Check, Create, Write, Swap, Commit, Undo, Restore,
         Resync, Clean, Release, Kill, Abandon, Acknowledge
  <1>. DEFINE Shows == /\ \A v \in options'["previous"] : Durable(v) =>
                            v \in options["previous"] \/ (Link(p) /\ dir["previous"] = None /\ v = dir["sidecar"])
                       /\ \A v \in options'["restore"] : Durable(v) =>
                            v \in options["restore"] \/ v \in options["previous"]
                       /\ \A v \in options'["sidecar"] : Durable(v) =>
                            \/ v \in options["sidecar"] \/ v \in options["restore"]
                            \/ pc[p] = "swap" /\ pc'[p] = "commit" /\ v = bytes[p]
  <1>s. SUFFICES Shows
    BY <1>2
  <1>3. CASE UNCHANGED fileVars
    BY <1>3 DEF fileVars
  <1>4. CASE SyncParent
    BY <1>0, <1>4, SyncEffect, NamesAre
  <1>5. ASSUME NEW n \in {"pending", "previous", "sidecar"}, SetName(n, None) \/ SetName("pending", Torn)
        PROVE  Shows
    <2>1. \A m \in Names : options'[m] \subseteq options[m] \cup {None, Torn}
      BY <1>5, SetNameEffect, NamesAre
    <2>. QED
      BY <1>1, <2>1, NamesAre
  <1>6. CASE Check(p) \/ Kill(p)
    BY <1>3, <1>6 DEF Check, Kill
  <1>7. CASE Link(p)
    <2>1. CASE dir["previous"] = None /\ SetName("previous", dir["sidecar"])
      <3>1. /\ options'["previous"] = options["previous"] \cup {dir["sidecar"]}
            /\ options'["restore"] = options["restore"] /\ options'["sidecar"] = options["sidecar"]
        BY <2>1, SetNameEffect, NamesAre
      <3>. QED
        BY <1>7, <2>1, <3>1
    <2>. QED
      BY <1>3, <1>7, <2>1 DEF Link
  <1>8. CASE Prepare(p) \/ Commit(p) \/ Resync(p)
    BY <1>3, <1>4, <1>8 DEF Prepare, Commit, Resync
  <1>9. CASE Create(p) \/ Clean(p) \/ Release(p)
    BY <1>3, <1>5, <1>9 DEF Create, Clean, Release
  <1>10. CASE Write(p)
    <2>1. UNCHANGED fileVars \/ \A n \in Names \ {"pending"} : options'[n] = options[n]
      BY <1>0, <1>10, WriteEffect DEF Write
    <2>. QED
      BY <1>3, <2>1, NamesAre
  <1>11. CASE Swap(p)
    <2>1. dir["pending"] = bytes[p] /\ pc[p] = "swap"
      BY <1>0, <1>11 DEF Swap, FileInv
    <2>2. CASE (Rename("pending", "sidecar") \/ SetName("sidecar", dir["pending"])) /\ Proceed(p, "commit")
      <3>1. /\ options'["previous"] = options["previous"] /\ options'["restore"] = options["restore"]
            /\ options'["sidecar"] = options["sidecar"] \cup {bytes[p]}
        BY <2>1, <2>2, RenameEffect, SetNameEffect, NamesAre
      <3>2. pc'[p] = "commit"
        BY <1>0, <2>2 DEF Proceed, Goto
      <3>. QED
        BY <2>1, <3>1, <3>2
    <2>. QED
      BY <1>3, <1>11, <2>2 DEF Swap
  <1>12. CASE Undo(p)
    <2>1. CASE SetName("restore", dir["previous"])
      <3>1. /\ options'["restore"] = options["restore"] \cup {dir["previous"]}
            /\ options'["previous"] = options["previous"] /\ options'["sidecar"] = options["sidecar"]
        BY <2>1, SetNameEffect, NamesAre
      <3>. QED
        BY <1>0, <3>1, NamesAre
    <2>. QED
      BY <1>3, <1>5, <1>12, <2>1 DEF Undo
  <1>13. CASE Restore(p)
    <2>1. CASE Rename("restore", "sidecar")
      <3>1. /\ options'["restore"] = options["restore"] \cup {None}
            /\ options'["previous"] = options["previous"]
            /\ options'["sidecar"] = options["sidecar"] \cup {dir["restore"]}
        BY <2>1, RenameEffect, NamesAre
      <3>. QED
        BY <1>0, <1>1, <3>1, NamesAre
    <2>. QED
      BY <1>3, <1>13, <2>1 DEF Restore
  <1>. QED
    BY <1>6, <1>7, <1>8, <1>9, <1>10, <1>11, <1>12, <1>13 DEF PublisherStep

LEMMA PublisherShown ==
    ASSUME Struct, WriterInv, Sealed, Honest, NEW p \in Processes, PublisherStep(p)
    PROVE  /\ Copied' => Copied \/ (Shown /\ Link(p) /\ dir["previous"] = None)
           /\ Shown' => \/ Shown
                        \/ p = "capture" /\ pc[p] = "swap" /\ pc'[p] = "commit"
  <1>0. \A n \in Names : dir[n] \in options[n]
    BY DEF Struct, TypeInv, FilesOK
  <1>1. \A v : Durable(v)' = Durable(v)
    BY DEF Durable
  <1>2. Copied' => \/ \E v \in options'["previous"] : Durable(v)
                   \/ \E v \in options'["restore"] : Durable(v)
                   \/ \E a \in Attempts : Durable(bytes'[a])
    BY DEF Copied, Durable
  <1>3. Shown' => Copied' \/ \E v \in options'["sidecar"] : Durable(v)
    BY DEF Shown, Durable
  <1>4. Durable(dir["previous"]) => Copied
    BY <1>0, NamesAre DEF Copied
  <1>5. Durable(dir["sidecar"]) => Shown
    BY <1>0, NamesAre DEF Shown
  <1>6. Copied' => Copied \/ (Shown /\ Link(p) /\ dir["previous"] = None)
    BY <1>2, <1>4, <1>5, PublisherShows DEF Copied
  <1>7. \A v \in options'["sidecar"] : Durable(v) =>
          Shown \/ (p = "capture" /\ pc[p] = "swap" /\ pc'[p] = "commit")
    BY PublisherShows DEF Shown, Copied, Processes
  <1>. QED
    BY <1>3, <1>6, <1>7 DEF Shown

\* The copy of the prior record that a failed writer leaves bars everybody.
LEMMA PublisherBarred ==
    ASSUME Struct, Barred, NEW p \in Processes, PublisherStep(p)
    PROVE  Barred'
  <1>0. /\ FilesOK /\ StateOK /\ FileInv /\ Place(p) /\ pc \in [Processes -> Places]
        /\ \A n \in Names : dir[n] \in options[n]
    BY DEF Struct, TypeInv, StateOK, FilesOK, PlaceInv
  <1>1. Others(p)
    BY CheckStruct, LinkStruct, PrepareStruct, CreateStruct, WriteStruct, SwapStruct,
       CommitStruct, UndoStruct, RestoreStruct, ResyncStruct, CleanStruct, ReleaseStruct,
       KillStruct DEF PublisherStep, Stepped
  <1>2. dir["previous"] # None /\ ~Holds(p)
    BY <1>0, NamesAre DEF Barred
  <1>3. /\ None \notin options'["previous"] /\ ~Holds(p)'
    <2>a. options'["previous"] \in {options["previous"], {dir["previous"]}} => None \notin options'["previous"]
      BY <1>2 DEF Barred
    <2>b. ASSUME NEW n \in Names \ {"previous"}, NEW v, SetName(n, v)
          PROVE  options'["previous"] = options["previous"]
      BY <2>b, SetNameEffect, NamesAre
    <2>c. ASSUME SyncParent
          PROVE  options'["previous"] = {dir["previous"]}
      BY <1>0, <2>c, SyncEffect, NamesAre
    <2>d. UNCHANGED fileVars => options'["previous"] = options["previous"]
      BY DEF fileVars
    <2>e. Abandon(p) \/ Kill(p) => ~Holds(p)'
      BY <1>0 DEF Abandon, Kill, Goto, Holds, After
    <2>f. pc[p] \in After /\ prior' = prior => ~Holds(p)'
      BY <1>2 DEF Holds
    <2>1. CASE Check(p)
      <3>1. CASE Abandon(p)
        BY <2>1, <2>a, <2>d, <2>e, <3>1 DEF Check
      <3>2. CASE prior' = prior /\ Proceed(p, IF pc[p] = "recheck" \/ (p = "capture" /\ ~prior[p])
                                              THEN "create" ELSE "link")
        <4>1. pc'[p] = "link" \/ ~prior'[p]
          BY <1>0, <3>2 DEF Proceed, Goto, Place
        <4>. QED
          BY <2>1, <2>a, <2>d, <4>1 DEF Check, Holds, After
      <3>. QED
        BY <2>1, <3>1, <3>2 DEF Check
    <2>2. CASE Link(p)
      <3>1. CASE Abandon(p) /\ UNCHANGED fileVars
        BY <2>a, <2>d, <2>e, <3>1
      <3>2. CASE UNCHANGED fileVars /\ Proceed(p, "recheck")
        <4>1. pc'[p] = "recheck"
          BY <1>0, <3>2 DEF Proceed, Goto
        <4>. QED
          BY <2>a, <2>d, <3>2, <4>1 DEF Holds, After
      <3>. QED
        BY <1>2, <2>2, <3>1, <3>2 DEF Link
    <2>3. CASE Prepare(p) \/ Restore(p)
      BY <1>0, <1>2, <2>3 DEF Prepare, Restore, Place, Holds, After
    <2>4. CASE Create(p)
      BY <2>4, <2>a, <2>b, <2>d, <2>f, NamesAre DEF Create, After
    <2>5. CASE Write(p)
      <3>1. options'["previous"] = options["previous"]
        BY <1>0, <2>5, <2>d, WriteEffect, NamesAre DEF Write
      <3>. QED
        BY <2>5, <2>a, <2>f, <3>1 DEF Write, After
    <2>6. CASE Swap(p)
      <3>1. ~prior[p]
        BY <1>2, <2>6 DEF Swap, Holds, After
      <3>. QED
        BY <2>6, <2>a, <2>b, <2>d, <2>f, <3>1, NamesAre DEF Swap, After
    <2>7. CASE Commit(p)
      BY <2>7, <2>a, <2>c, <2>d, <2>f DEF Commit, After
    <2>8. CASE Undo(p)
      <3>1. ~prior[p]
        BY <1>2, <2>8 DEF Undo, Holds, After
      <3>. QED
        BY <2>8, <2>a, <2>b, <2>d, <2>e, <2>f, <3>1, NamesAre DEF Undo, After
    <2>9. CASE Resync(p)
      BY <2>9, <2>a, <2>c, <2>d, <2>e, <2>f DEF Resync, After
    <2>10. CASE Clean(p)
      <3>1. ~prior[p]
        BY <1>2, <2>10 DEF Clean, Holds, After
      <3>. QED
        BY <2>10, <2>a, <2>b, <2>d, <2>e, <3>1, NamesAre DEF Clean
    <2>11. CASE Release(p)
      <3>1. ~prior[p]
        BY <1>2, <2>11 DEF Release, Holds, After
      <3>2. CASE SetName("pending", None) /\ Acknowledge(p)
        <4>1. ~prior'[p]
          BY <1>0, <3>2 DEF Acknowledge, StateOK
        <4>. QED
          BY <2>a, <2>b, <3>2, <4>1, NamesAre DEF Holds
      <3>. QED
        BY <2>11, <2>a, <2>d, <2>e, <3>1, <3>2 DEF Release
    <2>12. CASE Kill(p)
      BY <2>12, <2>a, <2>d, <2>e DEF Kill
    <2>. QED
      BY <2>1, <2>2, <2>3, <2>4, <2>5, <2>6, <2>7, <2>8, <2>9, <2>10, <2>11, <2>12 DEF PublisherStep
  <1>4. \A q \in Processes \ {p} : ~Holds(q)'
    BY <1>1 DEF Others, Holds, Barred
  <1>. QED
    BY <1>3, <1>4 DEF Barred

\* The writer fails behind its new record: its copy of the prior one stays.
LEMMA FailureBars ==
    ASSUME Struct, Captured, Kept, PublisherStep("capture"), pc["capture"] \in Swapped,
           Abandon("capture")
    PROVE  pc'["capture"] = "failed" /\ Barred'
  <1>. DEFINE p == "capture"
  <1>0. p \in Processes /\ pc \in [Processes -> Places]
    BY CaptureIs DEF Struct, TypeInv, StateOK
  <1>1. pc'[p] = "failed" /\ prior' = prior
    BY <1>0 DEF Abandon, Goto
  <1>2. UNCHANGED fileVars /\ pc[p] \in {"undo", "restore", "resync", "release"}
    BY <1>0, <1>1 DEF PublisherStep, Check, Link, Prepare, Create, Write, Swap, Commit, Undo, Restore,
       Resync, Clean, Release, Kill, Proceed, Acknowledge, Goto, Swapped
  <1>3. options["previous"] = {dir["previous"]} /\ dir["previous"] \in Snapshot
    BY <1>0, <1>2 DEF Kept, Stage, Good
  <1>4. None \notin options'["previous"]
    BY <1>2, <1>3, RecordIsWhole DEF fileVars
  <1>5. \A q \in Processes \ {p} : pc[q] \notin After
    BY <1>0, Alone DEF Swapped, After
  <1>6. Others(p)
    BY <1>0, CheckStruct, LinkStruct, PrepareStruct, CreateStruct, WriteStruct, SwapStruct,
       CommitStruct, UndoStruct, RestoreStruct, ResyncStruct, CleanStruct, ReleaseStruct,
       KillStruct DEF PublisherStep, Stepped
  <1>7. \A q \in Processes : ~Holds(q)'
    BY <1>1, <1>5, <1>6 DEF Others, Holds, After
  <1>. QED
    BY <1>1, <1>4, <1>7 DEF Barred

LEMMA PublisherWithheld ==
    ASSUME Struct, WriterInv, Kept, Sealed, Honest, Withheld, NEW p \in Processes, PublisherStep(p)
    PROVE  Withheld'
  <1>0. /\ FilesOK /\ StateOK /\ FileInv /\ PlaceInv /\ pc \in [Processes -> Places]
        /\ \A n \in Names : dir[n] \in options[n]
    BY DEF Struct, TypeInv, StateOK, FilesOK
  <1>1. /\ Copied' => Copied \/ (Shown /\ Link(p) /\ dir["previous"] = None)
        /\ Shown' => Shown \/ (p = "capture" /\ pc[p] = "swap" /\ pc'[p] = "commit")
    BY PublisherShown
  <1>2. Copied => Shown
    BY DEF Shown
  <1>3. CASE p # "capture"
    <2>1. pc'["capture"] = pc["capture"]
      BY <1>3, WriterApart
    <2>2. Shown' => Shown
      BY <1>1, <1>3
    <2>3. Shown' => \/ pc'["capture"] \in Swapped \cup {"done", "off"}
                    \/ pc'["capture"] = "failed" /\ Barred'
      BY <2>1, <2>2, PublisherBarred DEF Withheld
    <2>4. ASSUME pc["capture"] \in Swapped, Copied' PROVE FALSE
      <3>1. Shown /\ dir["previous"] = None
        BY <1>1, <2>4 DEF Withheld
      <3>2. Stage("capture") /\ "capture" \in Processes
        BY <3>1, ShownIsPublished, CaptureIs DEF Kept
      <3>3. Holds("capture")
        BY <2>4, <3>2 DEF Stage, Holds, Swapped, After
      <3>. QED
        BY <1>0, <3>1, <3>2, <3>3, RecordIsWhole DEF FileInv
    <2>. QED
      BY <2>1, <2>3, <2>4 DEF Withheld
  <1>4. CASE p = "capture" /\ pc[p] \notin Swapped
    <2>1. ~Shown
      <3>1. pc[p] \notin Idle
        BY DEF PublisherStep, Check, Link, Prepare, Create, Write, Swap, Commit, Undo, Restore,
           Resync, Clean, Release, Kill, Idle
      <3>. QED
        BY <1>4, <3>1 DEF Withheld, Idle
    <2>2. ~Copied'
      BY <1>1, <1>2, <2>1
    <2>3. Shown' => pc'["capture"] = "commit"
      BY <1>1, <1>4, <2>1
    <2>. QED
      BY <2>2, <2>3 DEF Withheld, Swapped
  <1>5. CASE p = "capture" /\ pc[p] \in Swapped
    <2>1. ~Copied
      BY <1>5 DEF Withheld
    <2>2. ~Copied'
      BY <1>1, <1>5, <2>1 DEF Link, Swapped
    <2>3. SUFFICES ASSUME Shown'
                   PROVE  \/ pc'["capture"] \in Swapped \cup {"done", "off"}
                          \/ pc'["capture"] = "failed" /\ Barred'
      BY <2>2 DEF Withheld
    <2>4. Shown
      BY <1>1, <1>5, <2>3 DEF Swapped
    <2>5. Durable(bytes["capture"]) /\ Captured
      BY <2>4, ShownIsPublished
    <2>6. CASE Abandon(p)
      BY <1>5, <2>5, <2>6, FailureBars
    <2>7. CASE Kill(p)
      BY <1>0, <1>5, <2>7 DEF Kill, Goto
    <2>8. CASE Commit(p) \/ Undo(p) \/ Restore(p)
      <3>1. Abandon(p) \/ \E place \in Swapped : Proceed(p, place)
        BY <2>8 DEF Commit, Undo, Restore, Swapped
      <3>2. ASSUME NEW place \in Swapped, Proceed(p, place)
            PROVE  pc'[p] \in Swapped
        BY <1>0, <3>2 DEF Proceed, Goto
      <3>. QED
        BY <1>5, <2>6, <3>1, <3>2
    <2>9. CASE Resync(p) /\ ~Abandon(p)
      <3>1. SyncParent /\ pc[p] = "resync"
        BY <2>9 DEF Resync
      <3>2. options'["sidecar"] = {dir["sidecar"]} /\ dir["sidecar"] = dir["previous"]
            /\ dir["previous"] \in options["previous"]
        BY <1>0, <1>5, <2>5, <3>1, SyncEffect, NamesAre DEF Kept, Stage
      <3>3. ~Durable(dir["previous"])
        BY <2>1, <3>2 DEF Copied
      <3>4. \A v \in options'["sidecar"] : ~Durable(v)'
        BY <3>2, <3>3 DEF Durable
      <3>. QED
        BY <2>2, <2>3, <3>4 DEF Shown
    <2>10. CASE Release(p)
      <3>1. CASE Acknowledge(p) /\ Works
        <4>1. pc'[p] = IF p # "capture" \/ bytes[p].phase = "audio_durable" THEN "done"
                       ELSE IF intent = "run" THEN "open" ELSE "wav"
          BY <1>0, <2>10, <3>1, AcknowledgeState DEF PlaceInv, Release
        <4>. QED
          BY <1>5, <2>5, <4>1 DEF Durable
      <3>. QED
        BY <2>6, <2>10, <3>1 DEF Release
    <2>. QED
      BY <1>5, <2>6, <2>7, <2>8, <2>9, <2>10 DEF PublisherStep, Check, Link, Prepare, Create, Write,
         Swap, Clean, Swapped
  <1>. QED
    BY <1>3, <1>4, <1>5

\* A step that shows no certificate, and leaves the writer where it is or ends it.
LEMMA WithheldSame ==
    ASSUME Withheld, Shown' => Shown, Copied' => Copied, pc'["capture"] = pc["capture"],
           Barred => Barred'
    PROVE  Withheld'
  BY DEF Withheld

LEMMA NextWithheld ==
    ASSUME Struct, WriterInv, Kept, Recorded, Sealed, Honest, Withheld, [Next]_vars
    PROVE  Withheld'
  <1>0. FilesOK /\ StateOK /\ pc \in [Processes -> Places]
    BY DEF Struct, TypeInv, StateOK
  <1>1. ASSUME NEW p \in Processes, PublisherStep(p)
        PROVE  Withheld'
    BY <1>1, PublisherWithheld
  <1>2. CASE Begin \/ PersistBeforeAudio \/ WriteFrame \/ Finish \/ FinalizeWav \/ SyncAudio
    <2>1. pc["capture"] \in {"idle", "open", "wav", "audio"}
      BY <1>2 DEF Begin, PersistBeforeAudio, WriteFrame, Finish, FinalizeWav, SyncAudio
    <2>2. ~Shown
      BY <2>1 DEF Withheld, Swapped
    <2>3. \A n \in Names \ {"audio"} : options'[n] \subseteq options[n]
      <3>1. CASE SetName("audio", "wav")
        BY <3>1, SetNameEffect, NamesAre
      <3>2. CASE UNCHANGED fileVars
        BY <3>2 DEF fileVars
      <3>3. CASE SyncParent
        BY <1>0, <3>3, SyncEffect, NamesAre
      <3>. QED
        BY <1>2, <3>1, <3>2, <3>3 DEF Begin, PersistBeforeAudio, WriteFrame, Finish, FinalizeWav, SyncAudio
    <2>4. \A a \in Attempts : bytes'[a] = bytes[a]
      <3>1. Others("capture")
        BY <1>2, BeginStruct, PersistStruct, WriteFrameStruct, FinishStruct, FinalizeStruct,
           SyncAudioStruct DEF Stepped
      <3>. QED
        BY <3>1, CaptureIs DEF Others
    <2>5. ~Shown'
      BY <2>2, <2>3, <2>4, NamesAre DEF Shown, Copied, Durable
    <2>. QED
      BY <2>5 DEF Withheld, Shown
  <1>3. ASSUME NEW a \in Attempts, CountFrames(a) \/ Look(a) \/ ReadPrimary(a) \/ Load(a)
        PROVE  Withheld'
    <2>1. /\ UNCHANGED <<options, bytes, prior>> /\ pc'["capture"] = pc["capture"] /\ Others(a)
          /\ pc'[a] \notin After
      BY <1>3, ReaderApart DEF fileVars, Stepped, After
    <2>2. Barred => Barred'
      BY <2>1 DEF Barred, Holds, Others
    <2>3. (Shown' => Shown) /\ (Copied' => Copied)
      BY <2>1 DEF Shown, Copied, Durable
    <2>. QED
      BY <2>1, <2>2, <2>3, WithheldSame
  <1>4. CASE PowerFailure
    <2>1. PowerFails /\ bytes' = bytes
      BY <1>4, PowerEffect DEF PowerFailure
    <2>2. \A n \in Names : options'[n] \subseteq options[n]
      BY <2>1 DEF PowerFails
    <2>3. Shown' => Shown
      BY <2>1, <2>2, NamesAre DEF Shown, Copied, Durable
    <2>4. /\ pc'["capture"] \in {"off", "failed", "done"}
          /\ pc'["capture"] = "failed" => pc["capture"] = "failed"
      BY <1>4, CaptureIs DEF PowerFailure, Idle
    <2>5. \A q \in Processes : pc'[q] \in Idle
      BY <1>4 DEF PowerFailure, Idle
    <2>6. Barred => Barred'
      BY <2>2, <2>5, NamesAre DEF Barred, Holds, Idle, After
    <2>. QED
      BY <2>3, <2>4, <2>6 DEF Withheld, Swapped
  <1>5. CASE UNCHANGED vars
    BY <1>5, WithheldSame DEF vars, Shown, Copied, Durable, Barred, Holds
  <1>. QED
    BY <1>1, <1>2, <1>3, <1>4, <1>5 DEF Next, PublisherStep

LEMMA InitWithheld ==
    ASSUME Init
    PROVE  Withheld
  <1>1. /\ \A n \in Names \ {"audio"} : options[n] = {None}
        /\ \A p \in Processes : bytes[p] = None /\ pc[p] \in {"idle", "off"}
    BY DEF Init
  <1>2. ~Shown
    BY <1>1, RecordIsWhole, NamesAre, CaptureIs DEF Shown, Copied, Durable
  <1>. QED
    BY <1>2 DEF Withheld, Shown

\* A reader that would be told "complete" now, or was, has it from the writer.
LEMMA CertificateFollows ==
    ASSUME Struct, Sealed, Honest, Withheld
    PROVE  CertificateIsTrue
  <1>0. FilesOK /\ \A n \in Names : dir[n] \in options[n]
    BY DEF Struct, TypeInv, FilesOK
  <1>1. \A a \in Attempts : loaded[a].complete =>
          audio.final /\ audio.synced /\ known \subseteq loaded[a].quality
    BY DEF Honest, Sealed
  <1>2. ASSUME NEW frames, PermitsCompletion(HasTemporary, dir["sidecar"], frames)
        PROVE  /\ audio.final /\ audio.synced /\ known \subseteq dir["sidecar"].quality
               /\ pc["capture"] # "failed"
    <2>1. ~HasTemporary /\ Whole(dir["sidecar"]) /\ dir["sidecar"].phase = "audio_durable"
      BY <1>2 DEF PermitsCompletion
    <2>2. Durable(dir["sidecar"])
      BY <1>0, <2>1, NamesAre DEF FilesOK, Values, Whole, Durable
    <2>3. Durable(bytes["capture"]) /\ TellsAll(dir["sidecar"])
      BY <1>0, <2>2, NamesAre DEF Honest, Fair
    <2>4. Shown
      BY <1>0, <2>2, NamesAre DEF Shown
    <2>5. dir["previous"] = None
      BY <2>1 DEF HasTemporary, Temporaries
    <2>6. ~Barred
      BY <1>0, <2>5, NamesAre DEF Barred
    <2>. QED
      BY <2>3, <2>4, <2>6 DEF Sealed, TellsAll, Withheld, Swapped
  <1>. QED
    BY <1>1, <1>2 DEF CertificateIsTrue

\* A recording is certified complete (QualityReadout::permits_completion) only if its WAV is final
\* and synced and the record names every loss the writer knew of; and a writer whose last call
\* failed leaves no certificate: its rollback has restored the prior record, or the copy it could
\* not remove bars every reader.  This holds for any number of attempts that publish and read
\* meanwhile, and whatever fails or crashes.
THEOREM CertificateHolds == Spec => []CertificateIsTrue
  <1>1. Init => Recorded /\ Sealed /\ Honest /\ Withheld
    BY InitSealed, InitHonest, InitWithheld
  <1>2. Struct /\ WriterInv /\ Beginning /\ Kept /\ Recorded /\ Sealed /\ Honest /\ Withheld /\ [Next]_vars
          => Recorded' /\ Sealed' /\ Honest' /\ Withheld'
    BY NextSealed, NextHonest, NextWithheld
  <1>3. Struct /\ Sealed /\ Honest /\ Withheld => CertificateIsTrue
    BY CertificateFollows
  <1>. QED
    BY <1>1, <1>2, <1>3, KeptAlways, PTL DEF Spec
=============================================================================
