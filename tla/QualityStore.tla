---------------------------- MODULE QualityStore ----------------------------
(***************************************************************************)
(* The quality record kept beside a recording (corti-core, quality_store)  *)
(* and those who publish it: the capture writer, which certifies with it   *)
(* that the audio is on disk, and the attempts to transcribe the recording *)
(* (pipeline or a redo in another process), which add what they found.     *)
(*                                                                         *)
(* The store is four names in one directory.  `dir` is what they stand for *)
(* now and `options` what each may stand for after a power failure: a name *)
(* that was not synced since it changed keeps any of its values.  A file   *)
(* never changes once its content was synced, so a hard link is a copy of  *)
(* the value.  Every call to the file system is a step, may fail, and may  *)
(* be the last one of its process.                                         *)
(*                                                                         *)
(* A quality record is the set of its facts: it only grows, and merging is *)
(* union.  That a batch pass marks processing losses as recovered, and the *)
(* caps on spans and epochs, are left out.                                 *)
(***************************************************************************)
EXTENDS Naturals, FiniteSets

CONSTANTS
    Attempts,     \* the attempts to transcribe; each finds one fact, itself
    CaptureFacts, \* the losses the capture may have
    MaxFrames,    \* bound on the frames of the recording
    MaxFaults,    \* bound on the file system calls that fail
    MaxCrashes,   \* bound on power failures and killed processes
    None,         \* no file, no record
    Torn          \* a file without its content

ASSUME StoreAssumption ==
    /\ MaxFrames \in Nat \ {0} /\ MaxFaults \in Nat /\ MaxCrashes \in Nat
    /\ Attempts \cap CaptureFacts = {} /\ "capture" \notin Attempts

Phases == <<"none", "legacy_unknown", "in_progress", "finalizing", "audio_durable">>
Rank(phase) == CHOOSE i \in DOMAIN Phases : Phases[i] = phase

\* QualitySnapshot: what a whole file holds.
Snapshot == [phase : {Phases[i] : i \in 2..5}, frames : 0..MaxFrames \cup {None},
             quality : SUBSET CaptureFacts,
             settled : (SUBSET (CaptureFacts \cup Attempts)) \cup {None}]

\* No file, a file without content, and a record are told apart.
ASSUME ValueAssumption ==
    /\ None # Torn /\ None # "wav"
    /\ None \notin Snapshot /\ Torn \notin Snapshot
    /\ \A facts \in SUBSET (CaptureFacts \cup Attempts) : facts # None

Processes == Attempts \cup {"capture"}
Temporaries == {"pending", "previous", "restore"}
Names == Temporaries \cup {"sidecar", "audio"}

VARIABLES
    dir,      \* the directory
    options,  \* per name, what a power failure may leave
    audio,    \* the WAV: frames, whether its header is final, whether it is synced
    known,    \* the facts the capture writer has accounted for
    store,    \* QualityStore.durable of the capture writer, None before begin
    intent,   \* the writer goes on, or finishes with or without completion
    pc,       \* per process
    bytes,    \* per process, the snapshot it publishes
    prior,    \* per process, has_prior: it holds `previous`
    owned,    \* per process, pending_owned
    loaded,   \* per attempt, what it has read: the frames of the WAV, whether there were
              \* transaction files, the record, and what it made of them
    acked,    \* history: what calls that returned Ok have promised
    faults, crashes

fileVars == <<dir, options>>
captureVars == <<audio, known, store, intent>>
vars == <<dir, options, audio, known, store, intent, pc, bytes, prior, owned, loaded,
          acked, faults, crashes>>

Init ==
    /\ \E legacy \in BOOLEAN :
         /\ dir = [n \in Names |-> IF legacy /\ n = "audio" THEN "wav" ELSE None]
         /\ audio = [frames |-> IF legacy THEN 1 ELSE 0, final |-> legacy, synced |-> legacy]
         /\ pc = [p \in Processes |-> IF legacy /\ p = "capture" THEN "off" ELSE "idle"]
    /\ options = [n \in Names |-> {dir[n]}]
    /\ known = {} /\ store = None /\ intent = "run"
    /\ bytes = [p \in Processes |-> None]
    /\ prior = [p \in Processes |-> FALSE] /\ owned = [p \in Processes |-> FALSE]
    /\ loaded = [a \in Attempts |-> [frames |-> None, interrupted |-> FALSE, primary |-> None,
                                     complete |-> FALSE, settled |-> None, quality |-> {}]]
    /\ acked = [phase |-> "none", frames |-> 0, facts |-> {}]
    /\ faults = 0 /\ crashes = 0

-----------------------------------------------------------------------------
(* The directory.                                                           *)

Becomes(changes) ==
    /\ dir' = [n \in Names |-> IF n \in DOMAIN changes THEN changes[n] ELSE dir[n]]
    /\ options' = [n \in Names |-> IF n \in DOMAIN changes
                                   THEN options[n] \cup {changes[n]} ELSE options[n]]
SetName(name, value) == Becomes([n \in {name} |-> value])

\* rename(from, to): atomic for whoever looks now, but not across a power failure.
Rename(from, to) == Becomes([n \in {from, to} |-> IF n = to THEN dir[from] ELSE None])

\* sync_parent
SyncParent == dir' = dir /\ options' = [n \in Names |-> {dir[n]}]

Fails == faults < MaxFaults /\ faults' = faults + 1
Works == faults' = faults

Goto(p, place) == pc' = [pc EXCEPT ![p] = place]

\* Mutant: the copy of the prior record is not taken for a sign of a publication.
OnlyPending == dir["pending"] # None

\* has_temporary
HasTemporary == \E n \in Temporaries : dir[n] # None

-----------------------------------------------------------------------------
(* Reading: load_quality.                                                   *)

Whole(file) == file \notin {None, Torn}

\* preserves_history and preserves_settled_history, of a snapshot over another.
Preserves(next, previous) ==
    /\ previous.quality \subseteq next.quality
    /\ previous.settled # None =>
         next.settled # None /\ previous.settled \subseteq next.settled

\* The snapshot that is read, the record first; None if there is none, Torn for an error.
LoadQuality(interrupted, primary) ==
    LET previous == dir["previous"]
    IN  IF ~interrupted THEN primary
        ELSE IF Whole(primary) /\ Whole(previous)
        THEN IF Preserves(primary, previous) THEN primary ELSE Torn
        ELSE IF Whole(primary) THEN primary
        ELSE IF Whole(previous) THEN previous
        ELSE IF primary = None /\ previous = None THEN dir["pending"]
        ELSE Torn

\* What load_recording_quality makes of it: the settled history if there is one.
History(snapshot) ==
    IF snapshot = None THEN {}
    ELSE IF snapshot.settled = None THEN snapshot.quality ELSE snapshot.settled

\* The frame counts validated_wav_frames may give: no or any count for a WAV that was
\* not finalized.
FrameCounts == IF audio.final THEN {audio.frames} ELSE 0..audio.frames \cup {None}

\* QualityReadout::permits_completion
PermitsCompletion(interrupted, snapshot, frames) ==
    /\ ~interrupted
    /\ Whole(snapshot)
    /\ snapshot.phase = "audio_durable" /\ snapshot.frames = frames

-----------------------------------------------------------------------------
(* Publishing: publish, publish_owned, rollback, persist_settled_quality.   *)

\* The process gives up.  A writer that gives up drops its WAV, which finalizes it.
Abandon(p) ==
    /\ Goto(p, "failed")
    /\ audio' = IF p = "capture" THEN [audio EXCEPT !.final = dir["audio"] # None] ELSE audio
    /\ UNCHANGED <<known, store, intent, bytes, prior, owned, loaded, acked, crashes>>

\* The publication goes on at `place`.
Proceed(p, place) ==
    /\ Goto(p, place)
    /\ UNCHANGED <<captureVars, loaded, acked, crashes>>

\* First look at the transaction files.
Check(p) ==
    /\ pc[p] \in {"check", "recheck"}
    /\ UNCHANGED fileVars /\ Works
    /\ \/ HasTemporary /\ Abandon(p)
       \/ /\ ~HasTemporary
          /\ Proceed(p, IF pc[p] = "recheck" \/ (p = "capture" /\ ~prior[p])
                        THEN "create" ELSE "link")
          /\ UNCHANGED <<bytes, prior, owned>>

\* Become the owner: link the record to `previous`, which must not exist.  An attempt that
\* finds no record, and has not read one, creates one without capture facts.
Link(p) ==
    /\ pc[p] = "link"
    /\ \/ /\ dir["sidecar"] # None /\ dir["previous"] = None
          /\ Works /\ SetName("previous", dir["sidecar"])
          /\ prior' = [prior EXCEPT ![p] = TRUE]
          /\ Proceed(p, "prepare") /\ UNCHANGED <<bytes, owned>>
       \/ /\ p # "capture" /\ dir["sidecar"] = None /\ loaded[p].settled = None
          /\ Works /\ UNCHANGED fileVars
          /\ bytes' = [bytes EXCEPT ![p] = [phase |-> "legacy_unknown", frames |-> None,
                                            quality |-> {}, settled |-> loaded[p].quality]]
          /\ Proceed(p, "recheck") /\ UNCHANGED <<prior, owned>>
       \/ /\ dir["sidecar"] = None /\ (p = "capture" \/ loaded[p].settled # None)
          /\ Works /\ UNCHANGED fileVars /\ Abandon(p)
       \/ /\ dir["sidecar"] # None /\ dir["previous"] # None
          /\ Works /\ UNCHANGED fileVars /\ Abandon(p)
       \/ Fails /\ UNCHANGED fileVars /\ Abandon(p)

\* Mutant: an attempt does not compare the record with the one it has read.
SettledUnchecked(p, old) ==
    IF p = "capture"
    THEN [bytes[p] EXCEPT !.settled = IF old.settled = None THEN None
                                      ELSE old.settled \cup bytes[p].quality]
    ELSE [old EXCEPT !.settled = loaded[p].quality]

\* The snapshot p publishes over `old`: the writer carries the settled history forward; an
\* attempt replaces it, if it is what it has read and nothing known gets lost.
Prepared(p, old) ==
    IF p = "capture"
    THEN [bytes[p] EXCEPT !.settled = IF old.settled = None THEN None
                                      ELSE old.settled \cup bytes[p].quality]
    ELSE IF old.settled = loaded[p].settled /\ History(old) \subseteq loaded[p].quality
    THEN [old EXCEPT !.settled = loaded[p].quality]
    ELSE None

\* The link is synced, and the owner reads what it has linked.
Prepare(p) ==
    LET next == Prepared(p, dir["previous"])
    IN  /\ pc[p] = "prepare"
        /\ \/ /\ Works /\ SyncParent
              /\ bytes' = [bytes EXCEPT ![p] = next]
              /\ Proceed(p, IF next = None THEN "clean" ELSE "create")
           \/ Fails /\ UNCHANGED <<fileVars, bytes>> /\ Proceed(p, "clean")
        /\ UNCHANGED <<prior, owned>>

\* private_new(pending)
Create(p) ==
    /\ pc[p] = "create"
    /\ \/ /\ dir["pending"] = None /\ Works /\ SetName("pending", Torn)
          /\ owned' = [owned EXCEPT ![p] = TRUE] /\ Proceed(p, "write")
       \/ /\ dir["pending"] # None /\ Works
          /\ UNCHANGED <<fileVars, owned>> /\ Proceed(p, "clean")
       \/ Fails /\ UNCHANGED <<fileVars, owned>> /\ Proceed(p, "clean")
    /\ UNCHANGED <<bytes, prior>>

\* write_all and sync_all: from now on the content is there wherever the name is.
Write(p) ==
    /\ pc[p] = "write"
    /\ \/ /\ Works /\ dir' = [dir EXCEPT !["pending"] = bytes[p]]
          /\ options' = [options EXCEPT !["pending"] = (@ \ {Torn}) \cup {bytes[p]}]
          /\ Proceed(p, "swap")
       \/ Fails /\ UNCHANGED fileVars /\ Proceed(p, "clean")
    /\ UNCHANGED <<bytes, prior, owned>>

\* The new record takes the name: renamed over the prior one, or linked where there is
\* none.
Swap(p) ==
    /\ pc[p] = "swap"
    /\ \/ /\ prior[p] /\ Works /\ Rename("pending", "sidecar")
          /\ owned' = [owned EXCEPT ![p] = FALSE] /\ Proceed(p, "commit")
       \/ /\ ~prior[p] /\ dir["sidecar"] = None /\ Works
          /\ SetName("sidecar", dir["pending"])
          /\ owned' = owned /\ Proceed(p, "commit")
       \/ /\ ~prior[p] /\ dir["sidecar"] # None /\ Works
          /\ UNCHANGED <<fileVars, owned>> /\ Proceed(p, "clean")
       \/ Fails /\ UNCHANGED <<fileVars, owned>> /\ Proceed(p, "clean")
    /\ UNCHANGED <<bytes, prior>>

Commit(p) ==
    /\ pc[p] = "commit"
    /\ \/ Works /\ SyncParent /\ Proceed(p, "release")
       \/ Fails /\ UNCHANGED fileVars /\ Proceed(p, "undo")
    /\ UNCHANGED <<bytes, prior, owned>>

\* rollback.  If it fails, everything is left as it is.
Undo(p) ==
    /\ pc[p] = "undo"
    /\ \/ /\ prior[p] /\ dir["restore"] = None /\ Works
          /\ SetName("restore", dir["previous"]) /\ Proceed(p, "restore")
          /\ UNCHANGED <<bytes, prior, owned>>
       \/ /\ ~prior[p] /\ Works /\ SetName("sidecar", None) /\ Proceed(p, "resync")
          /\ UNCHANGED <<bytes, prior, owned>>
       \/ Fails /\ UNCHANGED fileVars /\ Abandon(p)

Restore(p) ==
    /\ pc[p] = "restore"
    /\ \/ /\ Works /\ Rename("restore", "sidecar") /\ Proceed(p, "resync")
          /\ UNCHANGED <<bytes, prior, owned>>
       \/ Fails /\ UNCHANGED fileVars /\ Abandon(p)

Resync(p) ==
    /\ pc[p] = "resync"
    /\ \/ Works /\ SyncParent /\ Proceed(p, "clean") /\ UNCHANGED <<bytes, prior, owned>>
       \/ Fails /\ UNCHANGED fileVars /\ Abandon(p)

\* Mutant: what was linked before a publication failed is left behind.
CleanPending(p) ==
    /\ pc[p] = "clean" /\ Works
    /\ IF owned[p] THEN SetName("pending", None) ELSE UNCHANGED fileVars
    /\ Abandon(p)

\* A failed publication takes away what it owns, if it can.
Clean(p) ==
    LET name == IF owned[p] THEN "pending" ELSE "previous"
    IN  /\ pc[p] = "clean"
        /\ IF ~owned[p] /\ ~prior[p] THEN Works /\ UNCHANGED fileVars
           ELSE \/ Works /\ SetName(name, None)
                \/ Fails /\ UNCHANGED fileVars
        /\ IF owned[p] /\ prior[p]
           THEN /\ owned' = [owned EXCEPT ![p] = FALSE]
                /\ Proceed(p, "clean") /\ UNCHANGED <<bytes, prior>>
           ELSE Abandon(p)

\* A record of the writer, which knows of no settled history.
Record(phase, frames, quality) ==
    [phase |-> phase, frames |-> frames, quality |-> quality, settled |-> None]

\* The call returns Ok.
Acknowledge(p) ==
    /\ acked' = [phase  |-> IF p = "capture" THEN bytes[p].phase ELSE acked.phase,
                 frames |-> IF p = "capture" THEN bytes[p].frames ELSE acked.frames,
                 facts  |-> acked.facts \cup History(bytes[p])]
    /\ prior' = [prior EXCEPT ![p] = FALSE] /\ owned' = [owned EXCEPT ![p] = FALSE]
    /\ store' = IF p = "capture" THEN Record(bytes[p].phase, bytes[p].frames, bytes[p].quality)
                ELSE store
    /\ Goto(p, IF p # "capture" \/ bytes[p].phase = "audio_durable" THEN "done"
               ELSE IF intent = "run" THEN "open" ELSE "wav")
    /\ UNCHANGED <<audio, known, intent, bytes, loaded, crashes>>

\* The new record is durable; the owner takes away its own file.  If it cannot, the call
\* fails and the file stays as a barrier.
Release(p) ==
    /\ pc[p] = "release"
    /\ \/ /\ Works /\ SetName(IF prior[p] THEN "previous" ELSE "pending", None)
          /\ Acknowledge(p)
       \/ Fails /\ UNCHANGED fileVars /\ Abandon(p)

-----------------------------------------------------------------------------
(* The capture writer.                                                      *)

Publish(snapshot, replaces) ==
    /\ bytes' = [bytes EXCEPT !["capture"] = snapshot]
    /\ prior' = [prior EXCEPT !["capture"] = replaces]
    /\ Goto("capture", "check")

\* QualityStore::begin, before there is a WAV.
Begin ==
    /\ pc["capture"] = "idle"
    /\ dir["audio"] = None /\ dir["sidecar"] = None /\ ~HasTemporary
    /\ Publish(Record("in_progress", 0, {}), FALSE)
    /\ UNCHANGED <<fileVars, captureVars, owned, loaded, acked, faults, crashes>>

\* A loss is accounted for and persisted before any later frame is written.
PersistBeforeAudio ==
    /\ pc["capture"] = "open"
    /\ \E fact \in CaptureFacts \ known :
         /\ known' = known \cup {fact}
         /\ Publish(Record(store.phase, audio.frames, known'), TRUE)
    /\ UNCHANGED <<fileVars, audio, store, intent, owned, loaded, acked, faults, crashes>>

\* A frame is written; the first one creates the WAV.
WriteFrame ==
    /\ pc["capture"] = "open" /\ audio.frames < MaxFrames
    /\ \/ /\ Works /\ SetName("audio", "wav")
          /\ audio' = [frames |-> audio.frames + 1, final |-> FALSE, synced |-> FALSE]
          /\ UNCHANGED <<known, store, intent, pc, bytes, prior, owned, loaded, acked, crashes>>
       \/ Fails /\ UNCHANGED fileVars /\ Abandon("capture")

\* Writer::finish up to the record of the exact frame count, with or without the
\* authorization to complete; without any frame it fails.
Finish ==
    /\ pc["capture"] = "open"
    /\ \/ dir["audio"] = None /\ UNCHANGED <<fileVars, faults>> /\ Abandon("capture")
       \/ /\ dir["audio"] # None
          /\ intent' \in {"complete", "abort"}
          /\ Publish(Record(IF intent' = "complete" THEN "finalizing" ELSE store.phase,
                            audio.frames, store.quality), TRUE)
          /\ UNCHANGED <<fileVars, audio, known, store, owned, loaded, acked, faults, crashes>>

\* The WAV is finalized and read back.
FinalizeWav ==
    /\ pc["capture"] = "wav"
    /\ \/ Works /\ audio' = [audio EXCEPT !.final = TRUE] /\ Goto("capture", "audio")
       \/ /\ Fails /\ audio' \in {audio, [audio EXCEPT !.final = TRUE]}
          /\ Goto("capture", "failed")
    /\ UNCHANGED <<fileVars, known, store, intent, bytes, prior, owned, loaded, acked, crashes>>

\* complete_after_audio_sync: the audio and its name are synced, then that is published.
\* Without authorization the sync is all.
SyncAudio ==
    /\ pc["capture"] = "audio"
    /\ \/ /\ Works /\ SyncParent
          /\ audio' = [audio EXCEPT !.synced = TRUE]
          /\ IF intent = "complete"
             THEN Publish(Record("audio_durable", store.frames, store.quality), TRUE)
             ELSE Goto("capture", "failed") /\ UNCHANGED <<bytes, prior>>
       \/ /\ Fails /\ UNCHANGED <<fileVars, bytes, prior>>
          /\ audio' \in {audio, [audio EXCEPT !.synced = TRUE]}
          /\ Goto("capture", "failed")
    /\ UNCHANGED <<known, store, intent, owned, loaded, acked, crashes>>

-----------------------------------------------------------------------------
(* An attempt to transcribe the recording.                                  *)

\* load_recording_quality: the frames of the WAV are counted,
CountFrames(a) ==
    /\ pc[a] = "idle" /\ dir["audio"] # None
    /\ \E frames \in FrameCounts : loaded' = [loaded EXCEPT ![a].frames = frames]
    /\ Goto(a, "look")
    /\ UNCHANGED <<fileVars, captureVars, bytes, prior, owned, acked, faults, crashes>>

\* then it looks for transaction files,
Look(a) ==
    /\ pc[a] = "look"
    /\ loaded' = [loaded EXCEPT ![a].interrupted = HasTemporary]
    /\ Goto(a, "read")
    /\ UNCHANGED <<fileVars, captureVars, bytes, prior, owned, acked, faults, crashes>>

\* then the record is read,
ReadPrimary(a) ==
    /\ pc[a] = "read"
    /\ loaded' = [loaded EXCEPT ![a].primary = dir["sidecar"]]
    /\ Goto(a, "load")
    /\ UNCHANGED <<fileVars, captureVars, bytes, prior, owned, acked, faults, crashes>>

\* and, behind a publication, what it replaces.  The attempt adds what it finds itself.
Load(a) ==
    LET read == loaded[a]
        snapshot == LoadQuality(read.interrupted, read.primary)
    IN  /\ pc[a] = "load"
        /\ UNCHANGED fileVars /\ Works
        /\ \/ snapshot = Torn /\ Abandon(a)
           \/ /\ snapshot # Torn
              /\ loaded' = [loaded EXCEPT ![a] =
                    [@ EXCEPT !.frames = None, !.interrupted = FALSE, !.primary = None,
                              !.complete = PermitsCompletion(read.interrupted, snapshot,
                                                             read.frames),
                              !.settled = IF snapshot = None THEN None ELSE snapshot.settled,
                              !.quality = History(snapshot) \cup {a}]]
              /\ Goto(a, "check")
              /\ UNCHANGED <<captureVars, bytes, prior, owned, acked, crashes>>

-----------------------------------------------------------------------------
(* Crashes.                                                                 *)

Idle == {"idle", "done", "failed", "off"}

\* A process is killed; the files stay as they are.
Kill(p) ==
    /\ pc[p] \notin Idle /\ crashes < MaxCrashes
    /\ crashes' = crashes + 1
    /\ Goto(p, "off")
    /\ UNCHANGED <<fileVars, captureVars, bytes, prior, owned, loaded, acked, faults>>

\* The power fails: every process ends, each name has one of its values, and audio that
\* was not synced is damaged.
PowerFailure ==
    /\ crashes < MaxCrashes /\ crashes' = crashes + 1
    /\ \E sidecar \in options["sidecar"], pending \in options["pending"],
          previous \in options["previous"], restore \in options["restore"],
          wav \in options["audio"] :
         /\ dir' = [sidecar |-> sidecar, pending |-> pending, previous |-> previous,
                    restore |-> restore, audio |-> wav]
         /\ audio' = IF wav # None /\ audio.synced THEN audio
                     ELSE [frames |-> IF wav = None THEN 0 ELSE audio.frames,
                           final |-> FALSE, synced |-> FALSE]
    /\ options' = [n \in Names |-> {dir'[n]}]
    /\ pc' = [p \in Processes |-> IF pc[p] \in Idle \ {"idle"} THEN pc[p]
                                  ELSE IF pc[p] = "idle" /\ p # "capture" THEN "idle"
                                  ELSE "off"]
    /\ UNCHANGED <<known, store, intent, bytes, prior, owned, loaded, acked, faults>>

Next ==
    \/ \E p \in Processes :
         \/ Check(p) \/ Link(p) \/ Prepare(p) \/ Create(p) \/ Write(p) \/ Swap(p) \/ Commit(p)
         \/ Undo(p) \/ Restore(p) \/ Resync(p) \/ Clean(p) \/ Release(p) \/ Kill(p)
    \/ Begin \/ PersistBeforeAudio \/ WriteFrame \/ Finish \/ FinalizeWav \/ SyncAudio
    \/ \E a \in Attempts : CountFrames(a) \/ Look(a) \/ ReadPrimary(a) \/ Load(a)
    \/ PowerFailure

Spec == Init /\ [][Next]_vars

-----------------------------------------------------------------------------
(* Properties.                                                              *)

TypeOK ==
    /\ \A n \in Names \ {"audio"} :
         (dir[n] \in {None, Torn} \/ dir[n] \in Snapshot) /\ dir[n] \in options[n]
    /\ dir["audio"] \in {None, "wav"} /\ dir["audio"] \in options["audio"]
    /\ audio.frames \in 0..MaxFrames /\ known \subseteq CaptureFacts
    /\ faults \in 0..MaxFaults /\ crashes \in 0..MaxCrashes

\* An attempt that is told the recording is complete, whenever it read and whatever crashes
\* come, has a WAV that is final and on disk with exactly the certified frames, and every
\* loss the writer knew of; and a writer whose call failed leaves no certificate behind
\* (quality_store.rs: "Only an explicit successful completion call promotes storage
\* state").
CertificateIsTrue ==
    LET certified == \E frames \in FrameCounts :
                        PermitsCompletion(HasTemporary, dir["sidecar"], frames)
    IN  /\ \A a \in Attempts : loaded[a].complete =>
             audio.final /\ audio.synced /\ known \subseteq loaded[a].quality
        /\ certified => /\ audio.final /\ audio.synced /\ known \subseteq dir["sidecar"].quality
                        /\ pc["capture"] # "failed"

\* What a call that returned Ok has published is what a reader finds from then on: all
\* its facts, its phase and its frame count, whoever publishes next, fails or is
\* interrupted, and whatever a power failure leaves ("A stale baseline rejects publication
\* rather than clearing quality added by a concurrent explicit redo", pipeline.rs).
AcknowledgedIsKept ==
    LET snapshot == LoadQuality(HasTemporary, dir["sidecar"])
    IN  acked.facts # {} \/ acked.phase # "none" =>
            /\ Whole(snapshot)
            /\ acked.facts \subseteq History(snapshot)
            /\ Rank(snapshot.phase) >= Rank(acked.phase)
            /\ snapshot.phase # "legacy_unknown" => snapshot.frames >= acked.frames

\* Publishers that get into each other's way clean up after themselves: as long as nothing
\* fails, a transaction file belongs to a publication that is under way.  (A file that is
\* left bars every later settlement of the recording.)
RefusalLeavesNoBarrier ==
    faults = 0 /\ crashes = 0 /\ (\A p \in Processes : pc[p] \in Idle \cup {"open"})
        => ~HasTemporary

=============================================================================
