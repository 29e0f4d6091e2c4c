---------------------------- MODULE Coordinator ----------------------------
(***************************************************************************)
(* The hosted coordinator (crates/corti-chat/src/coordinator.rs) with the   *)
(* Vertex credential resolver, as the service thread of postprocess_app.rs  *)
(* drives it.  One thread owns all of this state; what interleaves is the   *)
(* commands of the app, the answers of provider and credential workers,     *)
(* and deadlines.                                                           *)
(*                                                                          *)
(* A call is submitted in a lane and fenced with the revisions of that      *)
(* moment, waits in the queue for a credential, the cache and capacity,     *)
(* runs on a worker, and ends once: applied, or dropped for any reason.     *)
(* Why it was dropped, its content and its accounting are left out.  Time   *)
(* is left open: a deadline may pass at any moment, and a queued Final may  *)
(* have waited long enough to be promoted.                                  *)
(***************************************************************************)
EXTENDS Integers, FiniteSets

CONSTANTS
    Calls,            \* call ids
    LaneOf,           \* the lane each call is submitted in
    KeyOf,            \* the exact request key of each call, credential bound
    ProviderOf,       \* provider and transport of each call
    SubscriptionOf,   \* the subscription of each pinned call
    Subscriptions,
    Vertex,           \* the providers that use application default credentials
    Reusable,         \* keys whose lane keeps validated results in the cache
    MaxGlobal,        \* MAX_GLOBAL_PROVIDER_CALLS
    MaxProvider,      \* MAX_PROVIDER_CALLS
    MaxFinal,         \* MAX_FINAL_CALLS
    MaxPinned,        \* MAX_SUBSCRIPTION_CALLS
    MaxAdHoc,         \* MAX_QUEUED_AD_HOC_QUESTIONS
    MaxVisible,       \* MAX_VISIBLE_AD_HOC_EXCHANGES
    MaxChanges,       \* bound on the control revisions of a behaviour
    MaxProgress       \* bound on the transcript

Lanes == {"Live", "AdHoc", "Pinned", "Final"}
Families == {"Live", "Final", "Question"}
Switches == Families \cup {"master", "auto"}
Revisions == Families \cup {"session", "control", "pinned"}
Providers == {ProviderOf[c] : c \in Calls}
Keys == {KeyOf[c] : c \in Calls}

ASSUME CoordinatorAssumption ==
    /\ LaneOf \in [Calls -> Lanes]
    /\ DOMAIN KeyOf = Calls /\ DOMAIN ProviderOf = Calls
    /\ SubscriptionOf \in [{c \in Calls : LaneOf[c] = "Pinned"} -> Subscriptions]
    /\ {MaxGlobal, MaxProvider, MaxFinal, MaxPinned, MaxAdHoc, MaxVisible,
        MaxChanges, MaxProgress} \subseteq Nat
    /\ IsFiniteSet(Calls)

Family(lane) == IF lane \in {"AdHoc", "Pinned"} THEN "Question" ELSE lane
FinalCalls == {c \in Calls : LaneOf[c] = "Final"}

VARIABLES
    on,         \* the control switches that are on
    rev,        \* the control revisions
    calls,      \* call -> where it is, its fence and its cancellation token
    cache,      \* keys with a reusable result
    transient,  \* key -> waiters that may still take the memory-only result
    rejected,   \* direct providers whose credential is known to be rejected
    vertex,     \* state of the Vertex credential
    slots,      \* the newest call of each automatic lane waiting for Vertex
    progress,   \* finalized rows of the session
    subs,       \* subscription -> baseline, the one before the last submission, run now
    shown,      \* ad hoc call -> status in the assistant window
    group,      \* whether the application waits for the Final group
    asked       \* history: progress up to which a subscription was really asked

vars == <<on, rev, calls, cache, transient, rejected, vertex, slots, progress,
          subs, shown, group, asked>>

QueueStages == {"auth", "vertex", "credential", "catalog", "preparing", "cache",
                "reservation", "identical", "prepared"}
\* voided is history: the call was outstanding at a change that fences it.
NoCall == [stage |-> "new", seq |-> 0, reserved |-> FALSE, cancelled |-> FALSE, voided |-> FALSE,
           fence |-> [session |-> 0, control |-> 0, lane |-> 0, question |-> 0]]
NoBaseline == -1

Queued(c) == calls[c].stage \in QueueStages
Active(c) == calls[c].stage = "active"
Outstanding(c) == Queued(c) \/ Active(c) \/ calls[c].stage = "awaiting"
HasEnded(c) == calls[c].stage \in {"applied", "dropped"}
ActiveCalls == {c \in Calls : Active(c)}
InLane(lane) == {c \in Calls : LaneOf[c] = lane}
OfSubscription(s) == {c \in InLane("Pinned") : SubscriptionOf[c] = s}
InFlight(s) == \E c \in OfSubscription(s) : Queued(c) \/ Active(c)
PendingQuestions == {c \in InLane("AdHoc") : shown[c] \in {"queued", "waiting", "running"}}

-----------------------------------------------------------------------------
(* Fences                                                                  *)

EnabledFor(lane) == {"master", Family(lane)} \subseteq on

Fence(lane) ==
    [session |-> rev["session"], control |-> rev["control"], lane |-> rev[Family(lane)],
     question |-> IF lane = "Pinned" THEN rev["pinned"] ELSE 0]

FenceIsCurrent(c) == EnabledFor(LaneOf[c]) /\ calls[c].fence = Fence(LaneOf[c])

Changes == rev["session"] + rev["control"] + rev["pinned"]
           + rev["Live"] + rev["Final"] + rev["Question"]
Bump(r) == Changes < MaxChanges /\ rev' = [rev EXCEPT ![r] = @ + 1]

-----------------------------------------------------------------------------
(* Endings.  Queued calls are dropped at once; active calls only have their *)
(* token cancelled, and end when their worker answers.  A Final that ends   *)
(* takes the rest of its group with it (fail_final_call).                   *)

\* Mutant: a cancelled call keeps the progress it claimed.
KeepBaseline(ended) == subs

\* A call that leaves the queue undispatched gives its progress back.
RestoreBaselines(ended) ==
    [s \in Subscriptions |->
        IF OfSubscription(s) \cap ended # {} /\ subs[s].before # NoBaseline
        THEN [subs[s] EXCEPT !.base = subs[s].before, !.before = NoBaseline]
        ELSE subs[s]]

Fallout(ended) ==
    IF group = "pending" /\ ended \cap FinalCalls # {} THEN FinalCalls ELSE {}

Ended(how) == [NoCall EXCEPT !.stage = how]

DropFrom(cs, S, cancelled, fenced) ==
    LET fallout == Fallout(S)
        ended == S \cup {c \in fallout : Queued(c) \/ calls[c].stage = "awaiting"}
        flagged == cancelled \cup {c \in fallout : Active(c)}
    IN /\ calls' = [c \in Calls |->
                       IF c \in ended THEN Ended("dropped")
                       ELSE [cs[c] EXCEPT !.cancelled = @ \/ c \in flagged,
                                          !.voided = @ \/ c \in fenced]]
       /\ shown' = [c \in InLane("AdHoc") |->
                       IF c \in ended /\ shown[c] # "none" THEN "dropped" ELSE shown[c]]
       /\ group' = IF fallout # {} THEN "none" ELSE group

Drop(S) == DropFrom(calls, S, {}, {})

\* cancel_scope, cancel_provider_requests: the queued and active calls of S.  The
\* outstanding calls of `fenced` are void from now on.
Cancel(S, fenced) ==
    DropFrom(calls, {c \in S : Queued(c)}, {c \in S : Active(c)}, {c \in fenced : Outstanding(c)})

-----------------------------------------------------------------------------
(* Controls.  An enabling patch whose persistence fails changes nothing; a  *)
(* disabling one takes effect either way.                                   *)

Scope(switch) == CASE switch = "master" -> Calls
                   [] switch = "auto" -> InLane("Pinned")
                   [] OTHER -> {c \in Calls : Family(LaneOf[c]) = switch}

RevisionOf(switch) == CASE switch = "master" -> "control"
                        [] switch = "auto" -> "pinned"
                        [] OTHER -> switch

SetSwitch(switch) ==
    /\ Bump(RevisionOf(switch))
    /\ IF switch \in on
       THEN /\ on' = on \ {switch}
            /\ Cancel(Scope(switch), Scope(switch))
            /\ subs' = RestoreBaselines({c \in Scope(switch) : Queued(c)})
       ELSE on' = on \cup {switch} /\ UNCHANGED <<calls, shown, subs, group>>
    /\ UNCHANGED <<cache, transient, rejected, vertex, slots, progress, asked>>

\* A new model, or changed steering, word bank or provider scope.
Refence(revision, S) ==
    /\ Bump(revision)
    /\ Cancel(S, S)
    /\ subs' = RestoreBaselines({c \in S : Queued(c)})
    /\ UNCHANGED <<on, cache, transient, rejected, vertex, slots, progress, asked>>

SetLaneSelection(family) == Refence(family, Scope(family))
SemanticsChanged == Refence("control", Calls)

\* Settings changed one provider: its calls are cancelled and a rejected key is
\* looked at again.
ProviderChanged(p) ==
    LET S == {c \in Calls : ProviderOf[c] = p /\ (Queued(c) \/ Active(c))}
    IN /\ S # {} \/ p \in rejected
       /\ Cancel(S, S)
       /\ subs' = RestoreBaselines({c \in S : Queued(c)})
       /\ rejected' = rejected \ {p}
       /\ UNCHANGED <<on, rev, cache, transient, vertex, slots, progress, asked>>

\* The first chunk stands for the group when the application gives the group up:
\* its peers are cancelled, it is not.
FirstFinal == CHOOSE c \in FinalCalls : \A d \in FinalCalls : calls[c].seq <= calls[d].seq

BeginSession ==
    /\ Bump("session")
    /\ calls' = [c \in Calls |->
                    IF Queued(c) \/ calls[c].stage = "awaiting" THEN Ended("dropped")
                    ELSE [calls[c] EXCEPT !.cancelled = @ \/ Active(c),
                                          !.voided = @ \/ Active(c)]]
    /\ shown' = [c \in InLane("AdHoc") |-> "none"]
    /\ group' = "none"
    /\ slots' = [lane \in DOMAIN slots |-> 0]
    /\ progress' = 0
    /\ subs' = [s \in Subscriptions |-> [base |-> 0, before |-> NoBaseline, force |-> FALSE]]
    /\ asked' = [s \in Subscriptions |-> 0]
    /\ UNCHANGED <<on, cache, transient, rejected, vertex>>

-----------------------------------------------------------------------------
(* Submission                                                              *)

Observe ==
    /\ progress < MaxProgress
    /\ progress' = progress + 1
    /\ UNCHANGED <<on, rev, calls, cache, transient, rejected, vertex, slots, subs, shown,
                   group, asked>>

NextSeq == 1 + Cardinality({c \in Calls : calls[c].stage # "new"})

Enqueued(c, seq) ==
    [NoCall EXCEPT !.stage = "auth", !.seq = seq, !.fence = Fence(LaneOf[c])]

SubmitLive(c) ==
    /\ LaneOf[c] = "Live" /\ calls[c].stage = "new" /\ EnabledFor("Live")
    /\ \A d \in InLane("Live") : ~ Outstanding(d)
    /\ calls' = [calls EXCEPT ![c] = Enqueued(c, NextSeq)]
    /\ UNCHANGED <<on, rev, cache, transient, rejected, vertex, slots, progress, subs, shown,
                   group, asked>>

\* The window keeps the newest MaxVisible exchanges, and every unanswered one.  The
\* list grows by one, so one answered exchange goes; which one is left open.
Trimmed(status) ==
    LET entries == {d \in DOMAIN status : status[d] # "none"}
        old == {d \in entries : status[d] \in {"completed", "dropped"}}
    IN IF Cardinality(entries) <= MaxVisible \/ old = {} THEN status
       ELSE [status EXCEPT ![CHOOSE d \in old : TRUE] = "none"]

SubmitAdHoc(c) ==
    /\ LaneOf[c] = "AdHoc" /\ calls[c].stage = "new" /\ EnabledFor("AdHoc")
    /\ Cardinality(PendingQuestions) < MaxAdHoc
    /\ calls' = [calls EXCEPT ![c] = Enqueued(c, NextSeq)]
    /\ shown' = Trimmed([shown EXCEPT ![c] = "queued"])
    /\ UNCHANGED <<on, rev, cache, transient, rejected, vertex, slots, progress, subs, group,
                   asked>>

Due(s) ==
    /\ EnabledFor("Pinned") /\ "auto" \in on
    /\ ~ InFlight(s)
    /\ subs[s].force \/ subs[s].base < progress

SubmitSubscription(c) ==
    /\ LaneOf[c] = "Pinned" /\ calls[c].stage = "new"
    /\ Due(SubscriptionOf[c])
    /\ calls' = [calls EXCEPT ![c] = Enqueued(c, NextSeq)]
    /\ subs' = [subs EXCEPT ![SubscriptionOf[c]] =
                   [base |-> progress, before |-> @.base, force |-> FALSE]]
    /\ UNCHANGED <<on, rev, cache, transient, rejected, vertex, slots, progress, shown, group,
                   asked>>

RunSubscriptionNow(s) ==
    /\ ~ subs[s].force
    /\ subs' = [subs EXCEPT ![s].force = TRUE]
    /\ UNCHANGED <<on, rev, calls, cache, transient, rejected, vertex, slots, progress, shown,
                   group, asked>>

\* The chunks of a Final group are submitted together.
SubmitFinal ==
    /\ FinalCalls # {} /\ \A c \in FinalCalls : calls[c].stage = "new"
    /\ EnabledFor("Final")
    /\ \E seqs \in [FinalCalls -> NextSeq .. NextSeq + Cardinality(FinalCalls) - 1] :
          /\ \A c, d \in FinalCalls : c # d => seqs[c] # seqs[d]
          /\ calls' = [c \in Calls |->
                          IF c \in FinalCalls THEN Enqueued(c, seqs[c]) ELSE calls[c]]
    /\ group' = "pending"
    /\ UNCHANGED <<on, rev, cache, transient, rejected, vertex, slots, progress, subs, shown,
                   asked>>

\* The saved questions changed.  Those whose question changed start over; the
\* others keep their state, but every earlier call is fenced out.
SetSubscriptions(changed) ==
    LET S == UNION {OfSubscription(s) : s \in changed}
    IN /\ Bump("pinned")
       /\ Cancel(S, InLane("Pinned"))
       /\ subs' = [s \in Subscriptions |->
                      IF s \in changed
                      THEN [base |-> 0, before |-> NoBaseline, force |-> FALSE] ELSE subs[s]]
       /\ asked' = [s \in Subscriptions |-> IF s \in changed THEN 0 ELSE asked[s]]
       /\ UNCHANGED <<on, cache, transient, rejected, vertex, slots, progress>>

-----------------------------------------------------------------------------
(* Scheduling                                                              *)

LaneLimit(lane) == CASE lane = "Pinned" -> MaxPinned
                     [] lane = "Final" -> MaxFinal
                     [] OTHER -> 1

LaneIsFull(lane) == Cardinality({c \in InLane(lane) : Active(c)}) >= LaneLimit(lane)

\* The last global slot is kept for interactive work.
HasProviderCapacity(c) ==
    /\ Cardinality(ActiveCalls) < MaxGlobal
    /\ Cardinality({d \in ActiveCalls : ProviderOf[d] = ProviderOf[c]}) < MaxProvider
    /\ LaneOf[c] = "Final" => /\ Cardinality(ActiveCalls) < MaxGlobal - 1
                              /\ ~ LaneIsFull("Final")

\* Mutant: dispatch does not look for an identical call in flight.
NeverIdentical(c) == FALSE

IdenticalIsActive(c) == \E d \in ActiveCalls : KeyOf[d] = KeyOf[c]

\* Mutant: a call that waits for an identical one is never looked at again.
ForgetsWaiters(c) ==
    /\ calls[c].stage \in {"auth", "catalog", "cache", "prepared"}
    /\ ~ LaneIsFull(LaneOf[c])
    /\ calls[c].stage \notin {"auth", "cache"} => HasProviderCapacity(c)

Eligible(c) ==
    /\ calls[c].stage \in {"auth", "catalog", "cache", "identical", "prepared"}
    /\ calls[c].stage = "identical" => ~ IdenticalIsActive(c)
    /\ ~ LaneIsFull(LaneOf[c])
    /\ calls[c].stage \notin {"auth", "cache"} => HasProviderCapacity(c)

EligibleIn(lane) == {c \in InLane(lane) : Eligible(c)}

\* The oldest eligible call of the first lane that has one, unless a Final call
\* has waited long enough to go first.
IsCandidate(c) ==
    /\ Eligible(c)
    /\ \A d \in EligibleIn(LaneOf[c]) : calls[c].seq <= calls[d].seq
    /\ CASE LaneOf[c] = "Live" -> TRUE
         [] LaneOf[c] = "AdHoc" -> EligibleIn("Live") = {}
         [] LaneOf[c] = "Pinned" -> EligibleIn("Live") \cup EligibleIn("AdHoc") = {}
         [] OTHER -> TRUE

\* Memory-only results last as long as somebody waits for them.
Retained == [k \in Keys |->
                IF \E c \in Calls : calls[c].stage = "identical" /\ KeyOf[c] = k
                THEN transient[k] ELSE 0]

\* Mutant: chunks that already left the queue are reserved as well.
ReservesWholeGroup(cs) ==
    IF \A c \in FinalCalls : cs[c].stage \in QueueStages => cs[c].stage = "reservation"
    THEN [c \in Calls |-> IF c \in FinalCalls
                          THEN [cs[c] EXCEPT !.stage = "prepared", !.reserved = TRUE]
                          ELSE cs[c]]
    ELSE cs

\* Once every queued chunk of the group waits for its reservation, all get one.
Reserve(cs) ==
    LET queued == {c \in FinalCalls : cs[c].stage \in QueueStages}
    IN IF \A c \in queued : cs[c].stage = "reservation"
       THEN [c \in Calls |-> IF c \in queued
                             THEN [cs[c] EXCEPT !.stage = "prepared", !.reserved = TRUE]
                             ELSE cs[c]]
       ELSE cs

DropQueued(c) ==
    /\ Drop({c})
    /\ subs' = RestoreBaselines({c})
    /\ UNCHANGED asked

\* A result is here: a question or live rows are applied at once (the live view
\* may no longer have the rows), a chunk waits for its group.
Deliver(c) ==
    \/ /\ LaneOf[c] # "Final"
       /\ \E how \in {"applied"} \cup (IF LaneOf[c] = "Live" THEN {"dropped"} ELSE {}) :
             calls' = [calls EXCEPT ![c] = Ended(how)]
       /\ shown' = IF LaneOf[c] = "AdHoc" /\ shown[c] # "none"
                   THEN Trimmed([shown EXCEPT ![c] = "completed"]) ELSE shown
       /\ UNCHANGED group
    \/ /\ LaneOf[c] = "Final"
       /\ calls' = Reserve([calls EXCEPT ![c].stage = "awaiting"])
       /\ group' = IF \A d \in FinalCalls \ {c} : calls[d].stage = "awaiting"
                   THEN "replied" ELSE group
       /\ UNCHANGED shown

\* A pinned question was put: it has been asked up to its baseline.
Asked(c) == asked' = IF LaneOf[c] = "Pinned"
                     THEN [asked EXCEPT ![SubscriptionOf[c]] = subs[SubscriptionOf[c]].base]
                     ELSE asked

Send(c) ==
    /\ calls' = [calls EXCEPT ![c].stage = "active"]
    /\ shown' = IF LaneOf[c] = "AdHoc" THEN [shown EXCEPT ![c] = "running"] ELSE shown
    /\ subs' = IF LaneOf[c] = "Pinned"
               THEN [subs EXCEPT ![SubscriptionOf[c]].before = NoBaseline] ELSE subs
    /\ Asked(c)
    /\ UNCHANGED group

\* A call with no usable result tries to run.
Admit(c) ==
    \/ /\ LaneOf[c] = "Final" /\ ~ calls[c].reserved
       /\ LET waiting == [calls EXCEPT ![c].stage = "reservation"]
          IN \/ /\ calls' = Reserve(waiting)
                /\ UNCHANGED <<shown, group, subs, asked>>
             \/ /\ Reserve(waiting) # waiting     \* the reservation fails
                /\ DropQueued(c)
    \/ /\ LaneOf[c] = "Final" => calls[c].reserved
       /\ IF IdenticalIsActive(c) \/ ~ HasProviderCapacity(c)
          THEN /\ calls' = [calls EXCEPT ![c].stage =
                               IF IdenticalIsActive(c) THEN "identical" ELSE "prepared"]
               /\ UNCHANGED <<shown, group, subs, asked>>
          ELSE \/ Send(c)
               \/ LaneOf[c] = "Final" /\ DropQueued(c)   \* the journal write fails

AfterCache(c) ==
    \/ /\ Retained[KeyOf[c]] > 0
       /\ transient' = [Retained EXCEPT ![KeyOf[c]] = @ - 1]
       /\ Deliver(c) /\ Asked(c)
       /\ UNCHANGED <<cache, subs>>
    \/ /\ Retained[KeyOf[c]] = 0
       /\ transient' = Retained
       /\ \/ /\ KeyOf[c] \in cache
             /\ Deliver(c) /\ Asked(c)
             /\ UNCHANGED <<cache, subs>>
          \/ /\ Admit(c)                           \* a miss, or a corrupt entry
             /\ cache' = cache \ {KeyOf[c]}
          \/ /\ DropQueued(c)                      \* the store fails, or holds nonsense
             /\ cache' \in {cache, cache \ {KeyOf[c]}}

Authorize(c) ==
    LET to(stage) == calls' = [calls EXCEPT ![c].stage = stage]
    IN \/ /\ ProviderOf[c] \in Vertex /\ vertex \in {"unarmed", "resolving"}
          /\ to("vertex")
          /\ IF LaneOf[c] = "AdHoc"
             THEN shown' = [shown EXCEPT ![c] = "waiting"] /\ UNCHANGED slots
             ELSE /\ slots' = [slots EXCEPT ![LaneOf[c]] =
                                  IF calls[c].seq > @ THEN calls[c].seq ELSE @]
                  /\ UNCHANGED shown
          /\ UNCHANGED <<group, subs, asked>>
       \/ /\ IF ProviderOf[c] \in Vertex THEN vertex = "blocked" ELSE ProviderOf[c] \in rejected
          /\ DropQueued(c)
          /\ UNCHANGED slots
       \/ /\ IF ProviderOf[c] \in Vertex THEN vertex = "ready" ELSE ProviderOf[c] \notin rejected
          /\ to("preparing")
          /\ UNCHANGED <<shown, group, subs, asked, slots>>

\* One step of the scheduler.
DispatchNext(c) ==
    /\ IsCandidate(c)
    /\ IF ~ FenceIsCurrent(c)
       THEN DropQueued(c) /\ transient' = Retained /\ UNCHANGED <<cache, slots>>
       ELSE \/ /\ calls[c].stage \in {"cache", "identical"}
               /\ AfterCache(c) /\ UNCHANGED slots
            \/ /\ calls[c].stage = "prepared"
               /\ Admit(c) /\ transient' = Retained /\ UNCHANGED <<cache, slots>>
            \/ /\ calls[c].stage = "auth"
               /\ Authorize(c) /\ transient' = Retained /\ UNCHANGED cache
            \/ /\ calls[c].stage = "catalog"
               /\ calls' = [calls EXCEPT ![c].stage = "preparing"]
               /\ transient' = Retained
               /\ UNCHANGED <<cache, slots, shown, group, subs, asked>>
    /\ UNCHANGED <<on, rev, rejected, vertex, progress>>

-----------------------------------------------------------------------------
(* Workers                                                                 *)

Settings == <<on, rev, progress>>

\* The credential and the model catalog of a call are resolved on a worker.
PrepareDone(c, result) ==
    /\ calls[c].stage = "preparing"
    /\ CASE result = "ready" ->
                /\ calls' = [calls EXCEPT ![c].stage = "cache"]
                /\ UNCHANGED <<shown, group, subs, asked>>
         [] result = "absent" ->
                /\ calls' = [calls EXCEPT ![c].stage = "credential"]
                /\ shown' = IF LaneOf[c] = "AdHoc" THEN [shown EXCEPT ![c] = "waiting"] ELSE shown
                /\ UNCHANGED <<group, subs, asked>>
         [] OTHER -> DropQueued(c)
    /\ rejected' = IF result = "rejected" THEN rejected \cup ({ProviderOf[c]} \ Vertex)
                                          ELSE rejected \ {ProviderOf[c]}
    /\ UNCHANGED <<Settings, cache, transient, vertex, slots>>

\* The user asks for a provider to be looked at again.
RefreshProvider(p) ==
    LET S == {c \in Calls : ProviderOf[c] = p /\ calls[c].stage = "credential"}
    IN /\ S # {} \/ p \in rejected
       /\ calls' = [c \in Calls |-> IF c \in S THEN [calls[c] EXCEPT !.stage = "auth"]
                                               ELSE calls[c]]
       /\ shown' = [c \in InLane("AdHoc") |-> IF c \in S /\ shown[c] # "none"
                                              THEN "queued" ELSE shown[c]]
       /\ rejected' = rejected \ {p}
       /\ UNCHANGED <<Settings, cache, transient, vertex, slots, subs, group, asked>>

\* A resolution starts when it is due: unarmed, or blocked for long enough.
DriveVertex ==
    /\ Vertex # {} /\ vertex \in {"unarmed", "blocked"}
    /\ vertex' = "resolving"
    /\ UNCHANGED <<Settings, calls, cache, transient, rejected, slots, subs, shown, group,
                   asked>>

\* Of an automatic lane only the newest call is caught up on, and with a Final
\* chunk the rest of its group.
CaughtUp(c) ==
    \/ LaneOf[c] = "AdHoc"
    \/ calls[c].seq = slots[LaneOf[c]]
    \/ /\ LaneOf[c] = "Final"
       /\ \E d \in FinalCalls : /\ calls[d].seq = slots["Final"] /\ calls[d].seq # 0
                                /\ calls[d].fence = calls[c].fence

CompleteVertex(result) ==
    LET waiting == {c \in Calls : calls[c].stage = "vertex"}
        kept == IF result = "ready" THEN {c \in waiting : CaughtUp(c)} ELSE {}
        lost == IF result = "unarmed" THEN {} ELSE waiting \ kept
    IN /\ vertex = "resolving"
       /\ vertex' = result
       /\ slots' = IF result = "ready" THEN [lane \in DOMAIN slots |-> 0] ELSE slots
       /\ DropFrom([c \in Calls |-> IF c \in kept THEN [calls[c] EXCEPT !.stage = "catalog"]
                                                  ELSE calls[c]], lost, {}, {})
       /\ subs' = RestoreBaselines(lost)
       /\ UNCHANGED <<Settings, cache, transient, rejected, asked>>

\* Mutant: a late answer is only compared with the fence, not with the token.
IgnoresToken(c) == ~ FenceIsCurrent(c)

IsStale(c) == calls[c].cancelled \/ ~ FenceIsCurrent(c)

\* A provider worker answers.  What is validated is committed and applied; a
\* rejected credential fails every queued call of the provider.
Complete(c, result) ==
    LET waiters == {d \in Calls : calls[d].stage = "identical" /\ KeyOf[d] = KeyOf[c]}
        peers == {d \in Calls : Queued(d) /\ ProviderOf[d] = ProviderOf[c]}
    IN /\ Active(c)
       /\ IF result = "ok" /\ ~ IsStale(c)
          THEN \/ /\ Deliver(c)
                  /\ cache' = cache \cup ({KeyOf[c]} \cap Reusable)
                  /\ transient' = IF waiters = {} THEN transient
                                  ELSE [transient EXCEPT ![KeyOf[c]] = Cardinality(waiters)]
                  /\ UNCHANGED subs
               \/ /\ Drop({c})              \* invalid, or the commit fails
                  /\ UNCHANGED <<cache, transient, subs>>
          ELSE LET ended == {c} \cup IF result = "rejected" /\ ~ IsStale(c) THEN peers ELSE {}
               IN /\ Drop(ended)
                  /\ subs' = RestoreBaselines(ended \ {c})
                  /\ UNCHANGED <<cache, transient>>
       /\ rejected' = IF result = "rejected" THEN rejected \cup ({ProviderOf[c]} \ Vertex) ELSE rejected
       /\ UNCHANGED <<Settings, vertex, slots, asked>>

-----------------------------------------------------------------------------
(* Deadlines, cancellation and the end of a Final group                    *)

\* A deadline passes.
Expire(c) ==
    /\ Queued(c) \/ (Active(c) /\ ~ calls[c].cancelled)
    /\ Cancel({c}, {})
    /\ subs' = RestoreBaselines({c} \ ActiveCalls)
    /\ UNCHANGED <<Settings, cache, transient, rejected, vertex, slots, asked>>

\* Mutant: a running question is shown as ended before its worker answers.
CancelEndsRunning(c) ==
    /\ LaneOf[c] = "AdHoc" /\ (Queued(c) \/ Active(c)) /\ ~ calls[c].cancelled
    /\ shown' = [shown EXCEPT ![c] = "dropped"]
    /\ calls' = [calls EXCEPT ![c] = IF Queued(c) THEN Ended("dropped")
                                     ELSE [@ EXCEPT !.cancelled = TRUE, !.voided = TRUE]]
    /\ UNCHANGED <<Settings, cache, transient, rejected, vertex, slots, subs, group, asked>>

CancelQuestion(c) ==
    /\ LaneOf[c] = "AdHoc"
    /\ Queued(c) \/ (Active(c) /\ ~ calls[c].cancelled)
    /\ Cancel({c}, {c})
    /\ UNCHANGED <<Settings, cache, transient, rejected, vertex, slots, subs, asked>>

\* The application gives up on a group that is past its deadline.
ExpireGroup ==
    LET peers == FinalCalls \ {FirstFinal}
    IN /\ group = "pending"
       /\ calls' = [c \in Calls |->
                       IF c \in peers /\ ~ Active(c) THEN Ended("dropped")
                       ELSE [calls[c] EXCEPT !.cancelled = @ \/ c \in peers]]
       /\ group' = "none"
       /\ UNCHANGED <<Settings, cache, transient, rejected, vertex, slots, subs, shown, asked>>

\* The caller of finalize has the group's text: it marks it applied, which every
\* chunk's fence must still allow, or abandons it.
SettleGroup ==
    /\ group = "replied"
    /\ \E how \in {"dropped"} \cup (IF \A c \in FinalCalls : FenceIsCurrent(c)
                                    THEN {"applied"} ELSE {}) :
          calls' = [c \in Calls |-> IF c \in FinalCalls THEN Ended(how) ELSE calls[c]]
    /\ group' = "none"
    /\ UNCHANGED <<Settings, cache, transient, rejected, vertex, slots, subs, shown, asked>>

PurgeReusableCache ==
    /\ cache # {} /\ cache' = {}
    /\ UNCHANGED <<Settings, calls, transient, rejected, vertex, slots, subs, shown, group,
                   asked>>

-----------------------------------------------------------------------------
Init ==
    /\ on = Switches
    /\ rev = [r \in Revisions |-> 0]
    /\ calls = [c \in Calls |-> NoCall]
    /\ cache = {}
    /\ transient = [k \in Keys |-> 0]
    /\ rejected = {}
    /\ vertex = "unarmed"
    /\ slots = [lane \in Lanes \ {"AdHoc"} |-> 0]
    /\ progress = 0
    /\ subs = [s \in Subscriptions |-> [base |-> 0, before |-> NoBaseline, force |-> FALSE]]
    /\ shown = [c \in InLane("AdHoc") |-> "none"]
    /\ group = "none"
    /\ asked = [s \in Subscriptions |-> 0]

Next ==
    \/ \E switch \in Switches : SetSwitch(switch)
    \/ \E family \in Families : SetLaneSelection(family)
    \/ SemanticsChanged
    \/ \E p \in Providers : ProviderChanged(p) \/ RefreshProvider(p)
    \/ BeginSession
    \/ Observe
    \/ \E c \in Calls : SubmitLive(c) \/ SubmitAdHoc(c) \/ SubmitSubscription(c)
    \/ \E s \in Subscriptions : RunSubscriptionNow(s)
    \/ SubmitFinal
    \/ \E changed \in SUBSET Subscriptions : SetSubscriptions(changed)
    \/ \E c \in Calls : DispatchNext(c)
    \/ \E c \in Calls, r \in {"ready", "absent", "rejected", "error"} : PrepareDone(c, r)
    \/ DriveVertex
    \/ \E r \in {"ready", "unarmed", "blocked"} : CompleteVertex(r)
    \/ \E c \in Calls, r \in {"ok", "rejected", "error"} : Complete(c, r)
    \/ \E c \in Calls : Expire(c) \/ CancelQuestion(c)
    \/ ExpireGroup
    \/ SettleGroup
    \/ PurgeReusableCache

\* The service thread keeps dispatching and ticking, and every worker answers.
Fairness ==
    \A c \in Calls :
        /\ SF_vars(DispatchNext(c))
        /\ WF_vars(\E r \in {"ok", "rejected", "error"} : Complete(c, r))
        /\ WF_vars(\E r \in {"ready", "absent", "rejected", "error"} : PrepareDone(c, r))

Spec == Init /\ [][Next]_vars
FairSpec == Spec /\ Fairness

-----------------------------------------------------------------------------
CallRecords ==
    [stage : QueueStages \cup {"new", "active", "awaiting", "applied", "dropped"}, seq : Nat,
     reserved : BOOLEAN, cancelled : BOOLEAN, voided : BOOLEAN,
     fence : [session : Nat, control : Nat, lane : Nat, question : Nat]]

\* The variables have their types.
TypeOK ==
    /\ on \subseteq Switches
    /\ rev \in [Revisions -> Nat]
    /\ calls \in [Calls -> CallRecords]
    /\ cache \subseteq Keys
    /\ transient \in [Keys -> Nat]
    /\ rejected \subseteq Providers
    /\ vertex \in {"unarmed", "resolving", "ready", "blocked"}
    /\ slots \in [Lanes \ {"AdHoc"} -> Nat]
    /\ progress \in Nat
    /\ subs \in [Subscriptions -> [base : Nat, before : Nat \cup {NoBaseline}, force : BOOLEAN]]
    /\ shown \in [InLane("AdHoc") ->
                     {"none", "queued", "waiting", "running", "completed", "dropped"}]
    /\ group \in {"none", "pending", "replied"}
    /\ asked \in [Subscriptions -> Nat]

\* Paid requests in flight stay within the global, per-provider and per-lane
\* limits, and no two of them are identical: an identical call waits for the
\* result of the first.
EgressIsBounded ==
    /\ Cardinality(ActiveCalls) <= MaxGlobal
    /\ \A p \in Providers : Cardinality({c \in ActiveCalls : ProviderOf[c] = p}) <= MaxProvider
    /\ \A lane \in Lanes : Cardinality({c \in InLane(lane) : Active(c)}) <= LaneLimit(lane)
    /\ \A c, d \in ActiveCalls : c # d => KeyOf[c] # KeyOf[d]

\* Nothing the user switched off, replaced, re-steered or cancelled while it was
\* outstanding is ever applied, however late its result comes.
VoidedIsNeverApplied ==
    [][\A c \in Calls : calls[c].voided => calls'[c].stage # "applied"]_vars

\* A call ends once: a later answer, deadline or cancellation does not change
\* how it ended or bring it back.
EndsOnce == [][\A c \in Calls : HasEnded(c) => calls'[c].stage = calls[c].stage]_vars

\* The window tells the truth: a question is shown as pending exactly while its
\* call is queued or running, and a question of this session does not disappear
\* before it has an answer.
QuestionStatusIsTrue ==
    \A c \in InLane("AdHoc") :
        /\ shown[c] \in {"queued", "waiting"} => Queued(c)
        /\ shown[c] = "running" => Active(c)
        /\ shown[c] = "none" => \/ calls[c].stage = "new" \/ HasEnded(c)
                                \/ Active(c) /\ calls[c].cancelled
        /\ shown[c] = "completed" <=> shown[c] # "none" /\ calls[c].stage = "applied"
        /\ shown[c] = "dropped" <=> shown[c] # "none" /\ calls[c].stage = "dropped"

\* A subscription with no call in flight has been asked about everything below
\* its baseline: a call that never ran has given its progress back.
ProgressIsAsked == \A s \in Subscriptions : InFlight(s) \/ subs[s].base = asked[s]

\* A call that waits for the result of an identical one, or for capacity, moves
\* on: the first call's answer, error or cancellation all release it.
Waiting(c) == calls[c].stage \in {"cache", "identical", "prepared"}
WaitersProceed == \A c \in Calls : Waiting(c) ~> ~ Waiting(c)

\* A result that is in the cache is not bought a second time.
CachedIsNotBought ==
    [][\A c \in Calls : Queued(c) /\ calls'[c].stage = "active" => KeyOf[c] \notin cache']_vars
=============================================================================
