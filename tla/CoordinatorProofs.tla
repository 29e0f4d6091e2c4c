-------------------------- MODULE CoordinatorProofs --------------------------
(***************************************************************************)
(* What the hosted coordinator guarantees for every set of calls, lanes,    *)
(* providers and limits: late results of voided calls are not applied, a    *)
(* call ends once, the window tells the truth about a question, paid        *)
(* requests in flight stay within their limits, and a subscription's        *)
(* baseline is what it was asked about.                                     *)
(***************************************************************************)
EXTENDS Coordinator, FiniteSetTheorems, TLAPS

-----------------------------------------------------------------------------
(* The inductive invariant                                                  *)

\* A revision the fence of a call was taken from has moved on; revisions only grow,
\* so this stays so.
Passed(fence, lane, revisions) ==
    \/ fence.session < revisions["session"]
    \/ fence.control < revisions["control"]
    \/ fence.lane < revisions[Family(lane)]
    \/ lane = "Pinned" /\ fence.question < revisions["pinned"]

Behind(c) == Passed(calls[c].fence, LaneOf[c], rev)

\* No fence runs ahead of the revisions.
FenceInv ==
    \A c \in Calls :
        Outstanding(c) =>
            /\ calls[c].fence.session <= rev["session"]
            /\ calls[c].fence.control <= rev["control"]
            /\ calls[c].fence.lane <= rev[Family(LaneOf[c])]
            /\ LaneOf[c] = "Pinned" => calls[c].fence.question <= rev["pinned"]

\* A voided call is fenced out for good, or its worker's token is cancelled.
VoidInv ==
    \A c \in Calls :
        calls[c].voided =>
            /\ Outstanding(c)
            /\ Behind(c) \/ (Active(c) /\ calls[c].cancelled)

\* While the application waits for the Final group, all its calls are under way;
\* once it has the text, all wait to be settled.
GroupInv ==
    /\ group = "pending" => \A c \in FinalCalls : Outstanding(c)
    /\ group = "replied" => \A c \in FinalCalls : calls[c].stage = "awaiting"
    /\ \A c \in Calls : calls[c].stage = "awaiting" => LaneOf[c] = "Final"

Stages == QueueStages \cup {"new", "active", "awaiting", "applied", "dropped"}
Fences == [session : Nat, control : Nat, lane : Nat, question : Nat]

LEMMA CallRecord ==
    ASSUME NEW r
    PROVE  r \in CallRecords <=>
              /\ r = [stage |-> r.stage, seq |-> r.seq, reserved |-> r.reserved,
                      cancelled |-> r.cancelled, voided |-> r.voided, fence |-> r.fence]
              /\ r.stage \in Stages /\ r.seq \in Nat /\ r.reserved \in BOOLEAN
              /\ r.cancelled \in BOOLEAN /\ r.voided \in BOOLEAN /\ r.fence \in Fences
  BY DEF CallRecords, Stages, Fences

LEMMA EndedType ==
    ASSUME NEW how \in {"applied", "dropped"}
    PROVE  /\ Ended(how) \in CallRecords
           /\ Ended(how).stage = how /\ Ended(how).voided = FALSE /\ Ended(how).cancelled = FALSE
  BY DEF Ended, NoCall, CallRecords, Stages, Fences

\* The effect of DropFrom on one call.
LEMMA DropFromCall ==
    ASSUME TypeOK, NEW cs \in [Calls -> CallRecords],
           NEW S \in SUBSET Calls, NEW cancelled, NEW fenced,
           DropFrom(cs, S, cancelled, fenced)
    PROVE  /\ calls' \in [Calls -> CallRecords]
           /\ \A c \in Calls :
                 \/ /\ calls'[c] = Ended("dropped")
                    /\ \/ c \in S
                       \/ c \in FinalCalls /\ (Queued(c) \/ calls[c].stage = "awaiting")
                 \/ /\ c \notin S
                    /\ calls'[c].stage = cs[c].stage /\ calls'[c].fence = cs[c].fence
                    /\ calls'[c].seq = cs[c].seq
                    /\ calls'[c].voided = (cs[c].voided \/ c \in fenced)
                    /\ cs[c].cancelled \/ c \in cancelled => calls'[c].cancelled
                    /\ calls'[c].cancelled => cs[c].cancelled \/ c \in cancelled \/ Active(c)
<1> DEFINE fallout == Fallout(S)
           ended == S \cup {c \in fallout : Queued(c) \/ calls[c].stage = "awaiting"}
           flagged == cancelled \cup {c \in fallout : Active(c)}
<1>1. calls' = [c \in Calls |->
                   IF c \in ended THEN Ended("dropped")
                   ELSE [cs[c] EXCEPT !.cancelled = @ \/ c \in flagged,
                                      !.voided = @ \/ c \in fenced]]
  BY DEF DropFrom
<1>2. fallout \subseteq FinalCalls
  BY DEF Fallout
<1>3. ASSUME NEW c \in Calls, c \notin ended
      PROVE  LET r == [cs[c] EXCEPT !.cancelled = @ \/ c \in flagged,
                                    !.voided = @ \/ c \in fenced]
             IN /\ r \in CallRecords
                /\ r.stage = cs[c].stage /\ r.fence = cs[c].fence /\ r.seq = cs[c].seq
                /\ r.voided = (cs[c].voided \/ c \in fenced)
                /\ r.cancelled = (cs[c].cancelled \/ c \in flagged)
  <2>1. cs[c] \in CallRecords
    OBVIOUS
  <2> QED BY <2>1 DEF CallRecords
<1> HIDE DEF fallout, ended, flagged
<1>4. calls' \in [Calls -> CallRecords]
  BY <1>1, <1>3, EndedType
<1>5. ASSUME NEW c \in Calls, c \in ended
      PROVE  /\ calls'[c] = Ended("dropped")
             /\ \/ c \in S
                \/ c \in FinalCalls /\ (Queued(c) \/ calls[c].stage = "awaiting")
  BY <1>1, <1>2, <1>5 DEF ended
<1>6. ASSUME NEW c \in Calls, c \notin ended
      PROVE  /\ c \notin S
             /\ calls'[c].stage = cs[c].stage /\ calls'[c].fence = cs[c].fence
             /\ calls'[c].seq = cs[c].seq
             /\ calls'[c].voided = (cs[c].voided \/ c \in fenced)
             /\ cs[c].cancelled \/ c \in cancelled => calls'[c].cancelled
             /\ calls'[c].cancelled => cs[c].cancelled \/ c \in cancelled \/ Active(c)
  BY <1>1, <1>3, <1>6 DEF ended, flagged
<1> QED
  BY <1>4, <1>5, <1>6

-----------------------------------------------------------------------------
(* What a step may do to one call                                           *)

Stays(c) ==
    /\ calls'[c].stage = calls[c].stage /\ calls'[c].fence = calls[c].fence
    /\ calls[c].cancelled => calls'[c].cancelled
    /\ calls'[c].voided =>
          \/ calls[c].voided
          \/ Outstanding(c) /\ Passed(calls[c].fence, LaneOf[c], rev')
          \/ Active(c) /\ calls'[c].cancelled

Moves(c) ==
    /\ Queued(c) /\ calls'[c].stage \in QueueStages \cup {"active"}
    /\ calls'[c].fence = calls[c].fence /\ calls'[c].voided = calls[c].voided

Submits(c) ==
    /\ calls[c].stage = "new" /\ calls'[c].stage = "auth"
    /\ calls'[c].fence = Fence(LaneOf[c]) /\ ~ calls'[c].voided

Drops(c) == Outstanding(c) /\ calls'[c] = Ended("dropped")

Applies(c) == Outstanding(c) /\ ~ calls[c].voided /\ calls'[c] = Ended("applied")

Awaits(c) ==
    /\ Queued(c) \/ Active(c)
    /\ LaneOf[c] = "Final" /\ calls'[c].stage = "awaiting"
    /\ ~ calls'[c].voided /\ calls'[c].fence = calls[c].fence

CallStep(c) == Stays(c) \/ Moves(c) \/ Submits(c) \/ Drops(c) \/ Applies(c) \/ Awaits(c)

Inv == TypeOK /\ FenceInv /\ VoidInv /\ GroupInv

\* Queued, active and awaiting are different things.
LEMMA StagesDiffer ==
    ASSUME NEW c
    PROVE  /\ Queued(c) => ~ Active(c) /\ ~ HasEnded(c) /\ calls[c].stage \notin {"new", "awaiting"}
           /\ Outstanding(c) => ~ HasEnded(c) /\ calls[c].stage # "new"
  BY DEF Queued, Active, HasEnded, Outstanding, QueueStages

\* The step of a cancellation, when every fenced call is out of date afterwards or
\* among the cancelled ones.
LEMMA CancelSteps ==
    ASSUME Inv, NEW S \in SUBSET Calls, NEW fenced \in SUBSET Calls, Cancel(S, fenced),
           \A c \in fenced : Outstanding(c) =>
                (c \in S /\ (Queued(c) \/ Active(c))) \/ Passed(calls[c].fence, LaneOf[c], rev')
    PROVE  \A c \in Calls : CallStep(c)
<1> DEFINE Q == {c \in S : Queued(c)}
           A == {c \in S : Active(c)}
           F == {c \in fenced : Outstanding(c)}
<1>1. DropFrom(calls, Q, A, F)
  BY DEF Cancel
<1>2. calls \in [Calls -> CallRecords] /\ Q \in SUBSET Calls
  BY DEF Inv, TypeOK
<1> SUFFICES ASSUME NEW c \in Calls PROVE CallStep(c)
  OBVIOUS
<1>3. \/ /\ calls'[c] = Ended("dropped")
         /\ c \in Q \/ (c \in FinalCalls /\ (Queued(c) \/ calls[c].stage = "awaiting"))
      \/ /\ c \notin Q
         /\ calls'[c].stage = calls[c].stage /\ calls'[c].fence = calls[c].fence
         /\ calls'[c].voided = (calls[c].voided \/ c \in F)
         /\ calls[c].cancelled \/ c \in A => calls'[c].cancelled
  <2> HIDE DEF Q, A, F
  <2> QED BY <1>1, <1>2, DropFromCall DEF Inv
<1>4. CASE calls'[c] = Ended("dropped") /\ (Queued(c) \/ calls[c].stage = "awaiting")
  BY <1>4 DEF CallStep, Drops, Outstanding
<1>5. CASE /\ c \notin Q
           /\ calls'[c].stage = calls[c].stage /\ calls'[c].fence = calls[c].fence
           /\ calls'[c].voided = (calls[c].voided \/ c \in F)
           /\ calls[c].cancelled \/ c \in A => calls'[c].cancelled
  BY <1>5 DEF CallStep, Stays, Outstanding
<1> QED
  BY <1>3, <1>4, <1>5

\* Which revision fences the calls of a switch.
LEMMA ScopeIsFenced ==
    ASSUME Inv, NEW switch \in Switches, NEW c \in Scope(switch), Outstanding(c),
           Bump(RevisionOf(switch))
    PROVE  c \in Calls /\ Passed(calls[c].fence, LaneOf[c], rev')
<1>1. c \in Calls
  BY DEF Scope, InLane, Switches, Families
<1>2. calls[c].fence \in Fences /\ rev \in [Revisions -> Nat]
  BY <1>1 DEF Inv, TypeOK, CallRecords, Fences
<1>3. LaneOf[c] \in Lanes
  BY <1>1, CoordinatorAssumption
<1>4. CASE switch = "master"
  <2>1. rev' = [rev EXCEPT !["control"] = rev["control"] + 1]
    BY <1>4 DEF Bump, RevisionOf
  <2> QED BY <1>1, <1>2, <2>1 DEF Inv, FenceInv, Passed, Revisions, Fences
<1>5. CASE switch = "auto"
  <2>1. rev' = [rev EXCEPT !["pinned"] = rev["pinned"] + 1]
    BY <1>5 DEF Bump, RevisionOf
  <2>2. LaneOf[c] = "Pinned"
    BY <1>5 DEF Scope, InLane
  <2> QED BY <1>1, <1>2, <2>1, <2>2 DEF Inv, FenceInv, Passed, Revisions, Fences
<1>6. CASE switch \in Families
  <2>1. Family(LaneOf[c]) = switch
    BY <1>6 DEF Scope, Families
  <2>2. rev' = [rev EXCEPT ![switch] = rev[switch] + 1]
    BY <1>6 DEF Bump, RevisionOf, Families
  <2> QED BY <1>1, <1>2, <1>6, <2>1, <2>2 DEF Inv, FenceInv, Passed, Revisions, Families, Fences
<1> QED
  BY <1>4, <1>5, <1>6 DEF Switches

LEMMA SameCalls ==
    ASSUME UNCHANGED calls, NEW c
    PROVE  CallStep(c)
  BY DEF CallStep, Stays

LEMMA SetSwitchSteps ==
    ASSUME Inv, NEW switch \in Switches, SetSwitch(switch)
    PROVE  \A c \in Calls : CallStep(c)
<1>1. CASE switch \in on
  <2>1. Scope(switch) \subseteq Calls
    BY DEF Scope, InLane, Switches, Families
  <2>2. Cancel(Scope(switch), Scope(switch)) /\ Bump(RevisionOf(switch))
    BY <1>1 DEF SetSwitch
  <2> QED BY <2>1, <2>2, ScopeIsFenced, CancelSteps
<1>2. CASE switch \notin on
  BY <1>2, SameCalls DEF SetSwitch
<1> QED BY <1>1, <1>2

LEMMA SetLaneSelectionSteps ==
    ASSUME Inv, NEW family \in Families, SetLaneSelection(family)
    PROVE  \A c \in Calls : CallStep(c)
<1>1. Scope(family) \subseteq Calls /\ family \in Switches
  BY DEF Scope, InLane, Switches, Families
<1>2. Cancel(Scope(family), Scope(family)) /\ Bump(RevisionOf(family))
  BY DEF SetLaneSelection, Refence, RevisionOf, Families
<1> QED BY <1>1, <1>2, ScopeIsFenced, CancelSteps

LEMMA SemanticsChangedSteps ==
    ASSUME Inv, SemanticsChanged
    PROVE  \A c \in Calls : CallStep(c)
<1>1. Scope("master") = Calls /\ "master" \in Switches
  BY DEF Scope, Switches
<1>2. Cancel(Calls, Calls) /\ Bump(RevisionOf("master"))
  BY DEF SemanticsChanged, Refence, RevisionOf
<1> QED BY <1>1, <1>2, ScopeIsFenced, CancelSteps

LEMMA ProviderChangedSteps ==
    ASSUME Inv, NEW p, ProviderChanged(p)
    PROVE  \A c \in Calls : CallStep(c)
<1> DEFINE S == {c \in Calls : ProviderOf[c] = p /\ (Queued(c) \/ Active(c))}
<1>1. Cancel(S, S) /\ S \in SUBSET Calls
  BY DEF ProviderChanged
<1>2. \A c \in S : Queued(c) \/ Active(c)
  OBVIOUS
<1> HIDE DEF S
<1> QED BY <1>1, <1>2, CancelSteps

LEMMA SetSubscriptionsSteps ==
    ASSUME Inv, NEW changed \in SUBSET Subscriptions, SetSubscriptions(changed)
    PROVE  \A c \in Calls : CallStep(c)
<1> DEFINE S == UNION {OfSubscription(s) : s \in changed}
<1>1. Cancel(S, InLane("Pinned")) /\ Bump("pinned")
  BY DEF SetSubscriptions
<1>2. S \in SUBSET Calls /\ InLane("Pinned") \in SUBSET Calls
  BY DEF OfSubscription, InLane
<1>3. "auto" \in Switches /\ Scope("auto") = InLane("Pinned") /\ RevisionOf("auto") = "pinned"
  BY DEF Switches, Scope, RevisionOf
<1> HIDE DEF S
<1> QED BY <1>1, <1>2, <1>3, ScopeIsFenced, CancelSteps

LEMMA ExpireSteps ==
    ASSUME Inv, NEW c \in Calls, Expire(c) \/ CancelQuestion(c)
    PROVE  \A d \in Calls : CallStep(d)
<1>1. CASE Expire(c)
  BY <1>1, CancelSteps DEF Expire
<1>2. CASE CancelQuestion(c)
  BY <1>2, CancelSteps DEF CancelQuestion
<1> QED BY <1>1, <1>2

LEMMA BeginSessionSteps ==
    ASSUME Inv, BeginSession
    PROVE  \A c \in Calls : CallStep(c)
<1> SUFFICES ASSUME NEW c \in Calls PROVE CallStep(c)
  OBVIOUS
<1>1. calls'[c] = IF Queued(c) \/ calls[c].stage = "awaiting" THEN Ended("dropped")
                  ELSE [calls[c] EXCEPT !.cancelled = @ \/ Active(c), !.voided = @ \/ Active(c)]
  BY DEF BeginSession
<1>2. CASE Queued(c) \/ calls[c].stage = "awaiting"
  BY <1>1, <1>2 DEF CallStep, Drops, Outstanding
<1>3. CASE ~ (Queued(c) \/ calls[c].stage = "awaiting")
  <2>1. calls[c] \in CallRecords
    BY DEF Inv, TypeOK
  <2>2. /\ calls'[c].stage = calls[c].stage /\ calls'[c].fence = calls[c].fence
        /\ calls'[c].cancelled = (calls[c].cancelled \/ Active(c))
        /\ calls'[c].voided = (calls[c].voided \/ Active(c))
    BY <1>1, <1>3, <2>1 DEF CallRecords
  <2> QED BY <2>2 DEF CallStep, Stays
<1> QED BY <1>2, <1>3

\* A call that is submitted, and no other.
LEMMA EnqueuedFields ==
    ASSUME Inv, NEW c \in Calls, NEW seq \in Nat
    PROVE  /\ Enqueued(c, seq) \in CallRecords
           /\ Enqueued(c, seq).stage = "auth" /\ Enqueued(c, seq).voided = FALSE
           /\ Enqueued(c, seq).fence = Fence(LaneOf[c])
           /\ Enqueued(c, seq).cancelled = FALSE
<1>1. rev \in [Revisions -> Nat] /\ LaneOf[c] \in Lanes
  BY CoordinatorAssumption DEF Inv, TypeOK
<1>2. Fence(LaneOf[c]) \in Fences
  BY <1>1 DEF Fence, Fences, Family, Lanes, Revisions, Families
<1> QED BY <1>2 DEF Enqueued, NoCall, CallRecords, Fences, QueueStages

LEMMA NextSeqType == NextSeq \in Nat \ {0}
<1>1. IsFiniteSet({c \in Calls : calls[c].stage # "new"})
  BY CoordinatorAssumption, FS_Subset
<1> QED BY <1>1, FS_CardinalityType DEF NextSeq

LEMMA SubmitSteps ==
    ASSUME Inv, NEW c \in Calls, SubmitLive(c) \/ SubmitAdHoc(c) \/ SubmitSubscription(c)
    PROVE  \A d \in Calls : CallStep(d)
<1>1. calls[c].stage = "new" /\ calls' = [calls EXCEPT ![c] = Enqueued(c, NextSeq)]
  BY DEF SubmitLive, SubmitAdHoc, SubmitSubscription
<1>2. Submits(c)
  BY <1>1, EnqueuedFields, NextSeqType DEF Submits, Inv, TypeOK
<1>3. \A d \in Calls \ {c} : Stays(d)
  BY <1>1 DEF Stays, Inv, TypeOK
<1> QED BY <1>2, <1>3 DEF CallStep

LEMMA SubmitFinalSteps ==
    ASSUME Inv, SubmitFinal
    PROVE  \A d \in Calls : CallStep(d)
<1>1. PICK seqs \in [FinalCalls -> NextSeq .. NextSeq + Cardinality(FinalCalls) - 1] :
          calls' = [c \in Calls |-> IF c \in FinalCalls THEN Enqueued(c, seqs[c]) ELSE calls[c]]
  BY DEF SubmitFinal
<1>2. FinalCalls \subseteq Calls /\ Cardinality(FinalCalls) \in Nat
  BY CoordinatorAssumption, FS_Subset, FS_CardinalityType DEF FinalCalls
<1>3. \A c \in FinalCalls : seqs[c] \in Nat
  BY <1>2, NextSeqType
<1>4. \A c \in FinalCalls : Submits(c)
  BY <1>1, <1>2, <1>3, EnqueuedFields DEF Submits, SubmitFinal
<1>5. \A c \in Calls \ FinalCalls : Stays(c)
  BY <1>1 DEF Stays
<1> QED BY <1>4, <1>5 DEF CallStep

LEMMA DropSteps ==
    ASSUME Inv, NEW S \in SUBSET Calls, \A c \in S : Outstanding(c), Drop(S)
    PROVE  \A c \in Calls : CallStep(c)
<1>1. DropFrom(calls, S, {}, {}) /\ calls \in [Calls -> CallRecords]
  BY DEF Drop, Inv, TypeOK
<1> SUFFICES ASSUME NEW c \in Calls PROVE CallStep(c)
  OBVIOUS
<1>2. \/ /\ calls'[c] = Ended("dropped")
         /\ c \in S \/ (c \in FinalCalls /\ (Queued(c) \/ calls[c].stage = "awaiting"))
      \/ /\ calls'[c].stage = calls[c].stage /\ calls'[c].fence = calls[c].fence
         /\ calls'[c].voided = (calls[c].voided \/ c \in {})
         /\ calls[c].cancelled => calls'[c].cancelled
  BY <1>1, DropFromCall DEF Inv
<1> QED BY <1>2 DEF CallStep, Drops, Stays, Outstanding

\* Reservations only move queued calls, and keep their fences.
LEMMA ReserveCall ==
    ASSUME NEW cs \in [Calls -> CallRecords]
    PROVE  /\ Reserve(cs) \in [Calls -> CallRecords]
           /\ \A c \in Calls :
                 /\ Reserve(cs)[c].fence = cs[c].fence /\ Reserve(cs)[c].voided = cs[c].voided
                 /\ Reserve(cs)[c].cancelled = cs[c].cancelled
                 /\ \/ Reserve(cs)[c].stage = cs[c].stage
                    \/ /\ cs[c].stage \in QueueStages /\ Reserve(cs)[c].stage = "prepared"
                       /\ LaneOf[c] = "Final"
<1> DEFINE queued == {c \in FinalCalls : cs[c].stage \in QueueStages}
<1>1. CASE \A c \in queued : cs[c].stage = "reservation"
  <2>1. Reserve(cs) = [c \in Calls |-> IF c \in queued
                             THEN [cs[c] EXCEPT !.stage = "prepared", !.reserved = TRUE]
                             ELSE cs[c]]
    BY <1>1 DEF Reserve
  <2>2. ASSUME NEW c \in Calls
        PROVE  /\ [cs[c] EXCEPT !.stage = "prepared", !.reserved = TRUE] \in CallRecords
               /\ [cs[c] EXCEPT !.stage = "prepared", !.reserved = TRUE].stage = "prepared"
               /\ [cs[c] EXCEPT !.stage = "prepared", !.reserved = TRUE].fence = cs[c].fence
               /\ [cs[c] EXCEPT !.stage = "prepared", !.reserved = TRUE].voided = cs[c].voided
               /\ [cs[c] EXCEPT !.stage = "prepared", !.reserved = TRUE].cancelled
                     = cs[c].cancelled
    BY DEF CallRecords, QueueStages
  <2>3. \A c \in queued : cs[c].stage \in QueueStages /\ LaneOf[c] = "Final"
    BY DEF FinalCalls
  <2> HIDE DEF queued
  <2> QED BY <2>1, <2>2, <2>3
<1>2. CASE ~ \A c \in queued : cs[c].stage = "reservation"
  <2>1. Reserve(cs) = cs
    BY <1>2 DEF Reserve
  <2> QED BY <2>1
<1> QED BY <1>1, <1>2

\* The fence of a voided call is out of date unless its token is cancelled.
LEMMA CurrentIsNotVoided ==
    ASSUME Inv, NEW c \in Calls, FenceIsCurrent(c), Queued(c) \/ ~ calls[c].cancelled
    PROVE  ~ calls[c].voided
<1>1. calls[c].fence \in Fences /\ rev \in [Revisions -> Nat] /\ LaneOf[c] \in Lanes
  BY CoordinatorAssumption DEF Inv, TypeOK, CallRecords, Fences
<1>2. ~ Behind(c)
  BY <1>1 DEF FenceIsCurrent, Fence, Behind, Passed, Revisions, Families, Family, Lanes
<1> QED BY <1>2, StagesDiffer DEF Inv, VoidInv

\* A stage of the queue is followed by another one.
LEMMA MoveSteps ==
    ASSUME Inv, NEW c \in Calls, Queued(c), NEW stage \in QueueStages \cup {"active"},
           calls' = [calls EXCEPT ![c].stage = stage]
    PROVE  \A d \in Calls : CallStep(d)
<1>1. Moves(c)
  BY DEF Moves, Inv, TypeOK, CallRecords
<1>2. \A d \in Calls \ {c} : Stays(d)
  BY DEF Stays, Inv, TypeOK
<1> QED BY <1>1, <1>2 DEF CallStep

LEMMA DeliverSteps ==
    ASSUME Inv, NEW c \in Calls, Queued(c) \/ Active(c), ~ calls[c].voided, Deliver(c)
    PROVE  \A d \in Calls : CallStep(d)
<1>1. CASE LaneOf[c] # "Final"
  <2>1. PICK how \in {"applied", "dropped"} : calls' = [calls EXCEPT ![c] = Ended(how)]
    BY <1>1 DEF Deliver
  <2>2. Applies(c) \/ Drops(c)
    BY <2>1 DEF Applies, Drops, Outstanding, Inv, TypeOK
  <2>3. \A d \in Calls \ {c} : Stays(d)
    BY <2>1 DEF Stays, Inv, TypeOK
  <2> QED BY <2>2, <2>3 DEF CallStep
<1>2. CASE LaneOf[c] = "Final"
  <2> DEFINE cs == [calls EXCEPT ![c].stage = "awaiting"]
  <2>1. calls' = Reserve(cs)
    BY <1>2 DEF Deliver
  <2>2. /\ cs \in [Calls -> CallRecords]
        /\ cs[c].stage = "awaiting" /\ cs[c].fence = calls[c].fence
        /\ cs[c].voided = calls[c].voided
        /\ \A d \in Calls \ {c} : cs[d] = calls[d]
    BY DEF Inv, TypeOK, CallRecords
  <2> HIDE DEF cs
  <2>3. Awaits(c)
    BY <1>2, <2>1, <2>2, ReserveCall DEF Awaits, QueueStages
  <2>4. \A d \in Calls \ {c} : Stays(d) \/ Moves(d)
    BY <2>1, <2>2, ReserveCall DEF Stays, Moves, Queued, QueueStages
  <2> QED BY <2>3, <2>4 DEF CallStep
<1> QED BY <1>1, <1>2

LEMMA DropQueuedSteps ==
    ASSUME Inv, NEW c \in Calls, Queued(c), DropQueued(c)
    PROVE  \A d \in Calls : CallStep(d)
  BY DropSteps DEF DropQueued, Outstanding

LEMMA AdmitSteps ==
    ASSUME Inv, NEW c \in Calls, Queued(c), Admit(c)
    PROVE  \A d \in Calls : CallStep(d)
<1>1. CASE DropQueued(c)
  BY <1>1, DropQueuedSteps
<1>2. CASE Send(c)
  BY <1>2, MoveSteps DEF Send
<1>3. CASE \E stage \in {"identical", "prepared"} : calls' = [calls EXCEPT ![c].stage = stage]
  BY <1>3, MoveSteps DEF QueueStages
<1>4. CASE calls' = Reserve([calls EXCEPT ![c].stage = "reservation"])
  <2> DEFINE cs == [calls EXCEPT ![c].stage = "reservation"]
  <2>1. /\ cs \in [Calls -> CallRecords]
        /\ cs[c].stage = "reservation" /\ cs[c].fence = calls[c].fence
        /\ cs[c].voided = calls[c].voided
        /\ \A d \in Calls \ {c} : cs[d] = calls[d]
    BY DEF Inv, TypeOK, CallRecords, QueueStages
  <2>2. calls' = Reserve(cs)
    BY <1>4
  <2> HIDE DEF cs
  <2>3. Moves(c)
    BY <2>1, <2>2, ReserveCall DEF Moves, QueueStages
  <2>4. \A d \in Calls \ {c} : Stays(d) \/ Moves(d)
    BY <2>1, <2>2, ReserveCall DEF Stays, Moves, Queued, QueueStages
  <2> QED BY <2>3, <2>4 DEF CallStep
<1> QED BY <1>1, <1>2, <1>3, <1>4 DEF Admit

LEMMA CandidateIsQueued ==
    ASSUME NEW c, IsCandidate(c)
    PROVE  Queued(c)
  BY DEF IsCandidate, Eligible, Queued, QueueStages

LEMMA DispatchSteps ==
    ASSUME Inv, NEW c \in Calls, DispatchNext(c)
    PROVE  \A d \in Calls : CallStep(d)
<1>0. Queued(c)
  BY CandidateIsQueued DEF DispatchNext
<1>1. CASE DropQueued(c)
  BY <1>0, <1>1, DropQueuedSteps
<1>2. CASE Admit(c)
  BY <1>0, <1>2, AdmitSteps
<1>3. CASE FenceIsCurrent(c) /\ Deliver(c)
  BY <1>0, <1>3, CurrentIsNotVoided, DeliverSteps
<1>4. CASE \E stage \in {"vertex", "preparing"} : calls' = [calls EXCEPT ![c].stage = stage]
  BY <1>0, <1>4, MoveSteps DEF QueueStages
<1> QED
  BY <1>1, <1>2, <1>3, <1>4 DEF DispatchNext, AfterCache, Authorize

LEMMA PrepareDoneSteps ==
    ASSUME Inv, NEW c \in Calls, NEW r \in {"ready", "absent", "rejected", "error"},
           PrepareDone(c, r)
    PROVE  \A d \in Calls : CallStep(d)
<1>0. Queued(c)
  BY DEF PrepareDone, Queued, QueueStages
<1>1. CASE DropQueued(c)
  BY <1>0, <1>1, DropQueuedSteps
<1>2. CASE \E stage \in {"cache", "credential"} : calls' = [calls EXCEPT ![c].stage = stage]
  BY <1>0, <1>2, MoveSteps DEF QueueStages
<1> QED
  BY <1>1, <1>2 DEF PrepareDone

LEMMA RefreshProviderSteps ==
    ASSUME Inv, NEW p, RefreshProvider(p)
    PROVE  \A c \in Calls : CallStep(c)
<1> SUFFICES ASSUME NEW c \in Calls PROVE CallStep(c)
  OBVIOUS
<1>1. \/ calls'[c] = calls[c]
      \/ calls[c].stage = "credential" /\ calls'[c] = [calls[c] EXCEPT !.stage = "auth"]
  BY DEF RefreshProvider
<1>2. calls[c] \in CallRecords
  BY DEF Inv, TypeOK
<1> QED BY <1>1, <1>2 DEF CallStep, Stays, Moves, Queued, QueueStages, CallRecords

LEMMA CompleteVertexSteps ==
    ASSUME Inv, NEW r \in {"ready", "unarmed", "blocked"}, CompleteVertex(r)
    PROVE  \A c \in Calls : CallStep(c)
<1> DEFINE waiting == {c \in Calls : calls[c].stage = "vertex"}
           kept == IF r = "ready" THEN {c \in waiting : CaughtUp(c)} ELSE {}
           lost == IF r = "unarmed" THEN {} ELSE waiting \ kept
           cs == [c \in Calls |-> IF c \in kept THEN [calls[c] EXCEPT !.stage = "catalog"]
                                                ELSE calls[c]]
<1>1. DropFrom(cs, lost, {}, {})
  BY DEF CompleteVertex
<1>2. lost \in SUBSET waiting /\ kept \in SUBSET waiting
  OBVIOUS
<1>3. \A c \in waiting : Queued(c)
  BY DEF Queued, QueueStages
<1>4. /\ cs \in [Calls -> CallRecords]
      /\ \A c \in kept : /\ cs[c].stage = "catalog" /\ cs[c].fence = calls[c].fence
                         /\ cs[c].voided = calls[c].voided
      /\ \A c \in Calls \ kept : cs[c] = calls[c]
  <2>1. \A c \in Calls : calls[c] \in CallRecords
    BY DEF Inv, TypeOK
  <2> HIDE DEF kept
  <2> QED BY <1>2, <2>1 DEF CallRecords, QueueStages
<1> SUFFICES ASSUME NEW c \in Calls PROVE CallStep(c)
  OBVIOUS
<1>5. \/ /\ calls'[c] = Ended("dropped")
         /\ c \in lost \/ (c \in FinalCalls /\ (Queued(c) \/ calls[c].stage = "awaiting"))
      \/ /\ c \notin lost
         /\ calls'[c].stage = cs[c].stage /\ calls'[c].fence = cs[c].fence
         /\ calls'[c].voided = (cs[c].voided \/ c \in {})
         /\ cs[c].cancelled => calls'[c].cancelled
  <2>1. lost \in SUBSET Calls /\ cs \in [Calls -> CallRecords] /\ TypeOK
    BY <1>2, <1>4 DEF Inv
  <2> HIDE DEF lost, cs, kept, waiting
  <2> QED BY <1>1, <2>1, DropFromCall
<1> HIDE DEF lost, cs, kept, waiting
<1>6. CASE calls'[c] = Ended("dropped")
           /\ (c \in lost \/ (c \in FinalCalls /\ (Queued(c) \/ calls[c].stage = "awaiting")))
  BY <1>2, <1>3, <1>6 DEF CallStep, Drops, Outstanding
<1>7. CASE /\ calls'[c].stage = cs[c].stage /\ calls'[c].fence = cs[c].fence
           /\ calls'[c].voided = (cs[c].voided \/ c \in {})
           /\ cs[c].cancelled => calls'[c].cancelled
  <2>0. calls[c].voided \in BOOLEAN
    BY DEF Inv, TypeOK, CallRecords
  <2>1. CASE c \in kept
    BY <1>2, <1>3, <1>4, <1>7, <2>0, <2>1 DEF CallStep, Moves, QueueStages
  <2>2. CASE c \notin kept
    BY <1>4, <1>7, <2>2 DEF CallStep, Stays
  <2> QED BY <2>1, <2>2
<1> QED BY <1>5, <1>6, <1>7

LEMMA CompleteSteps ==
    ASSUME Inv, NEW c \in Calls, NEW r \in {"ok", "rejected", "error"}, Complete(c, r)
    PROVE  \A d \in Calls : CallStep(d)
<1> DEFINE peers == {d \in Calls : Queued(d) /\ ProviderOf[d] = ProviderOf[c]}
<1>0. Active(c)
  BY DEF Complete
<1>1. CASE ~ IsStale(c) /\ Deliver(c)
  BY <1>0, <1>1, CurrentIsNotVoided, DeliverSteps DEF IsStale
<1>2. CASE \E S \in SUBSET Calls : S \subseteq {c} \cup peers /\ Drop(S)
  BY <1>0, <1>2, DropSteps DEF Outstanding
<1> QED
  BY <1>1, <1>2 DEF Complete

LEMMA ExpireGroupSteps ==
    ASSUME Inv, ExpireGroup
    PROVE  \A c \in Calls : CallStep(c)
<1> SUFFICES ASSUME NEW c \in Calls PROVE CallStep(c)
  OBVIOUS
<1> DEFINE peers == FinalCalls \ {FirstFinal}
<1>1. calls'[c] = IF c \in peers /\ ~ Active(c) THEN Ended("dropped")
                  ELSE [calls[c] EXCEPT !.cancelled = @ \/ c \in peers]
  BY DEF ExpireGroup
<1>2. \A d \in peers : Outstanding(d)
  BY DEF ExpireGroup, Inv, GroupInv
<1> HIDE DEF peers
<1>3. CASE c \in peers /\ ~ Active(c)
  BY <1>1, <1>2, <1>3 DEF CallStep, Drops
<1>4. CASE ~ (c \in peers /\ ~ Active(c))
  <2>1. calls[c] \in CallRecords
    BY DEF Inv, TypeOK
  <2> QED BY <1>1, <1>4, <2>1 DEF CallStep, Stays, CallRecords
<1> QED BY <1>3, <1>4

LEMMA SettleGroupSteps ==
    ASSUME Inv, SettleGroup
    PROVE  \A c \in Calls : CallStep(c)
<1> SUFFICES ASSUME NEW c \in Calls PROVE CallStep(c)
  OBVIOUS
<1>1. PICK how \in {"dropped", "applied"} :
         /\ how = "applied" => \A d \in FinalCalls : FenceIsCurrent(d)
         /\ calls' = [d \in Calls |-> IF d \in FinalCalls THEN Ended(how) ELSE calls[d]]
  BY DEF SettleGroup
<1>2. CASE c \in FinalCalls
  <2>1. calls[c].stage = "awaiting"
    BY <1>2 DEF SettleGroup, Inv, GroupInv
  <2>2. Outstanding(c) /\ ~ Active(c)
    BY <2>1 DEF Outstanding, Active
  <2>3. how = "applied" => ~ calls[c].voided
    <3>1. calls[c].fence \in Fences /\ rev \in [Revisions -> Nat] /\ LaneOf[c] \in Lanes
      BY CoordinatorAssumption DEF Inv, TypeOK, CallRecords, Fences
    <3>2. FenceIsCurrent(c) => ~ Behind(c)
      BY <3>1 DEF FenceIsCurrent, Fence, Behind, Passed, Revisions, Families, Family, Lanes
    <3> QED BY <1>1, <1>2, <2>2, <3>2 DEF Inv, VoidInv
  <2> QED BY <1>1, <1>2, <2>2, <2>3 DEF CallStep, Drops, Applies
<1>3. CASE c \notin FinalCalls
  BY <1>1, <1>3 DEF CallStep, Stays
<1> QED BY <1>2, <1>3

-----------------------------------------------------------------------------
(* Types                                                                    *)

Statuses == {"none", "queued", "waiting", "running", "completed", "dropped"}
Baselines == [base : Nat, before : Nat \cup {NoBaseline}, force : BOOLEAN]

\* What the steps of calls, questions, subscriptions and the group keep typed.
CoreType ==
    /\ calls \in [Calls -> CallRecords]
    /\ subs \in [Subscriptions -> Baselines]
    /\ shown \in [InLane("AdHoc") -> Statuses]
    /\ group \in {"none", "pending", "replied"}
    /\ asked \in [Subscriptions -> Nat]

RestType ==
    /\ on \subseteq Switches
    /\ rev \in [Revisions -> Nat]
    /\ cache \subseteq Keys
    /\ transient \in [Keys -> Nat]
    /\ rejected \subseteq Providers
    /\ vertex \in {"unarmed", "resolving", "ready", "blocked"}
    /\ slots \in [Lanes \ {"AdHoc"} -> Nat]
    /\ progress \in Nat

LEMMA TypeParts == TypeOK <=> CoreType /\ RestType
  BY DEF TypeOK, CoreType, RestType, Statuses, Baselines

LEMMA TypePartsNext == CoreType' /\ RestType' => TypeOK'
  BY DEF TypeOK, CoreType, RestType, Statuses, Baselines

LEMMA RestoreType ==
    ASSUME TypeOK, NEW ended
    PROVE  RestoreBaselines(ended) \in [Subscriptions -> Baselines]
<1>1. subs \in [Subscriptions -> Baselines]
  BY TypeParts DEF CoreType
<1>2. ASSUME NEW s \in Subscriptions, subs[s].before # NoBaseline
      PROVE  [subs[s] EXCEPT !.base = subs[s].before, !.before = NoBaseline] \in Baselines
  BY <1>1, <1>2 DEF Baselines
<1> QED BY <1>1, <1>2 DEF RestoreBaselines

LEMMA TrimmedType ==
    ASSUME NEW status \in [InLane("AdHoc") -> Statuses]
    PROVE  Trimmed(status) \in [InLane("AdHoc") -> Statuses]
  BY DEF Trimmed, Statuses

LEMMA DropFromType ==
    ASSUME TypeOK, NEW cs \in [Calls -> CallRecords],
           NEW S \in SUBSET Calls, NEW cancelled, NEW fenced,
           DropFrom(cs, S, cancelled, fenced)
    PROVE  /\ calls' \in [Calls -> CallRecords]
           /\ shown' \in [InLane("AdHoc") -> Statuses]
           /\ group' \in {"none", "pending", "replied"}
<1>1. calls' \in [Calls -> CallRecords]
  BY DropFromCall
<1>2. shown \in [InLane("AdHoc") -> Statuses] /\ group \in {"none", "pending", "replied"}
  BY TypeParts DEF CoreType
<1>3. shown' \in [InLane("AdHoc") -> Statuses]
  BY <1>2 DEF DropFrom, Statuses
<1>4. group' \in {"none", "pending", "replied"}
  BY <1>2 DEF DropFrom
<1> QED BY <1>1, <1>3, <1>4

LEMMA CancelType ==
    ASSUME TypeOK, NEW S \in SUBSET Calls, NEW fenced, Cancel(S, fenced)
    PROVE  /\ calls' \in [Calls -> CallRecords]
           /\ shown' \in [InLane("AdHoc") -> Statuses]
           /\ group' \in {"none", "pending", "replied"}
<1>1. {c \in S : Queued(c)} \in SUBSET Calls /\ calls \in [Calls -> CallRecords]
  BY DEF TypeOK
<1> QED BY <1>1, DropFromType DEF Cancel

LEMMA BumpType ==
    ASSUME TypeOK, NEW r \in Revisions, Bump(r)
    PROVE  rev' \in [Revisions -> Nat] /\ \A q \in Revisions : rev[q] <= rev'[q]
  BY DEF Bump, TypeOK

LEMMA ReservedType ==
    ASSUME TypeOK, NEW c \in Calls, NEW stage \in Stages
    PROVE  /\ [calls EXCEPT ![c].stage = stage] \in [Calls -> CallRecords]
           /\ Reserve([calls EXCEPT ![c].stage = stage]) \in [Calls -> CallRecords]
<1>1. [calls EXCEPT ![c].stage = stage] \in [Calls -> CallRecords]
  BY DEF TypeOK, CallRecords, Stages
<1> QED BY <1>1, ReserveCall

\* Lanes, keys and providers of calls are what the constants say.
LEMMA CallConstants ==
    ASSUME NEW c \in Calls
    PROVE  /\ LaneOf[c] \in Lanes /\ KeyOf[c] \in Keys /\ ProviderOf[c] \in Providers
           /\ LaneOf[c] = "Pinned" => SubscriptionOf[c] \in Subscriptions
           /\ c \in InLane("AdHoc") <=> LaneOf[c] = "AdHoc"
  BY CoordinatorAssumption DEF Keys, Providers, InLane

LEMMA RetainedType ==
    ASSUME TypeOK
    PROVE  Retained \in [Keys -> Nat]
  BY DEF Retained, TypeOK

LEMMA DropQueuedType ==
    ASSUME TypeOK, NEW c \in Calls, DropQueued(c)
    PROVE  CoreType'
<1>1. DropFrom(calls, {c}, {}, {}) /\ calls \in [Calls -> CallRecords]
  BY DEF DropQueued, Drop, TypeOK
<1>2. subs' \in [Subscriptions -> Baselines] /\ asked' \in [Subscriptions -> Nat]
  BY RestoreType DEF DropQueued, TypeOK
<1> QED BY <1>1, <1>2, DropFromType DEF CoreType

LEMMA AskedType ==
    ASSUME TypeOK, NEW c \in Calls, Asked(c)
    PROVE  asked' \in [Subscriptions -> Nat]
<1>1. subs \in [Subscriptions -> Baselines] /\ asked \in [Subscriptions -> Nat]
  BY TypeParts DEF CoreType
<1>2. LaneOf[c] = "Pinned" => subs[SubscriptionOf[c]].base \in Nat
  BY <1>1, CallConstants DEF Baselines
<1> QED BY <1>1, <1>2 DEF Asked

LEMMA DeliverType ==
    ASSUME TypeOK, NEW c \in Calls, Deliver(c)
    PROVE  /\ calls' \in [Calls -> CallRecords]
           /\ shown' \in [InLane("AdHoc") -> Statuses]
           /\ group' \in {"none", "pending", "replied"}
<1>0. /\ shown \in [InLane("AdHoc") -> Statuses] /\ group \in {"none", "pending", "replied"}
      /\ calls \in [Calls -> CallRecords]
  BY TypeParts DEF CoreType
<1>1. CASE LaneOf[c] # "Final"
  <2>1. PICK how \in {"applied", "dropped"} : calls' = [calls EXCEPT ![c] = Ended(how)]
    BY <1>1 DEF Deliver
  <2>2. calls' \in [Calls -> CallRecords]
    BY <1>0, <2>1, EndedType
  <2>3. [shown EXCEPT ![c] = "completed"] \in [InLane("AdHoc") -> Statuses]
    BY <1>0 DEF Statuses
  <2>4. shown' \in [InLane("AdHoc") -> Statuses]
    BY <1>0, <1>1, <2>3, TrimmedType DEF Deliver
  <2> QED BY <1>0, <1>1, <2>2, <2>4 DEF Deliver
<1>2. CASE LaneOf[c] = "Final"
  BY <1>0, <1>2, ReservedType, ZenonT(60) DEF Deliver, Stages
<1> QED BY <1>1, <1>2

LEMMA AdmitType ==
    ASSUME TypeOK, NEW c \in Calls, Admit(c)
    PROVE  CoreType'
<1>0. CoreType
  BY TypeParts
<1>1. CASE DropQueued(c)
  BY <1>1, DropQueuedType
<1>2. CASE Send(c)
  <2>1. calls' \in [Calls -> CallRecords]
    BY <1>2, ReservedType DEF Send, Stages
  <2>2. shown' \in [InLane("AdHoc") -> Statuses] /\ group' \in {"none", "pending", "replied"}
    BY <1>0, <1>2 DEF Send, CoreType, Statuses
  <2>3. subs' \in [Subscriptions -> Baselines]
    BY <1>0, <1>2, CallConstants DEF Send, CoreType, Baselines
  <2>4. asked' \in [Subscriptions -> Nat]
    BY <1>2, AskedType DEF Send
  <2> QED BY <2>1, <2>2, <2>3, <2>4 DEF CoreType
<1>3. CASE /\ UNCHANGED <<shown, group, subs, asked>>
           /\ \/ \E stage \in {"identical", "prepared"} :
                    calls' = [calls EXCEPT ![c].stage = stage]
              \/ calls' = Reserve([calls EXCEPT ![c].stage = "reservation"])
  <2>1. {"identical", "prepared", "reservation"} \subseteq Stages
    BY DEF Stages, QueueStages
  <2>2. calls' \in [Calls -> CallRecords]
    <3>1. PICK stage \in Stages : \/ calls' = [calls EXCEPT ![c].stage = stage]
                                \/ calls' = Reserve([calls EXCEPT ![c].stage = stage])
      BY <1>3, <2>1
    <3> QED BY <3>1, ReservedType, ZenonT(60)
  <2> QED BY <1>0, <1>3, <2>2 DEF CoreType
<1> QED BY <1>1, <1>2, <1>3 DEF Admit

-----------------------------------------------------------------------------
(* The type and the group, action by action                                 *)

LEMMA ControlType ==
    ASSUME TypeOK,
           \/ \E switch \in Switches : SetSwitch(switch)
           \/ \E family \in Families : SetLaneSelection(family)
           \/ SemanticsChanged
           \/ \E p \in Providers : ProviderChanged(p)
    PROVE  TypeOK'
<1>0. CoreType /\ RestType
  BY TypeParts
<1>1. CASE \E switch \in Switches : SetSwitch(switch)
  <2>1. PICK switch \in Switches : SetSwitch(switch)
    BY <1>1
  <2>2. RevisionOf(switch) \in Revisions /\ Scope(switch) \in SUBSET Calls
    BY DEF RevisionOf, Revisions, Switches, Families, Scope, InLane
  <2>3. rev' \in [Revisions -> Nat]
    BY <2>1, <2>2, BumpType DEF SetSwitch
  <2>4. CASE switch \in on
    <3>1. CoreType'
      BY <1>0, <2>1, <2>2, <2>4, CancelType, RestoreType DEF SetSwitch, CoreType
    <3> QED BY <1>0, <2>1, <2>3, <2>4, <3>1, TypePartsNext DEF SetSwitch, RestType
  <2>5. CASE switch \notin on
    <3>1. CoreType'
      BY <1>0, <2>1, <2>5 DEF SetSwitch, CoreType
    <3> QED BY <1>0, <2>1, <2>3, <2>5, <3>1, TypePartsNext DEF SetSwitch, RestType
  <2> QED BY <2>4, <2>5
<1>2. ASSUME NEW r \in Revisions, NEW S \in SUBSET Calls, Refence(r, S) PROVE TypeOK'
  <2>1. rev' \in [Revisions -> Nat]
    BY <1>2, BumpType DEF Refence
  <2>2. CoreType'
    BY <1>0, <1>2, CancelType, RestoreType DEF Refence, CoreType
  <2> QED BY <1>0, <1>2, <2>1, <2>2, TypePartsNext DEF Refence, RestType
<1>3. CASE \E family \in Families : SetLaneSelection(family)
  BY <1>2, <1>3 DEF SetLaneSelection, Scope, Families, Revisions, InLane
<1>4. CASE SemanticsChanged
  BY <1>2, <1>4 DEF SemanticsChanged, Revisions
<1>5. CASE \E p \in Providers : ProviderChanged(p)
  <2>1. PICK p \in Providers : ProviderChanged(p)
    BY <1>5
  <2> DEFINE S == {c \in Calls : ProviderOf[c] = p /\ (Queued(c) \/ Active(c))}
  <2>2. Cancel(S, S) /\ S \in SUBSET Calls
    BY <2>1 DEF ProviderChanged
  <2>3. subs' \in [Subscriptions -> Baselines]
    BY <2>1, RestoreType DEF ProviderChanged
  <2> HIDE DEF S
  <2>4. CoreType'
    BY <1>0, <2>1, <2>2, <2>3, CancelType DEF ProviderChanged, CoreType
  <2> QED BY <1>0, <2>1, <2>4, TypePartsNext DEF ProviderChanged, RestType
<1> QED BY <1>1, <1>3, <1>4, <1>5

LEMMA BeginSessionType ==
    ASSUME TypeOK, BeginSession
    PROVE  TypeOK'
<1>0. CoreType /\ RestType
  BY TypeParts
<1>1. rev' \in [Revisions -> Nat]
  BY BumpType DEF BeginSession, Revisions
<1>2. calls' \in [Calls -> CallRecords]
  <2>1. ASSUME NEW c \in Calls
        PROVE  [calls[c] EXCEPT !.cancelled = @ \/ Active(c), !.voided = @ \/ Active(c)]
                  \in CallRecords
    <3>1. calls[c] \in CallRecords /\ Active(c) \in BOOLEAN
      BY DEF TypeOK, Active
    <3> QED BY <3>1 DEF CallRecords
  <2> QED BY <2>1, EndedType DEF BeginSession
<1>3. CoreType'
  BY <1>0, <1>2 DEF BeginSession, CoreType, Baselines, Statuses
<1> QED BY <1>0, <1>1, <1>3, TypePartsNext DEF BeginSession, RestType

LEMMA SubmitType ==
    ASSUME Inv,
           \/ \E c \in Calls : SubmitLive(c) \/ SubmitAdHoc(c) \/ SubmitSubscription(c)
           \/ SubmitFinal
           \/ \E s \in Subscriptions : RunSubscriptionNow(s)
           \/ Observe
           \/ \E changed \in SUBSET Subscriptions : SetSubscriptions(changed)
    PROVE  TypeOK'
<1>0. CoreType /\ RestType
  BY TypeParts DEF Inv
<1>1. ASSUME NEW c \in Calls PROVE [calls EXCEPT ![c] = Enqueued(c, NextSeq)] \in [Calls -> CallRecords]
  BY <1>0, EnqueuedFields, NextSeqType DEF CoreType
<1>2. CASE \E c \in Calls : SubmitLive(c)
  <2>1. CoreType'
    BY <1>0, <1>1, <1>2 DEF SubmitLive, CoreType
  <2> QED BY <1>0, <1>2, <2>1, TypePartsNext DEF SubmitLive, RestType
<1>3. CASE \E c \in Calls : SubmitAdHoc(c)
  <2>1. PICK c \in Calls : SubmitAdHoc(c)
    BY <1>3
  <2>2. [shown EXCEPT ![c] = "queued"] \in [InLane("AdHoc") -> Statuses]
    BY <1>0 DEF CoreType, Statuses
  <2>3. CoreType'
    BY <1>0, <1>1, <2>1, <2>2, TrimmedType DEF SubmitAdHoc, CoreType
  <2> QED BY <1>0, <2>1, <2>3, TypePartsNext DEF SubmitAdHoc, RestType
<1>4. CASE \E c \in Calls : SubmitSubscription(c)
  <2>1. PICK c \in Calls : SubmitSubscription(c)
    BY <1>4
  <2>2. SubscriptionOf[c] \in Subscriptions
    BY <2>1, CallConstants DEF SubmitSubscription
  <2>3. subs' \in [Subscriptions -> Baselines]
    BY <1>0, <2>1, <2>2 DEF SubmitSubscription, CoreType, RestType, Baselines
  <2>4. CoreType'
    BY <1>0, <1>1, <2>1, <2>3 DEF SubmitSubscription, CoreType
  <2> QED BY <1>0, <2>1, <2>4, TypePartsNext DEF SubmitSubscription, RestType
<1>5. CASE SubmitFinal
  <2>1. PICK seqs \in [FinalCalls -> NextSeq .. NextSeq + Cardinality(FinalCalls) - 1] :
          calls' = [c \in Calls |-> IF c \in FinalCalls THEN Enqueued(c, seqs[c]) ELSE calls[c]]
    BY <1>5 DEF SubmitFinal
  <2>2. FinalCalls \subseteq Calls /\ Cardinality(FinalCalls) \in Nat
    BY CoordinatorAssumption, FS_Subset, FS_CardinalityType DEF FinalCalls
  <2>3. \A c \in FinalCalls : seqs[c] \in Nat
    BY <2>2, NextSeqType
  <2>4. calls' \in [Calls -> CallRecords]
    BY <1>0, <2>1, <2>2, <2>3, EnqueuedFields DEF CoreType
  <2>5. CoreType'
    BY <1>0, <1>5, <2>4 DEF SubmitFinal, CoreType
  <2> QED BY <1>0, <1>5, <2>5, TypePartsNext DEF SubmitFinal, RestType
<1>6. CASE \E s \in Subscriptions : RunSubscriptionNow(s)
  <2>1. CoreType'
    BY <1>0, <1>6 DEF RunSubscriptionNow, CoreType, Baselines
  <2> QED BY <1>0, <1>6, <2>1, TypePartsNext DEF RunSubscriptionNow, RestType
<1>7. CASE Observe
  <2>1. CoreType'
    BY <1>0, <1>7 DEF Observe, CoreType
  <2> QED BY <1>0, <1>7, <2>1, TypePartsNext DEF Observe, RestType
<1>8. CASE \E changed \in SUBSET Subscriptions : SetSubscriptions(changed)
  <2>1. PICK changed \in SUBSET Subscriptions : SetSubscriptions(changed)
    BY <1>8
  <2> DEFINE S == UNION {OfSubscription(s) : s \in changed}
  <2>2. Cancel(S, InLane("Pinned")) /\ S \in SUBSET Calls
    BY <2>1 DEF SetSubscriptions, OfSubscription, InLane
  <2> HIDE DEF S
  <2>3. subs' \in [Subscriptions -> Baselines] /\ asked' \in [Subscriptions -> Nat]
    BY <1>0, <2>1 DEF SetSubscriptions, CoreType, Baselines
  <2>4. CoreType'
    BY <2>2, <2>3, CancelType DEF CoreType, Inv
  <2>5. rev' \in [Revisions -> Nat]
    BY <2>1, BumpType DEF SetSubscriptions, Revisions, Inv
  <2> QED BY <1>0, <2>1, <2>4, <2>5, TypePartsNext DEF SetSubscriptions, RestType
<1> QED BY <1>2, <1>3, <1>4, <1>5, <1>6, <1>7, <1>8

LEMMA DispatchType ==
    ASSUME TypeOK, NEW c \in Calls, DispatchNext(c)
    PROVE  TypeOK'
<1>0. CoreType /\ RestType /\ LaneOf[c] \in Lanes /\ KeyOf[c] \in Keys
  BY TypeParts, CallConstants
<1>1. {"vertex", "preparing"} \subseteq Stages
  BY DEF Stages, QueueStages
<1>2. CASE DropQueued(c) /\ transient' = Retained /\ UNCHANGED <<cache, slots>>
  <2>1. CoreType'
    BY <1>2, DropQueuedType
  <2> QED BY <1>0, <1>2, <2>1, TypePartsNext, RetainedType DEF DispatchNext, RestType
<1>3. CASE AfterCache(c) /\ UNCHANGED slots
  <2>1. CoreType'
    <3>1. CASE DropQueued(c)
      BY <3>1, DropQueuedType
    <3>2. CASE Admit(c)
      BY <3>2, AdmitType
    <3>3. CASE Deliver(c) /\ Asked(c) /\ UNCHANGED subs
      BY <1>0, <3>3, DeliverType, AskedType DEF CoreType
    <3> QED BY <1>3, <3>1, <3>2, <3>3 DEF AfterCache
  <2>2. cache' \subseteq Keys
    BY <1>0, <1>3 DEF AfterCache, RestType
  <2>3. transient' \in [Keys -> Nat]
    BY <1>0, <1>3, RetainedType DEF AfterCache
  <2> QED BY <1>0, <1>3, <2>1, <2>2, <2>3, TypePartsNext DEF DispatchNext, RestType
<1>4. CASE Admit(c) /\ transient' = Retained /\ UNCHANGED <<cache, slots>>
  <2>1. CoreType'
    BY <1>4, AdmitType
  <2> QED BY <1>0, <1>4, <2>1, TypePartsNext, RetainedType DEF DispatchNext, RestType
<1>5. CASE Authorize(c) /\ transient' = Retained /\ UNCHANGED cache
  <2>1. CASE DropQueued(c) /\ UNCHANGED slots
    <3>1. CoreType'
      BY <2>1, DropQueuedType
    <3> QED BY <1>0, <1>5, <2>1, <3>1, TypePartsNext, RetainedType DEF DispatchNext, RestType
  <2>2. CASE /\ calls' = [calls EXCEPT ![c].stage = "preparing"]
             /\ UNCHANGED <<shown, group, subs, asked, slots>>
    <3>1. CoreType'
      BY <1>0, <1>1, <2>2, ReservedType DEF CoreType
    <3> QED BY <1>0, <1>5, <2>2, <3>1, TypePartsNext, RetainedType DEF DispatchNext, RestType
  <2>3. CASE /\ calls' = [calls EXCEPT ![c].stage = "vertex"]
             /\ UNCHANGED <<group, subs, asked>>
             /\ IF LaneOf[c] = "AdHoc"
                THEN shown' = [shown EXCEPT ![c] = "waiting"] /\ UNCHANGED slots
                ELSE /\ slots' = [slots EXCEPT ![LaneOf[c]] =
                                     IF calls[c].seq > @ THEN calls[c].seq ELSE @]
                     /\ UNCHANGED shown
    <3>1. calls' \in [Calls -> CallRecords]
      BY <1>1, <2>3, ReservedType
    <3>2. shown' \in [InLane("AdHoc") -> Statuses]
      BY <1>0, <2>3 DEF CoreType, Statuses
    <3>3. calls[c].seq \in Nat
      BY <1>0 DEF CoreType, CallRecords
    <3>4. slots' \in [Lanes \ {"AdHoc"} -> Nat]
      BY <1>0, <2>3, <3>3 DEF RestType
    <3>5. CoreType'
      BY <1>0, <2>3, <3>1, <3>2 DEF CoreType
    <3> QED BY <1>0, <1>5, <3>4, <3>5, TypePartsNext, RetainedType DEF DispatchNext, RestType
  <2> QED BY <1>5, <2>1, <2>2, <2>3 DEF Authorize
<1>6. CASE /\ calls' = [calls EXCEPT ![c].stage = "preparing"] /\ transient' = Retained
           /\ UNCHANGED <<cache, slots, shown, group, subs, asked>>
  <2>1. CoreType'
    BY <1>0, <1>1, <1>6, ReservedType DEF CoreType
  <2> QED BY <1>0, <1>6, <2>1, TypePartsNext, RetainedType DEF DispatchNext, RestType
<1> QED BY <1>2, <1>3, <1>4, <1>5, <1>6 DEF DispatchNext

LEMMA PrepareDoneType ==
    ASSUME TypeOK, NEW c \in Calls, NEW r, PrepareDone(c, r)
    PROVE  TypeOK'
<1>0. CoreType /\ RestType /\ ProviderOf[c] \in Providers
  BY TypeParts, CallConstants
<1>1. {"cache", "credential"} \subseteq Stages
  BY DEF Stages, QueueStages
<1>2. CoreType'
  <2>1. CASE DropQueued(c)
    BY <2>1, DropQueuedType
  <2>2. CASE /\ calls' = [calls EXCEPT ![c].stage = "cache"]
             /\ UNCHANGED <<shown, group, subs, asked>>
    BY <1>0, <1>1, <2>2, ReservedType DEF CoreType
  <2>3. CASE /\ calls' = [calls EXCEPT ![c].stage = "credential"]
             /\ shown' = IF LaneOf[c] = "AdHoc" THEN [shown EXCEPT ![c] = "waiting"] ELSE shown
             /\ UNCHANGED <<group, subs, asked>>
    <3>1. shown' \in [InLane("AdHoc") -> Statuses]
      BY <1>0, <2>3 DEF CoreType, Statuses
    <3> QED BY <1>0, <1>1, <2>3, <3>1, ReservedType DEF CoreType
  <2> QED BY <2>1, <2>2, <2>3 DEF PrepareDone
<1>3. RestType'
  BY <1>0 DEF PrepareDone, Settings, RestType
<1> QED BY <1>2, <1>3, TypePartsNext

LEMMA VertexType ==
    ASSUME TypeOK,
           \/ \E p \in Providers : RefreshProvider(p)
           \/ DriveVertex
           \/ PurgeReusableCache
           \/ \E r \in {"ready", "unarmed", "blocked"} : CompleteVertex(r)
    PROVE  TypeOK'
<1>0. CoreType /\ RestType
  BY TypeParts
<1>1. CASE \E p \in Providers : RefreshProvider(p)
  <2>1. PICK p \in Providers : RefreshProvider(p)
    BY <1>1
  <2>2. \A c \in Calls : calls[c] \in CallRecords /\ [calls[c] EXCEPT !.stage = "auth"] \in CallRecords
    BY <1>0 DEF CoreType, CallRecords, QueueStages
  <2>3. calls' \in [Calls -> CallRecords]
    BY <2>1, <2>2 DEF RefreshProvider
  <2>4. shown' \in [InLane("AdHoc") -> Statuses]
    BY <1>0, <2>1 DEF RefreshProvider, CoreType, Statuses
  <2>5. CoreType'
    BY <1>0, <2>1, <2>3, <2>4 DEF RefreshProvider, CoreType
  <2>6. RestType'
    BY <1>0, <2>1 DEF RefreshProvider, Settings, RestType
  <2> QED BY <2>5, <2>6, TypePartsNext
<1>2. CASE DriveVertex
  <2>1. CoreType' /\ RestType'
    BY <1>0, <1>2 DEF DriveVertex, Settings, CoreType, RestType
  <2> QED BY <2>1, TypePartsNext
<1>3. CASE PurgeReusableCache
  <2>1. CoreType' /\ RestType'
    BY <1>0, <1>3 DEF PurgeReusableCache, Settings, CoreType, RestType
  <2> QED BY <2>1, TypePartsNext
<1>4. CASE \E r \in {"ready", "unarmed", "blocked"} : CompleteVertex(r)
  <2>1. PICK r \in {"ready", "unarmed", "blocked"} : CompleteVertex(r)
    BY <1>4
  <2> DEFINE waiting == {c \in Calls : calls[c].stage = "vertex"}
             kept == IF r = "ready" THEN {c \in waiting : CaughtUp(c)} ELSE {}
             lost == IF r = "unarmed" THEN {} ELSE waiting \ kept
             cs == [c \in Calls |-> IF c \in kept THEN [calls[c] EXCEPT !.stage = "catalog"]
                                                  ELSE calls[c]]
  <2>2. /\ DropFrom(cs, lost, {}, {}) /\ lost \in SUBSET Calls
        /\ subs' = RestoreBaselines(lost) /\ asked' = asked
    BY <2>1 DEF CompleteVertex
  <2>3. \A c \in Calls : calls[c] \in CallRecords /\ [calls[c] EXCEPT !.stage = "catalog"] \in CallRecords
    BY <1>0 DEF CoreType, CallRecords, QueueStages
  <2>4. cs \in [Calls -> CallRecords]
    BY <2>3
  <2> HIDE DEF waiting, kept, lost, cs
  <2>5. CoreType'
    BY <1>0, <2>2, <2>4, DropFromType, RestoreType DEF CoreType
  <2>6. RestType'
    BY <1>0, <2>1 DEF CompleteVertex, Settings, RestType
  <2> QED BY <2>5, <2>6, TypePartsNext
<1> QED BY <1>1, <1>2, <1>3, <1>4

LEMMA CompleteType ==
    ASSUME TypeOK, NEW c \in Calls, NEW r, Complete(c, r)
    PROVE  TypeOK'
<1> DEFINE waiters == {d \in Calls : calls[d].stage = "identical" /\ KeyOf[d] = KeyOf[c]}
           peers == {d \in Calls : Queued(d) /\ ProviderOf[d] = ProviderOf[c]}
<1>0. CoreType /\ RestType /\ ProviderOf[c] \in Providers /\ KeyOf[c] \in Keys
  BY TypeParts, CallConstants
<1>1. Cardinality(waiters) \in Nat
  BY CoordinatorAssumption, FS_Subset, FS_CardinalityType
<1>2. calls \in [Calls -> CallRecords] /\ {c} \in SUBSET Calls
  BY DEF TypeOK
<1>3. rejected' \subseteq Providers /\ asked' \in [Subscriptions -> Nat]
  BY <1>0 DEF Complete, CoreType, RestType
<1>4. CASE /\ Deliver(c)
           /\ cache' = cache \cup ({KeyOf[c]} \cap Reusable)
           /\ transient' = IF waiters = {} THEN transient
                           ELSE [transient EXCEPT ![KeyOf[c]] = Cardinality(waiters)]
           /\ UNCHANGED subs
  <2>1. CoreType'
    BY <1>0, <1>3, <1>4, DeliverType DEF CoreType
  <2>2. cache' \subseteq Keys /\ transient' \in [Keys -> Nat]
    <3> HIDE DEF waiters
    <3> QED BY <1>0, <1>1, <1>4 DEF RestType
  <2>3. RestType'
    BY <1>0, <1>3, <2>2 DEF RestType, Complete, Settings
  <2> QED BY <2>1, <2>3, TypePartsNext
<1>5. CASE /\ \E S \in SUBSET Calls : Drop(S)
           /\ (\E T : subs' = RestoreBaselines(T)) \/ UNCHANGED subs
           /\ UNCHANGED <<cache, transient>>
  <2>1. CoreType'
    BY <1>0, <1>2, <1>3, <1>5, DropFromType, RestoreType DEF CoreType, Drop
  <2>2. RestType'
    BY <1>0, <1>3, <1>5 DEF RestType, Complete, Settings
  <2> QED BY <2>1, <2>2, TypePartsNext
<1>6. {c} \cup peers \in SUBSET Calls
  OBVIOUS
<1> QED
  BY <1>2, <1>4, <1>5, <1>6 DEF Complete

LEMMA EndingType ==
    ASSUME TypeOK,
           \/ \E c \in Calls : Expire(c) \/ CancelQuestion(c)
           \/ ExpireGroup
           \/ SettleGroup
    PROVE  TypeOK'
<1>0. CoreType /\ RestType
  BY TypeParts
<1>1. CASE \E c \in Calls : Expire(c)
  <2>1. PICK c \in Calls : Expire(c)
    BY <1>1
  <2>2. CoreType'
    BY <1>0, <2>1, CancelType, RestoreType DEF CoreType, Expire
  <2>3. RestType'
    BY <1>0, <2>1 DEF RestType, Expire, Settings
  <2> QED BY <2>2, <2>3, TypePartsNext
<1>2. CASE \E c \in Calls : CancelQuestion(c)
  <2>1. PICK c \in Calls : CancelQuestion(c)
    BY <1>2
  <2>2. CoreType'
    BY <1>0, <2>1, CancelType DEF CoreType, CancelQuestion
  <2>3. RestType'
    BY <1>0, <2>1 DEF RestType, CancelQuestion, Settings
  <2> QED BY <2>2, <2>3, TypePartsNext
<1>3. CASE ExpireGroup
  <2> DEFINE peers == FinalCalls \ {FirstFinal}
  <2>1. \A c \in Calls : [calls[c] EXCEPT !.cancelled = @ \/ c \in peers] \in CallRecords
    <3> HIDE DEF peers
    <3> QED BY <1>0 DEF CoreType, CallRecords
  <2>2. calls' \in [Calls -> CallRecords]
    BY <1>3, <2>1, EndedType DEF ExpireGroup
  <2>3. CoreType'
    BY <1>0, <1>3, <2>2 DEF CoreType, ExpireGroup
  <2>4. RestType'
    BY <1>0, <1>3 DEF RestType, ExpireGroup, Settings
  <2> QED BY <2>3, <2>4, TypePartsNext
<1>4. CASE SettleGroup
  <2>1. PICK how \in {"dropped", "applied"} :
           calls' = [c \in Calls |-> IF c \in FinalCalls THEN Ended(how) ELSE calls[c]]
    BY <1>4 DEF SettleGroup
  <2>2. calls' \in [Calls -> CallRecords]
    BY <1>0, <2>1, EndedType DEF CoreType
  <2>3. CoreType'
    BY <1>0, <1>4, <2>2 DEF CoreType, SettleGroup
  <2>4. RestType'
    BY <1>0, <1>4 DEF RestType, SettleGroup, Settings
  <2> QED BY <2>3, <2>4, TypePartsNext
<1> QED BY <1>1, <1>2, <1>3, <1>4

-----------------------------------------------------------------------------
(* The Final group, action by action                                        *)

LEMMA AwaitingIsFinal ==
    ASSUME Inv, \A c \in Calls : CallStep(c)
    PROVE  \A c \in Calls : calls'[c].stage = "awaiting" => LaneOf[c] = "Final"
<1> SUFFICES ASSUME NEW c \in Calls, calls'[c].stage = "awaiting" PROVE LaneOf[c] = "Final"
  OBVIOUS
<1>1. Stays(c) \/ Awaits(c)
  BY EndedType DEF CallStep, Moves, Submits, Drops, Applies, QueueStages
<1> QED BY <1>1 DEF Stays, Awaits, Inv, GroupInv

LEMMA GroupKept ==
    ASSUME Inv, \A c \in Calls : CallStep(c), group' = group,
           \A c \in FinalCalls : Stays(c) \/ Moves(c)
    PROVE  GroupInv'
<1>1. ASSUME NEW c \in FinalCalls
      PROVE  /\ Outstanding(c) => Outstanding(c)'
             /\ calls[c].stage = "awaiting" => calls'[c].stage = "awaiting"
  BY DEF Stays, Moves, Outstanding, Queued, Active, QueueStages
<1> QED BY <1>1, AwaitingIsFinal DEF Inv, GroupInv

LEMMA GroupIsOver ==
    ASSUME Inv, \A c \in Calls : CallStep(c), group' = "none"
    PROVE  GroupInv'
  BY AwaitingIsFinal DEF GroupInv

\* A Final that is dropped takes the group with it; otherwise the group is as it was.
LEMMA DropFromGroup ==
    ASSUME Inv, NEW cs \in [Calls -> CallRecords], NEW S \in SUBSET Calls, NEW cancelled,
           NEW fenced, DropFrom(cs, S, cancelled, fenced), \A c \in Calls : CallStep(c),
           \A c \in S : Queued(c) \/ Active(c),
           \A c \in Calls : \/ cs[c].stage = calls[c].stage
                            \/ Queued(c) /\ cs[c].stage \in QueueStages
    PROVE  GroupInv'
<1>1. CASE Fallout(S) # {}
  BY <1>1, GroupIsOver DEF DropFrom
<1>2. CASE Fallout(S) = {}
  <2>1. group' = group
    BY <1>2 DEF DropFrom
  <2>2. group = "none" \/ group = "pending" \/ group = "replied"
    BY DEF Inv, TypeOK
  <2>3. CASE group = "none"
    BY <2>1, <2>3, GroupIsOver
  <2>4. CASE group # "none"
    <3>1. ASSUME NEW c \in FinalCalls PROVE c \notin S
      <4>1. CASE group = "pending"
        BY <1>2, <4>1 DEF Fallout
      <4>2. CASE group = "replied"
        BY <4>2, StagesDiffer DEF Inv, GroupInv, Active
      <4> QED BY <2>2, <2>4, <4>1, <4>2
    <3>2. \A c \in FinalCalls : c \in Calls
      BY DEF FinalCalls
    <3>3. ASSUME NEW c \in FinalCalls PROVE calls'[c].stage = cs[c].stage
      <4>1. calls'[c] = [cs[c] EXCEPT !.cancelled = @ \/ c \in cancelled, !.voided = @ \/ c \in fenced]
        BY <1>2, <3>1, <3>2 DEF DropFrom
      <4>2. cs[c] \in CallRecords
        BY <3>2
      <4> QED BY <4>1, <4>2 DEF CallRecords
    <3>4. ASSUME NEW c \in FinalCalls
          PROVE  /\ Outstanding(c) => Outstanding(c)'
                 /\ calls[c].stage = "awaiting" => calls'[c].stage = "awaiting"
      BY <3>2, <3>3 DEF Outstanding, Queued, Active, QueueStages
    <3> QED BY <2>1, <3>4, AwaitingIsFinal DEF Inv, GroupInv
  <2> QED BY <2>3, <2>4
<1> QED BY <1>1, <1>2

LEMMA CancelGroup ==
    ASSUME Inv, NEW S \in SUBSET Calls, NEW fenced, Cancel(S, fenced),
           \A c \in Calls : CallStep(c)
    PROVE  GroupInv'
<1>1. {c \in S : Queued(c)} \in SUBSET Calls /\ calls \in [Calls -> CallRecords]
  BY DEF Inv, TypeOK
<1> QED BY <1>1, DropFromGroup DEF Cancel

LEMMA DropGroup ==
    ASSUME Inv, NEW S \in SUBSET Calls, Drop(S), \A c \in S : Queued(c) \/ Active(c)
    PROVE  GroupInv'
<1>1. calls \in [Calls -> CallRecords] /\ \A c \in Calls : CallStep(c)
  BY DropSteps DEF Inv, TypeOK, Outstanding
<1> QED BY <1>1, DropFromGroup DEF Drop

LEMMA DeliverGroup ==
    ASSUME Inv, NEW c \in Calls, Queued(c) \/ Active(c), ~ calls[c].voided, Deliver(c)
    PROVE  GroupInv'
<1>0. \A d \in Calls : CallStep(d)
  BY DeliverSteps
<1>1. CASE LaneOf[c] # "Final"
  <2>1. PICK how : calls' = [calls EXCEPT ![c] = Ended(how)]
    BY <1>1 DEF Deliver
  <2>2. \A d \in FinalCalls : Stays(d)
    BY <1>1, <2>1 DEF Stays, Inv, TypeOK, FinalCalls
  <2> QED BY <1>0, <1>1, <2>2, GroupKept DEF Deliver
<1>2. CASE LaneOf[c] = "Final"
  <2> DEFINE cs == [calls EXCEPT ![c].stage = "awaiting"]
  <2>1. /\ calls' = Reserve(cs)
        /\ group' = IF \A d \in FinalCalls \ {c} : calls[d].stage = "awaiting"
                    THEN "replied" ELSE group
    BY <1>2 DEF Deliver
  <2>2. /\ cs \in [Calls -> CallRecords]
        /\ cs[c].stage = "awaiting"
        /\ \A d \in Calls \ {c} : cs[d] = calls[d]
    BY DEF Inv, TypeOK, CallRecords
  <2> HIDE DEF cs
  <2>3. ASSUME NEW d \in Calls, cs[d].stage = "awaiting" PROVE calls'[d].stage = "awaiting"
    BY <2>1, <2>2, <2>3, ReserveCall DEF QueueStages
  <2>4. FinalCalls \subseteq Calls /\ c \in FinalCalls
    BY <1>2 DEF FinalCalls
  <2>5. CASE \A d \in FinalCalls \ {c} : calls[d].stage = "awaiting"
    <3>1. \A d \in FinalCalls : calls'[d].stage = "awaiting"
      BY <2>2, <2>3, <2>4, <2>5
    <3> QED BY <1>0, <2>1, <2>5, <3>1, AwaitingIsFinal DEF GroupInv
  <2>6. CASE ~ \A d \in FinalCalls \ {c} : calls[d].stage = "awaiting"
    <3>1. group' = group /\ group # "replied"
      BY <2>1, <2>6 DEF Inv, GroupInv
    <3>2. ASSUME NEW d \in FinalCalls, Outstanding(d) PROVE Outstanding(d)'
      <4>1. CASE d = c
        BY <2>2, <2>3, <4>1 DEF Outstanding
      <4>2. CASE d # c
        <5>1. cs[d] = calls[d] /\ d \in Calls
          BY <2>2, <2>4, <4>2
        <5>2. calls'[d].stage = cs[d].stage \/ calls'[d].stage = "prepared"
          BY <2>1, <2>2, <5>1, ReserveCall
        <5> QED BY <3>2, <5>1, <5>2 DEF Outstanding, Queued, Active, QueueStages
      <4> QED BY <4>1, <4>2
    <3> QED BY <1>0, <3>1, <3>2, AwaitingIsFinal DEF Inv, GroupInv
  <2> QED BY <2>5, <2>6
<1> QED BY <1>1, <1>2

LEMMA MoveGroup ==
    ASSUME Inv, NEW c \in Calls, Queued(c), NEW stage \in QueueStages \cup {"active"},
           calls' = [calls EXCEPT ![c].stage = stage], UNCHANGED group
    PROVE  GroupInv'
<1>0. \A d \in Calls : CallStep(d)
  BY MoveSteps
<1>1. Moves(c)
  BY DEF Moves, Inv, TypeOK, CallRecords
<1>2. \A d \in Calls \ {c} : Stays(d)
  BY DEF Stays, Inv, TypeOK
<1> QED BY <1>0, <1>1, <1>2, GroupKept DEF FinalCalls

LEMMA AdmitGroup ==
    ASSUME Inv, NEW c \in Calls, Queued(c), Admit(c)
    PROVE  GroupInv'
<1>0. \A d \in Calls : CallStep(d)
  BY AdmitSteps
<1>1. CASE DropQueued(c)
  BY <1>1, DropGroup DEF DropQueued
<1>2. CASE Send(c)
  BY <1>2, MoveGroup DEF Send
<1>3. CASE (\E stage \in {"identical", "prepared"} : calls' = [calls EXCEPT ![c].stage = stage])
           /\ UNCHANGED group
  BY <1>3, MoveGroup DEF QueueStages
<1>4. CASE calls' = Reserve([calls EXCEPT ![c].stage = "reservation"]) /\ UNCHANGED group
  <2> DEFINE cs == [calls EXCEPT ![c].stage = "reservation"]
  <2>1. /\ cs \in [Calls -> CallRecords]
        /\ cs[c].stage = "reservation" /\ \A d \in Calls \ {c} : cs[d] = calls[d]
    BY DEF Inv, TypeOK, CallRecords, QueueStages
  <2>2. calls' = Reserve(cs)
    BY <1>4
  <2> HIDE DEF cs
  <2>3. ASSUME NEW d \in FinalCalls
        PROVE  /\ Outstanding(d) => Outstanding(d)'
               /\ calls[d].stage = "awaiting" => calls'[d].stage = "awaiting"
    <3>1. d \in Calls
      BY DEF FinalCalls
    <3>2. \/ calls'[d].stage = cs[d].stage
          \/ calls'[d].stage = "prepared" /\ cs[d].stage \in QueueStages
      BY <2>1, <2>2, <3>1, ReserveCall
    <3>3. \/ d = c \/ cs[d] = calls[d]
      BY <2>1, <3>1
    <3> QED BY <2>1, <3>2, <3>3 DEF Outstanding, Queued, Active, QueueStages
  <2> QED BY <1>0, <1>4, <2>3, AwaitingIsFinal DEF Inv, GroupInv
<1> QED BY <1>1, <1>2, <1>3, <1>4 DEF Admit

LEMMA DispatchGroup ==
    ASSUME Inv, NEW c \in Calls, DispatchNext(c)
    PROVE  GroupInv'
<1>0. Queued(c)
  BY CandidateIsQueued DEF DispatchNext
<1>1. CASE DropQueued(c)
  BY <1>0, <1>1, DropGroup DEF DropQueued
<1>2. CASE Admit(c)
  BY <1>0, <1>2, AdmitGroup
<1>3. CASE FenceIsCurrent(c) /\ Deliver(c)
  BY <1>0, <1>3, CurrentIsNotVoided, DeliverGroup
<1>4. CASE (\E stage \in {"vertex", "preparing"} : calls' = [calls EXCEPT ![c].stage = stage])
           /\ UNCHANGED group
  BY <1>0, <1>4, MoveGroup DEF QueueStages
<1> QED
  BY <1>1, <1>2, <1>3, <1>4 DEF DispatchNext, AfterCache, Authorize

LEMMA PrepareDoneGroup ==
    ASSUME Inv, NEW c \in Calls, NEW r \in {"ready", "absent", "rejected", "error"},
           PrepareDone(c, r)
    PROVE  GroupInv'
<1>0. Queued(c)
  BY DEF PrepareDone, Queued, QueueStages
<1>1. CASE DropQueued(c)
  BY <1>0, <1>1, DropGroup DEF DropQueued
<1>2. CASE (\E stage \in {"cache", "credential"} : calls' = [calls EXCEPT ![c].stage = stage])
           /\ UNCHANGED group
  BY <1>0, <1>2, MoveGroup DEF QueueStages
<1> QED
  BY <1>1, <1>2 DEF PrepareDone

LEMMA CompleteGroup ==
    ASSUME Inv, NEW c \in Calls, NEW r \in {"ok", "rejected", "error"}, Complete(c, r)
    PROVE  GroupInv'
<1> DEFINE peers == {d \in Calls : Queued(d) /\ ProviderOf[d] = ProviderOf[c]}
<1>0. Active(c)
  BY DEF Complete
<1>1. CASE ~ IsStale(c) /\ Deliver(c)
  BY <1>0, <1>1, CurrentIsNotVoided, DeliverGroup DEF IsStale
<1>2. CASE \E S \in SUBSET Calls : S \subseteq {c} \cup peers /\ Drop(S)
  BY <1>0, <1>2, DropGroup
<1> QED
  BY <1>1, <1>2 DEF Complete

LEMMA CompleteVertexGroup ==
    ASSUME Inv, NEW r \in {"ready", "unarmed", "blocked"}, CompleteVertex(r)
    PROVE  GroupInv'
<1> DEFINE waiting == {c \in Calls : calls[c].stage = "vertex"}
           kept == IF r = "ready" THEN {c \in waiting : CaughtUp(c)} ELSE {}
           lost == IF r = "unarmed" THEN {} ELSE waiting \ kept
           cs == [c \in Calls |-> IF c \in kept THEN [calls[c] EXCEPT !.stage = "catalog"]
                                                ELSE calls[c]]
<1>1. DropFrom(cs, lost, {}, {})
  BY DEF CompleteVertex
<1>2. lost \in SUBSET waiting /\ kept \in SUBSET waiting /\ waiting \in SUBSET Calls
  OBVIOUS
<1>3. \A c \in waiting : Queued(c)
  BY DEF Queued, QueueStages
<1>4. /\ cs \in [Calls -> CallRecords]
      /\ \A c \in kept : cs[c].stage = "catalog"
      /\ \A c \in Calls \ kept : cs[c] = calls[c]
  <2>1. \A c \in Calls : calls[c] \in CallRecords
    BY DEF Inv, TypeOK
  <2> HIDE DEF kept
  <2> QED BY <1>2, <2>1 DEF CallRecords, QueueStages
<1>5. \A c \in Calls : CallStep(c)
  BY CompleteVertexSteps
<1> HIDE DEF lost, cs, kept, waiting
<1>6. \A c \in Calls : cs[c].stage = calls[c].stage \/ (Queued(c) /\ cs[c].stage \in QueueStages)
  BY <1>2, <1>3, <1>4 DEF QueueStages
<1>7. \A c \in lost : Queued(c)
  BY <1>2, <1>3
<1> QED BY <1>1, <1>2, <1>4, <1>5, <1>6, <1>7, DropFromGroup

LEMMA NextSteps ==
    ASSUME Inv, Next
    PROVE  \A c \in Calls : CallStep(c)
<1>1. CASE UNCHANGED calls
  BY <1>1, SameCalls
<1> QED
  BY <1>1, SetSwitchSteps, SetLaneSelectionSteps, SemanticsChangedSteps, ProviderChangedSteps,
     SetSubscriptionsSteps, ExpireSteps, BeginSessionSteps, SubmitSteps, SubmitFinalSteps,
     DispatchSteps, PrepareDoneSteps, RefreshProviderSteps, CompleteVertexSteps, CompleteSteps,
     ExpireGroupSteps, SettleGroupSteps
     DEF Next, Observe, RunSubscriptionNow, DriveVertex, PurgeReusableCache

LEMMA NextType ==
    ASSUME Inv, Next
    PROVE  TypeOK'
  BY ControlType, BeginSessionType, SubmitType, DispatchType, PrepareDoneType, VertexType,
     CompleteType, EndingType DEF Next, Inv

\* Cancelling controls, and the steps that leave the calls of the group alone.
LEMMA NextGroup ==
    ASSUME Inv, Next
    PROVE  GroupInv'
<1>0. \A c \in Calls : CallStep(c)
  BY NextSteps
<1>1. CASE \E S \in SUBSET Calls, fenced \in SUBSET Calls : Cancel(S, fenced)
  BY <1>0, <1>1, CancelGroup
<1>2. CASE group' = "none"
  BY <1>0, <1>2, GroupIsOver
<1>3. CASE UNCHANGED <<calls, group>>
  BY <1>0, <1>3, GroupKept DEF Stays
<1>4. CASE \E switch \in Switches : SetSwitch(switch)
  <2>1. PICK switch \in Switches : SetSwitch(switch)
    BY <1>4
  <2>2. Scope(switch) \in SUBSET Calls
    BY DEF Scope, InLane, Switches, Families
  <2> QED BY <1>1, <1>3, <2>1, <2>2 DEF SetSwitch
<1>5. CASE (\E family \in Families : SetLaneSelection(family)) \/ SemanticsChanged
  BY <1>1, <1>5 DEF SetLaneSelection, SemanticsChanged, Refence, Scope, InLane, Families
<1>6. CASE \E p \in Providers : ProviderChanged(p)
  BY <1>1, <1>6 DEF ProviderChanged
<1>7. CASE \E p \in Providers : RefreshProvider(p)
  <2>1. ASSUME NEW c \in FinalCalls PROVE Stays(c) \/ Moves(c)
    <3>1. \/ calls'[c] = calls[c]
          \/ calls[c].stage = "credential" /\ calls'[c] = [calls[c] EXCEPT !.stage = "auth"]
      BY <1>7 DEF RefreshProvider, FinalCalls
    <3>2. calls[c] \in CallRecords
      BY DEF Inv, TypeOK, FinalCalls
    <3> QED BY <3>1, <3>2 DEF Stays, Moves, Queued, QueueStages, CallRecords
  <2> QED BY <1>0, <1>7, <2>1, GroupKept DEF RefreshProvider
<1>8. CASE \E c \in Calls : SubmitLive(c) \/ SubmitAdHoc(c) \/ SubmitSubscription(c)
  <2>1. PICK c \in Calls : LaneOf[c] # "Final" /\ \E r : calls' = [calls EXCEPT ![c] = r]
    BY <1>8 DEF SubmitLive, SubmitAdHoc, SubmitSubscription
  <2>2. \A d \in FinalCalls : Stays(d)
    BY <2>1 DEF Stays, FinalCalls, Inv, TypeOK
  <2>3. group' = group
    BY <1>8 DEF SubmitLive, SubmitAdHoc, SubmitSubscription
  <2> QED BY <1>0, <2>2, <2>3, GroupKept
<1>9. CASE SubmitFinal
  <2>1. PICK seqs \in [FinalCalls -> NextSeq .. NextSeq + Cardinality(FinalCalls) - 1] :
          calls' = [c \in Calls |-> IF c \in FinalCalls THEN Enqueued(c, seqs[c]) ELSE calls[c]]
    BY <1>9 DEF SubmitFinal
  <2>2. FinalCalls \subseteq Calls /\ Cardinality(FinalCalls) \in Nat
    BY CoordinatorAssumption, FS_Subset, FS_CardinalityType DEF FinalCalls
  <2>3. \A c \in FinalCalls : seqs[c] \in Nat
    BY <2>2, NextSeqType
  <2>4. \A c \in FinalCalls : calls'[c].stage = "auth"
    BY <2>1, <2>2, <2>3, EnqueuedFields
  <2>5. \A c \in FinalCalls : Outstanding(c)'
    BY <2>4 DEF Outstanding, Queued, QueueStages
  <2> QED BY <1>0, <1>9, <2>5, AwaitingIsFinal DEF SubmitFinal, GroupInv
<1>10. CASE \E changed \in SUBSET Subscriptions : SetSubscriptions(changed)
  <2>1. PICK changed \in SUBSET Subscriptions : SetSubscriptions(changed)
    BY <1>10
  <2>2. UNION {OfSubscription(s) : s \in changed} \in SUBSET Calls /\ InLane("Pinned") \in SUBSET Calls
    BY DEF OfSubscription, InLane
  <2> QED BY <1>1, <2>1, <2>2 DEF SetSubscriptions
<1>11. CASE \E c \in Calls : Expire(c) \/ CancelQuestion(c)
  BY <1>1, <1>11 DEF Expire, CancelQuestion
<1> QED
  BY <1>2, <1>3, <1>4, <1>5, <1>6, <1>7, <1>8, <1>9, <1>10, <1>11, DispatchGroup, PrepareDoneGroup,
     CompleteGroup, CompleteVertexGroup
     DEF Next, BeginSession, ExpireGroup, SettleGroup, Observe, RunSubscriptionNow, DriveVertex,
         PurgeReusableCache

-----------------------------------------------------------------------------
(* Fences                                                                   *)

LEMMA RevisionsGrow ==
    ASSUME Inv, Next
    PROVE  rev' \in [Revisions -> Nat] /\ \A q \in Revisions : rev[q] <= rev'[q]
<1>1. CASE UNCHANGED rev
  BY <1>1 DEF Inv, TypeOK
<1>2. CASE \E r \in Revisions : Bump(r)
  BY <1>2, BumpType DEF Inv
<1>3. CASE \E switch \in Switches : SetSwitch(switch)
  <2>1. \A switch \in Switches : RevisionOf(switch) \in Revisions
    BY DEF RevisionOf, Revisions, Switches, Families
  <2> QED BY <1>2, <1>3, <2>1 DEF SetSwitch
<1>4. CASE (\E family \in Families : SetLaneSelection(family)) \/ SemanticsChanged
  BY <1>2, <1>4 DEF SetLaneSelection, SemanticsChanged, Refence, Revisions
<1>5. CASE BeginSession \/ \E changed \in SUBSET Subscriptions : SetSubscriptions(changed)
  BY <1>2, <1>5 DEF BeginSession, SetSubscriptions, Revisions
<1> QED
  BY <1>1, <1>3, <1>4, <1>5
     DEF Next, ProviderChanged, RefreshProvider, Observe, SubmitLive, SubmitAdHoc,
         SubmitSubscription, RunSubscriptionNow, SubmitFinal, DispatchNext, PrepareDone,
         DriveVertex, CompleteVertex, Complete, Expire, CancelQuestion, ExpireGroup, SettleGroup,
         PurgeReusableCache, Settings

\* Whatever the step does to a call, its fence stays behind the revisions, and out of
\* date once it is.
LEMMA StepsKeepFences ==
    ASSUME Inv, TypeOK', \A c \in Calls : CallStep(c),
           \A q \in Revisions : rev[q] <= rev'[q]
    PROVE  FenceInv' /\ VoidInv'
<1>0. rev \in [Revisions -> Nat] /\ rev' \in [Revisions -> Nat]
  BY DEF Inv, TypeOK
<1>1. ASSUME NEW c \in Calls
      PROVE  /\ LaneOf[c] \in Lanes /\ calls[c].fence \in Fences /\ calls'[c].fence \in Fences
             /\ {"session", "control", "pinned", Family(LaneOf[c])} \subseteq Revisions
  BY CoordinatorAssumption DEF Inv, TypeOK, CallRecords, Fences, Lanes, Family, Revisions, Families
<1>2. ASSUME NEW c \in Calls, Outstanding(c)'
      PROVE  \/ Outstanding(c) /\ calls'[c].fence = calls[c].fence
             \/ calls'[c].fence = Fence(LaneOf[c]) /\ ~ calls'[c].voided
  BY <1>2, EndedType DEF CallStep, Stays, Moves, Submits, Drops, Applies, Awaits, Outstanding, Queued,
     Active, QueueStages
<1>3. FenceInv'
  <2> SUFFICES ASSUME NEW c \in Calls, Outstanding(c)'
               PROVE  /\ calls'[c].fence.session <= rev'["session"]
                      /\ calls'[c].fence.control <= rev'["control"]
                      /\ calls'[c].fence.lane <= rev'[Family(LaneOf[c])]
                      /\ LaneOf[c] = "Pinned" => calls'[c].fence.question <= rev'["pinned"]
    BY DEF FenceInv
  <2>1. CASE Outstanding(c) /\ calls'[c].fence = calls[c].fence
    BY <1>0, <1>1, <2>1 DEF Inv, FenceInv, Fences
  <2>2. CASE calls'[c].fence = Fence(LaneOf[c])
    BY <1>0, <1>1, <2>2 DEF Fence
  <2> QED BY <1>2, <2>1, <2>2
<1>4. ASSUME NEW c \in Calls, Behind(c)
      PROVE  Passed(calls[c].fence, LaneOf[c], rev')
  BY <1>0, <1>1, <1>4 DEF Behind, Passed, Fences
<1>5. VoidInv'
  <2> SUFFICES ASSUME NEW c \in Calls, calls'[c].voided
               PROVE  /\ Outstanding(c)'
                      /\ \/ Passed(calls'[c].fence, LaneOf[c], rev')
                         \/ Active(c)' /\ calls'[c].cancelled
    BY DEF VoidInv, Behind
  <2>1. Stays(c) \/ Moves(c)
    BY EndedType DEF CallStep, Submits, Drops, Applies, Awaits
  <2>2. CASE Stays(c)
    <3>1. Outstanding(c) => Outstanding(c)'
      BY <2>2 DEF Stays, Outstanding, Queued, Active
    <3>2. Active(c) => Active(c)'
      BY <2>2 DEF Stays, Active
    <3>3. CASE calls[c].voided
      BY <1>4, <2>2, <3>1, <3>2, <3>3 DEF Stays, Inv, VoidInv
    <3>4. CASE Outstanding(c) /\ Passed(calls[c].fence, LaneOf[c], rev')
      BY <2>2, <3>1, <3>4 DEF Stays
    <3>5. CASE Active(c) /\ calls'[c].cancelled
      BY <3>1, <3>2, <3>5 DEF Outstanding
    <3> QED BY <2>2, <3>3, <3>4, <3>5 DEF Stays
  <2>3. CASE Moves(c)
    <3>1. Outstanding(c)'
      BY <2>3 DEF Moves, Outstanding, Queued, Active
    <3>2. calls[c].voided /\ ~ Active(c)
      BY <2>3, StagesDiffer DEF Moves
    <3> QED BY <1>4, <2>3, <3>1, <3>2 DEF Moves, Inv, VoidInv
  <2> QED BY <2>1, <2>2, <2>3
<1> QED BY <1>3, <1>5

LEMMA InvInit == Init => Inv
<1> SUFFICES ASSUME Init PROVE Inv
  OBVIOUS
<1>1. NoCall \in CallRecords
  BY DEF NoCall, CallRecords, QueueStages
<1>2. TypeOK
  BY <1>1 DEF Init, TypeOK, InLane, Revisions
<1>3. \A c \in Calls : ~ Outstanding(c) /\ ~ calls[c].voided /\ calls[c].stage # "awaiting"
  BY DEF Init, NoCall, Outstanding, Queued, Active, QueueStages
<1> QED BY <1>2, <1>3 DEF Init, Inv, FenceInv, VoidInv, GroupInv

LEMMA InvStep == Inv /\ [Next]_vars => Inv'
<1> SUFFICES ASSUME Inv, [Next]_vars PROVE Inv'
  OBVIOUS
<1>1. CASE Next
  <2>1. TypeOK' /\ GroupInv' /\ \A c \in Calls : CallStep(c)
    BY <1>1, NextType, NextGroup, NextSteps
  <2> QED BY <1>1, <2>1, RevisionsGrow, StepsKeepFences DEF Inv
<1>2. CASE UNCHANGED vars
  BY <1>2 DEF vars, Inv, TypeOK, FenceInv, VoidInv, GroupInv, Outstanding, Queued, Active, Behind, Passed,
     InLane
<1> QED BY <1>1, <1>2

\* The variables keep their types: the theorem that every other one rests on, with
\* what fences, voided calls and the Final group are at any moment.
THEOREM CoordinatorInvariant == Spec => []Inv
  BY InvInit, InvStep, PTL DEF Spec

\* Type correctness of the coordinator's state.
THEOREM CoordinatorTypeOK == Spec => []TypeOK
<1>1. Inv => TypeOK
  BY DEF Inv
<1> QED BY <1>1, CoordinatorInvariant, PTL

\* Nothing voided while outstanding is ever applied (Coordinator::complete and
\* mark_final_group_applied compare token and fence): a call that is applied was
\* outstanding and not voided in the step before.
THEOREM CoordinatorVoidedIsNeverApplied == Spec => VoidedIsNeverApplied
<1>1. Inv /\ [Next]_vars => [\A c \in Calls : calls[c].voided => calls'[c].stage # "applied"]_vars
  <2> SUFFICES ASSUME Inv, Next, NEW c \in Calls, calls[c].voided PROVE calls'[c].stage # "applied"
    OBVIOUS
  <2>1. CallStep(c) /\ Outstanding(c)
    BY NextSteps DEF Inv, VoidInv
  <2> QED BY <2>1, EndedType, StagesDiffer DEF CallStep, Stays, Moves, Submits, Drops, Applies, Awaits,
          HasEnded, QueueStages
<1> QED BY <1>1, CoordinatorInvariant, PTL DEF Spec, VoidedIsNeverApplied

\* A call ends once: no late answer, deadline or cancellation brings back a call that
\* was applied or dropped, or changes how it ended.
THEOREM CoordinatorEndsOnce == Spec => EndsOnce
<1>1. Inv /\ [Next]_vars => [\A c \in Calls : HasEnded(c) => calls'[c].stage = calls[c].stage]_vars
  <2> SUFFICES ASSUME Inv, Next, NEW c \in Calls, HasEnded(c) PROVE calls'[c].stage = calls[c].stage
    OBVIOUS
  <2>1. CallStep(c) /\ ~ Outstanding(c) /\ calls[c].stage # "new" /\ ~ Queued(c) /\ ~ Active(c)
    BY NextSteps, StagesDiffer DEF HasEnded, Outstanding
  <2> QED BY <2>1 DEF CallStep, Stays, Moves, Submits, Drops, Applies, Awaits
<1> QED BY <1>1, CoordinatorInvariant, PTL DEF Spec, EndsOnce

-----------------------------------------------------------------------------
(* The assistant window                                                     *)

\* QuestionStatusIsTrue of one question.
StatusIsTrue(c) ==
    /\ shown[c] \in {"queued", "waiting"} => Queued(c)
    /\ shown[c] = "running" => Active(c)
    /\ shown[c] = "none" => \/ calls[c].stage = "new" \/ HasEnded(c)
                            \/ Active(c) /\ calls[c].cancelled
    /\ shown[c] = "completed" <=> shown[c] # "none" /\ calls[c].stage = "applied"
    /\ shown[c] = "dropped" <=> shown[c] # "none" /\ calls[c].stage = "dropped"

\* What a step may do to a question and its call together.
QuestionStep(c) ==
    \/ /\ calls'[c].stage = calls[c].stage /\ shown'[c] = shown[c]
       /\ calls[c].cancelled => calls'[c].cancelled
    \/ /\ Queued(c) /\ calls'[c].stage \in QueueStages
       /\ shown'[c] \in {shown[c], "queued", "waiting"}
    \/ calls'[c].stage = "auth" /\ shown'[c] = "queued"
    \/ calls'[c].stage = "active" /\ shown'[c] = "running"
    \/ calls'[c].stage = "applied" /\ shown'[c] \in {"completed", "none"}
    \/ calls'[c].stage = "dropped" /\ shown'[c] \in {"dropped", "none"}
    \/ /\ calls'[c].stage = calls[c].stage /\ shown'[c] = "none"
       /\ calls[c].stage \in {"new", "applied", "dropped"} \/ (Active(c) /\ calls'[c].cancelled)

LEMMA QuestionStepKeepsStatus ==
    ASSUME Inv, TypeOK', NEW c \in InLane("AdHoc"), StatusIsTrue(c), QuestionStep(c)
    PROVE  StatusIsTrue(c)'
<1>1. shown[c] \in Statuses /\ shown'[c] \in Statuses
  BY DEF Inv, TypeOK, Statuses
<1> QED
  BY <1>1 DEF StatusIsTrue, QuestionStep, Statuses, Queued, Active, HasEnded, QueueStages

LEMMA TrimmedHides ==
    ASSUME NEW status, NEW d \in DOMAIN status
    PROVE  \/ Trimmed(status)[d] = status[d]
           \/ status[d] \in {"completed", "dropped"} /\ Trimmed(status)[d] = "none"
<1> DEFINE entries == {e \in DOMAIN status : status[e] # "none"}
           old == {e \in entries : status[e] \in {"completed", "dropped"}}
           first == CHOOSE e \in old : TRUE
<1>1. CASE Cardinality(entries) <= MaxVisible \/ old = {}
  BY <1>1 DEF Trimmed
<1>2. CASE ~ (Cardinality(entries) <= MaxVisible \/ old = {})
  <2>1. Trimmed(status) = [status EXCEPT ![first] = "none"]
    BY <1>2 DEF Trimmed
  <2>2. first \in old
    BY <1>2
  <2> HIDE DEF entries, first
  <2> QED BY <2>1, <2>2
<1> QED BY <1>1, <1>2

LEMMA DropFromQuestion ==
    ASSUME Inv, NEW cs \in [Calls -> CallRecords], NEW S \in SUBSET Calls, NEW cancelled,
           NEW fenced, DropFrom(cs, S, cancelled, fenced), NEW c \in InLane("AdHoc"),
           calls[c].cancelled => cs[c].cancelled,
           cs[c].stage = calls[c].stage \/ (Queued(c) /\ cs[c].stage \in QueueStages)
    PROVE  QuestionStep(c)
<1>1. c \in Calls /\ c \notin FinalCalls /\ c \notin Fallout(S)
  BY DEF InLane, FinalCalls, Fallout
<1>2. CASE c \in S
  <2>1. calls'[c] = Ended("dropped")
    BY <1>1, <1>2 DEF DropFrom
  <2>2. shown'[c] \in {"dropped", "none"}
    BY <1>2 DEF DropFrom
  <2> QED BY <2>1, <2>2, EndedType DEF QuestionStep
<1>3. CASE c \notin S
  <2>1. calls'[c].stage = cs[c].stage /\ (cs[c].cancelled => calls'[c].cancelled)
    BY <1>1, <1>3, DropFromCall DEF Inv
  <2>2. shown'[c] = shown[c]
    BY <1>1, <1>3 DEF DropFrom
  <2> QED BY <2>1, <2>2 DEF QuestionStep
<1> QED BY <1>2, <1>3

LEMMA CancelQuestions ==
    ASSUME Inv, NEW S \in SUBSET Calls, NEW fenced, Cancel(S, fenced), NEW c \in InLane("AdHoc")
    PROVE  QuestionStep(c)
<1>1. {d \in S : Queued(d)} \in SUBSET Calls /\ calls \in [Calls -> CallRecords]
  BY DEF Inv, TypeOK
<1> QED BY <1>1, DropFromQuestion DEF Cancel

LEMMA DropQuestions ==
    ASSUME Inv, NEW S \in SUBSET Calls, Drop(S), NEW c \in InLane("AdHoc")
    PROVE  QuestionStep(c)
<1>1. calls \in [Calls -> CallRecords]
  BY DEF Inv, TypeOK
<1> QED BY <1>1, DropFromQuestion DEF Drop

LEMMA SameQuestion ==
    ASSUME Inv, NEW d \in InLane("AdHoc"), calls'[d] = calls[d], shown'[d] = shown[d]
    PROVE  QuestionStep(d)
  BY DEF QuestionStep

\* A call that moves in the queue, with its status.
LEMMA MoveQuestions ==
    ASSUME Inv, NEW c \in Calls, Queued(c), NEW stage \in QueueStages,
           calls' = [calls EXCEPT ![c].stage = stage],
           \/ UNCHANGED shown
           \/ LaneOf[c] = "AdHoc" /\ shown' = [shown EXCEPT ![c] = "waiting"],
           NEW d \in InLane("AdHoc")
    PROVE  QuestionStep(d)
<1>0. d \in Calls
  BY DEF InLane
<1>1. CASE d = c
  <2>1. calls'[c].stage = stage
    BY DEF Inv, TypeOK, CallRecords
  <2>2. shown'[c] \in {shown[c], "waiting"}
    BY <1>1 DEF Inv, TypeOK
  <2> QED BY <1>1, <2>1, <2>2 DEF QuestionStep
<1>2. CASE d # c
  BY <1>0, <1>2, SameQuestion DEF Inv, TypeOK
<1> QED BY <1>1, <1>2

LEMMA DeliverQuestions ==
    ASSUME Inv, \A e \in InLane("AdHoc") : StatusIsTrue(e), NEW c \in Calls, Queued(c) \/ Active(c),
           Deliver(c), NEW d \in InLane("AdHoc")
    PROVE  QuestionStep(d)
<1>0. /\ d \in Calls /\ LaneOf[d] = "AdHoc" /\ calls \in [Calls -> CallRecords]
      /\ DOMAIN shown = InLane("AdHoc")
  BY DEF InLane, Inv, TypeOK
<1>1. CASE LaneOf[c] = "Final"
  <2> DEFINE cs == [calls EXCEPT ![c].stage = "awaiting"]
  <2>1. calls' = Reserve(cs) /\ UNCHANGED shown
    BY <1>1 DEF Deliver
  <2>2. cs \in [Calls -> CallRecords] /\ cs[d] = calls[d]
    BY <1>0, <1>1 DEF CallRecords
  <2> HIDE DEF cs
  <2>3. calls'[d].stage = calls[d].stage /\ calls'[d].cancelled = calls[d].cancelled
    BY <1>0, <2>1, <2>2, ReserveCall
  <2> QED BY <2>1, <2>3 DEF QuestionStep
<1>2. CASE LaneOf[c] # "Final"
  <2>1. PICK how \in {"applied", "dropped"} :
           calls' = [calls EXCEPT ![c] = Ended(how)] /\ (LaneOf[c] = "AdHoc" => how = "applied")
    BY <1>2 DEF Deliver
  <2>2. CASE LaneOf[c] = "AdHoc" /\ shown[c] # "none"
    <3> DEFINE status == [shown EXCEPT ![c] = "completed"]
    <3>1. shown' = Trimmed(status)
      BY <1>2, <2>2 DEF Deliver
    <3>2. d \in DOMAIN status /\ (d # c => status[d] = shown[d]) /\ status[c] = "completed"
      BY <1>0, <2>2 DEF InLane
    <3> HIDE DEF status
    <3>3. shown'[d] = status[d] \/ (status[d] \in {"completed", "dropped"} /\ shown'[d] = "none")
      BY <3>1, <3>2, TrimmedHides
    <3>4. CASE d = c
      <4>1. calls'[d].stage = "applied"
        BY <1>0, <2>1, <2>2, <3>4, EndedType
      <4> QED BY <3>2, <3>3, <3>4, <4>1 DEF QuestionStep
    <3>5. CASE d # c
      <4>1. calls'[d] = calls[d] /\ status[d] = shown[d]
        BY <1>0, <2>1, <3>2, <3>5
      <4>2. status[d] \in {"completed", "dropped"} => calls[d].stage \in {"applied", "dropped"}
        BY <4>1 DEF StatusIsTrue
      <4> QED BY <3>3, <4>1, <4>2 DEF QuestionStep
    <3> QED BY <3>4, <3>5
  <2>3. CASE ~ (LaneOf[c] = "AdHoc" /\ shown[c] # "none")
    <3>1. UNCHANGED shown
      BY <1>2, <2>3 DEF Deliver
    <3>2. CASE d = c
      <4>1. calls'[d].stage = "applied" /\ shown'[d] = "none"
        BY <1>0, <2>1, <2>3, <3>1, <3>2, EndedType
      <4> QED BY <4>1 DEF QuestionStep
    <3>3. CASE d # c
      BY <1>0, <2>1, <3>1, <3>3, SameQuestion
    <3> QED BY <3>2, <3>3
  <2> QED BY <2>2, <2>3
<1> QED BY <1>1, <1>2

LEMMA AdmitQuestions ==
    ASSUME Inv, NEW c \in Calls, Queued(c), Admit(c), NEW d \in InLane("AdHoc")
    PROVE  QuestionStep(d)
<1>0. d \in Calls /\ LaneOf[d] = "AdHoc" /\ calls \in [Calls -> CallRecords]
  BY DEF InLane, Inv, TypeOK
<1>1. CASE DropQueued(c)
  BY <1>1, DropQuestions DEF DropQueued
<1>2. CASE Send(c)
  <2>1. CASE d = c
    <3>1. calls'[d].stage = "active"
      BY <1>0, <1>2, <2>1 DEF Send, CallRecords
    <3>2. shown'[d] = "running"
      BY <1>0, <1>2, <2>1 DEF Send, Inv, TypeOK
    <3> QED BY <3>1, <3>2 DEF QuestionStep
  <2>2. CASE d # c
    BY <1>0, <1>2, <2>2, SameQuestion DEF Send, Inv, TypeOK
  <2> QED BY <2>1, <2>2
<1>3. CASE (\E stage \in {"identical", "prepared"} : calls' = [calls EXCEPT ![c].stage = stage])
           /\ UNCHANGED shown
  BY <1>3, MoveQuestions DEF QueueStages
<1>4. CASE /\ LaneOf[c] = "Final" /\ UNCHANGED shown
           /\ calls' = Reserve([calls EXCEPT ![c].stage = "reservation"])
  <2> DEFINE cs == [calls EXCEPT ![c].stage = "reservation"]
  <2>1. cs \in [Calls -> CallRecords] /\ cs[d] = calls[d]
    BY <1>0, <1>4 DEF CallRecords, QueueStages
  <2>2. calls' = Reserve(cs)
    BY <1>4
  <2> HIDE DEF cs
  <2>3. calls'[d].stage = calls[d].stage /\ calls'[d].cancelled = calls[d].cancelled
    BY <1>0, <2>1, <2>2, ReserveCall
  <2> QED BY <1>4, <2>3 DEF QuestionStep
<1> QED BY <1>1, <1>2, <1>3, <1>4 DEF Admit

LEMMA NextQuestions ==
    ASSUME Inv, QuestionStatusIsTrue, Next, NEW d \in InLane("AdHoc")
    PROVE  QuestionStep(d)
<1>0. /\ d \in Calls /\ LaneOf[d] = "AdHoc" /\ calls \in [Calls -> CallRecords]
      /\ DOMAIN shown = InLane("AdHoc") /\ d \notin FinalCalls
      /\ calls[d].stage # "awaiting"
  BY DEF InLane, Inv, TypeOK, GroupInv, FinalCalls
<1>s. \A e \in InLane("AdHoc") : StatusIsTrue(e)
  BY DEF QuestionStatusIsTrue, StatusIsTrue
<1>1. CASE \E S \in SUBSET Calls, fenced \in SUBSET Calls : Cancel(S, fenced)
  BY <1>1, CancelQuestions
<1>2. CASE calls'[d] = calls[d] /\ shown'[d] = shown[d]
  BY <1>2, SameQuestion
<1>3. CASE \E switch \in Switches : SetSwitch(switch)
  <2>1. PICK switch \in Switches : SetSwitch(switch)
    BY <1>3
  <2>2. Scope(switch) \in SUBSET Calls
    BY DEF Scope, InLane, Switches, Families
  <2> QED BY <1>1, <1>2, <2>1, <2>2 DEF SetSwitch
<1>4. CASE (\E family \in Families : SetLaneSelection(family)) \/ SemanticsChanged
  BY <1>1, <1>4 DEF SetLaneSelection, SemanticsChanged, Refence, Scope, InLane, Families
<1>5. CASE \E p \in Providers : ProviderChanged(p)
  BY <1>1, <1>5 DEF ProviderChanged
<1>6. CASE \E p \in Providers : RefreshProvider(p)
  <2>1. PICK p : RefreshProvider(p)
    BY <1>6
  <2> DEFINE S == {c \in Calls : ProviderOf[c] = p /\ calls[c].stage = "credential"}
  <2>2. CASE d \in S
    <3>1. calls'[d] = [calls[d] EXCEPT !.stage = "auth"] /\ Queued(d)
      BY <1>0, <2>1, <2>2 DEF RefreshProvider, Queued, QueueStages
    <3>2. calls'[d].stage \in QueueStages
      BY <1>0, <3>1 DEF CallRecords, QueueStages
    <3>3. shown'[d] \in {shown[d], "queued"}
      BY <2>1, <2>2 DEF RefreshProvider
    <3> QED BY <3>1, <3>2, <3>3 DEF QuestionStep
  <2>3. CASE d \notin S
    BY <1>0, <1>2, <2>1, <2>3 DEF RefreshProvider
  <2> QED BY <2>2, <2>3
<1>7. CASE BeginSession
  <2>1. shown'[d] = "none"
    BY <1>7 DEF BeginSession
  <2>2. CASE Queued(d)
    BY <1>0, <1>7, <2>1, <2>2, EndedType DEF BeginSession, QuestionStep
  <2>3. CASE ~ Queued(d)
    <3>1. calls'[d] = [calls[d] EXCEPT !.cancelled = @ \/ Active(d), !.voided = @ \/ Active(d)]
      BY <1>0, <1>7, <2>3 DEF BeginSession
    <3>2. calls[d] \in CallRecords
      BY <1>0
    <3>3. calls'[d].stage = calls[d].stage /\ (Active(d) => calls'[d].cancelled)
      BY <3>1, <3>2 DEF CallRecords
    <3>4. calls[d].stage \in {"new", "applied", "dropped"} \/ Active(d)
      BY <1>0, <2>3, <3>2 DEF CallRecords, Queued, Active
    <3> QED BY <2>1, <3>3, <3>4 DEF QuestionStep
  <2> QED BY <2>2, <2>3
<1>8. CASE \E c \in Calls : SubmitLive(c) \/ SubmitSubscription(c)
  <2>1. PICK c \in Calls : LaneOf[c] # "AdHoc" /\ calls' = [calls EXCEPT ![c] = Enqueued(c, NextSeq)]
                           /\ UNCHANGED shown
    BY <1>8 DEF SubmitLive, SubmitSubscription
  <2> QED BY <1>0, <1>2, <2>1
<1>9. CASE \E c \in Calls : SubmitAdHoc(c)
  <2>1. PICK c \in Calls : SubmitAdHoc(c)
    BY <1>9
  <2> DEFINE status == [shown EXCEPT ![c] = "queued"]
  <2>2. shown' = Trimmed(status)
    BY <2>1 DEF SubmitAdHoc
  <2>3. /\ d \in DOMAIN status /\ (d # c => status[d] = shown[d]) /\ (d = c => status[d] = "queued")
    BY <1>0
  <2> HIDE DEF status
  <2>4. shown'[d] = status[d] \/ (status[d] \in {"completed", "dropped"} /\ shown'[d] = "none")
    BY <2>2, <2>3, TrimmedHides
  <2>5. CASE d = c
    <3>1. calls'[d].stage = "auth"
      BY <1>0, <2>1, <2>5, EnqueuedFields, NextSeqType DEF SubmitAdHoc
    <3> QED BY <2>3, <2>4, <2>5, <3>1 DEF QuestionStep
  <2>6. CASE d # c
    <3>1. calls'[d] = calls[d] /\ status[d] = shown[d]
      BY <1>0, <2>1, <2>3, <2>6 DEF SubmitAdHoc
    <3>2. status[d] \in {"completed", "dropped"} => calls[d].stage \in {"applied", "dropped"}
      BY <1>s, <3>1 DEF StatusIsTrue
    <3> QED BY <2>4, <3>1, <3>2 DEF QuestionStep
  <2> QED BY <2>5, <2>6
<1>10. CASE SubmitFinal
  BY <1>0, <1>2, <1>10 DEF SubmitFinal
<1>11. CASE \E changed \in SUBSET Subscriptions : SetSubscriptions(changed)
  <2>1. PICK changed \in SUBSET Subscriptions : SetSubscriptions(changed)
    BY <1>11
  <2>2. UNION {OfSubscription(s) : s \in changed} \in SUBSET Calls /\ InLane("Pinned") \in SUBSET Calls
    BY DEF OfSubscription, InLane
  <2> QED BY <1>1, <2>1, <2>2 DEF SetSubscriptions
<1>12. CASE \E c \in Calls : DispatchNext(c)
  <2>1. PICK c \in Calls : DispatchNext(c)
    BY <1>12
  <2>2. Queued(c)
    BY <2>1, CandidateIsQueued DEF DispatchNext
  <2>3. CASE DropQueued(c)
    BY <2>3, DropQuestions DEF DropQueued
  <2>4. CASE Admit(c)
    BY <2>2, <2>4, AdmitQuestions
  <2>5. CASE Deliver(c)
    BY <1>s, <2>2, <2>5, DeliverQuestions
  <2>6. CASE /\ \E stage \in {"vertex", "preparing"} : calls' = [calls EXCEPT ![c].stage = stage]
             /\ \/ UNCHANGED shown
                \/ LaneOf[c] = "AdHoc" /\ shown' = [shown EXCEPT ![c] = "waiting"]
    BY <2>2, <2>6, MoveQuestions DEF QueueStages
  <2> QED BY <2>1, <2>3, <2>4, <2>5, <2>6 DEF DispatchNext, AfterCache, Authorize
<1>13. CASE \E c \in Calls, r \in {"ready", "absent", "rejected", "error"} : PrepareDone(c, r)
  <2>1. PICK c \in Calls, r \in {"ready", "absent", "rejected", "error"} : PrepareDone(c, r)
    BY <1>13
  <2>2. Queued(c)
    BY <2>1 DEF PrepareDone, Queued, QueueStages
  <2>3. CASE DropQueued(c)
    BY <2>3, DropQuestions DEF DropQueued
  <2>4. CASE /\ \E stage \in {"cache", "credential"} : calls' = [calls EXCEPT ![c].stage = stage]
             /\ \/ UNCHANGED shown
                \/ LaneOf[c] = "AdHoc" /\ shown' = [shown EXCEPT ![c] = "waiting"]
    BY <2>2, <2>4, MoveQuestions DEF QueueStages
  <2> QED BY <2>1, <2>3, <2>4 DEF PrepareDone
<1>14. CASE \E r \in {"ready", "unarmed", "blocked"} : CompleteVertex(r)
  <2>1. PICK r \in {"ready", "unarmed", "blocked"} : CompleteVertex(r)
    BY <1>14
  <2> DEFINE waiting == {c \in Calls : calls[c].stage = "vertex"}
             kept == IF r = "ready" THEN {c \in waiting : CaughtUp(c)} ELSE {}
             lost == IF r = "unarmed" THEN {} ELSE waiting \ kept
             cs == [c \in Calls |-> IF c \in kept THEN [calls[c] EXCEPT !.stage = "catalog"]
                                                  ELSE calls[c]]
  <2>2. DropFrom(cs, lost, {}, {}) /\ lost \in SUBSET Calls
    BY <2>1 DEF CompleteVertex
  <2>3. \A c \in Calls : c \in kept => Queued(c)
    BY DEF Queued, QueueStages
  <2>4. /\ cs \in [Calls -> CallRecords]
        /\ cs[d].cancelled = calls[d].cancelled
        /\ cs[d].stage = IF d \in kept THEN "catalog" ELSE calls[d].stage
    <3> HIDE DEF kept
    <3> QED BY <1>0 DEF CallRecords, QueueStages
  <2>5. cs[d].stage = calls[d].stage \/ (Queued(d) /\ cs[d].stage \in QueueStages)
    <3> HIDE DEF kept, cs
    <3> QED BY <1>0, <2>3, <2>4 DEF QueueStages
  <2> HIDE DEF waiting, kept, lost, cs
  <2> QED BY <2>2, <2>4, <2>5, DropFromQuestion
<1>15. CASE \E c \in Calls, r \in {"ok", "rejected", "error"} : Complete(c, r)
  <2>1. PICK c \in Calls, r \in {"ok", "rejected", "error"} : Complete(c, r)
    BY <1>15
  <2> DEFINE peers == {e \in Calls : Queued(e) /\ ProviderOf[e] = ProviderOf[c]}
  <2>2. Active(c) /\ ({c} \cup peers) \in SUBSET Calls /\ {c} \in SUBSET Calls
    BY <2>1 DEF Complete
  <2>3. CASE Deliver(c)
    BY <1>s, <2>2, <2>3, DeliverQuestions
  <2>4. CASE \E S \in SUBSET Calls : Drop(S)
    BY <2>4, DropQuestions
  <2> QED BY <2>1, <2>2, <2>3, <2>4 DEF Complete
<1>16. CASE \E c \in Calls : Expire(c) \/ CancelQuestion(c)
  BY <1>1, <1>16 DEF Expire, CancelQuestion
<1>17. CASE ExpireGroup
  <2>1. calls'[d] = [calls[d] EXCEPT !.cancelled = @ \/ d \in FinalCalls \ {FirstFinal}]
    BY <1>0, <1>17 DEF ExpireGroup
  <2>2. calls'[d].stage = calls[d].stage /\ (calls[d].cancelled => calls'[d].cancelled)
    BY <1>0, <2>1 DEF CallRecords
  <2> QED BY <1>17, <2>2 DEF ExpireGroup, QuestionStep
<1>18. CASE SettleGroup
  BY <1>0, <1>2, <1>18 DEF SettleGroup
<1> QED
  BY <1>2, <1>3, <1>4, <1>5, <1>6, <1>7, <1>8, <1>9, <1>10, <1>11, <1>12, <1>13, <1>14, <1>15,
     <1>16, <1>17, <1>18
     DEF Next, Observe, RunSubscriptionNow, DriveVertex, PurgeReusableCache

\* The assistant window tells the truth (ad_hoc_exchanges follows the call through
\* every drop, cancellation, delivery and trimming): a question is shown as pending
\* exactly while its call is queued or running.
THEOREM CoordinatorQuestionStatusIsTrue == Spec => []QuestionStatusIsTrue
<1>1. Init => QuestionStatusIsTrue
  BY DEF Init, QuestionStatusIsTrue, InLane, NoCall
<1>2. Inv /\ QuestionStatusIsTrue /\ [Next]_vars => QuestionStatusIsTrue'
  <2> SUFFICES ASSUME Inv, QuestionStatusIsTrue, [Next]_vars PROVE QuestionStatusIsTrue'
    OBVIOUS
  <2>1. CASE Next
    <3>1. TypeOK'
      BY <2>1, InvStep DEF Inv
    <3>2. \A c \in InLane("AdHoc") : StatusIsTrue(c)'
      BY <2>1, <3>1, NextQuestions, QuestionStepKeepsStatus DEF QuestionStatusIsTrue, StatusIsTrue
    <3> QED BY <3>2 DEF QuestionStatusIsTrue, StatusIsTrue, InLane
  <2>2. CASE UNCHANGED vars
    BY <2>2 DEF vars, QuestionStatusIsTrue, Queued, Active, HasEnded, InLane
  <2> QED BY <2>1, <2>2
<1> QED BY <1>1, <1>2, CoordinatorInvariant, PTL DEF Spec

-----------------------------------------------------------------------------
(* Requests in flight                                                       *)

\* No call starts.
Quiet == \A c \in Calls : calls'[c].stage = "active" => Active(c)

\* One call starts, with everything dispatch_next looked at.
Starts(c) ==
    /\ calls' = [calls EXCEPT ![c].stage = "active"] /\ Queued(c)
    /\ HasProviderCapacity(c) /\ ~ LaneIsFull(LaneOf[c]) /\ ~ IdenticalIsActive(c)

LEMMA LimitsAreNumbers ==
    /\ MaxGlobal \in Nat /\ MaxProvider \in Nat /\ \A lane \in Lanes : LaneLimit(lane) \in Nat
  BY CoordinatorAssumption DEF LaneLimit, Lanes

LEMMA CallSetsAreFinite ==
    ASSUME NEW S \in SUBSET Calls
    PROVE  /\ IsFiniteSet(S) /\ Cardinality(S) \in Nat
           /\ \A T \in SUBSET S : Cardinality(T) <= Cardinality(S) /\ Cardinality(T) \in Nat
<1>1. IsFiniteSet(S)
  BY CoordinatorAssumption, FS_Subset
<1>2. \A T \in SUBSET S : IsFiniteSet(T) /\ Cardinality(T) <= Cardinality(S)
  BY <1>1, FS_Subset
<1> QED BY <1>1, <1>2, FS_CardinalityType

\* Fewer calls in flight are within the limits that more calls were within.
LEMMA EgressShrinks ==
    ASSUME EgressIsBounded, Quiet
    PROVE  EgressIsBounded'
<1> DEFINE Act == ActiveCalls
           ActNext == ActiveCalls'
<1>0. ActNext \in SUBSET Act /\ Act \in SUBSET Calls
  BY DEF Quiet, ActiveCalls, Active
<1>1. /\ ActiveCalls' = ActNext
      /\ \A p : {c \in ActiveCalls : ProviderOf[c] = p}' = {c \in ActNext : ProviderOf[c] = p}
      /\ \A lane : {c \in InLane(lane) : Active(c)}' = {c \in ActNext : LaneOf[c] = lane}
      /\ \A lane : {c \in InLane(lane) : Active(c)} = {c \in Act : LaneOf[c] = lane}
  BY DEF ActiveCalls, InLane, Active
<1>2. /\ Cardinality(Act) <= MaxGlobal
      /\ \A p \in Providers : Cardinality({c \in Act : ProviderOf[c] = p}) <= MaxProvider
      /\ \A lane \in Lanes : Cardinality({c \in Act : LaneOf[c] = lane}) <= LaneLimit(lane)
      /\ \A c, d \in Act : c # d => KeyOf[c] # KeyOf[d]
  BY <1>1 DEF EgressIsBounded
<1> HIDE DEF Act, ActNext
<1>3. ASSUME NEW T \in SUBSET Act, NEW S \in SUBSET T, NEW n \in Nat, Cardinality(T) <= n
      PROVE  Cardinality(S) <= n
  <2>1. Cardinality(S) <= Cardinality(T) /\ Cardinality(S) \in Nat /\ Cardinality(T) \in Nat
    BY <1>0, CallSetsAreFinite
  <2> QED BY <1>3, <2>1
<1>4. Cardinality(ActNext) <= MaxGlobal
  BY <1>0, <1>2, <1>3, LimitsAreNumbers
<1>5. ASSUME NEW p \in Providers PROVE Cardinality({c \in ActNext : ProviderOf[c] = p}) <= MaxProvider
  BY <1>0, <1>2, <1>3, LimitsAreNumbers
<1>6. ASSUME NEW lane \in Lanes PROVE Cardinality({c \in ActNext : LaneOf[c] = lane}) <= LaneLimit(lane)
  BY <1>0, <1>2, <1>3, LimitsAreNumbers
<1>7. \A c, d \in ActNext : c # d => KeyOf[c] # KeyOf[d]
  BY <1>0, <1>2
<1> QED BY <1>1, <1>4, <1>5, <1>6, <1>7 DEF EgressIsBounded, LaneLimit

\* One more call in flight is within them when each had room for it.
LEMMA EgressGrows ==
    ASSUME Inv, EgressIsBounded, NEW c \in Calls, Starts(c)
    PROVE  EgressIsBounded'
<1> DEFINE Act == ActiveCalls
           ActNext == ActiveCalls \cup {c}
<1>0. Act \in SUBSET Calls
  BY DEF ActiveCalls
<1>1. /\ ActiveCalls' = ActNext
      /\ \A p : {d \in ActiveCalls : ProviderOf[d] = p}' = {d \in ActNext : ProviderOf[d] = p}
      /\ \A lane : {d \in InLane(lane) : Active(d)}' = {d \in ActNext : LaneOf[d] = lane}
      /\ \A lane : {d \in InLane(lane) : Active(d)} = {d \in Act : LaneOf[d] = lane}
  <2>1. \A d \in Calls : Active(d)' <=> (d = c \/ Active(d))
    BY DEF Active, Starts, Inv, TypeOK, CallRecords
  <2> QED BY <2>1 DEF ActiveCalls, InLane
<1>2. /\ Cardinality(Act) < MaxGlobal
      /\ Cardinality({d \in Act : ProviderOf[d] = ProviderOf[c]}) < MaxProvider
      /\ ~ (Cardinality({d \in Act : LaneOf[d] = LaneOf[c]}) >= LaneLimit(LaneOf[c]))
      /\ \A d \in Act : KeyOf[d] # KeyOf[c]
  BY <1>1 DEF Starts, HasProviderCapacity, LaneIsFull, IdenticalIsActive
<1>3. /\ Cardinality(Act) <= MaxGlobal
      /\ \A p \in Providers : Cardinality({d \in Act : ProviderOf[d] = p}) <= MaxProvider
      /\ \A lane \in Lanes : Cardinality({d \in Act : LaneOf[d] = lane}) <= LaneLimit(lane)
      /\ \A d, e \in Act : d # e => KeyOf[d] # KeyOf[e]
  BY <1>1 DEF EgressIsBounded
<1> HIDE DEF Act
<1>4. ASSUME NEW T \in SUBSET Act, NEW n \in Nat, ~ (Cardinality(T) >= n)
      PROVE  Cardinality(T \cup {c}) <= n
  <2>1. IsFiniteSet(T) /\ Cardinality(T) \in Nat
    BY <1>0, CallSetsAreFinite
  <2>2. Cardinality(T \cup {c}) \in {Cardinality(T), Cardinality(T) + 1}
    BY <2>1, FS_AddElement
  <2> QED BY <1>4, <2>1, <2>2
<1>5. Cardinality(ActNext) <= MaxGlobal
  <2>1. ActNext = Act \cup {c} /\ ~ (Cardinality(Act) >= MaxGlobal)
    BY <1>0, <1>2, LimitsAreNumbers, CallSetsAreFinite DEF Act
  <2> QED BY <1>4, <2>1, LimitsAreNumbers
<1>6. ASSUME NEW p \in Providers PROVE Cardinality({d \in ActNext : ProviderOf[d] = p}) <= MaxProvider
  <2>1. CASE p = ProviderOf[c]
    <3>1. {d \in ActNext : ProviderOf[d] = p} = {d \in Act : ProviderOf[d] = p} \cup {c}
      BY <2>1 DEF Act
    <3>2. {d \in Act : ProviderOf[d] = p} \in SUBSET Act
      OBVIOUS
    <3>3. ~ (Cardinality({d \in Act : ProviderOf[d] = p}) >= MaxProvider)
      <4>1. Cardinality({d \in Act : ProviderOf[d] = p}) \in Nat
        BY <1>0, <3>2, CallSetsAreFinite
      <4> QED BY <1>2, <2>1, <4>1, LimitsAreNumbers
    <3> QED BY <1>4, <3>1, <3>2, <3>3, LimitsAreNumbers
  <2>2. CASE p # ProviderOf[c]
    <3>1. {d \in ActNext : ProviderOf[d] = p} = {d \in Act : ProviderOf[d] = p}
      BY <2>2 DEF Act
    <3> QED BY <1>3, <3>1
  <2> QED BY <2>1, <2>2
<1>7. ASSUME NEW lane \in Lanes PROVE Cardinality({d \in ActNext : LaneOf[d] = lane}) <= LaneLimit(lane)
  <2>1. CASE lane = LaneOf[c]
    <3>1. {d \in ActNext : LaneOf[d] = lane} = {d \in Act : LaneOf[d] = lane} \cup {c}
      BY <2>1 DEF Act
    <3>2. {d \in Act : LaneOf[d] = lane} \in SUBSET Act
      OBVIOUS
    <3> QED BY <1>2, <1>4, <2>1, <3>1, <3>2, LimitsAreNumbers
  <2>2. CASE lane # LaneOf[c]
    <3>1. {d \in ActNext : LaneOf[d] = lane} = {d \in Act : LaneOf[d] = lane}
      BY <2>2 DEF Act
    <3> QED BY <1>3, <3>1
  <2> QED BY <2>1, <2>2
<1>8. \A d, e \in ActNext : d # e => KeyOf[d] # KeyOf[e]
  BY <1>2, <1>3 DEF Act
<1> HIDE DEF ActNext
<1> QED BY <1>1, <1>5, <1>6, <1>7, <1>8 DEF EgressIsBounded, LaneLimit

LEMMA DropFromQuiet ==
    ASSUME TypeOK, NEW cs \in [Calls -> CallRecords], NEW S \in SUBSET Calls, NEW cancelled,
           NEW fenced, DropFrom(cs, S, cancelled, fenced),
           \A c \in Calls : cs[c].stage = "active" => Active(c)
    PROVE  Quiet
<1>1. \A c \in Calls : calls'[c] = Ended("dropped") \/ calls'[c].stage = cs[c].stage
  BY DropFromCall, ZenonT(60)
<1>2. Ended("dropped").stage # "active"
  BY EndedType
<1> QED BY <1>1, <1>2 DEF Quiet

LEMMA CancelQuiet ==
    ASSUME TypeOK, NEW S \in SUBSET Calls, NEW fenced, Cancel(S, fenced)
    PROVE  Quiet
<1>1. {d \in S : Queued(d)} \in SUBSET Calls /\ calls \in [Calls -> CallRecords]
  BY DEF TypeOK
<1> QED BY <1>1, DropFromQuiet DEF Cancel, Active

LEMMA DropQuiet ==
    ASSUME TypeOK, NEW S \in SUBSET Calls, Drop(S)
    PROVE  Quiet
<1>1. calls \in [Calls -> CallRecords]
  BY DEF TypeOK
<1> QED BY <1>1, DropFromQuiet DEF Drop, Active

LEMMA MoveQuiet ==
    ASSUME TypeOK, NEW c \in Calls, NEW stage \in QueueStages \cup {"awaiting"},
           \/ calls' = [calls EXCEPT ![c].stage = stage]
           \/ calls' = Reserve([calls EXCEPT ![c].stage = stage])
    PROVE  Quiet
<1> DEFINE cs == [calls EXCEPT ![c].stage = stage]
<1>1. /\ cs \in [Calls -> CallRecords]
      /\ cs[c].stage = stage /\ \A d \in Calls \ {c} : cs[d] = calls[d]
  BY SMTT(30) DEF TypeOK, CallRecords
<1>2. calls' = cs \/ calls' = Reserve(cs)
  OBVIOUS
<1> HIDE DEF cs
<1>3. \A d \in Calls : calls'[d].stage = cs[d].stage \/ calls'[d].stage = "prepared"
  BY <1>1, <1>2, ReserveCall
<1> QED BY <1>1, <1>3 DEF Quiet, Active, QueueStages

LEMMA DeliverQuiet ==
    ASSUME TypeOK, NEW c \in Calls, Deliver(c)
    PROVE  Quiet
<1>1. CASE LaneOf[c] = "Final"
  BY <1>1, MoveQuiet DEF Deliver
<1>2. CASE LaneOf[c] # "Final"
  <2>1. PICK how \in {"applied", "dropped"} : calls' = [calls EXCEPT ![c] = Ended(how)]
    BY <1>2 DEF Deliver
  <2>2. Ended(how).stage # "active"
    BY EndedType
  <2> QED BY <2>1, <2>2 DEF Quiet, Active, TypeOK
<1> QED BY <1>1, <1>2

\* Of all steps only a dispatch starts a call.
LEMMA DispatchStarts ==
    ASSUME Inv, NEW c \in Calls, DispatchNext(c)
    PROVE  Quiet \/ Starts(c)
<1>0. Queued(c) /\ ~ LaneIsFull(LaneOf[c]) /\ TypeOK
  BY CandidateIsQueued DEF DispatchNext, IsCandidate, Eligible, Inv
<1>1. CASE DropQueued(c)
  BY <1>0, <1>1, DropQuiet DEF DropQueued
<1>2. CASE Admit(c)
  <2>1. CASE Send(c) /\ ~ IdenticalIsActive(c) /\ HasProviderCapacity(c)
    BY <1>0, <2>1 DEF Send, Starts
  <2>2. CASE \E stage \in {"identical", "prepared", "reservation"} :
                \/ calls' = [calls EXCEPT ![c].stage = stage]
                \/ calls' = Reserve([calls EXCEPT ![c].stage = stage])
    BY <1>0, <2>2, MoveQuiet DEF QueueStages
  <2> QED BY <1>1, <1>2, <2>1, <2>2 DEF Admit
<1>3. CASE Deliver(c)
  BY <1>0, <1>3, DeliverQuiet
<1>4. CASE \E stage \in {"vertex", "preparing"} : calls' = [calls EXCEPT ![c].stage = stage]
  BY <1>0, <1>4, MoveQuiet DEF QueueStages
<1> QED
  BY <1>1, <1>2, <1>3, <1>4 DEF DispatchNext, AfterCache, Authorize

LEMMA NextStarts ==
    ASSUME Inv, Next
    PROVE  Quiet \/ \E c \in Calls : DispatchNext(c) /\ Starts(c)
<1>0. TypeOK /\ calls \in [Calls -> CallRecords]
  BY DEF Inv, TypeOK
<1>1. CASE \E S \in SUBSET Calls, fenced \in SUBSET Calls : Cancel(S, fenced)
  BY <1>0, <1>1, CancelQuiet
<1>2. CASE UNCHANGED calls
  BY <1>2 DEF Quiet, Active
<1>3. CASE \E switch \in Switches : SetSwitch(switch)
  <2>1. PICK switch \in Switches : SetSwitch(switch)
    BY <1>3
  <2>2. Scope(switch) \in SUBSET Calls
    BY DEF Scope, InLane, Switches, Families
  <2> QED BY <1>1, <1>2, <2>1, <2>2 DEF SetSwitch
<1>4. CASE (\E family \in Families : SetLaneSelection(family)) \/ SemanticsChanged
  BY <1>1, <1>4 DEF SetLaneSelection, SemanticsChanged, Refence, Scope, InLane, Families
<1>5. CASE \E p \in Providers : ProviderChanged(p)
  BY <1>1, <1>5 DEF ProviderChanged
<1>6. CASE \E p \in Providers : RefreshProvider(p)
  <2>1. ASSUME NEW c \in Calls
        PROVE  calls'[c] = calls[c] \/ calls'[c] = [calls[c] EXCEPT !.stage = "auth"]
    BY <1>6 DEF RefreshProvider
  <2> QED BY <1>0, <2>1 DEF Quiet, Active, CallRecords
<1>7. CASE BeginSession
  <2>1. ASSUME NEW c \in Calls
        PROVE  \/ calls'[c] = Ended("dropped")
               \/ calls'[c] = [calls[c] EXCEPT !.cancelled = @ \/ Active(c), !.voided = @ \/ Active(c)]
    BY <1>7 DEF BeginSession
  <2>2. Ended("dropped").stage # "active"
    BY EndedType
  <2>3. ASSUME NEW c \in Calls
        PROVE  [calls[c] EXCEPT !.cancelled = @ \/ Active(c), !.voided = @ \/ Active(c)].stage
                  = calls[c].stage
    BY <1>0 DEF CallRecords
  <2> QED BY <2>1, <2>2, <2>3 DEF Quiet, Active
<1>8. CASE (\E c \in Calls : SubmitLive(c) \/ SubmitAdHoc(c) \/ SubmitSubscription(c)) \/ SubmitFinal
  <2>1. ASSUME NEW c \in Calls PROVE calls'[c] = calls[c] \/ \E seq : calls'[c] = Enqueued(c, seq)
    BY <1>0, <1>8, ZenonT(60) DEF SubmitLive, SubmitAdHoc, SubmitSubscription, SubmitFinal
  <2>2. \A c, seq : Enqueued(c, seq).stage = "auth"
    BY DEF Enqueued, NoCall
  <2> QED BY <2>1, <2>2 DEF Quiet, Active
<1>9. CASE \E changed \in SUBSET Subscriptions : SetSubscriptions(changed)
  <2>1. PICK changed \in SUBSET Subscriptions : SetSubscriptions(changed)
    BY <1>9
  <2>2. UNION {OfSubscription(s) : s \in changed} \in SUBSET Calls /\ InLane("Pinned") \in SUBSET Calls
    BY DEF OfSubscription, InLane
  <2> QED BY <1>1, <2>1, <2>2 DEF SetSubscriptions
<1>10. CASE \E c \in Calls, r \in {"ready", "absent", "rejected", "error"} : PrepareDone(c, r)
  <2>1. PICK c \in Calls, r \in {"ready", "absent", "rejected", "error"} : PrepareDone(c, r)
    BY <1>10
  <2>2. CASE DropQueued(c)
    BY <1>0, <2>2, DropQuiet DEF DropQueued
  <2>3. CASE \E stage \in {"cache", "credential"} : calls' = [calls EXCEPT ![c].stage = stage]
    BY <1>0, <2>3, MoveQuiet DEF QueueStages
  <2> QED BY <2>1, <2>2, <2>3 DEF PrepareDone
<1>11. CASE \E r \in {"ready", "unarmed", "blocked"} : CompleteVertex(r)
  <2>1. PICK r \in {"ready", "unarmed", "blocked"} : CompleteVertex(r)
    BY <1>11
  <2> DEFINE waiting == {c \in Calls : calls[c].stage = "vertex"}
             kept == IF r = "ready" THEN {c \in waiting : CaughtUp(c)} ELSE {}
             lost == IF r = "unarmed" THEN {} ELSE waiting \ kept
             cs == [c \in Calls |-> IF c \in kept THEN [calls[c] EXCEPT !.stage = "catalog"]
                                                  ELSE calls[c]]
  <2>2. DropFrom(cs, lost, {}, {}) /\ lost \in SUBSET Calls
    BY <2>1 DEF CompleteVertex
  <2>3. /\ cs \in [Calls -> CallRecords]
        /\ \A c \in Calls : cs[c].stage = "active" => Active(c)
    <3> HIDE DEF kept
    <3> QED BY <1>0 DEF CallRecords, QueueStages, Active
  <2> HIDE DEF waiting, kept, lost, cs
  <2> QED BY <1>0, <2>2, <2>3, DropFromQuiet
<1>12. CASE \E c \in Calls, r \in {"ok", "rejected", "error"} : Complete(c, r)
  <2>1. PICK c \in Calls, r \in {"ok", "rejected", "error"} : Complete(c, r)
    BY <1>12
  <2> DEFINE peers == {e \in Calls : Queued(e) /\ ProviderOf[e] = ProviderOf[c]}
  <2>2. ({c} \cup peers) \in SUBSET Calls /\ {c} \in SUBSET Calls
    OBVIOUS
  <2>3. CASE Deliver(c)
    BY <1>0, <2>3, DeliverQuiet
  <2>4. CASE \E S \in SUBSET Calls : Drop(S)
    BY <1>0, <2>4, DropQuiet
  <2> QED BY <2>1, <2>2, <2>3, <2>4 DEF Complete
<1>13. CASE \E c \in Calls : Expire(c) \/ CancelQuestion(c)
  BY <1>1, <1>13 DEF Expire, CancelQuestion
<1>14. CASE ExpireGroup
  <2>1. ASSUME NEW c \in Calls
        PROVE  \/ calls'[c] = Ended("dropped")
               \/ calls'[c] = [calls[c] EXCEPT !.cancelled = @ \/ c \in FinalCalls \ {FirstFinal}]
    BY <1>14 DEF ExpireGroup
  <2>2. Ended("dropped").stage # "active"
    BY EndedType
  <2>3. ASSUME NEW c \in Calls
        PROVE  [calls[c] EXCEPT !.cancelled = @ \/ c \in FinalCalls \ {FirstFinal}].stage
                  = calls[c].stage
    BY <1>0 DEF CallRecords
  <2> QED BY <2>1, <2>2, <2>3 DEF Quiet, Active
<1>15. CASE SettleGroup
  <2>1. ASSUME NEW c \in Calls
        PROVE  calls'[c] = calls[c] \/ \E how \in {"applied", "dropped"} : calls'[c] = Ended(how)
    BY <1>15 DEF SettleGroup
  <2> QED BY <2>1, EndedType DEF Quiet, Active
<1> QED
  BY <1>2, <1>3, <1>4, <1>5, <1>6, <1>7, <1>8, <1>9, <1>10, <1>11, <1>12, <1>13, <1>14, <1>15,
     DispatchStarts
     DEF Next, Observe, RunSubscriptionNow, DriveVertex, PurgeReusableCache

\* Paid requests in flight stay within the global, per-provider and per-lane limits,
\* and no two of them are identical: dispatch_next is the only way to a worker, and
\* it looks at all of this with the slots and keys of the moment.
THEOREM CoordinatorEgressIsBounded == Spec => []EgressIsBounded
<1>1. Init => EgressIsBounded
  <2> SUFFICES ASSUME Init PROVE EgressIsBounded
    OBVIOUS
  <2>1. /\ ActiveCalls = {}
        /\ \A p : {c \in ActiveCalls : ProviderOf[c] = p} = {}
        /\ \A lane : {c \in InLane(lane) : Active(c)} = {}
    BY DEF Init, ActiveCalls, Active, NoCall, InLane
  <2>2. Cardinality({}) = 0
    BY FS_EmptySet
  <2> QED BY <2>1, <2>2, LimitsAreNumbers DEF EgressIsBounded
<1>2. Inv /\ EgressIsBounded /\ [Next]_vars => EgressIsBounded'
  <2> SUFFICES ASSUME Inv, EgressIsBounded, [Next]_vars PROVE EgressIsBounded'
    OBVIOUS
  <2>1. CASE Next
    BY <2>1, NextStarts, EgressShrinks, EgressGrows
  <2>2. CASE UNCHANGED vars
    BY <2>2, EgressShrinks DEF vars, Quiet, Active
  <2> QED BY <2>1, <2>2
<1> QED BY <1>1, <1>2, CoordinatorInvariant, PTL DEF Spec

-----------------------------------------------------------------------------
(* Subscriptions                                                            *)

InHand(c) == Queued(c) \/ Active(c)
IsQueuedFor(s) == \E c \in OfSubscription(s) : Queued(c)

\* A subscription has one call in flight at most.  While that one is queued, the
\* progress that was really asked about is the baseline before its submission.
SubscriptionIsAsked(s) ==
    /\ \A c, d \in OfSubscription(s) : InHand(c) /\ InHand(d) => c = d
    /\ IF IsQueuedFor(s) THEN subs[s].before = asked[s] ELSE subs[s].base = asked[s]

SubscriptionInv == \A s \in Subscriptions : SubscriptionIsAsked(s)

\* What a step may do to a subscription and its calls.
NoneStarts(s) == \A c \in OfSubscription(s) : InHand(c)' => InHand(c)
NoneIsQueued(s) == \A c \in OfSubscription(s) : ~ Queued(c)'

Continues(s) ==
    /\ NoneStarts(s) /\ \A c \in OfSubscription(s) : Queued(c)' <=> Queued(c)
    /\ subs'[s].base = subs[s].base /\ subs'[s].before = subs[s].before /\ asked'[s] = asked[s]

GivesBack(s) ==
    /\ NoneStarts(s) /\ IsQueuedFor(s) /\ NoneIsQueued(s)
    /\ subs'[s].base = subs[s].before /\ asked'[s] = asked[s]

StartsOver(s) == NoneStarts(s) /\ NoneIsQueued(s) /\ subs'[s].base = 0 /\ asked'[s] = 0

IsPut(s) ==
    /\ NoneStarts(s) /\ NoneIsQueued(s)
    /\ subs'[s].base = subs[s].base /\ asked'[s] = subs[s].base

IsSubmitted(s) ==
    /\ ~ InFlight(s) /\ subs'[s].before = subs[s].base /\ asked'[s] = asked[s]
    /\ \E c \in OfSubscription(s) :
          Queued(c)' /\ \A d \in OfSubscription(s) : InHand(d)' => d = c

SubscriptionStep(s) == Continues(s) \/ GivesBack(s) \/ StartsOver(s) \/ IsPut(s) \/ IsSubmitted(s)

LEMMA SubscriptionStepKeeps ==
    ASSUME NEW s, SubscriptionIsAsked(s), SubscriptionStep(s)
    PROVE  SubscriptionIsAsked(s)'
<1>0. OfSubscription(s)' = OfSubscription(s)
  BY DEF OfSubscription, InLane
<1>1. CASE Continues(s)
  BY <1>0, <1>1 DEF Continues, NoneStarts, SubscriptionIsAsked, IsQueuedFor
<1>2. CASE GivesBack(s)
  BY <1>0, <1>2 DEF GivesBack, NoneStarts, NoneIsQueued, SubscriptionIsAsked, IsQueuedFor
<1>3. CASE StartsOver(s) \/ IsPut(s)
  BY <1>0, <1>3 DEF StartsOver, IsPut, NoneStarts, NoneIsQueued, SubscriptionIsAsked, IsQueuedFor
<1>4. CASE IsSubmitted(s)
  <2>1. ~ IsQueuedFor(s)
    BY <1>4 DEF IsSubmitted, InFlight, IsQueuedFor
  <2> QED BY <1>0, <1>4, <2>1 DEF IsSubmitted, SubscriptionIsAsked, IsQueuedFor
<1> QED BY <1>1, <1>2, <1>3, <1>4 DEF SubscriptionStep

LEMMA PinnedCalls ==
    ASSUME NEW s, NEW c \in OfSubscription(s)
    PROVE  c \in Calls /\ LaneOf[c] = "Pinned" /\ c \notin FinalCalls /\ SubscriptionOf[c] = s
  BY DEF OfSubscription, InLane, FinalCalls

\* The calls of a subscription under DropFrom.
LEMMA DropFromPinned ==
    ASSUME Inv, NEW cs \in [Calls -> CallRecords], NEW S \in SUBSET Calls, NEW cancelled,
           NEW fenced, DropFrom(cs, S, cancelled, fenced), NEW s, NEW c \in OfSubscription(s),
           cs[c].stage = calls[c].stage \/ (Queued(c) /\ cs[c].stage \in QueueStages)
    PROVE  /\ InHand(c)' <=> c \notin S /\ InHand(c)
           /\ Queued(c)' <=> c \notin S /\ Queued(c)
<1>1. c \in Calls /\ c \notin FinalCalls
  BY PinnedCalls
<1>2. CASE c \in S
  <2>1. calls'[c] = Ended("dropped")
    BY <1>1, <1>2 DEF DropFrom
  <2>2. calls'[c].stage = "dropped"
    BY <2>1, EndedType
  <2> QED BY <1>2, <2>2 DEF InHand, Queued, Active, QueueStages
<1>3. CASE c \notin S
  <2>1. calls'[c].stage = cs[c].stage
    BY <1>1, <1>3, DropFromCall DEF Inv
  <2> QED BY <1>3, <2>1 DEF InHand, Queued, Active, QueueStages
<1> QED BY <1>2, <1>3

\* A drop that gives back the baselines of the queued calls it ends.
LEMMA DropFromSubscription ==
    ASSUME Inv, NEW cs \in [Calls -> CallRecords], NEW S \in SUBSET Calls, NEW cancelled,
           NEW fenced, DropFrom(cs, S, cancelled, fenced),
           \A c \in Calls : \/ cs[c].stage = calls[c].stage
                            \/ Queued(c) /\ cs[c].stage \in QueueStages,
           NEW s \in Subscriptions, SubscriptionIsAsked(s),
           NEW T, \A c \in OfSubscription(s) : c \in T <=> c \in S /\ Queued(c),
           subs' = RestoreBaselines(T), UNCHANGED asked
    PROVE  SubscriptionStep(s)
<1>0. \A c \in OfSubscription(s) : /\ InHand(c)' <=> c \notin S /\ InHand(c)
                                   /\ Queued(c)' <=> c \notin S /\ Queued(c)
  BY DropFromPinned, PinnedCalls
<1>1. subs \in [Subscriptions -> Baselines] /\ asked[s] \in Nat
  BY TypeParts DEF Inv, CoreType
<1>2. CASE OfSubscription(s) \cap T = {}
  <2>1. subs'[s] = subs[s]
    BY <1>2 DEF RestoreBaselines
  <2>2. Continues(s)
    BY <1>0, <1>2, <2>1 DEF Continues, NoneStarts, InHand, Queued, Active
  <2> QED BY <2>2 DEF SubscriptionStep
<1>3. CASE OfSubscription(s) \cap T # {}
  <2>1. PICK c \in OfSubscription(s) : c \in S /\ Queued(c)
    BY <1>3
  <2>2. subs[s].before = asked[s] /\ IsQueuedFor(s)
    BY <2>1 DEF SubscriptionIsAsked, IsQueuedFor
  <2>3. subs[s].before # NoBaseline
    BY <1>1, <2>2 DEF NoBaseline
  <2>4. subs'[s].base = subs[s].before
    <3>1. subs'[s] = [subs[s] EXCEPT !.base = subs[s].before, !.before = NoBaseline]
      BY <1>3, <2>3 DEF RestoreBaselines
    <3> QED BY <1>1, <3>1 DEF Baselines
  <2>5. NoneIsQueued(s)
    BY <1>0, <2>1 DEF NoneIsQueued, SubscriptionIsAsked, InHand
  <2>6. GivesBack(s)
    BY <1>0, <2>2, <2>4, <2>5 DEF GivesBack, NoneStarts
  <2> QED BY <2>6 DEF SubscriptionStep
<1> QED BY <1>2, <1>3

LEMMA CancelSubscriptions ==
    ASSUME Inv, NEW S \in SUBSET Calls, NEW fenced, Cancel(S, fenced),
           NEW s \in Subscriptions, SubscriptionIsAsked(s),
           NEW T, \A c \in OfSubscription(s) : c \in T <=> c \in S /\ Queued(c),
           subs' = RestoreBaselines(T), UNCHANGED asked
    PROVE  SubscriptionStep(s)
<1> DEFINE Q == {c \in S : Queued(c)}
<1>1. /\ Q \in SUBSET Calls /\ calls \in [Calls -> CallRecords]
      /\ \E cancelled : DropFrom(calls, Q, cancelled, {c \in fenced : Outstanding(c)})
      /\ \A c \in OfSubscription(s) : c \in T <=> c \in Q /\ Queued(c)
  BY DEF Inv, TypeOK, Cancel
<1> HIDE DEF Q
<1> QED BY <1>1, DropFromSubscription

LEMMA DropSubscriptions ==
    ASSUME Inv, NEW S \in SUBSET Calls, Drop(S), NEW s \in Subscriptions, SubscriptionIsAsked(s),
           NEW T, \A c \in OfSubscription(s) : c \in T <=> c \in S /\ Queued(c),
           subs' = RestoreBaselines(T), UNCHANGED asked
    PROVE  SubscriptionStep(s)
<1>1. calls \in [Calls -> CallRecords]
  BY DEF Inv, TypeOK
<1> QED BY <1>1, DropFromSubscription DEF Drop

LEMMA SameSubscription ==
    ASSUME NEW s,
           \A c \in OfSubscription(s) :
               \/ calls'[c].stage = calls[c].stage
               \/ Queued(c) /\ calls'[c].stage \in QueueStages
               \/ Active(c) /\ calls'[c].stage \in {"applied", "dropped"},
           subs'[s].base = subs[s].base, subs'[s].before = subs[s].before, asked'[s] = asked[s]
    PROVE  SubscriptionStep(s)
<1>1. \A c \in OfSubscription(s) : (InHand(c)' => InHand(c)) /\ (Queued(c)' <=> Queued(c))
  BY DEF InHand, Queued, Active, QueueStages
<1> QED BY <1>1 DEF SubscriptionStep, Continues, NoneStarts

\* A question that is put, to a provider or answered from the cache.
LEMMA AskedSubscriptions ==
    ASSUME Inv, NEW c \in Calls, Queued(c), Asked(c), NEW s \in Subscriptions, SubscriptionIsAsked(s),
           \A d \in OfSubscription(s) \ {c} : calls'[d].stage = calls[d].stage,
           c \in OfSubscription(s) => calls'[c].stage \in {"active", "applied", "dropped"},
           subs'[s].base = subs[s].base,
           c \notin OfSubscription(s) => subs'[s].before = subs[s].before
    PROVE  SubscriptionStep(s)
<1>0. asked \in [Subscriptions -> Nat]
  BY DEF Inv, TypeOK
<1>1. CASE c \in OfSubscription(s)
  <2>1. asked'[s] = subs[s].base
    BY <1>0, <1>1, PinnedCalls DEF Asked
  <2>2. \A d \in OfSubscription(s) \ {c} : ~ InHand(d)
    BY <1>1 DEF SubscriptionIsAsked, InHand
  <2>3. NoneStarts(s) /\ NoneIsQueued(s)
    BY <1>1, <2>2 DEF NoneStarts, NoneIsQueued, InHand, Queued, Active, QueueStages
  <2> QED BY <2>1, <2>3 DEF SubscriptionStep, IsPut
<1>2. CASE c \notin OfSubscription(s)
  <2>1. asked'[s] = asked[s]
    <3>1. LaneOf[c] = "Pinned" => SubscriptionOf[c] # s
      BY <1>2 DEF OfSubscription, InLane
    <3> QED BY <1>0, <3>1 DEF Asked
  <2> QED BY <1>2, <2>1, SameSubscription
<1> QED BY <1>1, <1>2

LEMMA DeliverPinned ==
    ASSUME Inv, NEW c \in Calls, Deliver(c), NEW s
    PROVE  /\ \A d \in OfSubscription(s) \ {c} : calls'[d].stage = calls[d].stage
           /\ c \in OfSubscription(s) => calls'[c].stage \in {"applied", "dropped"}
<1>0. calls \in [Calls -> CallRecords]
  BY DEF Inv, TypeOK
<1>1. CASE LaneOf[c] = "Final"
  <2> DEFINE cs == [calls EXCEPT ![c].stage = "awaiting"]
  <2>1. calls' = Reserve(cs) /\ c \notin OfSubscription(s)
    BY <1>1, PinnedCalls DEF Deliver
  <2>2. cs \in [Calls -> CallRecords] /\ \A d \in Calls \ {c} : cs[d] = calls[d]
    BY <1>0 DEF CallRecords
  <2> HIDE DEF cs
  <2>3. \A d \in OfSubscription(s) : calls'[d].stage = cs[d].stage
    BY <2>1, <2>2, PinnedCalls, ReserveCall
  <2> QED BY <2>1, <2>2, <2>3, PinnedCalls
<1>2. CASE LaneOf[c] # "Final"
  <2>1. PICK how \in {"applied", "dropped"} : calls' = [calls EXCEPT ![c] = Ended(how)]
    BY <1>2 DEF Deliver
  <2> QED BY <1>0, <2>1, PinnedCalls, EndedType
<1> QED BY <1>1, <1>2

LEMMA AdmitSubscriptions ==
    ASSUME Inv, NEW c \in Calls, Queued(c), Admit(c), NEW s \in Subscriptions, SubscriptionIsAsked(s)
    PROVE  SubscriptionStep(s)
<1>0. calls \in [Calls -> CallRecords] /\ subs \in [Subscriptions -> Baselines]
  BY TypeParts DEF Inv, CoreType
<1>1. CASE DropQueued(c)
  BY <1>1, DropSubscriptions DEF DropQueued
<1>2. CASE Send(c)
  <2>1. \A d \in OfSubscription(s) \ {c} : calls'[d].stage = calls[d].stage
    BY <1>0, <1>2, PinnedCalls DEF Send
  <2>2. calls'[c].stage = "active"
    BY <1>0, <1>2 DEF Send, CallRecords
  <2>3. subs'[s].base = subs[s].base /\ (c \notin OfSubscription(s) => subs'[s].before = subs[s].before)
    BY <1>0, <1>2 DEF Send, OfSubscription, InLane, Baselines
  <2> QED BY <1>2, <2>1, <2>2, <2>3, AskedSubscriptions DEF Send
<1>3. CASE (\E stage \in {"identical", "prepared"} : calls' = [calls EXCEPT ![c].stage = stage])
           /\ UNCHANGED <<subs, asked>>
  <2>1. \A d \in OfSubscription(s) : \/ calls'[d].stage = calls[d].stage
                                     \/ Queued(d) /\ calls'[d].stage \in QueueStages
    BY <1>0, <1>3, PinnedCalls DEF CallRecords, QueueStages
  <2> QED BY <1>3, <2>1, SameSubscription
<1>4. CASE /\ LaneOf[c] = "Final" /\ UNCHANGED <<subs, asked>>
           /\ calls' = Reserve([calls EXCEPT ![c].stage = "reservation"])
  <2> DEFINE cs == [calls EXCEPT ![c].stage = "reservation"]
  <2>1. cs \in [Calls -> CallRecords] /\ \A d \in Calls \ {c} : cs[d] = calls[d]
    BY <1>0 DEF CallRecords, QueueStages
  <2>2. calls' = Reserve(cs)
    BY <1>4
  <2> HIDE DEF cs
  <2>3. \A d \in OfSubscription(s) : calls'[d].stage = calls[d].stage
    BY <1>4, <2>1, <2>2, PinnedCalls, ReserveCall
  <2> QED BY <1>4, <2>3, SameSubscription
<1> QED BY <1>1, <1>2, <1>3, <1>4 DEF Admit

LEMMA NextSubscriptions ==
    ASSUME Inv, Next, NEW s \in Subscriptions, SubscriptionIsAsked(s)
    PROVE  SubscriptionStep(s)
<1>0. /\ calls \in [Calls -> CallRecords] /\ subs \in [Subscriptions -> Baselines]
      /\ asked \in [Subscriptions -> Nat]
  BY TypeParts DEF Inv, CoreType
<1>1. ASSUME NEW S \in SUBSET Calls, Cancel(S, S), subs' = RestoreBaselines({c \in S : Queued(c)}),
             UNCHANGED asked
      PROVE  SubscriptionStep(s)
  BY <1>1, CancelSubscriptions
<1>2. CASE UNCHANGED <<calls, subs, asked>>
  BY <1>2, SameSubscription
<1>3. CASE \E switch \in Switches : SetSwitch(switch)
  <2>1. PICK switch \in Switches : SetSwitch(switch)
    BY <1>3
  <2>2. Scope(switch) \in SUBSET Calls
    BY DEF Scope, InLane, Switches, Families
  <2> QED BY <1>1, <1>2, <2>1, <2>2 DEF SetSwitch
<1>4. CASE (\E family \in Families : SetLaneSelection(family)) \/ SemanticsChanged
  BY <1>1, <1>4 DEF SetLaneSelection, SemanticsChanged, Refence, Scope, InLane, Families
<1>5. CASE \E p \in Providers : ProviderChanged(p)
  <2>1. PICK p : ProviderChanged(p)
    BY <1>5
  <2> DEFINE S == {c \in Calls : ProviderOf[c] = p /\ (Queued(c) \/ Active(c))}
  <2>2. /\ S \in SUBSET Calls /\ Cancel(S, S) /\ subs' = RestoreBaselines({c \in S : Queued(c)})
        /\ UNCHANGED asked
    BY <2>1 DEF ProviderChanged
  <2> HIDE DEF S
  <2> QED BY <1>1, <2>2
<1>6. CASE \E p \in Providers : RefreshProvider(p)
  <2>1. ASSUME NEW c \in OfSubscription(s)
        PROVE  calls'[c].stage = calls[c].stage \/ (Queued(c) /\ calls'[c].stage \in QueueStages)
    <3>1. \/ calls'[c] = calls[c]
          \/ calls[c].stage = "credential" /\ calls'[c] = [calls[c] EXCEPT !.stage = "auth"]
      BY <1>6, PinnedCalls DEF RefreshProvider
    <3>2. calls[c] \in CallRecords
      BY <1>0, PinnedCalls
    <3> QED BY <3>1, <3>2 DEF Queued, QueueStages, CallRecords
  <2> QED BY <1>6, <2>1, SameSubscription DEF RefreshProvider
<1>7. CASE BeginSession
  <2>1. subs'[s].base = 0 /\ asked'[s] = 0
    BY <1>7 DEF BeginSession
  <2>2. ASSUME NEW c \in OfSubscription(s) PROVE (InHand(c)' => InHand(c)) /\ ~ Queued(c)'
    <3>1. CASE Queued(c) \/ calls[c].stage = "awaiting"
      <4>1. calls'[c] = Ended("dropped")
        BY <1>7, <3>1, PinnedCalls DEF BeginSession
      <4>2. calls'[c].stage = "dropped"
        BY <4>1, EndedType
      <4> QED BY <4>2 DEF InHand, Queued, Active, QueueStages
    <3>2. CASE ~ (Queued(c) \/ calls[c].stage = "awaiting")
      <4>1. calls'[c] = [calls[c] EXCEPT !.cancelled = @ \/ Active(c), !.voided = @ \/ Active(c)]
        BY <1>7, <3>2, PinnedCalls DEF BeginSession
      <4>2. calls[c] \in CallRecords
        BY <1>0, PinnedCalls
      <4>3. calls'[c].stage = calls[c].stage
        BY <4>1, <4>2 DEF CallRecords
      <4> QED BY <3>2, <4>3 DEF InHand, Queued, Active
    <3> QED BY <3>1, <3>2
  <2> QED BY <2>1, <2>2 DEF SubscriptionStep, StartsOver, NoneStarts, NoneIsQueued
<1>8. CASE (\E c \in Calls : SubmitLive(c) \/ SubmitAdHoc(c)) \/ SubmitFinal
  <2>1. \A d \in OfSubscription(s) : calls'[d] = calls[d]
    <3>1. CASE \E c \in Calls : SubmitLive(c) \/ SubmitAdHoc(c)
      <4>1. PICK c \in Calls : LaneOf[c] # "Pinned" /\ \E r : calls' = [calls EXCEPT ![c] = r]
        BY <3>1 DEF SubmitLive, SubmitAdHoc
      <4> QED BY <1>0, <4>1, PinnedCalls
    <3>2. CASE SubmitFinal
      BY <3>2, PinnedCalls DEF SubmitFinal
    <3> QED BY <1>8, <3>1, <3>2
  <2>2. UNCHANGED <<subs, asked>>
    BY <1>8 DEF SubmitLive, SubmitAdHoc, SubmitFinal
  <2> QED BY <2>1, <2>2, SameSubscription
<1>9. CASE \E c \in Calls : SubmitSubscription(c)
  <2>1. PICK c \in Calls : SubmitSubscription(c)
    BY <1>9
  <2>2. calls' = [calls EXCEPT ![c] = Enqueued(c, NextSeq)] /\ UNCHANGED asked
    BY <2>1 DEF SubmitSubscription
  <2>3. CASE SubscriptionOf[c] = s
    <3>1. c \in OfSubscription(s) /\ ~ InFlight(s)
      BY <2>1, <2>3 DEF SubmitSubscription, Due, OfSubscription, InLane
    <3>2. Queued(c)'
      BY <1>0, <2>2, EnqueuedFields, NextSeqType DEF Queued, QueueStages
    <3>3. \A d \in OfSubscription(s) \ {c} : ~ InHand(d)'
      BY <1>0, <2>2, <3>1, PinnedCalls DEF InFlight, InHand, Queued, Active
    <3>4. subs'[s].before = subs[s].base
      BY <1>0, <2>1, <2>3 DEF SubmitSubscription
    <3> QED BY <2>2, <3>1, <3>2, <3>3, <3>4 DEF SubscriptionStep, IsSubmitted
  <2>4. CASE SubscriptionOf[c] # s
    <3>1. \A d \in OfSubscription(s) : calls'[d] = calls[d]
      BY <1>0, <2>2, <2>4, PinnedCalls
    <3>2. subs'[s] = subs[s]
      BY <1>0, <2>1, <2>4 DEF SubmitSubscription
    <3> QED BY <2>2, <3>1, <3>2, SameSubscription
  <2> QED BY <2>3, <2>4
<1>10. CASE \E t \in Subscriptions : RunSubscriptionNow(t)
  <2>1. subs'[s].base = subs[s].base /\ subs'[s].before = subs[s].before
    BY <1>0, <1>10 DEF RunSubscriptionNow, Baselines
  <2> QED BY <1>10, <2>1, SameSubscription DEF RunSubscriptionNow
<1>11. CASE \E changed \in SUBSET Subscriptions : SetSubscriptions(changed)
  <2>1. PICK changed \in SUBSET Subscriptions : SetSubscriptions(changed)
    BY <1>11
  <2> DEFINE S == UNION {OfSubscription(t) : t \in changed}
             Q == {c \in S : Queued(c)}
  <2>2. PICK cancelled, fenced : DropFrom(calls, Q, cancelled, fenced)
    BY <2>1 DEF SetSubscriptions, Cancel
  <2>3. Q \in SUBSET Calls
    BY DEF OfSubscription, InLane
  <2>4. \A c \in OfSubscription(s) : c \in S <=> s \in changed
    BY PinnedCalls
  <2>5. \A c \in OfSubscription(s) : c \in Q <=> s \in changed /\ Queued(c)
    BY <2>4
  <2> HIDE DEF S, Q
  <2>6. \A c \in OfSubscription(s) : /\ InHand(c)' <=> c \notin Q /\ InHand(c)
                                     /\ Queued(c)' <=> c \notin Q /\ Queued(c)
    BY <1>0, <2>2, <2>3, DropFromPinned
  <2>7. CASE s \in changed
    <3>1. subs'[s].base = 0 /\ asked'[s] = 0
      BY <2>1, <2>7 DEF SetSubscriptions
    <3> QED BY <2>5, <2>6, <2>7, <3>1 DEF SubscriptionStep, StartsOver, NoneStarts, NoneIsQueued
  <2>8. CASE s \notin changed
    <3>1. subs'[s] = subs[s] /\ asked'[s] = asked[s]
      BY <2>1, <2>8 DEF SetSubscriptions
    <3>2. \A c \in OfSubscription(s) : (InHand(c)' <=> InHand(c)) /\ (Queued(c)' <=> Queued(c))
      BY <2>5, <2>6, <2>8 DEF InHand, Queued, Active
    <3> QED BY <3>1, <3>2 DEF SubscriptionStep, Continues, NoneStarts
  <2> QED BY <2>7, <2>8
<1>12. CASE \E c \in Calls : DispatchNext(c)
  <2>1. PICK c \in Calls : DispatchNext(c)
    BY <1>12
  <2>2. Queued(c)
    BY <2>1, CandidateIsQueued DEF DispatchNext
  <2>3. CASE DropQueued(c)
    BY <2>2, <2>3, DropSubscriptions DEF DropQueued
  <2>4. CASE Admit(c)
    BY <2>2, <2>4, AdmitSubscriptions
  <2>5. CASE Deliver(c) /\ Asked(c) /\ UNCHANGED subs
    BY <2>2, <2>5, DeliverPinned, AskedSubscriptions
  <2>6. CASE (\E stage \in {"vertex", "preparing"} : calls' = [calls EXCEPT ![c].stage = stage])
             /\ UNCHANGED <<subs, asked>>
    <3>1. \A d \in OfSubscription(s) : \/ calls'[d].stage = calls[d].stage
                                       \/ Queued(d) /\ calls'[d].stage \in QueueStages
      BY <1>0, <2>2, <2>6, PinnedCalls DEF CallRecords, QueueStages
    <3> QED BY <2>6, <3>1, SameSubscription
  <2> QED BY <2>1, <2>3, <2>4, <2>5, <2>6 DEF DispatchNext, AfterCache, Authorize
<1>13. CASE \E c \in Calls, r \in {"ready", "absent", "rejected", "error"} : PrepareDone(c, r)
  <2>1. PICK c \in Calls, r \in {"ready", "absent", "rejected", "error"} : PrepareDone(c, r)
    BY <1>13
  <2>2. Queued(c)
    BY <2>1 DEF PrepareDone, Queued, QueueStages
  <2>3. CASE DropQueued(c)
    BY <2>2, <2>3, DropSubscriptions DEF DropQueued
  <2>4. CASE (\E stage \in {"cache", "credential"} : calls' = [calls EXCEPT ![c].stage = stage])
             /\ UNCHANGED <<subs, asked>>
    <3>1. \A d \in OfSubscription(s) : \/ calls'[d].stage = calls[d].stage
                                       \/ Queued(d) /\ calls'[d].stage \in QueueStages
      BY <1>0, <2>2, <2>4, PinnedCalls DEF CallRecords, QueueStages
    <3> QED BY <2>4, <3>1, SameSubscription
  <2> QED BY <2>1, <2>3, <2>4 DEF PrepareDone
<1>14. CASE \E r \in {"ready", "unarmed", "blocked"} : CompleteVertex(r)
  <2>1. PICK r \in {"ready", "unarmed", "blocked"} : CompleteVertex(r)
    BY <1>14
  <2> DEFINE waiting == {c \in Calls : calls[c].stage = "vertex"}
             kept == IF r = "ready" THEN {c \in waiting : CaughtUp(c)} ELSE {}
             lost == IF r = "unarmed" THEN {} ELSE waiting \ kept
             cs == [c \in Calls |-> IF c \in kept THEN [calls[c] EXCEPT !.stage = "catalog"]
                                                  ELSE calls[c]]
  <2>2. /\ DropFrom(cs, lost, {}, {}) /\ lost \in SUBSET Calls
        /\ subs' = RestoreBaselines(lost) /\ UNCHANGED asked
    BY <2>1 DEF CompleteVertex
  <2>3. \A c \in Calls : c \in kept \/ c \in lost => Queued(c)
    BY DEF Queued, QueueStages
  <2>4. /\ cs \in [Calls -> CallRecords]
        /\ \A c \in Calls : cs[c].stage = IF c \in kept THEN "catalog" ELSE calls[c].stage
    <3> HIDE DEF kept
    <3> QED BY <1>0 DEF CallRecords, QueueStages
  <2> HIDE DEF waiting, kept, lost, cs
  <2>5. \A c \in Calls : cs[c].stage = calls[c].stage \/ (Queued(c) /\ cs[c].stage \in QueueStages)
    BY <2>3, <2>4 DEF QueueStages
  <2>6. \A c \in OfSubscription(s) : c \in lost <=> c \in lost /\ Queued(c)
    BY <2>3, PinnedCalls
  <2> QED BY <2>2, <2>4, <2>5, <2>6, DropFromSubscription
<1>15. CASE \E c \in Calls, r \in {"ok", "rejected", "error"} : Complete(c, r)
  <2>1. PICK c \in Calls, r \in {"ok", "rejected", "error"} : Complete(c, r)
    BY <1>15
  <2> DEFINE peers == {e \in Calls : Queued(e) /\ ProviderOf[e] = ProviderOf[c]}
  <2>2. Active(c) /\ ~ Queued(c) /\ UNCHANGED asked
    BY <2>1 DEF Complete, Active, Queued, QueueStages
  <2>3. CASE Deliver(c) /\ UNCHANGED subs
    BY <2>2, <2>3, DeliverPinned, SameSubscription
  <2>4. CASE Drop({c}) /\ UNCHANGED subs
    <3>1. \A d \in OfSubscription(s) : /\ InHand(d)' <=> d \notin {c} /\ InHand(d)
                                       /\ Queued(d)' <=> d \notin {c} /\ Queued(d)
      BY <1>0, <2>4, DropFromPinned DEF Drop
    <3>2. \A d \in OfSubscription(s) : (InHand(d)' => InHand(d)) /\ (Queued(d)' <=> Queued(d))
      BY <2>2, <3>1 DEF InHand, Queued, Active
    <3> QED BY <2>2, <2>4, <3>2 DEF SubscriptionStep, Continues, NoneStarts
  <2>5. ASSUME NEW ended \in SUBSET Calls, ended \subseteq {c} \cup peers, Drop(ended),
               subs' = RestoreBaselines(ended \ {c})
        PROVE  SubscriptionStep(s)
    <3>1. \A d \in OfSubscription(s) : d \in ended \ {c} <=> d \in ended /\ Queued(d)
      BY <2>2, <2>5
    <3> QED BY <2>2, <2>5, <3>1, DropSubscriptions
  <2>6. {c} \cup peers \in SUBSET Calls /\ {c} \cup {} \in SUBSET Calls
    OBVIOUS
  <2>7. CASE \E ended \in {{c} \cup peers, {c} \cup {}} :
                Drop(ended) /\ subs' = RestoreBaselines(ended \ {c})
    BY <2>5, <2>6, <2>7
  <2> QED BY <2>1, <2>3, <2>4, <2>7 DEF Complete
<1>16. CASE \E c \in Calls : Expire(c)
  <2>1. PICK c \in Calls : Expire(c)
    BY <1>16
  <2>2. \A d \in OfSubscription(s) : d \in {c} \ ActiveCalls <=> d \in {c} /\ Queued(d)
    BY <2>1, StagesDiffer DEF Expire, ActiveCalls
  <2> QED BY <2>1, <2>2, CancelSubscriptions DEF Expire
<1>17. CASE \E c \in Calls : CancelQuestion(c)
  <2>1. PICK c \in Calls : CancelQuestion(c)
    BY <1>17
  <2>2. PICK cancelled, fenced : DropFrom(calls, {d \in {c} : Queued(d)}, cancelled, fenced)
    BY <2>1 DEF CancelQuestion, Cancel
  <2>3. c \notin OfSubscription(s) /\ {d \in {c} : Queued(d)} \in SUBSET Calls
    BY <2>1, PinnedCalls DEF CancelQuestion
  <2>4. \A d \in OfSubscription(s) : (InHand(d)' <=> InHand(d)) /\ (Queued(d)' <=> Queued(d))
    <3> DEFINE Q == {d \in {c} : Queued(d)}
    <3>1. \A d \in OfSubscription(s) : d \notin Q
      BY <2>3
    <3> HIDE DEF Q
    <3>2. \A d \in OfSubscription(s) : /\ InHand(d)' <=> d \notin Q /\ InHand(d)
                                       /\ Queued(d)' <=> d \notin Q /\ Queued(d)
      BY <1>0, <2>2, <2>3, DropFromPinned DEF Q
    <3> QED BY <3>1, <3>2 DEF InHand, Queued, Active
  <2> QED BY <2>1, <2>4 DEF CancelQuestion, SubscriptionStep, Continues, NoneStarts
<1>18. CASE ExpireGroup
  <2>1. ASSUME NEW c \in OfSubscription(s) PROVE calls'[c].stage = calls[c].stage
    <3>1. calls'[c] = [calls[c] EXCEPT !.cancelled = @ \/ c \in FinalCalls \ {FirstFinal}]
      BY <1>18, PinnedCalls DEF ExpireGroup
    <3>2. calls[c] \in CallRecords
      BY <1>0, PinnedCalls
    <3> QED BY <3>1, <3>2 DEF CallRecords
  <2> QED BY <1>18, <2>1, SameSubscription DEF ExpireGroup
<1>19. CASE SettleGroup
  <2>1. \A c \in OfSubscription(s) : calls'[c] = calls[c]
    BY <1>19, PinnedCalls DEF SettleGroup
  <2> QED BY <1>19, <2>1, SameSubscription DEF SettleGroup
<1> QED
  BY <1>2, <1>3, <1>4, <1>5, <1>6, <1>7, <1>8, <1>9, <1>10, <1>11, <1>12, <1>13, <1>14, <1>15,
     <1>16, <1>17, <1>18, <1>19
     DEF Next, Observe, DriveVertex, PurgeReusableCache

\* A subscription with no call in flight has been asked about everything below its
\* baseline: progress that a call claimed when it was submitted is given back when the
\* call leaves the queue undispatched (restore_subscription_baseline), whichever of the
\* many ways out it takes.  A queued call's subscription remembers what was asked in
\* the baseline before, which makes the invariant inductive.
THEOREM CoordinatorProgressIsAsked == Spec => []ProgressIsAsked
<1>1. Init => SubscriptionInv
  <2> SUFFICES ASSUME Init, NEW s \in Subscriptions PROVE SubscriptionIsAsked(s)
    BY DEF SubscriptionInv
  <2>1. \A c \in OfSubscription(s) : ~ InHand(c) /\ ~ Queued(c)
    BY PinnedCalls DEF Init, NoCall, InHand, Queued, Active, QueueStages
  <2>2. subs[s].base = 0 /\ asked[s] = 0
    BY DEF Init
  <2> QED BY <2>1, <2>2 DEF SubscriptionIsAsked, IsQueuedFor
<1>2. Inv /\ SubscriptionInv /\ [Next]_vars => SubscriptionInv'
  <2> SUFFICES ASSUME Inv, SubscriptionInv, [Next]_vars, NEW s \in Subscriptions
               PROVE  SubscriptionIsAsked(s)'
    BY DEF SubscriptionInv
  <2>1. SubscriptionIsAsked(s)
    BY DEF SubscriptionInv
  <2>2. CASE Next
    BY <2>1, <2>2, NextSubscriptions, SubscriptionStepKeeps
  <2>3. CASE UNCHANGED vars
    BY <2>1, <2>3, SameSubscription, SubscriptionStepKeeps DEF vars
  <2> QED BY <2>2, <2>3
<1>3. SubscriptionInv => ProgressIsAsked
  BY DEF SubscriptionInv, SubscriptionIsAsked, ProgressIsAsked, InFlight, IsQueuedFor
<1> QED BY <1>1, <1>2, <1>3, CoordinatorInvariant, PTL DEF Spec
=============================================================================
