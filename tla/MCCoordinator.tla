--------------------------- MODULE MCCoordinator ---------------------------
(* Instances of Coordinator for TLC.  The pinned calls p1 and p2 belong to   *)
(* two subscriptions that ask the same question.                            *)
EXTENDS Coordinator, TLC

MCLaneOf == [c \in Calls |->
    CASE c = "q1" -> "AdHoc"
      [] c \in {"p1", "p2"} -> "Pinned"
      [] c = "l1" -> "Live"
      [] OTHER -> "Final"]
MCKeyOf == [c \in Calls |-> IF c = "p2" THEN "p1" ELSE c]
MCProviderOf == [c \in Calls |-> IF c = "q1" THEN "direct" ELSE "google"]
MCOneProvider == [c \in Calls |-> "google"]
MCSubscriptionOf ==
    [c \in {d \in Calls : MCLaneOf[d] = "Pinned"} |-> IF c = "p1" THEN "s1" ELSE "s2"]
\* Changes that concern pinned questions only are left out where there are none.
MCRelevant == Subscriptions = {} => rev["pinned"] = 0

\* The chunks of the Final group are interchangeable.
MCSymmetry == Permutations({c \in Calls : MCLaneOf[c] = "Final"})
=============================================================================
