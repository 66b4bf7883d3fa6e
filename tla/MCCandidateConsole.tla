------------------------- MODULE MCCandidateConsole -------------------------
EXTENDS CandidateConsole, TLC

CONSTANTS ann, bob, r1, c1, b1, b2

MCRole == (ann :> "admin") @@ (bob :> "operator")
MCOwnerOf == (r1 :> bob)
MCRulesOf == (r1 :> {})

MCFacts == {[followerCount |-> Missing, posts |-> <<>>,
             postsWindowComplete |-> FALSE, observedAt |-> 1]}

ActiveView == [archived |-> FALSE, statuses |-> PIPELINE_STATUSES]
PendingView == [archived |-> FALSE, statuses |-> {"pending_review"}]
ArchivedView == [archived |-> TRUE, statuses |-> PIPELINE_STATUSES]
MCViews == {ActiveView, PendingView, ArchivedView}
BatchSymmetry == Permutations({b1, b2})
EmptyFold == [n \in {} |-> n]
=============================================================================
