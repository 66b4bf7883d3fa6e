-------------------------- MODULE MCCollectionRun --------------------------
(* CollectionRun on one campaign, two runs and two devices. *)
EXTENDS CollectionRun, TLC

CONSTANTS c1, r1, r2, d1, d2

LimitsOf(target, feed, creators, minutes) ==
  [target_candidates |-> target, max_feed_items |-> feed,
   max_creator_profiles |-> creators, max_duration_minutes |-> minutes]

\* One rule set where two conditions compete, one on the scaled duration alone.
MCRuleSets == {LimitsOf(1, 2, 0, 0), LimitsOf(0, 0, 1, 1)}

\* Reports that reach none, one or several of those conditions and that
\* regress in one metric while they advance in another.
MCReportedProgress ==
  {p \in [Metrics -> 0..2] : /\ p["candidatesFound"] <= p["creatorProfilesSeen"]
                             /\ p["creatorProfilesSeen"] <= p["feedItemsSeen"]
                             /\ p["candidatesFound"] <= 1
                             /\ p["creatorProfilesSeen"] <= 1}

RunSymmetry == Permutations({r1, r2}) \cup Permutations({d1, d2})
=============================================================================
