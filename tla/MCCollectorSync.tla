-------------------------- MODULE MCCollectorSync --------------------------
(* CollectorSync on small instances. *)
EXTENDS CollectorSync, TLC

CONSTANTS c1, r1, r2, self, other, a, b

LimitsOf(target, feed, creators, minutes) ==
  [target_candidates |-> target, max_feed_items |-> feed,
   max_creator_profiles |-> creators, max_duration_minutes |-> minutes]

\* The run ends at its second candidate or at its third feed item.
CountRules == {LimitsOf(2, 3, 0, 0)}
\* The run ends by the clock.
ClockRules == {LimitsOf(0, 0, 0, 1)}
\* The run ends with its first feed item.
OneItemRules == {LimitsOf(0, 1, 0, 0)}

CreatorSymmetry == Permutations({a, b})
RunSymmetry == Permutations({r1, r2})
=============================================================================
