----------------------------- MODULE HardFilter -----------------------------
(***************************************************************************)
(* The hard filter: the verdict of a campaign's hard rules on one          *)
(* observation of a creator (packages/domain/src/screening/hard-filter.ts).*)
(*                                                                         *)
(* An observation is incomplete by nature: the page may hide the follower  *)
(* count, the like count or the date of a post, and the collector has      *)
(* usually not scrolled past the whole window.  A rule therefore answers   *)
(* pass, fail or unknown.  Times are counted in days.                      *)
(***************************************************************************)
EXTENDS Integers, Sequences, FiniteSets

CONSTANT Missing   \* null in a collected record
ASSUME MissingAssumption == Missing \notin Int

Outcomes == {"pass", "fail", "unknown"}

FollowerRules == [type : {"follower-range"}, min : Nat, max : Nat]
PostRules == [type : {"recent-post-likes"}, windowDays : Nat,
              minimumLikes : Nat, minimumMatchingPosts : Nat \ {0}]

Posts == [publishedAt : Int \cup {Missing}, likeCount : Nat \cup {Missing}]
Facts == [followerCount       : Nat \cup {Missing},
          posts               : Seq(Posts),
          postsWindowComplete : BOOLEAN,
          observedAt          : Int]

\* A post counts in the window that ends with the observation, both ends included.
InWindow(rule, post, evaluatedAt) ==
  /\ post.publishedAt # Missing
  /\ post.publishedAt >= evaluatedAt - rule.windowDays
  /\ post.publishedAt <= evaluatedAt

MatchingPosts(rule, facts) ==
  {i \in DOMAIN facts.posts :
     /\ InWindow(rule, facts.posts[i], facts.observedAt)
     /\ facts.posts[i].likeCount # Missing
     /\ facts.posts[i].likeCount >= rule.minimumLikes}

UncertainPosts(rule, facts) ==
  {i \in DOMAIN facts.posts :
     \/ facts.posts[i].publishedAt = Missing
     \/ /\ InWindow(rule, facts.posts[i], facts.observedAt)
        /\ facts.posts[i].likeCount = Missing}

\* (mutant) An incomplete window counts as a complete one.
RecentPostLikesOptimistic(rule, facts) ==
  IF Cardinality(MatchingPosts(rule, facts)) >= rule.minimumMatchingPosts
    THEN "pass"
    ELSE IF UncertainPosts(rule, facts) # {} THEN "unknown" ELSE "fail"

RecentPostLikes(rule, facts) ==
  IF Cardinality(MatchingPosts(rule, facts)) >= rule.minimumMatchingPosts
    THEN "pass"
    ELSE IF UncertainPosts(rule, facts) # {} \/ ~facts.postsWindowComplete
           THEN "unknown"
           ELSE "fail"

FollowerRange(rule, facts) ==
  IF facts.followerCount = Missing
    THEN "unknown"
    ELSE IF facts.followerCount >= rule.min /\ facts.followerCount <= rule.max
           THEN "pass"
           ELSE "fail"

EvaluateRule(rule, facts) ==
  IF rule.type = "follower-range" THEN FollowerRange(rule, facts)
                                  ELSE RecentPostLikes(rule, facts)

\* One failed rule decides; without one, an unknown rule leaves the verdict open.
CombineOutcomes(outcomes) ==
  IF "fail" \in outcomes
    THEN "fail"
    ELSE IF "unknown" \in outcomes THEN "unknown" ELSE "pass"

EvaluateHardFilters(rules, facts) ==
  CombineOutcomes({EvaluateRule(rule, facts) : rule \in rules})

\* What listRunObservedCreators can rebuild from the stored rows: the completeness
\* of the window is not stored and is taken to be FALSE.
StoredFacts(facts) == [facts EXCEPT !.postsWindowComplete = FALSE]

-----------------------------------------------------------------------------
(* The reference: what the page would have said had nothing been hidden.   *)

Fills(value, known) == known # Missing => value = known

\* "full" is a way in which everything the observation did not see may have been:
\* every hidden value is filled in, and posts beyond the collected ones are added
\* unless the window was complete.
Completes(full, facts) ==
  /\ full.observedAt = facts.observedAt
  /\ full.postsWindowComplete
  /\ full.followerCount # Missing
  /\ Fills(full.followerCount, facts.followerCount)
  /\ \A i \in DOMAIN full.posts :
       full.posts[i].publishedAt # Missing /\ full.posts[i].likeCount # Missing
  /\ DOMAIN facts.posts \subseteq DOMAIN full.posts
  /\ facts.postsWindowComplete => DOMAIN full.posts = DOMAIN facts.posts
  /\ \A i \in DOMAIN facts.posts :
       /\ Fills(full.posts[i].publishedAt, facts.posts[i].publishedAt)
       /\ Fills(full.posts[i].likeCount, facts.posts[i].likeCount)
=============================================================================
