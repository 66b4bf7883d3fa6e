-------------------------- MODULE HardFilterProofs --------------------------
(***************************************************************************)
(* HardFilter, for any rules, any posts and any collected facts: a verdict *)
(* other than unknown is the verdict of the whole truth.  Whatever the     *)
(* page hid or the collector did not scroll to may turn out in any way:    *)
(* no creator who passed would have failed, nor the other way round.       *)
(***************************************************************************)
EXTENDS HardFilter, FiniteSetTheorems, TLAPS

AllRules == FollowerRules \cup PostRules

-----------------------------------------------------------------------------
(* Posts.                                                                  *)

LEMMA PostsAreFinite ==
  ASSUME NEW facts \in Facts, NEW S \in SUBSET (DOMAIN facts.posts)
  PROVE  IsFiniteSet(S) /\ Cardinality(S) \in Nat
<1>1. facts.posts \in Seq(Posts)
  BY DEF Facts
<1>2. DOMAIN facts.posts = 1..Len(facts.posts) /\ Len(facts.posts) \in Nat
  BY <1>1
<1>3. IsFiniteSet(1..Len(facts.posts))
  BY <1>2, FS_Interval
<1> QED BY <1>2, <1>3, FS_Subset, FS_CardinalityType

LEMMA PostsAreRecords ==
  ASSUME NEW facts \in Facts, NEW i \in DOMAIN facts.posts
  PROVE  /\ facts.posts[i].publishedAt \in Int \cup {Missing}
         /\ facts.posts[i].likeCount \in Nat \cup {Missing}
         /\ facts.observedAt \in Int
<1>1. facts.posts \in Seq(Posts) /\ facts.observedAt \in Int
  BY DEF Facts
<1>2. facts.posts[i] \in Posts
  BY <1>1
<1> QED BY <1>1, <1>2 DEF Posts

\* A post that counts on what was seen counts on everything there is.
LEMMA MatchesRemain ==
  ASSUME NEW rule \in PostRules, NEW facts \in Facts, NEW full \in Facts, Completes(full, facts)
  PROVE  MatchingPosts(rule, facts) \subseteq MatchingPosts(rule, full)
<1> SUFFICES ASSUME NEW i \in MatchingPosts(rule, facts) PROVE i \in MatchingPosts(rule, full)
  OBVIOUS
<1>1. /\ i \in DOMAIN facts.posts /\ InWindow(rule, facts.posts[i], facts.observedAt)
      /\ facts.posts[i].likeCount # Missing /\ facts.posts[i].likeCount >= rule.minimumLikes
  BY DEF MatchingPosts
<1>2. /\ i \in DOMAIN full.posts /\ full.observedAt = facts.observedAt
      /\ full.posts[i].publishedAt = facts.posts[i].publishedAt
      /\ full.posts[i].likeCount = facts.posts[i].likeCount
  BY <1>1 DEF Completes, Fills, InWindow
<1> QED BY <1>1, <1>2 DEF MatchingPosts, InWindow

\* Without a doubt about any post, and with the whole window seen, nothing else can count.
LEMMA NothingElseMatches ==
  ASSUME NEW rule \in PostRules, NEW facts \in Facts, NEW full \in Facts, Completes(full, facts),
         UncertainPosts(rule, facts) = {}, facts.postsWindowComplete
  PROVE  MatchingPosts(rule, full) = MatchingPosts(rule, facts)
<1> SUFFICES ASSUME NEW i \in MatchingPosts(rule, full) PROVE i \in MatchingPosts(rule, facts)
  BY MatchesRemain
<1>1. /\ i \in DOMAIN facts.posts /\ full.observedAt = facts.observedAt
      /\ InWindow(rule, full.posts[i], full.observedAt)
      /\ full.posts[i].likeCount # Missing /\ full.posts[i].likeCount >= rule.minimumLikes
  BY DEF MatchingPosts, Completes
<1>2. facts.posts[i].publishedAt # Missing
  BY <1>1 DEF UncertainPosts
<1>3. full.posts[i].publishedAt = facts.posts[i].publishedAt
  BY <1>1, <1>2 DEF Completes, Fills
<1>4. InWindow(rule, facts.posts[i], facts.observedAt)
  BY <1>1, <1>3 DEF InWindow
<1>5. facts.posts[i].likeCount # Missing
  BY <1>1, <1>4 DEF UncertainPosts
<1>6. full.posts[i].likeCount = facts.posts[i].likeCount
  BY <1>1, <1>5 DEF Completes, Fills
<1> QED BY <1>1, <1>4, <1>5, <1>6 DEF MatchingPosts

-----------------------------------------------------------------------------
(* Rules.                                                                  *)

LEMMA RecentPostLikesIsSound ==
  ASSUME NEW rule \in PostRules, NEW facts \in Facts, NEW full \in Facts, Completes(full, facts),
         RecentPostLikes(rule, facts) # "unknown"
  PROVE  RecentPostLikes(rule, full) = RecentPostLikes(rule, facts)
<1> DEFINE seen == Cardinality(MatchingPosts(rule, facts))
           all == Cardinality(MatchingPosts(rule, full))
<1>1. seen \in Nat /\ all \in Nat /\ rule.minimumMatchingPosts \in Nat
  BY PostsAreFinite DEF MatchingPosts, PostRules
<1>2. full.postsWindowComplete /\ UncertainPosts(rule, full) = {}
  BY DEF Completes, UncertainPosts
<1>3. CASE seen >= rule.minimumMatchingPosts
  <2>1. seen <= all
    <3>1. IsFiniteSet(MatchingPosts(rule, full))
      BY PostsAreFinite DEF MatchingPosts
    <3> QED BY <3>1, MatchesRemain, FS_Subset
  <2>2. all >= rule.minimumMatchingPosts
    <3> HIDE DEF seen, all
    <3> QED BY <1>1, <1>3, <2>1
  <2> QED BY <1>3, <2>2 DEF RecentPostLikes
<1>4. CASE ~(seen >= rule.minimumMatchingPosts)
  <2>1. UncertainPosts(rule, facts) = {} /\ facts.postsWindowComplete
    BY <1>4 DEF RecentPostLikes
  <2>2. MatchingPosts(rule, full) = MatchingPosts(rule, facts)
    BY <2>1, NothingElseMatches
  <2> QED BY <1>2, <1>4, <2>1, <2>2 DEF RecentPostLikes
<1> QED BY <1>3, <1>4

LEMMA FollowerRangeIsSound ==
  ASSUME NEW rule \in FollowerRules, NEW facts \in Facts, NEW full \in Facts,
         Completes(full, facts), FollowerRange(rule, facts) # "unknown"
  PROVE  FollowerRange(rule, full) = FollowerRange(rule, facts)
BY DEF FollowerRange, Completes, Fills

LEMMA RuleIsSound ==
  ASSUME NEW rule \in AllRules, NEW facts \in Facts, NEW full \in Facts, Completes(full, facts),
         EvaluateRule(rule, facts) # "unknown"
  PROVE  EvaluateRule(rule, full) = EvaluateRule(rule, facts)
<1>1. CASE rule \in FollowerRules
  BY <1>1, FollowerRangeIsSound DEF EvaluateRule, FollowerRules
<1>2. CASE rule \in PostRules
  BY <1>2, RecentPostLikesIsSound DEF EvaluateRule, PostRules
<1> QED BY <1>1, <1>2 DEF AllRules

\* Everything known, a rule has an answer.
LEMMA NothingIsUnknown ==
  ASSUME NEW rule \in AllRules, NEW facts \in Facts, NEW full \in Facts, Completes(full, facts)
  PROVE  EvaluateRule(rule, full) \in {"pass", "fail"}
<1>1. full.followerCount # Missing /\ full.postsWindowComplete /\ UncertainPosts(rule, full) = {}
  BY DEF Completes, UncertainPosts
<1> QED BY <1>1 DEF EvaluateRule, FollowerRange, RecentPostLikes

-----------------------------------------------------------------------------
(* The verdict.                                                            *)

\* A verdict other than unknown is the verdict of the whole truth.
THEOREM VerdictIsSound ==
  ASSUME NEW rules \in SUBSET AllRules, NEW facts \in Facts, NEW full \in Facts,
         Completes(full, facts), EvaluateHardFilters(rules, facts) # "unknown"
  PROVE  EvaluateHardFilters(rules, full) = EvaluateHardFilters(rules, facts)
<1> DEFINE seen == {EvaluateRule(rule, facts) : rule \in rules}
           all == {EvaluateRule(rule, full) : rule \in rules}
<1>1. CASE "fail" \in seen
  <2>1. PICK rule \in rules : EvaluateRule(rule, facts) = "fail"
    BY <1>1
  <2>2. EvaluateRule(rule, full) = "fail"
    BY <2>1, RuleIsSound
  <2>3. "fail" \in all
    BY <2>1, <2>2
  <2> QED BY <1>1, <2>3 DEF EvaluateHardFilters, CombineOutcomes
<1>2. CASE "fail" \notin seen
  <2>1. "unknown" \notin seen
    BY <1>2 DEF EvaluateHardFilters, CombineOutcomes
  <2>2. \A rule \in rules : EvaluateRule(rule, full) = EvaluateRule(rule, facts)
    BY <2>1, RuleIsSound
  <2>3. all = seen
    BY <2>2
  <2> QED BY <2>3 DEF EvaluateHardFilters
<1> QED BY <1>1, <1>2

\* With everything known the verdict is pass or fail.
THEOREM TruthIsDecided ==
  ASSUME NEW rules \in SUBSET AllRules, NEW facts \in Facts, NEW full \in Facts,
         Completes(full, facts)
  PROVE  EvaluateHardFilters(rules, full) \in {"pass", "fail"}
BY NothingIsUnknown DEF EvaluateHardFilters, CombineOutcomes
=============================================================================
