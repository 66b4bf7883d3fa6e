------------------------ MODULE MCCandidateWorkflow ------------------------
EXTENDS CandidateWorkflow, TLC

CONSTANTS ann, bob, r1, r2, c1

MCRole == (ann :> "admin") @@ (bob :> "operator")
MCOwnerOf == (r1 :> ann) @@ (r2 :> bob)

\* Run r1 asks for a popular post, run r2, of a later rule version, for enough followers too.
FollowerRule == [type |-> "follower-range", min |-> 2, max |-> 3]
PostRule == [type |-> "recent-post-likes", windowDays |-> 1,
             minimumLikes |-> 2, minimumMatchingPosts |-> 1]
MCRulesOf == (r1 :> {PostRule}) @@ (r2 :> {FollowerRule, PostRule})

Post(publishedAt, likes) == [publishedAt |-> publishedAt, likeCount |-> likes]
Observed(followers, posts) ==
  [followerCount |-> followers, posts |-> posts,
   postsWindowComplete |-> FALSE, observedAt |-> 5]
\* The first passes r1 and fails r2; of the second both leave the verdict open.
MCObservableFacts ==
  {Observed(1, <<Post(4, 2), Post(Missing, 1)>>), Observed(Missing, <<Post(3, 9)>>)}
MCCompleteFacts ==
  {[Observed(f, p) EXCEPT !.postsWindowComplete = TRUE] :
     f \in 1..3,
     p \in {<<Post(4, 2), Post(3, 1)>>, <<Post(4, 2), Post(5, 1)>>,
            <<Post(4, 2), Post(5, 1), Post(5, 9)>>,
            <<Post(3, 9)>>, <<Post(3, 9), Post(4, 2)>>, <<Post(3, 9), Post(5, 1)>>}}

TagFold == [n \in {"vip", "VIP"} |-> "vip"]
=============================================================================
