----------------------------- MODULE FeedProofs -----------------------------
(***************************************************************************)
(* The allowance of boosts and the cached feeds, for any number of         *)
(* workers, users and posts.                                               *)
(***************************************************************************)
EXTENDS Boosts, Feeds, FiniteSetTheorems, TLAPS

---------------------------------------------------------------------------
(* Boosts *)

\* Nobody boosts at first.
LEMMA BoostStarted ==
  ASSUME BoostInit
  PROVE  BoostTypeOK
  BY DEF BoostInit, BoostTypeOK, BoostJob, NoJobs, Idle

\* No step breaks the types.
LEMMA BoostTypesKept ==
  ASSUME BoostTypeOK, [BoostNext]_boostVars
  PROVE  BoostTypeOK'
  <1> USE DEF BoostTypeOK
  <1>1. ASSUME NEW w \in Workers, NEW p \in OwnPosts, ReadToBoost(w, p)
        PROVE  BoostTypeOK'
    BY <1>1 DEF ReadToBoost, Begin, BoostJob
  <1>2. ASSUME NEW w \in Workers, getBoostQuota(w) PROVE BoostTypeOK'
    <2>1. job[w] \in [at : {"count", "boost"}, post : OwnPosts]
      BY <1>2 DEF getBoostQuota, BoostJob, Idle
    <2>2. [job[w] EXCEPT !.at = "boost"] \in [at : {"count", "boost"}, post : OwnPosts]
      BY <2>1
    <2> QED
      BY <1>2, <2>2 DEF getBoostQuota, GoTo, Finish, BoostJob
  <1>3. ASSUME NEW w \in Workers, WriteBoost(w) PROVE BoostTypeOK'
    <2>1. job[w].post \in OwnPosts
      BY <1>3 DEF WriteBoost, BoostJob, Idle
    <2> QED
      BY <1>3, <2>1 DEF WriteBoost, Finish, BoostJob
  <1>4. ASSUME NEW p \in OwnPosts, deletePost(p) PROVE BoostTypeOK'
    BY <1>4 DEF deletePost
  <1>5. CASE MonthBegins
    BY <1>5 DEF MonthBegins
  <1>6. CASE UNCHANGED boostVars
    BY <1>6 DEF boostVars
  <1> QED
    BY <1>1, <1>2, <1>3, <1>4, <1>5, <1>6 DEF BoostNext

\* Every worker's request is one of BoostJob, and posts are the user's.
THEOREM BoostsTyped == BoostSpec => []BoostTypeOK
  BY BoostStarted, BoostTypesKept, PTL DEF BoostSpec

\* Sets of posts and of workers are finite, and of workers no larger than all.
LEMMA BoostSizes ==
  ASSUME NEW C \in SUBSET OwnPosts, NEW P \in SUBSET Workers
  PROVE  /\ IsFiniteSet(C) /\ Cardinality(C) \in Nat
         /\ IsFiniteSet(P) /\ Cardinality(P) \in Nat
         /\ Cardinality(P) <= Cardinality(Workers)
         /\ Cardinality(Workers) \in Nat \ {0}
         /\ FREE_BOOSTS_PER_MONTH \in Nat \ {0}
  <1>1. IsFiniteSet(OwnPosts) /\ IsFiniteSet(Workers) /\ Workers # {}
    BY BoostConstants
  <1>2. IsFiniteSet(C) /\ IsFiniteSet(P) /\ Cardinality(P) <= Cardinality(Workers)
    BY <1>1, FS_Subset
  <1>3. Cardinality(Workers) # 0
    BY <1>1, FS_EmptySet
  <1> QED
    BY <1>1, <1>2, <1>3, FS_CardinalityType, BoostConstants

\* Neither set gains an element.
LEMMA BoostsShrink ==
  ASSUME BoostTypeOK, BoostsAreRationed, boosted' \subseteq boosted, Boosting' \subseteq Boosting
  PROVE  BoostsAreRationed'
  <1>1. boosted \in SUBSET OwnPosts /\ Boosting \in SUBSET Workers
    BY DEF BoostTypeOK, Boosting
  <1>2. boosted' \in SUBSET OwnPosts /\ Boosting' \in SUBSET Workers
    BY <1>1
  <1>3. /\ Cardinality(boosted') <= Cardinality(boosted)
        /\ Cardinality(Boosting') <= Cardinality(Boosting)
    BY <1>1, BoostSizes, FS_Subset
  <1> QED
    BY <1>1, <1>2, <1>3, BoostSizes DEF BoostsAreRationed

\* Nothing is boosted at first.
LEMMA RationStarted ==
  ASSUME BoostInit
  PROVE  BoostsAreRationed
  <1>1. boosted = {} /\ Boosting = {}
    BY DEF BoostInit, Boosting, NoJobs, Idle
  <1>2. Cardinality(boosted) = 0 /\ Cardinality(Boosting) = 0
    BY <1>1, FS_EmptySet
  <1>3. FREE_BOOSTS_PER_MONTH \in Nat \ {0} /\ Cardinality(Workers) \in Nat \ {0}
    BY BoostSizes
  <1> QED
    BY <1>2, <1>3 DEF BoostsAreRationed

\* No step goes over the allowance by more than the requests that count at once.
LEMMA RationKept ==
  ASSUME BoostTypeOK, BoostsAreRationed, [BoostNext]_boostVars
  PROVE  BoostsAreRationed'
  <1> BoostTypeOK'
    BY BoostTypesKept
  <1>1. ASSUME NEW w \in Workers, NEW p \in OwnPosts, ReadToBoost(w, p)
        PROVE  BoostsAreRationed'
    <2>1. boosted' = boosted /\ Boosting' \subseteq Boosting
      BY <1>1 DEF ReadToBoost, Begin, Boosting, BoostTypeOK
    <2> QED
      BY <2>1, BoostsShrink
  <1>2. ASSUME NEW w \in Workers, getBoostQuota(w) PROVE BoostsAreRationed'
    <2>1. CASE Granted(Cardinality(boosted))
      <3>1. boosted' = boosted /\ Cardinality(boosted) < FREE_BOOSTS_PER_MONTH
        BY <1>2, <2>1 DEF getBoostQuota, Granted
      <3>2. boosted \in SUBSET OwnPosts /\ Boosting' \in SUBSET Workers
        BY DEF BoostTypeOK, Boosting
      <3> QED
        BY <3>1, <3>2, BoostSizes DEF BoostsAreRationed
    <2>2. CASE ~Granted(Cardinality(boosted))
      <3>1. boosted' = boosted /\ Boosting' \subseteq Boosting
        BY <1>2, <2>2 DEF getBoostQuota, Finish, Boosting, BoostTypeOK, Idle
      <3> QED
        BY <3>1, BoostsShrink
    <2> QED
      BY <2>1, <2>2
  <1>3. ASSUME NEW w \in Workers, WriteBoost(w) PROVE BoostsAreRationed'
    <2> DEFINE p == job[w].post
    <2>1. boosted \in SUBSET OwnPosts /\ Boosting \in SUBSET Workers /\ w \in Boosting
      BY <1>3 DEF BoostTypeOK, Boosting, WriteBoost
    <2>2. boosted' = boosted \cup {p} /\ Boosting' = Boosting \ {w}
      BY <1>3 DEF WriteBoost, Finish, Boosting, BoostTypeOK, Idle
    <2>3. IsFiniteSet(boosted) /\ IsFiniteSet(Boosting)
      BY <2>1, BoostSizes
    <2>4. Cardinality(boosted') <= Cardinality(boosted) + 1 /\ IsFiniteSet(boosted')
      <3> HIDE DEF p
      <3>1. /\ IsFiniteSet(boosted \cup {p})
            /\ \/ Cardinality(boosted \cup {p}) = Cardinality(boosted)
               \/ Cardinality(boosted \cup {p}) = Cardinality(boosted) + 1
        BY <2>3, FS_AddElement
      <3>2. Cardinality(boosted) \in Nat
        BY <2>3, FS_CardinalityType
      <3>3. Cardinality(boosted \cup {p}) <= Cardinality(boosted) + 1
        BY <3>1, <3>2
      <3> QED
        BY <3>1, <3>3, <2>2
    <2>5. Cardinality(Boosting') = Cardinality(Boosting) - 1 /\ IsFiniteSet(Boosting')
      BY <2>1, <2>2, <2>3, FS_RemoveElement
    <2>6. Cardinality(boosted') \in Nat /\ Cardinality(Boosting') \in Nat
      BY <2>4, <2>5, FS_CardinalityType
    <2> QED
      BY <2>1, <2>4, <2>5, <2>6, BoostSizes DEF BoostsAreRationed
  <1>4. ASSUME NEW p \in OwnPosts, deletePost(p) PROVE BoostsAreRationed'
    BY <1>4, BoostsShrink DEF deletePost, Boosting
  <1>5. CASE MonthBegins
    BY <1>5, BoostsShrink DEF MonthBegins, Boosting
  <1>6. CASE UNCHANGED boostVars
    BY <1>6, BoostsShrink DEF boostVars, Boosting
  <1> QED
    BY <1>1, <1>2, <1>3, <1>4, <1>5, <1>6 DEF BoostNext

\* "A monthly allowance", whatever it is: requests that count at once go over
\* it by one each at most, the first excepted.
THEOREM BoostsRationed == BoostSpec => []BoostsAreRationed
  BY RationStarted, RationKept, BoostsTyped, PTL DEF BoostSpec

---------------------------------------------------------------------------
(* Feeds *)

\* What the stage of a request says of its fields.
LEMMA FeedJobFields ==
  ASSUME FeedTypeOK, NEW w \in Workers
  PROVE  /\ job[w].at = "change" => job[w] \in [at : {"change"}, post : Posts, change : Changes]
         /\ job[w].at \in {"insertBlock", "clearOwn"}
              => job[w] \in [at : {"insertBlock", "clearOwn"}, user : Members, other : Members]
         /\ job[w].at = "readBlocks" => job[w] \in [at : {"readBlocks"}, viewer : Members]
         /\ job[w].at = "fetchPosts"
              => job[w] \in [at : {"fetchPosts"}, viewer : Members, hidden : SUBSET Members]
         /\ job[w].at = "fillFeed"
              => job[w] \in [at : {"fillFeed"}, viewer : Members, page : SUBSET Posts]
  <1>1. job[w] \in FeedJob
    BY DEF FeedTypeOK
  <1> QED
    BY <1>1 DEF FeedJob, Idle

\* A post that was read is a row still: posts are never removed.
ReadPostsExist == \A w \in Workers : job[w].at = "change" => posts[job[w].post] \in Post

\* Nothing is posted, blocked or cached at first.
LEMMA FeedStarted ==
  ASSUME FeedInit
  PROVE  FeedTypeOK /\ ReadPostsExist
  <1>1. posts \in [Posts -> Post \cup {None}] /\ blocks \subseteq Members \X Members
    BY DEF FeedInit
  <1>2. feeds \in [Members -> (SUBSET Posts) \cup {None}]
    BY DEF FeedInit, NoFeeds
  <1>3. job \in [Workers -> FeedJob] /\ \A w \in Workers : job[w].at = "idle"
    BY DEF FeedInit, FeedJob, NoJobs, Idle
  <1> QED
    BY <1>1, <1>2, <1>3 DEF FeedTypeOK, ReadPostsExist

\* No step breaks the types.
LEMMA FeedTypesKept ==
  ASSUME FeedTypeOK, ReadPostsExist, [FeedNext]_feedVars
  PROVE  FeedTypeOK'
  <1> USE DEF FeedTypeOK
  <1>1. ASSUME NEW w \in Workers, NEW p \in Posts, createPost(w, p) PROVE FeedTypeOK'
    BY <1>1 DEF createPost, Begin, FeedJob, Post
  <1>2. ASSUME NEW w \in Workers, NEW p \in Posts, NEW change \in Changes,
               ReadPost(w, p, change)
        PROVE  FeedTypeOK'
    BY <1>2 DEF ReadPost, Begin, FeedJob
  <1>3. ASSUME NEW w \in Workers, NEW u \in Members, NEW v \in Members, ReadBlock(w, u, v)
        PROVE  FeedTypeOK'
    BY <1>3 DEF ReadBlock, Begin, FeedJob
  <1>4. ASSUME NEW w \in Workers, NEW u \in Members, NEW v \in Members, unblock(w, u, v)
        PROVE  FeedTypeOK'
    BY <1>4 DEF unblock, Begin, FeedJob
  <1>5. ASSUME NEW w \in Workers, NEW v \in Members, MissFeed(w, v) PROVE FeedTypeOK'
    BY <1>5 DEF MissFeed, Begin, FeedJob
  <1>6. ASSUME NEW w \in Workers, WritePost(w) PROVE FeedTypeOK'
    <2>1. job[w].post \in Posts
      BY <1>6, FeedJobFields DEF WritePost
    <2>2. posts[job[w].post] \in Post
      BY <1>6, <2>1 DEF WritePost, ReadPostsExist
    <2>3. posts' \in [Posts -> Post \cup {None}]
      BY <1>6, <2>1, <2>2 DEF WritePost, Post
    <2> QED
      BY <1>6, <2>3 DEF WritePost, GoTo, FeedJob
  <1>7. ASSUME NEW w \in Workers, invalidateAllFeeds(w) PROVE FeedTypeOK'
    BY <1>7 DEF invalidateAllFeeds, NoFeeds, Finish, FeedJob
  <1>8. ASSUME NEW w \in Workers, InsertBlock(w) PROVE FeedTypeOK'
    <2>1. job[w] \in [at : {"insertBlock", "clearOwn"}, user : Members, other : Members]
      BY <1>8, FeedJobFields DEF InsertBlock
    <2>2. [job[w] EXCEPT !.at = "clearOwn"] \in FeedJob
      BY <2>1 DEF FeedJob
    <2> QED
      BY <1>8, <2>1, <2>2 DEF InsertBlock, GoTo, Finish, FeedJob
  <1>9. ASSUME NEW w \in Workers, ClearOwnFeed(w) PROVE FeedTypeOK'
    BY <1>9 DEF ClearOwnFeed, Finish, FeedJob
  <1>10. ASSUME NEW w \in Workers, ReadBlocks(w) PROVE FeedTypeOK'
    <2>1. job[w].viewer \in Members
      BY <1>10, FeedJobFields DEF ReadBlocks
    <2> QED
      BY <1>10, <2>1 DEF ReadBlocks, GoTo, FeedJob
  <1>11. ASSUME NEW w \in Workers, FetchPosts(w) PROVE FeedTypeOK'
    <2>1. job[w].viewer \in Members
      BY <1>11, FeedJobFields DEF FetchPosts
    <2> QED
      BY <1>11, <2>1 DEF FetchPosts, GoTo, FeedJob
  <1>12. ASSUME NEW w \in Workers, FillFeed(w) PROVE FeedTypeOK'
    <2>1. job[w].viewer \in Members /\ job[w].page \in SUBSET Posts
      BY <1>12, FeedJobFields DEF FillFeed
    <2> QED
      BY <1>12, <2>1 DEF FillFeed, Finish, FeedJob
  <1>13. ASSUME NEW p \in Posts, ExpiresAt(p) PROVE FeedTypeOK'
    BY <1>13 DEF ExpiresAt, Post
  <1>14. ASSUME NEW p \in Posts, NEW isActive \in BOOLEAN, Moderate(p, isActive)
         PROVE  FeedTypeOK'
    BY <1>14 DEF Moderate, Post
  <1>15. ASSUME NEW v \in Members, FeedExpires(v) PROVE FeedTypeOK'
    BY <1>15 DEF FeedExpires
  <1>16. CASE UNCHANGED feedVars
    BY <1>16 DEF feedVars
  <1> QED
    BY <1>1, <1>2, <1>3, <1>4, <1>5, <1>6, <1>7, <1>8, <1>9, <1>10, <1>11, <1>12, <1>13,
       <1>14, <1>15, <1>16 DEF FeedNext

\* No step removes a post.
LEMMA ReadPostsKept ==
  ASSUME FeedTypeOK, ReadPostsExist, [FeedNext]_feedVars
  PROVE  ReadPostsExist'
  <1> USE DEF FeedTypeOK, ReadPostsExist
  <1>1. ASSUME NEW w \in Workers, NEW p \in Posts, createPost(w, p) PROVE ReadPostsExist'
    BY <1>1, FeedJobFields DEF createPost, Begin, Post
  <1>2. ASSUME NEW w \in Workers, NEW p \in Posts, NEW change \in Changes,
               ReadPost(w, p, change)
        PROVE  ReadPostsExist'
    BY <1>2 DEF ReadPost, Begin
  <1>3. ASSUME NEW w \in Workers, NEW u \in Members, NEW v \in Members,
               ReadBlock(w, u, v) \/ unblock(w, u, v)
        PROVE  ReadPostsExist'
    BY <1>3 DEF ReadBlock, unblock, Begin
  <1>4. ASSUME NEW w \in Workers, NEW v \in Members, MissFeed(w, v) PROVE ReadPostsExist'
    BY <1>4 DEF MissFeed, Begin
  <1>5. ASSUME NEW w \in Workers, WritePost(w) PROVE ReadPostsExist'
    <2>1. job[w].post \in Posts /\ posts[job[w].post] \in Post
      BY <1>5, FeedJobFields DEF WritePost
    <2>2. posts'[job[w].post] \in Post
      BY <1>5, <2>1 DEF WritePost, Post
    <2>3. \A p \in Posts : posts[p] \in Post => posts'[p] \in Post
      BY <1>5, <2>1, <2>2 DEF WritePost
    <2>4. \A x \in Workers : job'[x].at = "change" => job'[x] = job[x]
      BY <1>5 DEF WritePost, GoTo
    <2> SUFFICES ASSUME NEW x \in Workers, job'[x].at = "change"
                 PROVE  posts'[job'[x].post] \in Post
      OBVIOUS
    <2>5. job[x].post \in Posts /\ posts[job[x].post] \in Post
      BY <2>4, FeedJobFields
    <2> QED
      BY <2>3, <2>4, <2>5
  <1>6. ASSUME NEW w \in Workers, invalidateAllFeeds(w) \/ ClearOwnFeed(w) \/ FillFeed(w)
        PROVE  ReadPostsExist'
    BY <1>6 DEF invalidateAllFeeds, ClearOwnFeed, FillFeed, Finish, Idle
  <1>7. ASSUME NEW w \in Workers, InsertBlock(w) \/ ReadBlocks(w) \/ FetchPosts(w)
        PROVE  ReadPostsExist'
    BY <1>7, FeedJobFields DEF InsertBlock, ReadBlocks, FetchPosts, GoTo, Finish, Idle
  <1>8. ASSUME NEW p \in Posts,
               ExpiresAt(p) \/ \E isActive \in BOOLEAN : Moderate(p, isActive)
        PROVE  ReadPostsExist'
    <2>1. posts[p] \in Post => posts'[p] \in Post
      BY <1>8 DEF ExpiresAt, Moderate, Post
    <2>2. \A q \in Posts : q # p => posts'[q] = posts[q]
      BY <1>8 DEF ExpiresAt, Moderate
    <2>3. job' = job
      BY <1>8 DEF ExpiresAt, Moderate
    <2> SUFFICES ASSUME NEW x \in Workers, job[x].at = "change"
                 PROVE  posts'[job[x].post] \in Post
      BY <2>3
    <2>4. job[x].post \in Posts /\ posts[job[x].post] \in Post
      BY FeedJobFields
    <2> QED
      BY <2>1, <2>2, <2>4
  <1>9. CASE UNCHANGED <<posts, job>>
    BY <1>9
  <1> QED
    BY <1>1, <1>2, <1>3, <1>4, <1>5, <1>6, <1>7, <1>8, <1>9 DEF FeedNext, FeedExpires, feedVars

\* Every request, every post and every cached feed is of its type.
THEOREM FeedsTyped == FeedSpec => []FeedTypeOK
  BY FeedStarted, FeedTypesKept, ReadPostsKept, PTL DEF FeedSpec

\* Where a cached feed comes from: it is kept, dropped, or filled by a request
\* that has read it.
LEMMA FeedMoves ==
  ASSUME FeedTypeOK, [FeedNext]_feedVars, NEW v \in Members
  PROVE  \/ feeds'[v] = feeds[v]
         \/ feeds'[v] = None
         \/ \E w \in Workers : FillFeed(w) /\ job[w].viewer = v /\ feeds'[v] = job[w].page
  <1>1. CASE UNCHANGED feeds
    BY <1>1
  <1>2. ASSUME NEW w \in Workers, invalidateAllFeeds(w) PROVE feeds'[v] = None
    BY <1>2 DEF invalidateAllFeeds, NoFeeds
  <1>3. ASSUME NEW w \in Workers, ClearOwnFeed(w) PROVE feeds'[v] = feeds[v] \/ feeds'[v] = None
    BY <1>3 DEF ClearOwnFeed, FeedTypeOK
  <1>4. ASSUME NEW w \in Workers, FillFeed(w)
        PROVE  \/ feeds'[v] = feeds[v]
               \/ FillFeed(w) /\ job[w].viewer = v /\ feeds'[v] = job[w].page
    BY <1>4 DEF FillFeed, FeedTypeOK
  <1>5. ASSUME NEW u \in Members, FeedExpires(u) PROVE feeds'[v] = feeds[v] \/ feeds'[v] = None
    BY <1>5 DEF FeedExpires, FeedTypeOK
  <1> QED
    BY <1>1, <1>2, <1>3, <1>4, <1>5
    DEF FeedNext, createPost, ReadPost, ReadBlock, unblock, MissFeed, WritePost, InsertBlock,
        ReadBlocks, FetchPosts, ExpiresAt, Moderate, feedVars

\* u's request arrives and runs its first statement.
Begins(u) ==
  \/ \E p \in Posts : createPost(u, p) \/ \E change \in Changes : ReadPost(u, p, change)
  \/ \E x, y \in Members : ReadBlock(u, x, y) \/ unblock(u, x, y)
  \/ \E x \in Members : MissFeed(u, x)

\* It had none before, and has not read a feed yet.
LEMMA BeginMoves ==
  ASSUME FeedTypeOK, NEW u \in Workers, Begins(u)
  PROVE  /\ job[u] = Idle
         /\ job'[u].at \notin {"fetchPosts", "fillFeed"}
         /\ \A w \in Workers : w # u => job'[w] = job[w]
  <1>1. ASSUME NEW j, Begin(u, j), j.at \notin {"fetchPosts", "fillFeed"}
        PROVE  /\ job[u] = Idle
               /\ job'[u].at \notin {"fetchPosts", "fillFeed"}
               /\ \A w \in Workers : w # u => job'[w] = job[w]
    BY <1>1 DEF Begin, FeedTypeOK
  <1>2. ASSUME NEW p \in Posts, createPost(u, p)
        PROVE  \E j : Begin(u, j) /\ j.at \notin {"fetchPosts", "fillFeed"}
    BY <1>2 DEF createPost
  <1>3. ASSUME NEW p \in Posts, NEW change \in Changes, ReadPost(u, p, change)
        PROVE  \E j : Begin(u, j) /\ j.at \notin {"fetchPosts", "fillFeed"}
    BY <1>3 DEF ReadPost
  <1>4. ASSUME NEW x \in Members, NEW y \in Members, ReadBlock(u, x, y)
        PROVE  \E j : Begin(u, j) /\ j.at \notin {"fetchPosts", "fillFeed"}
    BY <1>4 DEF ReadBlock
  <1>5. ASSUME NEW x \in Members, NEW y \in Members, unblock(u, x, y)
        PROVE  \E j : Begin(u, j) /\ j.at \notin {"fetchPosts", "fillFeed"}
    BY <1>5 DEF unblock
  <1>6. ASSUME NEW x \in Members, MissFeed(u, x)
        PROVE  \E j : Begin(u, j) /\ j.at \notin {"fetchPosts", "fillFeed"}
    BY <1>6 DEF MissFeed
  <1> QED
    BY <1>1, <1>2, <1>3, <1>4, <1>5, <1>6 DEF Begins

\* Only reading the blocks and the posts makes a request one that reads.
LEMMA ReadMoves ==
  ASSUME FeedTypeOK, [FeedNext]_feedVars, NEW w \in Workers
  PROVE  \/ job'[w] = job[w]
         \/ job'[w].at \notin {"fetchPosts", "fillFeed"}
         \/ ReadBlocks(w)
         \/ FetchPosts(w)
  <1> USE DEF FeedTypeOK
  <1>2. ASSUME NEW u \in Workers, Finish(u)
        PROVE  job'[w] = job[w] \/ job'[w].at \notin {"fetchPosts", "fillFeed"}
    BY <1>2 DEF Finish, Idle
  <1>3. ASSUME NEW u \in Workers, WritePost(u) \/ InsertBlock(u)
        PROVE  job'[w] = job[w] \/ job'[w].at \notin {"fetchPosts", "fillFeed"}
    BY <1>3, FeedJobFields DEF WritePost, InsertBlock, GoTo, Finish, Idle
  <1>4. ASSUME NEW u \in Workers, ReadBlocks(u) \/ FetchPosts(u)
        PROVE  job'[w] = job[w] \/ u = w
    BY <1>4 DEF ReadBlocks, FetchPosts, GoTo
  <1>5. CASE UNCHANGED job
    BY <1>5
  <1>6. ASSUME NEW u \in Workers, Begins(u)
        PROVE  job'[w] = job[w] \/ job'[w].at \notin {"fetchPosts", "fillFeed"}
    BY <1>6, BeginMoves
  <1> QED
    BY <1>2, <1>3, <1>4, <1>5, <1>6
    DEF FeedNext, Begins, invalidateAllFeeds, ClearOwnFeed, FillFeed, FeedExpires, ExpiresAt,
        Moderate, feedVars

\* A request that finishes by dropping a feed has dropped it.
LEMMA DroppingDrops ==
  ASSUME FeedTypeOK, FeedNext, NEW w \in Workers, job'[w] = Idle,
         job[w].at \in {"clearOwn", "clearAll"}
  PROVE  ClearOwnFeed(w) \/ invalidateAllFeeds(w)
  <1> USE DEF FeedTypeOK, Idle
  <1>1. ASSUME NEW u \in Workers, u # w,
               \/ WritePost(u) \/ invalidateAllFeeds(u) \/ InsertBlock(u) \/ ClearOwnFeed(u)
               \/ ReadBlocks(u) \/ FetchPosts(u) \/ FillFeed(u)
        PROVE  FALSE
    BY <1>1 DEF WritePost, invalidateAllFeeds, InsertBlock, ClearOwnFeed, ReadBlocks,
                FetchPosts, FillFeed, GoTo, Finish
  <1>2. ASSUME NEW u \in Workers, Begins(u) PROVE FALSE
    BY <1>2, BeginMoves
  <1>3. CASE UNCHANGED job
    BY <1>3
  <1>4. ASSUME WritePost(w) \/ InsertBlock(w) \/ ReadBlocks(w) \/ FetchPosts(w) \/ FillFeed(w)
        PROVE  FALSE
    BY <1>4 DEF WritePost, InsertBlock, ReadBlocks, FetchPosts, FillFeed
  <1> QED
    BY <1>1, <1>2, <1>3, <1>4 DEF FeedNext, Begins, FeedExpires, ExpiresAt, Moderate

\* A step that brings back no post of an author the viewer has blocked.
BlockedStep ==
  \A v, a \in Members :
    LET dropped == \E w \in Workers : /\ job[w].at = "clearOwn" /\ job[w].user = v
                                      /\ job'[w] = Idle
    IN  /\ \/ Away(v, a)
           \/ dropped /\ <<v, a>> \in blocks /\ ~Reading(v, PostsOf(a), a)
        /\ <<v, a>> \in blocks'
        => Away(v, a)'

\* Every step is one.
LEMMA BlockedKept ==
  ASSUME FeedTypeOK, [FeedNext]_feedVars
  PROVE  [BlockedStep]_feedVars
  <1> SUFFICES ASSUME FeedNext, NEW v \in Members, NEW a \in Members,
                      <<v, a>> \in blocks, <<v, a>> \in blocks',
                      ~Reading(v, PostsOf(a), a),
                      \/ ~Showing(v, PostsOf(a))
                      \/ \E w \in Workers : /\ job[w].at = "clearOwn" /\ job[w].user = v
                                            /\ job'[w] = Idle
               PROVE  ~Showing(v, PostsOf(a))' /\ ~Reading(v, PostsOf(a), a)'
    BY DEF Away, BlockedStep
  <1>1. ~Showing(v, PostsOf(a))'
    <2>1. CASE feeds'[v] = None
      BY <2>1 DEF Showing
    <2>2. CASE feeds'[v] = feeds[v] /\ ~Showing(v, PostsOf(a))
      BY <2>2 DEF Showing, PostsOf
    <2>3. ASSUME NEW w \in Workers, FillFeed(w), job[w].viewer = v, feeds'[v] = job[w].page
          PROVE  ~Showing(v, PostsOf(a))'
      BY <2>3 DEF FillFeed, Reading, Showing, PostsOf
    <2>4. ASSUME NEW w \in Workers, job[w].at = "clearOwn", job[w].user = v, job'[w] = Idle
          PROVE  feeds'[v] = None
      BY <2>4, DroppingDrops DEF ClearOwnFeed, invalidateAllFeeds, FeedTypeOK
    <2> QED
      BY <2>1, <2>2, <2>3, <2>4, FeedMoves
  <1>2. ~Reading(v, PostsOf(a), a)'
    <2> SUFFICES ASSUME NEW w \in Workers
                 PROVE  /\ ~( /\ job'[w].at = "fillFeed" /\ job'[w].viewer = v
                              /\ job'[w].page \cap PostsOf(a) # {} )
                        /\ ~( /\ job'[w].at = "fetchPosts" /\ job'[w].viewer = v
                              /\ a \notin job'[w].hidden )
      BY DEF Reading, PostsOf
    <2>1. CASE job'[w] = job[w]
      BY <2>1 DEF Reading
    <2>2. CASE job'[w].at \notin {"fetchPosts", "fillFeed"}
      BY <2>2
    <2>3. CASE ReadBlocks(w)
      BY <2>3 DEF ReadBlocks, GoTo, FeedTypeOK
    <2>4. CASE FetchPosts(w)
      <3>1. job'[w] = [at |-> "fillFeed", viewer |-> job[w].viewer,
                       page |-> {p \in Posts : /\ Visible(p)
                                               /\ AuthorOf[p] \notin job[w].hidden \cup {job[w].viewer}}]
        BY <2>4 DEF FetchPosts, GoTo, FeedTypeOK
      <3>2. job[w].viewer = v => a \in job[w].hidden
        BY <2>4 DEF FetchPosts, Reading
      <3> QED
        BY <3>1, <3>2 DEF PostsOf
    <2> QED
      BY <2>1, <2>2, <2>3, <2>4, ReadMoves
  <1> QED
    BY <1>1, <1>2

\* Once the feed was dropped, a blocked author's posts come back only when the
\* block is taken back, but for a request that was reading all along.
THEOREM BlockedAreAway == FeedSpec => BlockedStayAway
  BY BlockedKept, FeedsTyped, PTL DEF FeedSpec, BlockedStayAway, BlockedStep

\* A step that brings back no post that was taken down.
TakenDownStep ==
  \A v \in Members, p \in Posts :
    LET dropped == \E w \in Workers : job[w].at = "clearAll" /\ job'[w] = Idle
        read == \E w \in Workers : /\ job[w].at = "fillFeed" /\ job[w].viewer = v
                                   /\ p \in job[w].page
    IN  /\ \/ TakenDown(v, p)
           \/ dropped /\ ~Visible(p) /\ ~read
        /\ ~Visible(p)'
        => TakenDown(v, p)'

\* Every step is one.
LEMMA TakenDownKept ==
  ASSUME FeedTypeOK, [FeedNext]_feedVars
  PROVE  [TakenDownStep]_feedVars
  <1> SUFFICES ASSUME FeedNext, NEW v \in Members, NEW p \in Posts,
                      ~Visible(p), ~Visible(p)',
                      \A w \in Workers : job[w].at = "fillFeed" /\ job[w].viewer = v
                                           => p \notin job[w].page,
                      \/ ~Showing(v, {p})
                      \/ \E w \in Workers : job[w].at = "clearAll" /\ job'[w] = Idle
               PROVE  TakenDown(v, p)'
    BY DEF TakenDown, TakenDownStep
  <1>1. ~Showing(v, {p})'
    <2>1. CASE feeds'[v] = None
      BY <2>1 DEF Showing
    <2>2. CASE feeds'[v] = feeds[v] /\ ~Showing(v, {p})
      BY <2>2 DEF Showing
    <2>3. ASSUME NEW w \in Workers, FillFeed(w), job[w].viewer = v, feeds'[v] = job[w].page
          PROVE  ~Showing(v, {p})'
      BY <2>3 DEF FillFeed, Showing
    <2>4. ASSUME NEW w \in Workers, job[w].at = "clearAll", job'[w] = Idle
          PROVE  feeds'[v] = None
      BY <2>4, DroppingDrops DEF ClearOwnFeed, invalidateAllFeeds, NoFeeds
    <2> QED
      BY <2>1, <2>2, <2>3, <2>4, FeedMoves
  <1>2. ASSUME NEW w \in Workers, job'[w].at = "fillFeed", job'[w].viewer = v
        PROVE  p \notin job'[w].page
    <2>1. CASE job'[w] = job[w]
      BY <1>2, <2>1
    <2>2. CASE ReadBlocks(w)
      BY <1>2, <2>2 DEF ReadBlocks, GoTo, FeedTypeOK
    <2>3. CASE FetchPosts(w)
      BY <2>3 DEF FetchPosts, GoTo, FeedTypeOK
    <2> QED
      BY <1>2, <2>1, <2>2, <2>3, ReadMoves
  <1> QED
    BY <1>1, <1>2 DEF TakenDown

\* Once the feeds were dropped, a post taken down comes back only when it is
\* visible again, but for a request that was reading all along.
THEOREM TakenDownAreAway == FeedSpec => TakenDownStaysDown
  BY TakenDownKept, FeedsTyped, PTL DEF FeedSpec, TakenDownStaysDown, TakenDownStep

=============================================================================
