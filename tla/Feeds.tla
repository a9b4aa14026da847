------------------------------- MODULE Feeds -------------------------------
(***************************************************************************)
(* Posts, who has blocked whom, and the feed of each user, which Redis     *)
(* keeps for 90 seconds (modules/feeds, modules/posts, modules/blocks).    *)
(* The users here are of opposite roles, so that each reads the others'    *)
(* posts; order, pages, filters and categories are left out.  The queries  *)
(* for one page are read at once.                                          *)
(***************************************************************************)
EXTENDS Requests

CONSTANTS
  Members,   \* users
  Posts,     \* rows table Post may get
  AuthorOf   \* who writes each

VARIABLES
  posts,   \* table Post
  blocks,  \* table Block: who has blocked whom
  feeds    \* cache: the posts on page 1 of each user's feed

feedVars == <<posts, blocks, feeds, job>>

\* shown: neither CLOSED nor past expiresAt.
Post == [isActive : BOOLEAN, shown : BOOLEAN]

Changes == {"show", "unshow", "delete"}

FeedJob ==
  {Idle, [at |-> "clearAll"]}
  \cup [at : {"change"}, post : Posts, change : Changes]
  \cup [at : {"insertBlock", "clearOwn"}, user : Members, other : Members]
  \cup [at : {"readBlocks"}, viewer : Members]
  \cup [at : {"fetchPosts"}, viewer : Members, hidden : SUBSET Members]
  \cup [at : {"fillFeed"}, viewer : Members, page : SUBSET Posts]

NoFeeds == [v \in Members |-> None]

FeedInit ==
  /\ posts = [p \in Posts |-> None]
  /\ blocks = {}
  /\ feeds = NoFeeds
  /\ job = NoJobs

Visible(p) == posts[p] # None /\ posts[p].isActive /\ posts[p].shown

PostsOf(a) == {p \in Posts : AuthorOf[p] = a}

---------------------------------------------------------------------------
(* createPost, updatePost, updatePostStatus and deletePost *)

createPost(w, p) ==
  /\ posts[p] = None
  /\ posts' = [posts EXCEPT ![p] = [isActive |-> TRUE, shown |-> TRUE]]
  /\ Begin(w, [at |-> "clearAll"])
  /\ UNCHANGED <<blocks, feeds>>

ReadPost(w, p, change) ==
  /\ posts[p] # None /\ posts[p].isActive
  /\ Begin(w, [at |-> "change", post |-> p, change |-> change])
  /\ UNCHANGED <<posts, blocks, feeds>>

WritePost(w) ==
  LET p == job[w].post
      change == job[w].change
  IN  /\ job[w].at = "change"
      /\ posts' = IF change = "delete" THEN [posts EXCEPT ![p].isActive = FALSE]
                  ELSE [posts EXCEPT ![p].shown = (change = "show")]
      /\ GoTo(w, [at |-> "clearAll"])
      /\ UNCHANGED <<blocks, feeds>>

\* Mutant: the feeds are kept.
ClearNothing(w) ==
  /\ job[w].at = "clearAll"
  /\ Finish(w)
  /\ UNCHANGED <<posts, blocks, feeds>>

invalidateAllFeeds(w) ==
  /\ job[w].at = "clearAll"
  /\ feeds' = NoFeeds
  /\ Finish(w)
  /\ UNCHANGED <<posts, blocks>>

\* An admin approves, restores or deletes a post, or its author's account is
\* deleted; no feed is dropped.
Moderate(p, isActive) ==
  /\ posts[p] # None
  /\ posts' = [posts EXCEPT ![p].isActive = isActive]
  /\ UNCHANGED <<blocks, feeds, job>>

ExpiresAt(p) ==
  /\ posts[p] # None
  /\ posts' = [posts EXCEPT ![p].shown = FALSE]
  /\ UNCHANGED <<blocks, feeds, job>>

---------------------------------------------------------------------------
(* block and unblock *)

ReadBlock(w, u, other) ==
  /\ u # other
  /\ Begin(w, [at |-> IF <<u, other>> \in blocks THEN "clearOwn" ELSE "insertBlock",
               user |-> u, other |-> other])
  /\ UNCHANGED <<posts, blocks, feeds>>

\* The loser of a race for the unique index fails and drops no feed.
InsertBlock(w) ==
  LET pair == <<job[w].user, job[w].other>>
  IN  /\ job[w].at = "insertBlock"
      /\ IF pair \in blocks THEN Finish(w)
         ELSE GoTo(w, [job[w] EXCEPT !.at = "clearOwn"])
      /\ blocks' = blocks \cup {pair}
      /\ UNCHANGED <<posts, feeds>>

unblock(w, u, other) ==
  /\ u # other
  /\ blocks' = blocks \ {<<u, other>>}
  /\ Begin(w, [at |-> "clearOwn", user |-> u, other |-> other])
  /\ UNCHANGED <<posts, feeds>>

\* The feed of the other one stays until it expires.
ClearOwnFeed(w) ==
  /\ job[w].at = "clearOwn"
  /\ feeds' = [feeds EXCEPT ![job[w].user] = None]
  /\ Finish(w)
  /\ UNCHANGED <<posts, blocks>>

---------------------------------------------------------------------------
(* getFeed *)

MissFeed(w, v) ==
  /\ feeds[v] = None
  /\ Begin(w, [at |-> "readBlocks", viewer |-> v])
  /\ UNCHANGED <<posts, blocks, feeds>>

\* Mutant: only those who have blocked v.
ReadBlocksOneWay(w) ==
  LET v == job[w].viewer
  IN  /\ job[w].at = "readBlocks"
      /\ GoTo(w, [at |-> "fetchPosts", viewer |-> v,
                  hidden |-> {a \in Members : <<a, v>> \in blocks}])
      /\ UNCHANGED <<posts, blocks, feeds>>

\* "Both ways": whom v has blocked, and who has blocked v.
ReadBlocks(w) ==
  LET v == job[w].viewer
  IN  /\ job[w].at = "readBlocks"
      /\ GoTo(w, [at |-> "fetchPosts", viewer |-> v,
                  hidden |-> {a \in Members : <<v, a>> \in blocks \/ <<a, v>> \in blocks}])
      /\ UNCHANGED <<posts, blocks, feeds>>

FetchPosts(w) ==
  LET j == job[w]
  IN  /\ j.at = "fetchPosts"
      /\ GoTo(w, [at |-> "fillFeed", viewer |-> j.viewer,
                  page |-> {p \in Posts : /\ Visible(p)
                                          /\ AuthorOf[p] \notin j.hidden \cup {j.viewer}}])
      /\ UNCHANGED <<posts, blocks, feeds>>

FillFeed(w) ==
  /\ job[w].at = "fillFeed"
  /\ feeds' = [feeds EXCEPT ![job[w].viewer] = job[w].page]
  /\ Finish(w)
  /\ UNCHANGED <<posts, blocks>>

FeedExpires(v) ==
  /\ feeds[v] # None
  /\ feeds' = [feeds EXCEPT ![v] = None]
  /\ UNCHANGED <<posts, blocks, job>>

---------------------------------------------------------------------------
FeedNext ==
  \/ \E w \in Workers :
       \/ \E p \in Posts : createPost(w, p) \/ \E change \in Changes : ReadPost(w, p, change)
       \/ \E u, v \in Members : ReadBlock(w, u, v) \/ unblock(w, u, v)
       \/ \E v \in Members : MissFeed(w, v)
       \/ WritePost(w) \/ invalidateAllFeeds(w)
       \/ InsertBlock(w) \/ ClearOwnFeed(w)
       \/ ReadBlocks(w) \/ FetchPosts(w) \/ FillFeed(w)
  \/ \E p \in Posts : ExpiresAt(p) \/ \E isActive \in BOOLEAN : Moderate(p, isActive)
  \/ \E v \in Members : FeedExpires(v)

FeedSpec == FeedInit /\ [][FeedNext]_feedVars

---------------------------------------------------------------------------
(* Properties *)

FeedTypeOK ==
  /\ posts \in [Posts -> Post \cup {None}]
  /\ blocks \subseteq Members \X Members
  /\ feeds \in [Members -> (SUBSET Posts) \cup {None}]
  /\ job \in [Workers -> FeedJob]

\* v's cached feed shows a post of ps.
Showing(v, ps) == feeds[v] # None /\ feeds[v] \cap ps # {}

\* A request that is reading v's feed has a post of ps, or will not leave a's
\* posts out.
Reading(v, ps, a) ==
  \E w \in Workers : \/ job[w].at = "fillFeed" /\ job[w].viewer = v /\ job[w].page \cap ps # {}
                     \/ job[w].at = "fetchPosts" /\ job[w].viewer = v /\ a \notin job[w].hidden

Away(v, a) ==
  <<v, a>> \in blocks /\ ~Showing(v, PostsOf(a)) /\ ~Reading(v, PostsOf(a), a)

\* "Blocked user's posts must disappear from the blocker's feed instantly":
\* they have when the feed was dropped, unless a request was reading the feed
\* all along, and come back only when v takes the block back.
BlockedStayAway ==
  [][\A v, a \in Members :
       LET dropped == \E w \in Workers : /\ job[w].at = "clearOwn" /\ job[w].user = v
                                         /\ job'[w] = Idle
       IN  /\ \/ Away(v, a)
              \/ dropped /\ <<v, a>> \in blocks /\ ~Reading(v, PostsOf(a), a)
           /\ <<v, a>> \in blocks'
           => Away(v, a)']_feedVars

TakenDown(v, p) ==
  /\ ~Visible(p) /\ ~Showing(v, {p})
  /\ \A w \in Workers : job[w].at = "fillFeed" /\ job[w].viewer = v => p \notin job[w].page

\* "Drop the whole feed cache on any post change": when the author has taken a
\* post down and the feeds were dropped, nobody sees it who was not reading
\* all along, until it is visible again.
TakenDownStaysDown ==
  [][\A v \in Members, p \in Posts :
       LET dropped == \E w \in Workers : job[w].at = "clearAll" /\ job'[w] = Idle
           read == \E w \in Workers : /\ job[w].at = "fillFeed" /\ job[w].viewer = v
                                      /\ p \in job[w].page
       IN  /\ \/ TakenDown(v, p)
              \/ dropped /\ ~Visible(p) /\ ~read
           /\ ~Visible(p)'
           => TakenDown(v, p)']_feedVars

=============================================================================
