------------------------------- MODULE Browse -------------------------------
(***************************************************************************)
(* What users are shown of each other: the feed and its pages, posts,      *)
(* profiles, search, suggestions and lists of followers (modules/feeds,    *)
(* modules/posts, modules/users, modules/search, modules/follows).  The    *)
(* code filters each of them anew.  Readers are operators on the tables    *)
(* here, and requests that write are single steps: how they interleave is  *)
(* the subject of Feeds, Boosts, Follows, Accounts and Instagram.  Words   *)
(* searched for, places and the picture of a post are left out.            *)
(***************************************************************************)
EXTENDS Roles, Integers, FiniteSetsExt

CONSTANTS
  Nobody,      \* no user: a guest
  Folk,        \* users
  RoleOf,      \* the role of each
  SlugsOf,     \* the categories in each one's profile, by slug
  WallPosts,   \* all posts
  CreatedAt,   \* when each was written: no two at once
  WriterOf,    \* who wrote each
  WantedOf,    \* POST_CATEGORY_TO_FREELANCER_SLUGS of each; {} if it has no entry
  Limits,      \* the sizes of page that are asked for
  EarlierReports,  \* those that were reviewed before
  MaxChanges   \* bound: how many requests write something

ASSUME BrowseConstants ==
  /\ IsFiniteSet(Folk) /\ IsFiniteSet(WallPosts)
  /\ Nobody \notin Folk
  /\ RoleOf \in [Folk -> {"CREATOR", "FREELANCER"}]  \* PUBLIC_SIGNUP_ROLES
  /\ CreatedAt \in [WallPosts -> Nat]
  /\ \A p, q \in WallPosts : CreatedAt[p] = CreatedAt[q] => p = q
  /\ WriterOf \in [WallPosts -> Folk]
  /\ Limits \subseteq Nat \ {0}  \* parsePagination
  /\ EarlierReports \subseteq [by : Folk, target : Folk \cup WallPosts, autoGenerated : BOOLEAN,
                              status : {"REVIEWED", "DISMISSED"}]
  /\ MaxChanges \in Nat

VARIABLES
  who,        \* tables User and profiles
  wall,       \* table Post
  cuts,       \* table Block
  fans,       \* table Follow
  bookmarks,  \* table SavedPost
  reports,    \* table Report
  attempts,   \* table InstagramVerification: the statuses in each one's rows
  changed     \* bound: requests so far

browseVars == <<who, wall, cuts, fans, bookmarks, reports, attempts, changed>>

Standing == {"ACTIVE", "SUSPENDED", "DELETED"}

Account == [status : Standing, isProfileCompleted : BOOLEAN,
            isDiscoverable : BOOLEAN, isPremium : BOOLEAN]

\* boosted: boostedUntil is to come; expired: expiresAt is past.
WallPost == [isActive : BOOLEAN, isHidden : BOOLEAN, expired : BOOLEAN,
             boosted : BOOLEAN, status : {"OPEN", "COMPLETED", "CLOSED"}]

Report == [by : Folk, target : Folk \cup WallPosts, autoGenerated : BOOLEAN,
           status : {"PENDING", "REVIEWED", "DISMISSED"}]

BrowseInit ==
  /\ \E premium \in SUBSET Folk :
       who = [u \in Folk |-> [status |-> "ACTIVE", isProfileCompleted |-> TRUE,
                              isDiscoverable |-> TRUE, isPremium |-> u \in premium]]
  /\ wall = [p \in WallPosts |-> [isActive |-> TRUE, isHidden |-> FALSE,
               expired |-> FALSE, boosted |-> FALSE, status |-> "OPEN"]]
  /\ cuts = {} /\ fans = {} /\ bookmarks = {} /\ reports = EarlierReports
  /\ attempts = [u \in Folk |-> {}]
  /\ changed = 0

ActiveUser(u) == who[u].status = "ACTIVE"

\* optionalAuth takes a user who is not ACTIVE for a guest.
Viewers == {u \in Folk : ActiveUser(u)} \cup {Nobody}

WrittenBy(u) == {p \in WallPosts : WriterOf[p] = u}

isBlockedBetween(u, v) == <<u, v>> \in cuts \/ <<v, u>> \in cuts

---------------------------------------------------------------------------
(* Requests that write *)

Change == changed < MaxChanges /\ changed' = changed + 1

\* updatePostStatus, deletePost and boostPost of the writer, and the admin's
\* hide, restore, approve and delete, of one post or many.
PostChanges(p) ==
  /\ Change
  /\ \/ \E s \in {"OPEN", "COMPLETED", "CLOSED"} :
          wall[p].isActive /\ wall' = [wall EXCEPT ![p].status = s]
     \/ wall' = [wall EXCEPT ![p].isActive = FALSE]
     \/ /\ wall[p].isActive /\ who[WriterOf[p]].isPremium
        /\ wall' = [wall EXCEPT ![p].boosted = TRUE]
     \/ wall' = [wall EXCEPT ![p].isHidden = TRUE]
     \/ wall' = [wall EXCEPT ![p].isActive = TRUE, ![p].isHidden = FALSE]
  /\ UNCHANGED <<who, cuts, fans, bookmarks, reports, attempts>>

\* expiresAt or boostedUntil passes.
PostAges(p) ==
  /\ Change
  /\ \/ wall' = [wall EXCEPT ![p].expired = TRUE]
     \/ wall' = [wall EXCEPT ![p].boosted = FALSE]
  /\ UNCHANGED <<who, cuts, fans, bookmarks, reports, attempts>>

\* suspendUser, unsuspendUser and deleteUser; deleteAccount also ends Premium.
StandingChanges(u, s) ==
  /\ Change
  /\ who[u].status # "DELETED"
  /\ \/ who' = [who EXCEPT ![u].status = s]
     \/ s = "DELETED" /\ who' = [who EXCEPT ![u].status = s, ![u].isPremium = FALSE]
  /\ UNCHANGED <<wall, cuts, fans, bookmarks, reports, attempts>>

\* recomputeProfileCompletion, syncPremiumStatus and updatePrivacySettings.
AccountChanges(u) ==
  /\ Change
  /\ \/ who' = [who EXCEPT ![u].isProfileCompleted = ~@]
     \/ who' = [who EXCEPT ![u].isPremium = ~@]
     \/ who' = [who EXCEPT ![u].isDiscoverable = ~@]
  /\ UNCHANGED <<wall, cuts, fans, bookmarks, reports, attempts>>

\* block, with a report that was not asked for, and unblock.
Cut(u, v) ==
  /\ Change
  /\ u # v
  /\ \/ /\ <<u, v>> \notin cuts
        /\ cuts' = cuts \cup {<<u, v>>}
        /\ reports' = reports \cup {[by |-> u, target |-> v, autoGenerated |-> TRUE,
                                     status |-> "PENDING"]}
     \/ cuts' = cuts \ {<<u, v>>} /\ UNCHANGED reports
  /\ UNCHANGED <<who, wall, fans, bookmarks, attempts>>

FansChange(u, v) ==
  /\ Change
  /\ u # v
  /\ \/ ~isBlockedBetween(u, v) /\ fans' = fans \cup {<<u, v>>}
     \/ fans' = fans \ {<<u, v>>}
  /\ UNCHANGED <<who, wall, cuts, bookmarks, reports, attempts>>

\* savePost and unsavePost.
BookmarksChange(u, p) ==
  /\ Change
  /\ bookmarks' = IF <<u, p>> \in bookmarks THEN bookmarks \ {<<u, p>>}
                  ELSE bookmarks \cup {<<u, p>>}
  /\ UNCHANGED <<who, wall, cuts, fans, reports, attempts>>

\* "Did I report this?"  What a block reported does not count.
hasReported(u, target) ==
  \E r \in reports : r.by = u /\ r.target = target /\ ~r.autoGenerated

createReport(u, target) ==
  /\ Change
  /\ ~hasReported(u, target)
  /\ reports' = reports \cup {[by |-> u, target |-> target, autoGenerated |-> FALSE,
                               status |-> "PENDING"]}
  /\ UNCHANGED <<who, wall, cuts, fans, bookmarks, attempts>>

reviewReport(r, s) ==
  /\ Change
  /\ reports' = (reports \ {r}) \cup {[r EXCEPT !.status = s]}
  /\ UNCHANGED <<who, wall, cuts, fans, bookmarks, attempts>>

\* An Instagram verification comes to an end, or begins.
AttemptsChange(u, s) ==
  /\ Change
  /\ attempts' = [attempts EXCEPT ![u] = @ \cup {s}]
  /\ UNCHANGED <<who, wall, cuts, fans, bookmarks, reports>>

BrowseNext ==
  \/ \E p \in WallPosts : PostChanges(p) \/ PostAges(p)
  \/ \E u \in Folk :
       \/ \E s \in Standing : StandingChanges(u, s)
       \/ AccountChanges(u)
       \/ \E v \in Folk : Cut(u, v) \/ FansChange(u, v)
       \/ \E p \in WallPosts : BookmarksChange(u, p)
       \/ \E target \in Folk \cup WallPosts : createReport(u, target)
       \/ \E s \in {"PENDING", "VERIFIED"} : AttemptsChange(u, s)
  \/ \E r \in reports, s \in {"REVIEWED", "DISMISSED"} : reviewReport(r, s)

BrowseSpec == BrowseInit /\ [][BrowseNext]_browseVars

---------------------------------------------------------------------------
(* The feed *)

TargetRoles(v) == OPPOSITE_FEED_ROLE[IF v = Nobody THEN "CREATOR" ELSE RoleOf[v]]

notExpired(p) == ~wall[p].expired

\* Work that freelancer v does not do; who has no category does everything.
HiddenLabel(v, p) ==
  /\ v # Nobody /\ RoleOf[v] = "FREELANCER"
  /\ SlugsOf[v] # {} /\ WantedOf[p] # {} /\ SlugsOf[v] \cap WantedOf[p] = {}

feedWhere(v) ==
  {p \in WallPosts :
     /\ wall[p].isActive /\ wall[p].status # "CLOSED"
     /\ RoleOf[WriterOf[p]] \in TargetRoles(v)
     /\ ActiveUser(WriterOf[p])
     /\ notExpired(p)
     /\ v # Nobody => ~isBlockedBetween(v, WriterOf[p])
     /\ ~HiddenLabel(v, p)}

\* How a query orders posts: which pairs of them are in order.
NewestFirst(ps) == {e \in ps \X ps : CreatedAt[e[1]] > CreatedAt[e[2]]}

\* How many of the writer's posts are pushed before p.
round(ps, p) ==
  Cardinality({q \in ps : WriterOf[q] = WriterOf[p] /\ CreatedAt[q] > CreatedAt[p]})

\* u has a post that is newer than all of v's.
userOrder(ps, u, v) ==
  \E p \in ps : /\ WriterOf[p] = u
                /\ \A q \in ps : WriterOf[q] = v => CreatedAt[p] > CreatedAt[q]

\* Each writer's first post, each one's second, ...; writers by their first.
diversifyByAuthor(ps) ==
  {e \in ps \X ps :
     \/ round(ps, e[1]) < round(ps, e[2])
     \/ round(ps, e[1]) = round(ps, e[2]) /\ userOrder(ps, WriterOf[e[1]], WriterOf[e[2]])}

Premium(ps) == {p \in ps : who[WriterOf[p]].isPremium}

\* The posts that order puts before p.
Before(ps, order, p) == {q \in ps : <<q, p>> \in order}

\* parsePagination and slice: who is skipped comes before the page.
Slice(ps, order, page, limit) ==
  {p \in ps : Cardinality(Before(ps, order, p)) \in (page - 1) * limit .. page * limit - 1}

\* buildPaginationMeta
totalPages(total, limit) == (total + limit - 1) \div limit

\* Mutant: the boosted posts are not counted.
TotalOfRest(rest, boosts) == Cardinality(rest)

FeedTotal(rest, boosts) == Cardinality(rest) + Cardinality(boosts)

\* Posts of premium users before all others.
feedOrder(ps) ==
  diversifyByAuthor(Premium(ps)) \cup diversifyByAuthor(ps \ Premium(ps))
  \cup Premium(ps) \X (ps \ Premium(ps))

\* Boosted posts are all on page 1, and again where they would be without the
\* boost on a later page.
getFeed(v, page, limit) ==
  LET ps == feedWhere(v)
      boosts == IF page = 1 THEN {p \in ps : wall[p].boosted} ELSE {}
      rest == ps \ boosts
  IN  [items |-> boosts \cup Slice(rest, feedOrder(rest), page, limit),
       total |-> FeedTotal(rest, boosts)]

---------------------------------------------------------------------------
(* Posts and people *)

\* Who may open post p.
getPostById(p, v) ==
  /\ wall[p].isActive /\ ActiveUser(WriterOf[p])
  /\ v = WriterOf[p] \/ (~wall[p].expired /\ wall[p].status # "CLOSED")

listUserPosts(u, v) ==
  {p \in WrittenBy(u) :
     /\ wall[p].isActive
     /\ v # u => notExpired(p) /\ wall[p].status # "CLOSED" /\ ActiveUser(u)}

listSavedPosts(v) ==
  {p \in WallPosts : <<v, p>> \in bookmarks /\ wall[p].isActive /\ notExpired(p)
                     /\ ActiveUser(WriterOf[p])}

\* Who may be looked at; no viewer is kept from it.
getUserById(u) == ActiveUser(u)

\* Everybody here has a profile that matches.
searchProfiles(v) ==
  {u \in Folk : RoleOf[u] \in TargetRoles(v) /\ ActiveUser(u) /\ who[u].isDiscoverable}

listSuggestions(v) ==
  {u \in Folk \ {v} : /\ RoleOf[u] \in TargetRoles(v)
                      /\ ActiveUser(u) /\ who[u].isProfileCompleted
                      /\ <<v, u>> \notin fans}

listByCategory(v, slug) ==
  {u \in Folk \ {v} : /\ RoleOf[u] \in TargetRoles(v)
                      /\ ActiveUser(u) /\ who[u].isProfileCompleted
                      /\ slug \in SlugsOf[u]}

listFollowing(u, v) ==
  IF v # u /\ isBlockedBetween(u, v) THEN {}
  ELSE {f \in Folk : <<u, f>> \in fans /\ ActiveUser(f)}

listFollowers(u, v) ==
  IF v # u /\ isBlockedBetween(u, v) THEN {}
  ELSE {f \in Folk : <<f, u>> \in fans /\ ActiveUser(f)}

Shown(v) ==
  searchProfiles(v) \cup listSuggestions(v)
  \cup (UNION {listByCategory(v, slug) : slug \in UNION {SlugsOf[u] : u \in Folk}})
  \cup (UNION {listFollowing(u, v) \cup listFollowers(u, v) : u \in Folk})

---------------------------------------------------------------------------
(* Properties *)

BrowseTypeOK ==
  /\ who \in [Folk -> Account]
  /\ wall \in [WallPosts -> WallPost]
  /\ cuts \subseteq Folk \X Folk /\ fans \subseteq Folk \X Folk
  /\ bookmarks \subseteq Folk \X WallPosts
  /\ reports \subseteq Report
  /\ attempts \in [Folk -> SUBSET {"PENDING", "VERIFIED"}]
  /\ changed \in 0..MaxChanges

FeedPages(v, limit) ==
  LET last == totalPages(getFeed(v, 1, limit).total, limit)
  IN  UNION {getFeed(v, page, limit).items : page \in 1..last}

\* "The exact same visibility rules": turning the pages of a feed shows every
\* post that opens, of the roles, people and labels the viewer is not kept
\* from, and no other.
FeedOpens(v) ==
  \A limit \in Limits :
    FeedPages(v, limit) =
      {p \in WallPosts :
         /\ getPostById(p, v) /\ RoleOf[WriterOf[p]] \in TargetRoles(v)
         /\ v = Nobody \/ ~(isBlockedBetween(v, WriterOf[p]) \/ HiddenLabel(v, p))}

\* The posts on a profile are those that open; nobody and nothing in any list
\* is gone when it is tapped.  Saved posts may have been closed since, which
\* the list does not look at.
ListsOpen(v) ==
  /\ \A u \in Folk : listUserPosts(u, v) = {p \in WrittenBy(u) : getPostById(p, v)}
  /\ v # Nobody => \A p \in listSavedPosts(v) : getPostById(p, v) \/ wall[p].status = "CLOSED"
  /\ \A u \in Shown(v) : getUserById(u)

\* Whatever a viewer is shown opens, and whatever opens is shown.
ShownOpens == \A v \in Viewers : FeedOpens(v) /\ ListsOpen(v)

=============================================================================
