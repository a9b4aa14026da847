----------------------------- MODULE Backoffice -----------------------------
(***************************************************************************)
(* What admins are shown: the dashboard, the signup funnel, the lists of   *)
(* users, posts and reports, and whom a broadcast would reach              *)
(* (modules/admin/admin.service.js).  They are written one by one, and     *)
(* their comments say which of them must agree.                            *)
(***************************************************************************)
EXTENDS Browse

CONSTANTS
  SignedUpAt,  \* createdAt of each user, minutes of UTC since some midnight
  SlaSample    \* how many reviewed reports are looked at: 200

ASSUME SignedUpConstants == SignedUpAt \in [Folk -> Nat] /\ SlaSample \in Nat

Statuses == [active |-> "ACTIVE", suspended |-> "SUSPENDED", deleted |-> "DELETED"]

---------------------------------------------------------------------------
(* Users *)

listUsers(status) ==
  {u \in Folk : status \in DOMAIN Statuses => who[u].status = Statuses[status]}

\* Without a status, the export leaves deleted accounts out.
exportUsersCsv(status) ==
  {u \in Folk : IF status \in DOMAIN Statuses THEN who[u].status = Statuses[status]
                ELSE who[u].status # "DELETED"}

OfRole(role) == {u \in Folk : RoleOf[u] = role /\ who[u].status # "DELETED"}

listCreators == OfRole("CREATOR")

listFreelancers == OfRole("FREELANCER")

---------------------------------------------------------------------------
(* Dashboard and funnel *)

getDashboardStats ==
  LET kept == {u \in Folk : who[u].status # "DELETED"}
      done == {u \in kept : who[u].isProfileCompleted}
      count(us, role) == Cardinality({u \in us : RoleOf[u] = role})
  IN  [totalUsers |-> Cardinality(kept),
       totalCreators |-> count(kept, "CREATOR"),
       totalFreelancers |-> count(kept, "FREELANCER"),
       totalBrands |-> count(kept, "BRAND"),
       suspendedAccounts |-> Cardinality({u \in Folk : who[u].status = "SUSPENDED"}),
       totalCompletedProfiles |-> Cardinality(done),
       totalIncompleteProfiles |-> Cardinality(kept \ done),
       completedCreators |-> count(done, "CREATOR"),
       completedFreelancers |-> count(done, "FREELANCER"),
       totalPosts |-> Cardinality(WallPosts),
       activePosts |-> Cardinality({p \in WallPosts : wall[p].isActive /\ ~wall[p].isHidden}),
       deletedPosts |-> Cardinality({p \in WallPosts : ~wall[p].isActive})]

getCategoryBreakdown(role, slug) ==
  {u \in OfRole(role) : who[u].isProfileCompleted /\ slug \in SlugsOf[u]}

IST == 330  \* IST_OFFSET_MS in minutes

\* The five-hour window of the day in India, the last one shorter.
fiveHourBucketStart(t) ==
  LET ist == t + IST
  IN  (ist - (ist % 1440)) + 300 * ((ist % 1440) \div 300) - IST

\* VERIFIED wins over any other attempt.
igStatus(u) ==
  IF attempts[u] = {} THEN "NEVER_STARTED_INSTAGRAM"
  ELSE IF "VERIFIED" \in attempts[u] THEN "VERIFIED" ELSE "PENDING"

\* Mutant: accounts that were deleted are counted.
FunnelOfEverybody == Folk

FunnelUsers == {u \in Folk : who[u].status # "DELETED"}

getSignupFunnel ==
  LET start(u) == fiveHourBucketStart(SignedUpAt[u])
      bucket(us) ==
        LET open == {u \in us : ~who[u].isProfileCompleted}
            at(stage) == Cardinality({u \in open : igStatus(u) = stage})
        IN  [total |-> Cardinality(us), completed |-> Cardinality(us \ open),
             neverStartedInstagram |-> at("NEVER_STARTED_INSTAGRAM"),
             instagramPendingOrFailed |-> at("PENDING"),
             instagramVerifiedNotCompleted |-> at("VERIFIED")]
  IN  [b \in {start(u) : u \in FunnelUsers} |->
           bucket({u \in FunnelUsers : start(u) = b})]

\* Each with the stage it stopped at.
listDroppedOffUsers ==
  {<<u, igStatus(u)>> : u \in {u \in Folk : who[u].status # "DELETED"
                                            /\ ~who[u].isProfileCompleted}}

---------------------------------------------------------------------------
(* Posts *)

PendingReports(p) == {r \in reports : r.target = p /\ r.status = "PENDING"}

shapePost(p) ==
  IF ~wall[p].isActive THEN "deleted"
  ELSE IF wall[p].isHidden THEN "hidden"
  ELSE IF PendingReports(p) # {} THEN "reported" ELSE "active"

\* What the query selects; "reported" is looked for on each page alone.
listPostsWhere(status) ==
  {p \in WallPosts :
     /\ status \in {"active", "hidden"} => wall[p].isActive /\ wall[p].isHidden = (status = "hidden")
     /\ status = "deleted" => ~wall[p].isActive}

listPosts(status, page, limit) ==
  LET ps == listPostsWhere(status)
  IN  {p \in Slice(ps, NewestFirst(ps), page, limit) :
         status = "reported" => shapePost(p) = "reported"}

---------------------------------------------------------------------------
(* Reports and broadcasts *)

\* "" for any status.
listReports(status) == {r \in reports : status # "" => r.status = status}

\* Those still open, and a sample of those reviewed, which have a reviewedAt.
getReportSlaStats ==
  LET reviewed == Cardinality({r \in reports : r.status \in {"REVIEWED", "DISMISSED"}})
  IN  [pendingCount |-> Cardinality({r \in reports : r.status = "PENDING"}),
       sampleSize |-> IF reviewed > SlaSample THEN SlaSample ELSE reviewed]

BROADCAST_TARGETS ==
  LET active == {u \in Folk : ActiveUser(u)}
  IN  [all |-> active,
       creators |-> {u \in active : RoleOf[u] = "CREATOR"},
       freelancers |-> {u \in active : RoleOf[u] = "FREELANCER"},
       premium |-> {u \in active : who[u].isPremium},
       incomplete_profile |-> {u \in active : ~who[u].isProfileCompleted}]

\* Of target "category".
CategoryTarget(slug) == {u \in Folk : ActiveUser(u) /\ slug \in SlugsOf[u]}

\* Of target "segment"; a field that is not asked for is left out.
SegmentTarget(segment) ==
  {u \in Folk : /\ ActiveUser(u)
                /\ "role" \in DOMAIN segment => RoleOf[u] = segment.role
                /\ "isPremium" \in DOMAIN segment => who[u].isPremium = segment.isPremium}

---------------------------------------------------------------------------
(* Properties *)

\* All pages of a list of posts.
OfficePosts(status, limit) ==
  UNION {listPosts(status, page, limit) :
           page \in 1..totalPages(Cardinality(listPostsWhere(status)), limit)}

\* "totalUsers must NOT apply dateFilter, or it stops summing to": the counts
\* of the dashboard add up, and the lists of users have as many.
CountsAddUp ==
  LET dash == getDashboardStats
  IN  /\ dash.totalUsers = dash.totalCreators + dash.totalFreelancers + dash.totalBrands
      /\ dash.totalUsers = dash.totalCompletedProfiles + dash.totalIncompleteProfiles
      /\ dash.completedCreators + dash.completedFreelancers = dash.totalCompletedProfiles
      /\ dash.totalCreators = Cardinality(listCreators)
      /\ dash.totalFreelancers = Cardinality(listFreelancers)
      /\ dash.suspendedAccounts = Cardinality(listUsers("suspended"))

\* The reports of the two figures are all there are, but for those reviewed
\* that no longer fit in the sample.
SamplesAgree ==
  LET sla == getReportSlaStats
      all == Cardinality(listReports(""))
  IN  /\ sla.pendingCount = Cardinality(listReports("PENDING"))
      /\ sla.pendingCount + sla.sampleSize <= all
      /\ sla.sampleSize = SlaSample \/ sla.pendingCount + sla.sampleSize = all

\* The sum of a column of the funnel.
FunnelSum(column) ==
  LET funnel == getSignupFunnel
  IN  MapThenSumSet(LAMBDA start : funnel[start][column], DOMAIN funnel)

\* "Match every other stat": the funnel counts the users of the dashboard, and
\* the list of those who dropped off has those who are in no other column.
FunnelAgrees ==
  /\ FunnelSum("total") = getDashboardStats.totalUsers
  /\ FunnelSum("completed") = getDashboardStats.totalCompletedProfiles
  /\ FunnelSum("neverStartedInstagram") + FunnelSum("instagramPendingOrFailed")
       + FunnelSum("instagramVerifiedNotCompleted") = Cardinality(listDroppedOffUsers)

\* Those who dropped off are the dashboard's incomplete profiles, and a user is
\* in the window of the day in which the sign-up was.
DroppedOffAgree ==
  /\ Cardinality(listDroppedOffUsers) = getDashboardStats.totalIncompleteProfiles
  /\ \A u \in FunnelUsers :
       \E start \in DOMAIN getSignupFunnel : SignedUpAt[u] \in start..(start + 299)

\* The export of the users of a status has those of the list.  Without a status
\* the two differ: the list has deleted users, the export leaves them out.
ExportsAgree ==
  \A status \in DOMAIN Statuses : exportUsersCsv(status) = listUsers(status)

\* Turning the pages of the posts of a status shows those labelled with it, as
\* many as the dashboard counts.
PagesAgree ==
  LET labelled(status) == {p \in WallPosts : shapePost(p) = status}
  IN  \A limit \in Limits :
        /\ \A status \in {"hidden", "deleted", "reported"} :
             OfficePosts(status, limit) = labelled(status)
        /\ OfficePosts("active", limit) = labelled("active") \cup labelled("reported")
        /\ getDashboardStats.activePosts = Cardinality(OfficePosts("active", limit))
        /\ getDashboardStats.deletedPosts = Cardinality(OfficePosts("deleted", limit))

\* A broadcast reaches those users of its target in these lists who are active.
BroadcastsReachListed ==
  LET to == BROADCAST_TARGETS
      active == listUsers("active")
      breakdown(slug) == getCategoryBreakdown("CREATOR", slug)
                         \cup getCategoryBreakdown("FREELANCER", slug)
  IN  /\ to.all = active
      /\ to.creators = active \cap listCreators
      /\ to.freelancers = active \cap listFreelancers
      /\ to.incomplete_profile = {u \in active : <<u, igStatus(u)>> \in listDroppedOffUsers}
      /\ \A slug \in UNION {SlugsOf[u] : u \in Folk} :
           active \cap breakdown(slug) = CategoryTarget(slug) \ to.incomplete_profile
      /\ \A role \in {"CREATOR", "FREELANCER"} :
           to.premium \cap SegmentTarget([role |-> role])
             = SegmentTarget([role |-> role, isPremium |-> TRUE])

\* What admins are shown in one place fits what they are shown in another.
OfficeAgrees ==
  /\ CountsAddUp /\ SamplesAgree /\ FunnelAgrees /\ DroppedOffAgree /\ ExportsAgree
  /\ PagesAgree /\ BroadcastsReachListed

=============================================================================
