------------------------------- MODULE Boosts -------------------------------
(***************************************************************************)
(* The monthly allowance of boosts of one Premium user (boostPost of       *)
(* modules/posts/post.service.js).  A boost is counted by the boostedAt of *)
(* the post, so that boosting a post again in the same month is free.      *)
(***************************************************************************)
EXTENDS Requests, Integers, FiniteSets

CONSTANTS
  OwnPosts,              \* the user's posts
  FREE_BOOSTS_PER_MONTH

ASSUME BoostConstants ==
  /\ IsFiniteSet(OwnPosts) /\ IsFiniteSet(Workers) /\ Workers # {}
  /\ FREE_BOOSTS_PER_MONTH \in Nat \ {0}

VARIABLES
  active,   \* the posts that are not deleted
  boosted   \* the posts whose boostedAt is in this month

boostVars == <<active, boosted, job>>

BoostJob == {Idle} \cup [at : {"count", "boost"}, post : OwnPosts]

BoostInit == active = OwnPosts /\ boosted = {} /\ job = NoJobs

ReadToBoost(w, p) ==
  /\ p \in active
  /\ Begin(w, [at |-> "count", post |-> p])
  /\ UNCHANGED <<active, boosted>>

\* Mutant: one boost more.
GrantedTooMany(used) == used <= FREE_BOOSTS_PER_MONTH

\* remaining > 0
Granted(used) == used < FREE_BOOSTS_PER_MONTH

getBoostQuota(w) ==
  /\ job[w].at = "count"
  /\ IF Granted(Cardinality(boosted)) THEN GoTo(w, [job[w] EXCEPT !.at = "boost"])
     ELSE Finish(w)
  /\ UNCHANGED <<active, boosted>>

WriteBoost(w) ==
  /\ job[w].at = "boost"
  /\ boosted' = boosted \cup {job[w].post}
  /\ Finish(w)
  /\ UNCHANGED active

\* Deleted posts count as well.
deletePost(p) == active' = active \ {p} /\ UNCHANGED <<boosted, job>>

\* The first of a month.
MonthBegins == boosted # {} /\ boosted' = {} /\ UNCHANGED <<active, job>>

BoostNext ==
  \/ \E w \in Workers :
       \/ \E p \in OwnPosts : ReadToBoost(w, p)
       \/ getBoostQuota(w) \/ WriteBoost(w)
  \/ \E p \in OwnPosts : deletePost(p)
  \/ MonthBegins

BoostSpec == BoostInit /\ [][BoostNext]_boostVars

---------------------------------------------------------------------------
(* Properties *)

BoostTypeOK ==
  /\ active \subseteq OwnPosts
  /\ boosted \subseteq OwnPosts
  /\ job \in [Workers -> BoostJob]

Boosting == {w \in Workers : job[w].at = "boost"}

\* "A monthly allowance": boosts that count before one another is written go
\* over it, but never by more than the other requests in flight.
BoostsAreRationed ==
  Cardinality(boosted) + Cardinality(Boosting)
    < FREE_BOOSTS_PER_MONTH + Cardinality(Workers)

=============================================================================
