------------------------------ MODULE Billing ------------------------------
(***************************************************************************)
(* Subscriptions (modules/subscriptions): Razorpay's and Apple's billing,  *)
(* the one Subscription row of a user that mirrors them, the isPremium     *)
(* flag of the users of an account, and how deleting the account cancels   *)
(* what Razorpay would go on charging (deleteAccount of                    *)
(* modules/auth/auth.service.js).                                          *)
(*                                                                         *)
(* The two billing systems are external.  What they say about a            *)
(* subscription may come late, twice and out of order, or never: an error  *)
(* while handling it is answered with 200, so that nobody repeats it.      *)
(* Of Razorpay's statuses AUTHENTICATED, PENDING and HALTED, which the     *)
(* code treats like CREATED, and COMPLETED and EXPIRED, which it treats    *)
(* like CANCELLED, are left out, as are periods and renewals.              *)
(***************************************************************************)
EXTENDS Requests

CONSTANTS
  Subscribers,   \* users
  PayerOf,       \* the account of each of them
  RazorpayIds,   \* subscriptions Razorpay may create
  Purchases      \* purchases in the App Store (originalTransactionId)

VARIABLES
  subscriptions,  \* table Subscription
  premium,        \* the users with isPremium
  closed,         \* the users who are DELETED
  gateway,        \* what Razorpay knows about each of its subscriptions
  store           \* what Apple knows about each purchase

billingVars == <<subscriptions, premium, closed, gateway, store, job>>

external == <<gateway, store>>

SubscriptionStatus == {"CREATED", "ACTIVE", "CANCELLED", "EXPIRED"}

BILLABLE_SUBSCRIPTION_STATES == {"CREATED", "ACTIVE"}

Subscription == [razorpay : RazorpayIds \cup {None}, apple : Purchases \cup {None},
                 status : SubscriptionStatus]

\* The events about a subscription, its current status among them.
Razorpay == [user : Subscribers, status : {"CREATED", "ACTIVE", "CANCELLED"},
             said : SUBSET {"ACTIVE", "CANCELLED"}]

ASSUME BillingConstants ==
  None \notin Subscribers \cup RazorpayIds \cup Purchases \cup Subscription \cup Razorpay

BillingJob ==
  {Idle}
  \cup [at : {"createAtRazorpay"}, user : Subscribers]
  \cup [at : {"record"}, user : Subscribers, razorpay : RazorpayIds]
  \cup [at : {"event"}, user : Subscribers, status : SubscriptionStatus]
  \cup [at : {"checkPurchase", "upsertPurchase"}, user : Subscribers, purchase : Purchases,
        status : SubscriptionStatus]
  \cup [at : {"sync"}, account : {PayerOf[u] : u \in Subscribers}, active : BOOLEAN]
  \cup [at : {"cancel", "cancelled"}, user : Subscribers, left : SUBSET Subscribers,
        next : Subscribers \cup {None},
        rows : [Subscribers -> Subscription \cup {None}]]

BillingInit ==
  /\ subscriptions = [u \in Subscribers |-> None]
  /\ premium = {} /\ closed = {}
  /\ gateway = [s \in RazorpayIds |-> None]
  /\ store = [o \in Purchases |-> "ACTIVE"]
  /\ job = NoJobs

UsersOf(a) == {u \in Subscribers : PayerOf[u] = a}

ToSync(u, active) == [at |-> "sync", account |-> PayerOf[u], active |-> active]

ToCheck(u, o, status) ==
  [at |-> "checkPurchase", user |-> u, purchase |-> o, status |-> status]

---------------------------------------------------------------------------
(* createSubscription *)

ReadMine(w, u) ==
  /\ u \notin closed
  /\ subscriptions[u] # None => subscriptions[u].status # "ACTIVE"
  /\ Begin(w, [at |-> "createAtRazorpay", user |-> u])
  /\ UNCHANGED <<subscriptions, premium, closed, external>>

CreateAtRazorpay(w) ==
  /\ job[w].at = "createAtRazorpay"
  /\ \E s \in RazorpayIds :
       /\ gateway[s] = None
       /\ gateway' = [gateway EXCEPT ![s] = [user |-> job[w].user, status |-> "CREATED",
                                             said |-> {}]]
       /\ GoTo(w, [at |-> "record", user |-> job[w].user, razorpay |-> s])
  /\ UNCHANGED <<subscriptions, premium, closed, store>>

\* The upsert replaces the id of an earlier subscription and keeps Apple's.
RecordSubscription(w) ==
  LET j == job[w]
      row == subscriptions[j.user]
  IN  /\ j.at = "record"
      /\ subscriptions' =
           [subscriptions EXCEPT ![j.user] =
              [razorpay |-> j.razorpay, status |-> "CREATED",
               apple |-> IF row = None THEN None ELSE row.apple]]
      /\ Finish(w)
      /\ UNCHANGED <<premium, closed, external>>

---------------------------------------------------------------------------
(* handleWebhookEvent *)

FindSubscription(w, u, s, status) ==
  /\ gateway[s] # None /\ status \in gateway[s].said
  /\ subscriptions[u] # None /\ subscriptions[u].razorpay = s
  /\ Begin(w, [at |-> "event", user |-> u, status |-> status])
  /\ UNCHANGED <<subscriptions, premium, closed, external>>

\* Mutant: the status is spelt as Razorpay spells it.
WriteEventLowercase(w) ==
  LET j == job[w]
  IN  /\ j.at = "event"
      /\ subscriptions' = [subscriptions EXCEPT ![j.user].status =
                              IF j.status = "ACTIVE" THEN "active" ELSE "cancelled"]
      /\ GoTo(w, ToSync(j.user, j.status = "ACTIVE"))
      /\ UNCHANGED <<premium, closed, external>>

\* By the row's id, whichever subscription it is of by now.
WriteEvent(w) ==
  LET j == job[w]
  IN  /\ j.at = "event"
      /\ subscriptions' = [subscriptions EXCEPT ![j.user].status = j.status]
      /\ GoTo(w, ToSync(j.user, j.status = "ACTIVE"))
      /\ UNCHANGED <<premium, closed, external>>

\* All users of the account get what one subscription says.
syncPremiumStatus(w) ==
  LET j == job[w]
  IN  /\ j.at = "sync"
      /\ premium' = IF j.active THEN premium \cup UsersOf(j.account)
                    ELSE premium \ UsersOf(j.account)
      /\ Finish(w)
      /\ UNCHANGED <<subscriptions, closed, external>>

\* grantPremium and revokePremium, an admin's override.
OverridePremium(w, u, active) ==
  /\ u \notin closed
  /\ Begin(w, ToSync(u, active))
  /\ UNCHANGED <<subscriptions, premium, closed, external>>

---------------------------------------------------------------------------
(* verifyPurchase and handleNotification *)

\* A transaction of purchase o that was revoked or not when Apple signed it,
\* and may have expired since.
statusFromTransaction(o, revoked) ==
  IF revoked THEN "CANCELLED" ELSE IF store[o] = "EXPIRED" THEN "EXPIRED" ELSE "ACTIVE"

verifyPurchase(w, u, o) ==
  /\ u \notin closed
  /\ Begin(w, ToCheck(u, o, statusFromTransaction(o, store[o] = "CANCELLED")))
  /\ UNCHANGED <<subscriptions, premium, closed, external>>

handleNotification(w, u, o, revoked) ==
  /\ subscriptions[u] # None /\ subscriptions[u].apple = o
  /\ revoked => store[o] = "CANCELLED"
  /\ Begin(w, ToCheck(u, o, statusFromTransaction(o, revoked)))
  /\ UNCHANGED <<subscriptions, premium, closed, external>>

\* Another user's row has the purchase.
LinkedElsewhere(u, o) ==
  \E v \in Subscribers \ {u} : subscriptions[v] # None /\ subscriptions[v].apple = o

CheckPurchase(w) ==
  LET j == job[w]
  IN  /\ j.at = "checkPurchase"
      /\ IF LinkedElsewhere(j.user, j.purchase) THEN Finish(w)
         ELSE GoTo(w, [j EXCEPT !.at = "upsertPurchase"])
      /\ UNCHANGED <<subscriptions, premium, closed, external>>

\* The upsert keeps Razorpay's id; appleOriginalTransactionId is unique.
UpsertPurchase(w) ==
  LET j == job[w]
      row == subscriptions[j.user]
  IN  /\ j.at = "upsertPurchase"
      /\ IF LinkedElsewhere(j.user, j.purchase)
         THEN Finish(w) /\ UNCHANGED subscriptions
         ELSE /\ subscriptions' =
                   [subscriptions EXCEPT ![j.user] =
                      [razorpay |-> IF row = None THEN None ELSE row.razorpay,
                       apple |-> j.purchase, status |-> j.status]]
              /\ GoTo(w, ToSync(j.user, j.status = "ACTIVE"))
      /\ UNCHANGED <<premium, closed, external>>

---------------------------------------------------------------------------
(* deleteAccount *)

Billable(row) == row # None /\ row.status \in BILLABLE_SUBSCRIPTION_STATES

\* The rows of all users of the account are read once.
ReadToClose(w, u) ==
  /\ u \notin closed
  /\ LET rows == [v \in Subscribers |-> IF v \in UsersOf(PayerOf[u]) THEN subscriptions[v] ELSE None]
     IN  Begin(w, [at |-> "cancel", user |-> u, rows |-> rows, next |-> None,
                   left |-> {v \in Subscribers : Billable(rows[v])}])
  /\ UNCHANGED <<subscriptions, premium, closed, external>>

Cancelled(s) ==
  gateway' = [gateway EXCEPT ![s].status = "CANCELLED", ![s].said = @ \cup {"CANCELLED"}]

\* Mutant: a subscription that cannot be cancelled is given up.
CancelOrGoOn(w, u, fails) ==
  LET j == job[w]
      s == j.rows[u].razorpay
  IN  /\ j.at = "cancel" /\ u \in j.left
      /\ IF fails \/ s = None THEN UNCHANGED gateway ELSE Cancelled(s)
      /\ GoTo(w, [j EXCEPT !.at = "cancelled", !.left = @ \ {u}, !.next = u])
      /\ UNCHANGED <<subscriptions, premium, closed, store>>

\* Razorpay cancels the subscription of u; one that is over counts as well.
\* If the call fails, as it does for a row without a Razorpay id, so does the
\* request.
CancelAtRazorpay(w, u, fails) ==
  LET j == job[w]
      s == j.rows[u].razorpay
  IN  /\ j.at = "cancel" /\ u \in j.left
      /\ IF fails \/ s = None THEN Finish(w) /\ UNCHANGED gateway
         ELSE Cancelled(s) /\ GoTo(w, [j EXCEPT !.at = "cancelled", !.left = @ \ {u}, !.next = u])
      /\ UNCHANGED <<subscriptions, premium, closed, store>>

RecordCancelled(w) ==
  LET j == job[w]
  IN  /\ j.at = "cancelled"
      /\ subscriptions' = [subscriptions EXCEPT ![j.next].status = "CANCELLED"]
      /\ GoTo(w, [j EXCEPT !.at = "cancel", !.next = None])
      /\ UNCHANGED <<premium, closed, external>>

CloseAccount(w) ==
  LET j == job[w]
  IN  /\ j.at = "cancel" /\ j.left = {}
      /\ closed' = closed \cup UsersOf(PayerOf[j.user])
      /\ premium' = premium \ UsersOf(PayerOf[j.user])
      /\ Finish(w)
      /\ UNCHANGED <<subscriptions, external>>

---------------------------------------------------------------------------
(* Razorpay and Apple *)

\* The customer pays or the subscription ends, and Razorpay says so.
RazorpayMoves(s, status) ==
  /\ gateway[s] # None /\ gateway[s].status \notin {status, "CANCELLED"}
  /\ gateway' = [gateway EXCEPT ![s].status = status, ![s].said = @ \cup {status}]
  /\ UNCHANGED <<subscriptions, premium, closed, store, job>>

\* A purchase expires or is refunded.
AppleMoves(o, status) ==
  /\ store[o] = "ACTIVE"
  /\ store' = [store EXCEPT ![o] = status]
  /\ UNCHANGED <<subscriptions, premium, closed, gateway, job>>

---------------------------------------------------------------------------
BillingStep(w) ==
  \/ CreateAtRazorpay(w) \/ RecordSubscription(w)
  \/ WriteEvent(w) \/ syncPremiumStatus(w)
  \/ CheckPurchase(w) \/ UpsertPurchase(w)
  \/ \E u \in Subscribers, fails \in BOOLEAN : CancelAtRazorpay(w, u, fails)
  \/ RecordCancelled(w) \/ CloseAccount(w)

BillingArrive(w) ==
  \E u \in Subscribers :
    \/ ReadMine(w, u) \/ ReadToClose(w, u)
    \/ \E s \in RazorpayIds, status \in SubscriptionStatus : FindSubscription(w, u, s, status)
    \/ \E o \in Purchases : \/ verifyPurchase(w, u, o)
                            \/ \E revoked \in BOOLEAN : handleNotification(w, u, o, revoked)
    \/ \E active \in BOOLEAN : OverridePremium(w, u, active)

BillingNext ==
  \/ \E w \in Workers : BillingArrive(w) \/ BillingStep(w)
  \/ \E s \in RazorpayIds, status \in {"ACTIVE", "CANCELLED"} :
       RazorpayMoves(s, status)
  \/ \E o \in Purchases, status \in {"EXPIRED", "CANCELLED"} : AppleMoves(o, status)

BillingSpec == BillingInit /\ [][BillingNext]_billingVars

---------------------------------------------------------------------------
(* Properties *)

BillingTypeOK ==
  /\ subscriptions \in [Subscribers -> Subscription \cup {None}]
  /\ premium \subseteq Subscribers /\ closed \subseteq Subscribers
  /\ gateway \in [RazorpayIds -> Razorpay \cup {None}]
  /\ store \in [Purchases -> {"ACTIVE", "EXPIRED", "CANCELLED"}]
  /\ job \in [Workers -> BillingJob]

\* Razorpay can still charge for s.
Charges(s) == s # None /\ gateway[s] # None /\ gateway[s].status # "CANCELLED"

\* "Must be cancelled at Razorpay before the account row is tombstoned": the
\* subscriptions a deletion found billable charge no more once the account is
\* closed, whatever call failed and whatever raced for the rows.
CancelledBeforeClosed ==
  [][\A w \in Workers :
       job[w].at = "cancel" /\ closed' # closed /\ job'[w] = Idle
       => \A u \in Subscribers :
            Billable(job[w].rows[u]) => ~Charges(job[w].rows[u].razorpay)]_billingVars

---------------------------------------------------------------------------
(* What a comment says, which a second subscription refutes *)

\* "Or billing outlives the account": no subscription of a deleted user can
\* be charged.
BillingEndsWithAccount ==
  \A s \in RazorpayIds : Charges(s) => gateway[s].user \notin closed

=============================================================================
