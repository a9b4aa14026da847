--------------------------- MODULE CallbackProofs ---------------------------
(***************************************************************************)
(* Proofs about what goes through other services: the Instagram accounts,  *)
(* the social accounts, billing, the phones pushes go to and who is told   *)
(* of a new post, each for any number of users, rows and requests; and,    *)
(* at the end, of the five put together as the runs check them.  Most      *)
(* actions are a step of one request.  A Move lemma says once what such a  *)
(* step keeps; a lemma per action then shows that the action is one.       *)
(***************************************************************************)
EXTENDS MCCallbacks, SequenceTheorems, TLAPS

---------------------------------------------------------------------------
(* Instagram *)

\* The stages of a request that enters a handle.
IgEntries == {"own", "expireIgs", "createIg", "shareIg"}

\* The stages of a request that is at a row.
IgRowStages == IgStages \ IgEntries

\* Nothing was verified later than the latest delivery.
Recent(j) ==
  /\ j.at \in IgEntries => j.verifiedAt <= igClock
  /\ j.at \in {"sender", "verifyIg"} => j.now <= igClock

\* The inductive invariant of the Instagram accounts.
IgInv ==
  /\ igs \in Seq(IgRow)
  /\ igClock \in 0..MaxDeliveries
  /\ job \in [Workers -> IgJob]
  /\ \A r \in DOMAIN igs : igs[r].verifiedAt <= igClock
  /\ \A w \in Workers : Recent(job[w])

\* What a step of worker w may do to row r.
IgRowMoves(w, r) ==
  \/ /\ r \in DOMAIN igs /\ igs'[r].verifiedAt = igs[r].verifiedAt
     /\ \/ igs'[r].status = igs[r].status
        \/ igs[r].status = "PENDING" /\ igs'[r].status = "EXPIRED"
  \/ /\ r \in DOMAIN igs /\ Holds(w, r) /\ job[w].at # "mayRemove"
     /\ \/ igs'[r].status # "VERIFIED" /\ igs'[r].verifiedAt = igs[r].verifiedAt
        \/ job[w].at = "verifyIg" /\ igs'[r].verifiedAt = job[w].now
  \/ /\ r \notin DOMAIN igs /\ job[w].at \in {"createIg", "shareIg"}
     /\ igs'[r].user = job[w].user /\ igs'[r].handle = job[w].handle
     /\ igs'[r].verifiedAt = job[w].verifiedAt
     /\ igs'[r].status = "VERIFIED" => job[w].at = "shareIg"

\* What a step of worker w may take up.
IgJobMoves(w, j) ==
  \/ j = Idle
  \/ /\ j.at \in IgEntries
     /\ \/ j.at = "own" /\ ~TakenByOther(j.user, j.handle) /\ j.verifiedAt = 0
        \/ /\ job[w].at \in IgEntries /\ j.at # "shareIg"
           /\ j.user = job[w].user /\ j.handle = job[w].handle
           /\ j.verifiedAt = job[w].verifiedAt
        \/ /\ j.at = "shareIg" /\ AccountIgs(AccountOf[j.user], j.handle, "VERIFIED") # {}
           /\ j.verifiedAt = igClock + 1 /\ igClock' = igClock + 1
  \/ /\ j.at \in IgRowStages /\ j.row \in DOMAIN igs
     /\ \/ igs[j.row].status = "VERIFIED" /\ j.at = "mayRemove"
        \/ igs[j.row].status = "PENDING" /\ j.at = "expireIg"
        \/ /\ igs[j.row].status = "PENDING" /\ j.at = "sender"
           /\ j.now = igClock + 1 /\ igClock' = igClock + 1
        \/ /\ Holds(w, j.row) /\ j.at \in {"removeIg", "verifyIg", "failIg"}
           /\ job[w].at = "mayRemove" => j.row \notin Earliest(igs[j.row].user)
           /\ j.at = "verifyIg" => job[w].at = "sender" /\ j.now = job[w].now

\* A step of worker w to j, as far as the properties see it.
IgMoves(w, j) ==
  /\ job' = [job EXCEPT ![w] = j]
  /\ igs' \in Seq(IgRow) /\ Len(igs) <= Len(igs')
  /\ igClock' \in {igClock, igClock + 1} /\ igClock' <= MaxDeliveries
  /\ \A r \in DOMAIN igs : igs'[r].user = igs[r].user /\ igs'[r].handle = igs[r].handle
  /\ \A r \in DOMAIN igs' : IgRowMoves(w, r)
  /\ IgJobMoves(w, j)

\* What a row holds.
LEMMA IgRowsTyped ==
  ASSUME igs \in Seq(IgRow)
  PROVE  /\ Len(igs) \in Nat /\ DOMAIN igs = 1..Len(igs)
         /\ \A r \in DOMAIN igs :
              /\ igs[r] \in IgRow /\ igs[r].user \in IgUsers /\ igs[r].handle \in Handles
              /\ igs[r].status \in InstagramVerificationStatus
              /\ igs[r].expired \in BOOLEAN
              /\ igs[r].verifiedAt \in 0..MaxDeliveries
  <1>1. Len(igs) \in Nat /\ DOMAIN igs = 1..Len(igs)
    OBVIOUS
  <1>2. ASSUME NEW r \in 1..Len(igs) PROVE igs[r] \in IgRow
    OBVIOUS
  <1>3. \A row \in IgRow : /\ row.user \in IgUsers /\ row.handle \in Handles
                           /\ row.status \in InstagramVerificationStatus
                           /\ row.expired \in BOOLEAN
                           /\ row.verifiedAt \in 0..MaxDeliveries
    BY DEF IgRow
  <1> QED
    BY <1>1, <1>2, <1>3

\* A request that enters a handle.
IgEntry == [at : IgEntries, user : IgUsers, handle : Handles, verifiedAt : 0..MaxDeliveries]

\* What a request of each stage holds.
LEMMA IgFields ==
  ASSUME NEW j \in IgJob
  PROVE  /\ j.at \in IgEntries => j \in IgEntry
         /\ j.at \in IgRowStages => j.row \in DOMAIN igs
         /\ j.at \in {"mayRemove", "removeIg", "expireIg", "failIg"} =>
              j \in [at : {"mayRemove", "removeIg", "expireIg", "failIg"}, row : DOMAIN igs]
         /\ j.at \in {"sender", "verifyIg"} =>
              j \in [at : {"sender", "verifyIg"}, row : DOMAIN igs, now : 1..MaxDeliveries]
         /\ j = Idle <=> j.at = "idle"
  BY DEF IgJob, IgEntry, IgEntries, IgRowStages, IgStages, Idle

\* Steps keep the invariant.
LEMMA IgMovesOn ==
  ASSUME IgInv, NEW w \in Workers, NEW j \in IgJob, IgMoves(w, j)
  PROVE  IgInv'
  <1>1. /\ Len(igs) \in Nat /\ DOMAIN igs = 1..Len(igs)
        /\ Len(igs') \in Nat /\ DOMAIN igs' = 1..Len(igs')
        /\ Len(igs) <= Len(igs') /\ igs' \in Seq(IgRow)
        /\ igClock' \in {igClock, igClock + 1} /\ igClock' <= MaxDeliveries
        /\ igClock \in 0..MaxDeliveries /\ MaxDeliveries \in Nat
    BY IgConstants DEF IgInv, IgMoves
  <1>2. DOMAIN igs \subseteq DOMAIN igs' /\ igClock' \in 0..MaxDeliveries /\ igClock <= igClock'
    BY <1>1
  <1>3. IgJob \subseteq IgJob'
    BY <1>2 DEF IgJob
  <1>4. job' \in [Workers -> IgJob']
    BY <1>3 DEF IgInv, IgMoves
  <1>5. \A i \in IgJob : Recent(i) => Recent(i)'
    <2> SUFFICES ASSUME NEW i \in IgJob, Recent(i) PROVE Recent(i)'
      OBVIOUS
    <2>1. i.at \in IgEntries => i.verifiedAt \in 0..MaxDeliveries
      BY IgFields DEF IgEntry
    <2>2. i.at \in {"sender", "verifyIg"} => i.now \in 1..MaxDeliveries
      BY IgFields
    <2> QED
      BY <1>1, <1>2, <2>1, <2>2 DEF Recent
  <1>6. Recent(j)'
    <2>1. Recent(job[w]) /\ job[w] \in IgJob
      BY DEF IgInv
    <2>2. job[w].at \in IgEntries => job[w].verifiedAt <= igClock'
      <3>1. job[w].at \in IgEntries => job[w].verifiedAt \in 0..MaxDeliveries
        BY <2>1, IgFields DEF IgEntry
      <3> QED
        BY <1>1, <1>2, <2>1, <3>1 DEF Recent
    <2>3. job[w].at = "sender" => job[w].now <= igClock'
      <3>1. job[w].at = "sender" => job[w].now \in 1..MaxDeliveries
        BY <2>1, IgFields
      <3> QED
        BY <1>1, <1>2, <2>1, <3>1 DEF Recent
    <2>4. IgJobMoves(w, j)
      BY DEF IgMoves
    <2> QED
      BY <1>1, <1>2, <2>2, <2>3, <2>4
         DEF Recent, IgJobMoves, IgEntries, IgRowStages, IgStages, Idle
  <1>7. \A v \in Workers : job'[v] = IF v = w THEN j ELSE job[v]
    BY DEF IgInv, IgMoves
  <1>8. ASSUME NEW v \in Workers PROVE Recent(job[v])'
    <2>1. PICK i : i = job'[v]
      OBVIOUS
    <2>2. Recent(i)'
      BY <1>5, <1>6, <1>7, <2>1 DEF IgInv
    <2> QED
      BY <2>1, <2>2
  <1>9. ASSUME NEW r \in DOMAIN igs' PROVE igs'[r].verifiedAt <= igClock'
    <2>1. r \in DOMAIN igs => igs[r].verifiedAt <= igClock /\ igs[r].verifiedAt \in 0..MaxDeliveries
      BY IgRowsTyped DEF IgInv
    <2>2. job[w].at = "verifyIg" => job[w].now <= igClock /\ job[w].now \in 1..MaxDeliveries
      BY IgFields DEF IgInv, Recent
    <2>3. job[w].at \in IgEntries
          => job[w].verifiedAt <= igClock /\ job[w].verifiedAt \in 0..MaxDeliveries
      BY IgFields DEF IgInv, Recent, IgEntry
    <2>4. IgRowMoves(w, r)
      BY DEF IgMoves
    <2> QED
      BY <1>1, <1>2, <2>1, <2>2, <2>3, <2>4 DEF IgRowMoves, IgEntries
  <1> QED
    BY <1>1, <1>2, <1>4, <1>8, <1>9 DEF IgInv

\* And a handle exclusive.
LEMMA ExclusiveOn ==
  ASSUME IgInv, NEW w \in Workers, NEW j \in IgJob, IgMoves(w, j),
         NEW a, NEW h, Exclusive(a, h), AccountIgs(a, h, "VERIFIED")' # {}
  PROVE  Exclusive(a, h)'
  <1> DEFINE Foreign(r) == igs[r].handle = h /\ AccountOf[igs[r].user] # a
  <1>1. /\ Len(igs) \in Nat /\ DOMAIN igs = 1..Len(igs) /\ DOMAIN igs' = 1..Len(igs')
        /\ Len(igs) <= Len(igs')
    BY DEF IgInv, IgMoves
  <1>2. DOMAIN igs \subseteq DOMAIN igs'
    BY <1>1
  <1>3. \A v \in Workers : job'[v] = IF v = w THEN j ELSE job[v]
    BY DEF IgInv, IgMoves
  <1>4. \A r \in DOMAIN igs : igs'[r].user = igs[r].user /\ igs'[r].handle = igs[r].handle
    BY DEF IgMoves
  <1>5. \A r \in DOMAIN igs :
          Foreign(r) => /\ igs[r].status \notin {"PENDING", "VERIFIED"}
                       /\ \A v \in Workers : ~Holds(v, r)
    BY DEF Exclusive
  <1>6. job[w].at \in IgEntries /\ job[w].handle = h => AccountOf[job[w].user] = a
    BY DEF Exclusive, IgEntries
  <1>7. ASSUME NEW r \in DOMAIN igs', igs'[r].handle = h, AccountOf[igs'[r].user] # a
        PROVE  r \in DOMAIN igs /\ Foreign(r) /\ igs'[r].status \notin {"PENDING", "VERIFIED"}
    <2>1. IgRowMoves(w, r)
      BY DEF IgMoves
    <2>2. r \in DOMAIN igs
      BY <1>6, <1>7, <2>1 DEF IgRowMoves, IgEntries
    <2>3. Foreign(r)
      BY <1>4, <1>7, <2>2
    <2>4. ~Holds(w, r) /\ igs[r].status \notin {"PENDING", "VERIFIED"}
      BY <1>5, <2>2, <2>3
    <2> QED
      BY <2>1, <2>2, <2>3, <2>4 DEF IgRowMoves
  <1>8. j.at \in IgRowStages => j.row \in DOMAIN igs /\ ~Foreign(j.row)
    <2>1. IgJobMoves(w, j)
      BY DEF IgMoves
    <2>2. CASE j.at \in IgRowStages
      <3>1. /\ j.row \in DOMAIN igs
            /\ igs[j.row].status \in {"PENDING", "VERIFIED"} \/ Holds(w, j.row)
        BY <2>1, <2>2 DEF IgJobMoves, IgRowStages, IgStages, IgEntries, Idle
      <3> QED
        BY <1>5, <3>1
    <2> QED
      BY <2>2
  <1>9. ASSUME j.at \in IgEntries, j.handle = h PROVE AccountOf[j.user] = a
    <2>1. IgJobMoves(w, j) /\ j \in IgEntry
      BY <1>9, IgFields DEF IgMoves
    <2>2. PICK r \in AccountIgs(a, h, "VERIFIED") : TRUE
      BY DEF Exclusive
    <2>3. r \in DOMAIN igs /\ igs[r].user \in IgUsers /\ AccountOf[igs[r].user] = a
      BY <2>2, IgRowsTyped DEF AccountIgs, IgInv
    <2>4. CASE ~TakenByOther(j.user, h)
      BY <2>2, <2>3, <2>4 DEF TakenByOther
    <2>5. CASE AccountIgs(AccountOf[j.user], h, "VERIFIED") # {}
      <3>1. PICK q \in AccountIgs(AccountOf[j.user], h, "VERIFIED") : TRUE
        BY <2>5
      <3>2. /\ q \in DOMAIN igs /\ igs[q].status = "VERIFIED" /\ igs[q].handle = h
            /\ AccountOf[igs[q].user] = AccountOf[j.user]
        BY <3>1 DEF AccountIgs
      <3> QED
        BY <1>5, <3>2
    <2> QED
      BY <1>6, <1>9, <2>1, <2>4, <2>5
         DEF IgJobMoves, IgEntries, IgRowStages, Idle
  <1>10. ASSUME NEW r \in DOMAIN igs', igs'[r].handle = h, AccountOf[igs'[r].user] # a,
                NEW v \in Workers
         PROVE  ~Holds(v, r)'
    <2>1. r \in DOMAIN igs /\ Foreign(r)
      BY <1>7, <1>10
    <2>2. CASE v = w
      BY <1>3, <1>8, <2>1, <2>2 DEF Holds, IgRowStages, IgEntries
    <2>3. CASE v # w
      BY <1>3, <1>5, <2>1, <2>3 DEF Holds
    <2> QED
      BY <2>2, <2>3
  <1>11. ASSUME NEW v \in Workers, job'[v].at \in IgEntries, job'[v].handle = h
         PROVE  AccountOf[job'[v].user] = a
    BY <1>3, <1>9, <1>11 DEF Exclusive, IgEntries
  <1> QED
    BY <1>7, <1>10, <1>11 DEF Exclusive, IgEntries

\* And the first account of a user.
LEMMA AnchoredOn ==
  ASSUME IgInv, NEW w \in Workers, NEW j \in IgJob, IgMoves(w, j),
         NEW u \in IgUsers, NEW r \in DOMAIN igs, Anchored(u, r)
  PROVE  Anchored(u, r)'
  <1>1. /\ Len(igs) \in Nat /\ DOMAIN igs = 1..Len(igs) /\ DOMAIN igs' = 1..Len(igs')
        /\ Len(igs) <= Len(igs')
    BY DEF IgInv, IgMoves
  <1>2. DOMAIN igs \subseteq DOMAIN igs'
    BY <1>1
  <1>3. \A v \in Workers : job'[v] = IF v = w THEN j ELSE job[v]
    BY DEF IgInv, IgMoves
  <1>4. \A q \in DOMAIN igs : igs'[q].user = igs[q].user /\ igs'[q].handle = igs[q].handle
    BY DEF IgMoves
  <1>5. /\ igs[r].status = "VERIFIED" /\ igs[r].user = u
        /\ \A q \in DOMAIN igs : igs[q].status = "VERIFIED" /\ igs[q].user = u
                                 => igs[r].verifiedAt <= igs[q].verifiedAt
    BY DEF Anchored, Earliest, IgsOf
  <1>6. \A v \in Workers :
          /\ Holds(v, r) => job[v].at = "mayRemove"
          /\ job[v].at \in {"sender", "verifyIg"} /\ igs[job[v].row].user = u
             => job[v].now > igs[r].verifiedAt
          /\ job[v].at = "shareIg" /\ job[v].user = u => job[v].verifiedAt > igs[r].verifiedAt
    BY DEF Anchored
  <1>7. igs'[r].status = "VERIFIED" /\ igs'[r].user = u /\ igs'[r].verifiedAt = igs[r].verifiedAt
    <2>1. IgRowMoves(w, r)
      BY <1>2 DEF IgMoves
    <2> QED
      BY <1>4, <1>5, <1>6, <2>1 DEF IgRowMoves
  <1>8. ASSUME NEW q \in DOMAIN igs', igs'[q].status = "VERIFIED", igs'[q].user = u
        PROVE  igs[r].verifiedAt <= igs'[q].verifiedAt
    <2>1. IgRowMoves(w, q) /\ igs[r].verifiedAt \in 0..MaxDeliveries
      BY IgRowsTyped DEF IgMoves, IgInv
    <2>2. CASE q \in DOMAIN igs /\ igs'[q].verifiedAt = igs[q].verifiedAt
               /\ igs'[q].status = igs[q].status
      BY <1>4, <1>5, <1>8, <2>2
    <2>3. CASE q \in DOMAIN igs /\ Holds(w, q) /\ job[w].at = "verifyIg"
               /\ igs'[q].verifiedAt = job[w].now
      <3>1. job[w].row = q /\ igs[q].user = u /\ job[w].now \in 1..MaxDeliveries
        BY <1>4, <1>8, <2>3, IgFields DEF Holds, IgInv
      <3>2. job[w].now > igs[r].verifiedAt
        BY <1>6, <2>3, <3>1
      <3> QED
        BY <2>1, <2>3, <3>1, <3>2
    <2>4. CASE q \notin DOMAIN igs /\ job[w].at = "shareIg" /\ igs'[q].user = job[w].user
               /\ igs'[q].verifiedAt = job[w].verifiedAt
      <3>1. job[w].verifiedAt \in 0..MaxDeliveries /\ job[w].verifiedAt > igs[r].verifiedAt
        BY <1>6, <1>8, <2>4, IgFields DEF IgInv, IgEntries, IgEntry
      <3> QED
        BY <2>1, <2>4, <3>1
    <2> QED
      BY <1>8, <2>1, <2>2, <2>3, <2>4 DEF IgRowMoves
  <1>9. igs[r].verifiedAt \in 0..MaxDeliveries /\ igs[r].verifiedAt <= igClock
        /\ igClock \in 0..MaxDeliveries /\ MaxDeliveries \in Nat
    BY IgRowsTyped, IgConstants DEF IgInv
  <1>10. r \in Earliest(igs[r].user)
    BY <1>5 DEF Anchored
  <1>11. IgJobMoves(w, j)
    BY DEF IgMoves
  <1>12. j.at \in IgRowStages /\ j.row = r => j.at = "mayRemove"
    BY <1>5, <1>6, <1>10, <1>11
       DEF IgJobMoves, IgRowStages, IgStages, IgEntries, Idle, Holds
  <1>13. ASSUME j.at \in {"sender", "verifyIg"}, igs'[j.row].user = u
         PROVE  j.now > igs[r].verifiedAt
    <2>1. j.row \in DOMAIN igs /\ igs[j.row].user = u
      BY <1>4, <1>13, IgFields DEF IgInv, IgRowStages, IgStages, IgEntries
    <2>2. CASE j.at = "sender" /\ j.now = igClock + 1
      BY <1>9, <2>2
    <2>3. CASE j.at = "verifyIg" /\ job[w].at = "sender" /\ j.now = job[w].now /\ Holds(w, j.row)
      BY <1>6, <2>1, <2>3 DEF Holds
    <2> QED
      BY <1>11, <1>13, <2>2, <2>3
         DEF IgJobMoves, IgRowStages, IgStages, IgEntries, Idle
  <1>14. ASSUME j.at = "shareIg", j.user = u PROVE j.verifiedAt > igs[r].verifiedAt
    BY <1>9, <1>11, <1>14 DEF IgJobMoves, IgRowStages, IgStages, IgEntries, Idle
  <1>15. r \in Earliest(u)'
    BY <1>2, <1>7, <1>8 DEF Earliest, IgsOf
  <1>16. ASSUME NEW v \in Workers
         PROVE  /\ Holds(v, r)' => job'[v].at = "mayRemove"
                /\ job'[v].at \in {"sender", "verifyIg"} /\ igs'[job'[v].row].user = u
                   => job'[v].now > igs[r].verifiedAt
                /\ job'[v].at = "shareIg" /\ job'[v].user = u
                   => job'[v].verifiedAt > igs[r].verifiedAt
    <2>1. CASE v = w
      BY <1>3, <1>12, <1>13, <1>14, <2>1 DEF Holds, IgRowStages, IgEntries
    <2>2. CASE v # w
      <3>1. job'[v] = job[v]
        BY <1>3, <2>2
      <3>2. job[v].at \in {"sender", "verifyIg"} => igs'[job[v].row].user = igs[job[v].row].user
        BY <1>4, IgFields DEF IgInv, IgRowStages, IgStages, IgEntries
      <3> QED
        BY <1>6, <3>1, <3>2 DEF Holds
    <2> QED
      BY <2>1, <2>2
  <1> QED
    BY <1>7, <1>15, <1>16 DEF Anchored

\* A step that writes no row.
LEMMA IgReads ==
  ASSUME IgInv, NEW w \in Workers, NEW j, job' = [job EXCEPT ![w] = j], UNCHANGED igs,
         igClock' \in {igClock, igClock + 1}, igClock' <= MaxDeliveries, IgJobMoves(w, j)
  PROVE  IgMoves(w, j)
  <1>1. \A r \in DOMAIN igs' : IgRowMoves(w, r)
    BY DEF IgRowMoves
  <1> QED
    BY <1>1 DEF IgMoves, IgInv

\* What the invariant says of the clock.
LEMMA IgClockReads ==
  ASSUME IgInv
  PROVE  /\ igClock \in Nat /\ MaxDeliveries \in Nat /\ igClock <= MaxDeliveries
         /\ igClock < MaxDeliveries => igClock + 1 <= MaxDeliveries
                                       /\ igClock + 1 \in 1..MaxDeliveries
         /\ 0 \in 0..MaxDeliveries
  BY IgConstants DEF IgInv

\* A handle is entered: other accounts' rows are looked for.
LEMMA IgCheckOthers ==
  ASSUME IgInv, NEW w \in Workers, NEW u \in IgUsers, NEW h \in Handles, CheckOthers(w, u, h)
  PROVE  \E j \in IgJob : IgMoves(w, j)
  <1>1. PICK j : j = Entering("own", u, h, 0)
    OBVIOUS
  <1>2. j \in IgJob /\ j.at = "own" /\ j.user = u /\ j.handle = h /\ j.verifiedAt = 0
    BY <1>1, IgClockReads DEF Entering, IgJob
  <1>3. job' = [job EXCEPT ![w] = j] /\ UNCHANGED <<igs, igClock>> /\ ~TakenByOther(u, h)
    BY <1>1 DEF CheckOthers, Begin
  <1>4. IgJobMoves(w, j)
    BY <1>2, <1>3 DEF IgJobMoves, IgEntries
  <1> QED
    BY <1>2, <1>3, <1>4, IgReads, IgClockReads

\* A handle that another role of the same person has verified is entered.
LEMMA IgReuse ==
  ASSUME IgInv, NEW w \in Workers, NEW u \in IgUsers, NEW h \in Handles, ReuseVerified(w, u, h)
  PROVE  \E j \in IgJob : IgMoves(w, j)
  <1>1. PICK j : j = Entering("shareIg", u, h, igClock + 1)
    OBVIOUS
  <1>2. /\ job' = [job EXCEPT ![w] = j] /\ UNCHANGED igs /\ igClock' = igClock + 1
        /\ igClock < MaxDeliveries /\ AccountIgs(AccountOf[u], h, "VERIFIED") # {}
    BY <1>1 DEF ReuseVerified, Begin
  <1>3. igClock + 1 \in 0..MaxDeliveries
    BY <1>2, IgClockReads
  <1>4. /\ j \in IgJob /\ j.at = "shareIg" /\ j.user = u /\ j.handle = h
        /\ j.verifiedAt = igClock + 1
    BY <1>1, <1>3 DEF Entering, IgJob
  <1>5. IgJobMoves(w, j)
    BY <1>2, <1>4 DEF IgJobMoves, IgEntries
  <1> QED
    BY <1>2, <1>4, <1>5, IgReads, IgClockReads

\* A request goes on from one stage of entering to another.
LEMMA IgEnters ==
  ASSUME IgInv, NEW w \in Workers, job[w].at \in IgEntries, NEW at \in {"expireIgs", "createIg"},
         NEW j, j = [job[w] EXCEPT !.at = at]
  PROVE  j \in IgJob /\ IgJobMoves(w, j)
  <1>1. job[w] \in IgEntry
    BY IgFields DEF IgInv
  <1>2. /\ j \in IgEntry /\ j.at = at /\ j.user = job[w].user /\ j.handle = job[w].handle
        /\ j.verifiedAt = job[w].verifiedAt
    BY <1>1 DEF IgEntry, IgEntries
  <1> QED
    BY <1>2 DEF IgJobMoves, IgEntries, IgEntry, IgJob

\* A request ends.
LEMMA IgIdle ==
  ASSUME NEW w \in Workers
  PROVE  Idle \in IgJob /\ IgJobMoves(w, Idle)
  BY DEF IgJob, IgJobMoves

\* The rows of the user itself are looked for.
LEMMA IgCheckOwn ==
  ASSUME IgInv, NEW w \in Workers, CheckOwn(w)
  PROVE  \E j \in IgJob : IgMoves(w, j)
  <1>1. PICK j \in {Idle, [job[w] EXCEPT !.at = "expireIgs"]} : job' = [job EXCEPT ![w] = j]
    BY DEF CheckOwn, GoTo, Finish
  <1>2. UNCHANGED <<igs, igClock>> /\ job[w].at \in IgEntries
    BY DEF CheckOwn, IgEntries
  <1>3. j \in IgJob /\ IgJobMoves(w, j)
    BY <1>1, <1>2, IgEnters, IgIdle
  <1> QED
    BY <1>1, <1>2, <1>3, IgReads, IgClockReads

\* The pending rows of the user expire.
LEMMA IgExpire ==
  ASSUME IgInv, NEW w \in Workers, ExpirePendingIgs(w)
  PROVE  \E j \in IgJob : IgMoves(w, j)
  <1>1. PICK u : u = job[w].user
    OBVIOUS
  <1>2. PICK j : j = [job[w] EXCEPT !.at = "createIg"]
    OBVIOUS
  <1>3. /\ job' = [job EXCEPT ![w] = j] /\ igClock' = igClock /\ job[w].at \in IgEntries
        /\ igs' = [r \in DOMAIN igs |-> IF r \in IgsOf(u, "PENDING")
                                        THEN [igs[r] EXCEPT !.status = "EXPIRED"] ELSE igs[r]]
    BY <1>1, <1>2 DEF ExpirePendingIgs, GoTo, IgEntries
  <1>4. j \in IgJob /\ IgJobMoves(w, j)
    BY <1>2, <1>3, IgEnters
  <1>5. ASSUME NEW r \in DOMAIN igs
        PROVE  /\ igs'[r] \in IgRow /\ igs'[r].user = igs[r].user
               /\ igs'[r].handle = igs[r].handle /\ IgRowMoves(w, r)
    <2>1. igs[r] \in IgRow
      BY IgRowsTyped DEF IgInv
    <2>2. CASE r \in IgsOf(u, "PENDING")
      <3>1. PICK row : row = [igs[r] EXCEPT !.status = "EXPIRED"]
        OBVIOUS
      <3>2. /\ row \in IgRow /\ row.user = igs[r].user /\ row.handle = igs[r].handle
            /\ row.status = "EXPIRED" /\ row.verifiedAt = igs[r].verifiedAt
        BY <2>1, <3>1 DEF IgRow, InstagramVerificationStatus
      <3>3. igs'[r] = row /\ igs[r].status = "PENDING"
        BY <1>3, <2>2, <3>1 DEF IgsOf
      <3> QED
        BY <3>2, <3>3 DEF IgRowMoves
    <2>3. CASE r \notin IgsOf(u, "PENDING")
      BY <1>3, <2>1, <2>3 DEF IgRowMoves
    <2> QED
      BY <2>2, <2>3
  <1>6. igs' \in Seq(IgRow) /\ Len(igs') = Len(igs) /\ DOMAIN igs' = DOMAIN igs
    <2>1. igs' \in [1..Len(igs) -> IgRow] /\ Len(igs) \in Nat
      BY <1>3, <1>5, IgRowsTyped DEF IgInv
    <2>2. igs' \in Seq(IgRow) /\ DOMAIN igs' = 1..Len(igs)
      BY <2>1, SeqDef
    <2>3. Len(igs') = Len(igs)
      BY <2>1, <2>2
    <2> QED
      BY <1>3, <2>2, <2>3
  <1>7. Len(igs) <= Len(igs') /\ igClock' \in {igClock, igClock + 1} /\ igClock' <= MaxDeliveries
    BY <1>3, <1>6, IgClockReads, IgRowsTyped DEF IgInv
  <1>8. \A r \in DOMAIN igs' : IgRowMoves(w, r)
    BY <1>5, <1>6
  <1>9. \A r \in DOMAIN igs : igs'[r].user = igs[r].user /\ igs'[r].handle = igs[r].handle
    BY <1>5
  <1>10. IgMoves(w, j)
    BY <1>3, <1>4, <1>6, <1>7, <1>8, <1>9 DEF IgMoves
  <1> QED
    BY <1>4, <1>10

\* The row is created.
LEMMA IgCreate ==
  ASSUME IgInv, NEW w \in Workers, CreateIg(w)
  PROVE  \E j \in IgJob : IgMoves(w, j)
  <1>1. PICK i : i = job[w]
    OBVIOUS
  <1>2. i \in IgEntry /\ i.at \in {"createIg", "shareIg"} /\ igClock' = igClock
    BY <1>1, IgFields DEF CreateIg, IgInv, IgEntries
  <1>3. PICK row : row = [user |-> i.user, handle |-> i.handle,
                          status |-> IF i.at = "shareIg" THEN "VERIFIED" ELSE "PENDING",
                          expired |-> FALSE, verifiedAt |-> i.verifiedAt]
    OBVIOUS
  <1>4. /\ row \in IgRow /\ row.user = i.user /\ row.handle = i.handle
        /\ row.verifiedAt = i.verifiedAt
        /\ row.status = "VERIFIED" => i.at = "shareIg"
    BY <1>2, <1>3 DEF IgRow, IgEntry, InstagramVerificationStatus
  <1>5. igs' = Append(igs, row) /\ job' = [job EXCEPT ![w] = Idle]
    BY <1>1, <1>3 DEF CreateIg, Finish
  <1>6. /\ igs' \in Seq(IgRow) /\ Len(igs') = Len(igs) + 1 /\ Len(igs) \in Nat
        /\ \A r \in DOMAIN igs : igs'[r] = igs[r]
        /\ igs'[Len(igs) + 1] = row
        /\ DOMAIN igs = 1..Len(igs) /\ DOMAIN igs' = DOMAIN igs \cup {Len(igs) + 1}
        /\ Len(igs) + 1 \notin DOMAIN igs /\ Len(igs) <= Len(igs')
    BY <1>4, <1>5 DEF IgInv
  <1>7. ASSUME NEW r \in DOMAIN igs' PROVE IgRowMoves(w, r)
    <2>1. CASE r \in DOMAIN igs
      BY <1>6, <2>1 DEF IgRowMoves
    <2>2. CASE r \notin DOMAIN igs
      <3>1. igs'[r] = row
        BY <1>6, <2>2
      <3>2. /\ igs'[r].user = i.user /\ igs'[r].handle = i.handle
            /\ igs'[r].verifiedAt = i.verifiedAt
            /\ igs'[r].status = "VERIFIED" => i.at = "shareIg"
        BY <1>4, <3>1
      <3>3. job[w].at \in {"createIg", "shareIg"}
        BY <1>1, <1>2
      <3> QED
        BY <1>1, <2>2, <3>2, <3>3 DEF IgRowMoves
    <2> QED
      BY <2>1, <2>2
  <1>8. IgMoves(w, Idle)
    BY <1>2, <1>5, <1>6, <1>7, IgIdle, IgClockReads DEF IgMoves
  <1> QED
    BY <1>8, IgIdle

\* Reading a row to remove or expire it.
LEMMA IgReadRow ==
  ASSUME IgInv, NEW w \in Workers, NEW r \in DOMAIN igs, ReadToRemove(w, r) \/ ReadToExpire(w, r)
  PROVE  \E j \in IgJob : IgMoves(w, j)
  <1>1. PICK at \in {"mayRemove", "expireIg"} :
          /\ Begin(w, [at |-> at, row |-> r])
          /\ igs[r].status = IF at = "mayRemove" THEN "VERIFIED" ELSE "PENDING"
    BY DEF ReadToRemove, ReadToExpire
  <1>2. PICK j : j = [at |-> at, row |-> r]
    OBVIOUS
  <1>3. j \in IgJob /\ j.at = at /\ j.row = r
    BY <1>2 DEF IgJob
  <1>4. job' = [job EXCEPT ![w] = j] /\ UNCHANGED <<igs, igClock>>
    BY <1>1, <1>2 DEF Begin, ReadToRemove, ReadToExpire
  <1>5. IgJobMoves(w, j)
    BY <1>1, <1>3 DEF IgJobMoves, IgRowStages, IgStages, IgEntries
  <1> QED
    BY <1>3, <1>4, <1>5, IgReads, IgClockReads

\* A message arrives with the code of a pending row.
LEMMA IgFind ==
  ASSUME IgInv, NEW w \in Workers, NEW r \in DOMAIN igs, FindByCode(w, r)
  PROVE  \E j \in IgJob : IgMoves(w, j)
  <1>1. PICK j : j = [at |-> "sender", row |-> r, now |-> igClock + 1]
    OBVIOUS
  <1>2. /\ job' = [job EXCEPT ![w] = j] /\ UNCHANGED igs /\ igClock' = igClock + 1
        /\ igClock < MaxDeliveries /\ igs[r].status = "PENDING"
    BY <1>1 DEF FindByCode, Begin
  <1>3. j \in IgJob /\ j.at = "sender" /\ j.row = r /\ j.now = igClock + 1
    BY <1>1, <1>2, IgClockReads DEF IgJob
  <1>4. IgJobMoves(w, j)
    BY <1>2, <1>3 DEF IgJobMoves, IgRowStages, IgStages, IgEntries
  <1> QED
    BY <1>2, <1>3, <1>4, IgReads, IgClockReads

\* A row that is the first verified may not be removed.
LEMMA IgCheckFirst ==
  ASSUME IgInv, NEW w \in Workers, CheckFirst(w)
  PROVE  \E j \in IgJob : IgMoves(w, j)
  <1>1. PICK i, r : i = job[w] /\ r = i.row
    OBVIOUS
  <1>2. /\ i \in [at : {"mayRemove", "removeIg", "expireIg", "failIg"}, row : DOMAIN igs]
        /\ i.at = "mayRemove" /\ UNCHANGED <<igs, igClock>>
    BY <1>1, IgFields DEF CheckFirst, IgInv
  <1>3. CASE r \in Earliest(igs[r].user)
    <2>1. job' = [job EXCEPT ![w] = Idle]
      BY <1>1, <1>3 DEF CheckFirst, Finish
    <2> QED
      BY <1>2, <2>1, IgIdle, IgReads, IgClockReads
  <1>4. CASE r \notin Earliest(igs[r].user)
    <2>1. PICK j : j = [i EXCEPT !.at = "removeIg"]
      OBVIOUS
    <2>2. j \in IgJob /\ j.at = "removeIg" /\ j.row = r
      BY <1>1, <1>2, <2>1 DEF IgJob
    <2>3. job' = [job EXCEPT ![w] = j]
      BY <1>1, <1>4, <2>1 DEF CheckFirst, GoTo
    <2>4. r \in DOMAIN igs /\ Holds(w, r)
      BY <1>1, <1>2 DEF Holds, IgStages
    <2>5. IgJobMoves(w, j)
      BY <1>1, <1>2, <1>4, <2>2, <2>4 DEF IgJobMoves, IgRowStages, IgStages, IgEntries
    <2> QED
      BY <1>2, <2>2, <2>3, <2>5, IgReads, IgClockReads
  <1> QED
    BY <1>3, <1>4

\* The sender's handle is compared.
LEMMA IgSender ==
  ASSUME IgInv, NEW w \in Workers, NEW same \in BOOLEAN, CheckSender(w, same)
  PROVE  \E j \in IgJob : IgMoves(w, j)
  <1>1. PICK i, r : i = job[w] /\ r = i.row
    OBVIOUS
  <1>2. /\ i \in [at : {"sender", "verifyIg"}, row : DOMAIN igs, now : 1..MaxDeliveries]
        /\ i.at = "sender" /\ UNCHANGED <<igs, igClock>>
    BY <1>1, IgFields DEF CheckSender, IgInv
  <1>3. r \in DOMAIN igs /\ Holds(w, r)
    BY <1>1, <1>2 DEF Holds, IgStages
  <1>4. PICK j : j = IF same THEN [i EXCEPT !.at = "verifyIg"] ELSE [at |-> "failIg", row |-> r]
    OBVIOUS
  <1>5. job' = [job EXCEPT ![w] = j]
    BY <1>1, <1>4 DEF CheckSender, GoTo
  <1>6. /\ j \in IgJob /\ j.at \in {"verifyIg", "failIg"} /\ j.row = r
        /\ j.at = "verifyIg" => j.now = i.now
    <2>1. CASE same
      <3>1. j \in [at : {"sender", "verifyIg"}, row : DOMAIN igs, now : 1..MaxDeliveries]
        BY <1>2, <1>4, <2>1
      <3>2. j.at = "verifyIg" /\ j.row = r /\ j.now = i.now
        BY <1>1, <1>2, <1>4, <2>1
      <3> QED
        BY <3>1, <3>2 DEF IgJob
    <2>2. CASE ~same
      BY <1>3, <1>4, <2>2 DEF IgJob
    <2> QED
      BY <2>1, <2>2
  <1>7. IgJobMoves(w, j)
    BY <1>1, <1>2, <1>3, <1>6 DEF IgJobMoves, IgRowStages, IgStages, IgEntries
  <1> QED
    BY <1>2, <1>5, <1>6, <1>7, IgReads, IgClockReads

\* A row is replaced by one of the same user and handle.
LEMMA IgReplaced ==
  ASSUME IgInv, NEW r \in DOMAIN igs, NEW row \in IgRow, row.user = igs[r].user,
         row.handle = igs[r].handle, igs' = [igs EXCEPT ![r] = row]
  PROVE  /\ igs' \in Seq(IgRow) /\ Len(igs') = Len(igs) /\ Len(igs) <= Len(igs')
         /\ DOMAIN igs' = DOMAIN igs /\ igs'[r] = row
         /\ \A q \in DOMAIN igs : q # r => igs'[q] = igs[q]
         /\ \A q \in DOMAIN igs : igs'[q].user = igs[q].user /\ igs'[q].handle = igs[q].handle
  <1>1. igs' \in Seq(IgRow) /\ Len(igs') = Len(igs) /\ Len(igs) \in Nat
    BY ExceptSeq DEF IgInv
  <1> QED
    BY <1>1 DEF IgInv

\* The row is verified.
LEMMA IgVerify ==
  ASSUME IgInv, NEW w \in Workers, VerifyIg(w)
  PROVE  \E j \in IgJob : IgMoves(w, j)
  <1>1. PICK i, r : i = job[w] /\ r = i.row
    OBVIOUS
  <1>2. /\ i \in [at : {"sender", "verifyIg"}, row : DOMAIN igs, now : 1..MaxDeliveries]
        /\ i.at = "verifyIg" /\ igClock' = igClock
    BY <1>1, IgFields DEF VerifyIg, IgInv
  <1>3. r \in DOMAIN igs /\ Holds(w, r) /\ igs[r] \in IgRow
    BY <1>1, <1>2, IgRowsTyped DEF Holds, IgStages, IgInv
  <1>4. PICK row : row = [igs[r] EXCEPT !.status = "VERIFIED", !.verifiedAt = i.now]
    OBVIOUS
  <1>5. /\ row \in IgRow /\ row.user = igs[r].user /\ row.handle = igs[r].handle
        /\ row.verifiedAt = i.now
    <2>1. i.now \in 0..MaxDeliveries
      BY <1>2
    <2> QED
      BY <1>3, <1>4, <2>1 DEF IgRow, InstagramVerificationStatus
  <1>6. igs' = [igs EXCEPT ![r] = row] /\ job' = [job EXCEPT ![w] = Idle]
    BY <1>1, <1>3, <1>4 DEF VerifyIg, Finish, IgInv
  <1>7. ASSUME NEW q \in DOMAIN igs' PROVE IgRowMoves(w, q)
    BY <1>1, <1>2, <1>3, <1>5, <1>6, IgReplaced DEF IgRowMoves
  <1>8. IgMoves(w, Idle)
    BY <1>2, <1>3, <1>5, <1>6, <1>7, IgReplaced, IgIdle, IgClockReads DEF IgMoves
  <1> QED
    BY <1>8, IgIdle

\* The row is removed, expires or fails.
LEMMA IgSettle ==
  ASSUME IgInv, NEW w \in Workers, SettleIg(w)
  PROVE  \E j \in IgJob : IgMoves(w, j)
  <1>1. PICK i, r : i = job[w] /\ r = i.row
    OBVIOUS
  <1>2. /\ i \in [at : {"mayRemove", "removeIg", "expireIg", "failIg"}, row : DOMAIN igs]
        /\ i.at \in {"removeIg", "expireIg", "failIg"} /\ igClock' = igClock
    BY <1>1, IgFields DEF SettleIg, IgInv
  <1>3. r \in DOMAIN igs /\ Holds(w, r) /\ igs[r] \in IgRow
    BY <1>1, <1>2, IgRowsTyped DEF Holds, IgStages, IgInv
  <1>4. PICK s \in {"REMOVED", "EXPIRED", "FAILED"} : igs' = [igs EXCEPT ![r].status = s]
    BY <1>1, <1>2 DEF SettleIg
  <1>5. PICK row : row = [igs[r] EXCEPT !.status = s]
    OBVIOUS
  <1>6. /\ row \in IgRow /\ row.user = igs[r].user /\ row.handle = igs[r].handle
        /\ row.status # "VERIFIED" /\ row.verifiedAt = igs[r].verifiedAt
    BY <1>3, <1>5 DEF IgRow, InstagramVerificationStatus
  <1>7. igs' = [igs EXCEPT ![r] = row] /\ job' = [job EXCEPT ![w] = Idle]
    BY <1>3, <1>4, <1>5 DEF SettleIg, Finish
  <1>8. ASSUME NEW q \in DOMAIN igs' PROVE IgRowMoves(w, q)
    BY <1>1, <1>2, <1>3, <1>6, <1>7, IgReplaced DEF IgRowMoves
  <1>9. IgMoves(w, Idle)
    BY <1>2, <1>3, <1>6, <1>7, <1>8, IgReplaced, IgIdle, IgClockReads DEF IgMoves
  <1> QED
    BY <1>9, IgIdle

\* Deadlines pass without anybody's doing: as if a worker had stayed where it is.
LEMMA IgTimed ==
  ASSUME IgInv, NEW r \in DOMAIN igs, IgDeadlinePasses(r)
  PROVE  /\ igs' \in Seq(IgRow) /\ UNCHANGED <<igClock, job>> /\ DOMAIN igs' = DOMAIN igs
         /\ Len(igs') = Len(igs)
         /\ \A q \in DOMAIN igs : /\ igs'[q].user = igs[q].user
                                  /\ igs'[q].handle = igs[q].handle
                                  /\ igs'[q].status = igs[q].status
                                  /\ igs'[q].verifiedAt = igs[q].verifiedAt
  <1>1. igs[r] \in IgRow
    BY IgRowsTyped DEF IgInv
  <1>2. PICK row : row = [igs[r] EXCEPT !.expired = TRUE]
    OBVIOUS
  <1>3. /\ row \in IgRow /\ row.user = igs[r].user /\ row.handle = igs[r].handle
        /\ row.status = igs[r].status /\ row.verifiedAt = igs[r].verifiedAt
    BY <1>1, <1>2 DEF IgRow
  <1>4. igs' = [igs EXCEPT ![r] = row] /\ UNCHANGED <<igClock, job>>
    BY <1>2 DEF IgDeadlinePasses
  <1> QED
    BY <1>3, <1>4, IgReplaced

\* Every step is one of a worker, or of time, or none.
LEMMA IgStepping ==
  ASSUME IgInv, [IgNext]_igVars
  PROVE  \/ \E w \in Workers : \E j \in IgJob : IgMoves(w, j)
         \/ \E r \in DOMAIN igs : IgDeadlinePasses(r)
         \/ UNCHANGED igVars
  BY IgCheckOthers, IgReuse, IgCheckOwn, IgExpire, IgCreate, IgReadRow, IgFind, IgCheckFirst,
     IgSender, IgVerify, IgSettle DEF IgNext, IgStep

\* No step of the component breaks the invariant.
LEMMA IgKept ==
  ASSUME IgInv, [IgNext]_igVars
  PROVE  IgInv'
  <1>1. CASE UNCHANGED igVars
    BY <1>1 DEF igVars, IgInv, IgJob, Recent
  <1>2. ASSUME NEW r \in DOMAIN igs, IgDeadlinePasses(r) PROVE IgInv'
    BY <1>2, IgTimed DEF IgInv, IgJob, Recent
  <1> QED
    BY <1>1, <1>2, IgStepping, IgMovesOn

\* There are no rows at first.
LEMMA IgStarted ==
  ASSUME IgInit
  PROVE  IgInv
  BY IgConstants DEF IgInit, IgInv, IgJob, Recent, IgEntries, NoJobs, Idle

\* The two properties of a step.
LEMMA ExclusiveKept ==
  ASSUME IgInv, [IgNext]_igVars, NEW a, NEW h, Exclusive(a, h),
         AccountIgs(a, h, "VERIFIED")' # {}
  PROVE  Exclusive(a, h)'
  <1>1. CASE UNCHANGED igVars
    BY <1>1 DEF igVars, Exclusive, AccountIgs, Holds
  <1>2. ASSUME NEW r \in DOMAIN igs, IgDeadlinePasses(r) PROVE Exclusive(a, h)'
    BY <1>2, IgTimed DEF Exclusive, Holds
  <1> QED
    BY <1>1, <1>2, IgStepping, ExclusiveOn

\* A first verified row stays so.
LEMMA AnchoredKept ==
  ASSUME IgInv, [IgNext]_igVars, NEW u \in IgUsers, NEW r \in DOMAIN igs, Anchored(u, r)
  PROVE  Anchored(u, r)'
  <1>1. CASE UNCHANGED igVars
    BY <1>1 DEF igVars, Anchored, Earliest, IgsOf, Holds
  <1>2. ASSUME NEW q \in DOMAIN igs, IgDeadlinePasses(q) PROVE Anchored(u, r)'
    <2>1. \A v \in Workers : job[v].at \in {"sender", "verifyIg"} => job[v].row \in DOMAIN igs
      BY IgFields DEF IgInv
    <2> QED
      BY <1>2, <2>1, IgTimed DEF Anchored, Earliest, IgsOf, Holds
  <1> QED
    BY <1>1, <1>2, IgStepping, AnchoredOn

\* A handle that one account has verified, with no request at it, is
\* verified in no other, whatever requests, deliveries and deadlines
\* interleave.
THEOREM HandlesStayExclusive == IgSpec => ExclusiveHandles
  <1>1. IgInv /\ [IgNext]_igVars
        => [\A u \in IgUsers, h \in Handles :
              LET a == AccountOf[u]
              IN  Exclusive(a, h) /\ AccountIgs(a, h, "VERIFIED")' # {}
                  => Exclusive(a, h)']_igVars
    BY ExclusiveKept
  <1> QED
    BY <1>1, IgStarted, IgKept, PTL DEF IgSpec, ExclusiveHandles

\* A user's first verified row is not removed and stays the first, unless a
\* request at an earlier row was already under way.
THEOREM FirstStaysFirst == IgSpec => FirstIsPermanent
  <1>1. IgInv /\ [IgNext]_igVars
        => [\A u \in IgUsers, r \in DOMAIN igs : Anchored(u, r) => Anchored(u, r)']_igVars
    BY AnchoredKept
  <1> QED
    BY <1>1, IgStarted, IgKept, PTL DEF IgSpec, FirstIsPermanent

\* Every Instagram row and request is of its type.
THEOREM IgsAreTyped == IgSpec => []IgTypeOK
  <1>1. IgInv => IgTypeOK
    BY IgRowsTyped DEF IgInv, IgTypeOK
  <1> QED
    BY <1>1, IgStarted, IgKept, PTL DEF IgSpec

---------------------------------------------------------------------------
(* Social *)

\* The row a request is at, if it is there still, is that user's.
RowIsUsers(j) ==
  j.at \notin {"idle", "start"} /\ Exists(j.row) => socials[j.row].user = j.user

\* The inductive invariant of the social accounts.
SocialInv == SocialTypeOK /\ \A w \in Workers : RowIsUsers(job[w])

\* No row changes hands.
SocialsStay ==
  \A r \in SocialRows : socials'[r] # None => socials[r] # None /\ socials'[r].user = socials[r].user

\* None is no channel and no row, and what a row holds.
LEMMA SocialNames ==
  /\ None \notin Channels /\ None \notin SocialRow
  /\ \A row \in SocialRow : /\ row.user \in SocialUsers
                            /\ row.status \in SocialVerificationStatus
                            /\ row.channel \in Channels \cup {None}
                            /\ row.expired \in BOOLEAN
  BY SocialConstants DEF SocialRow

\* What a request of each stage holds.
LEMMA SocialFields ==
  ASSUME NEW j \in SocialJob
  PROVE  /\ j.at = "start" => j \in [at : {"start"}, user : SocialUsers]
         /\ j.at \in {"exchange", "failSocial", "expireSocial"} =>
              j \in [at : {"exchange", "failSocial", "expireSocial"}, row : SocialRows,
                     user : SocialUsers]
         /\ j.at \in {"others", "drop", "connect"} =>
              j \in [at : {"others", "drop", "connect"}, row : SocialRows,
                     user : SocialUsers, channel : Channels]
         /\ j.at \notin {"idle", "start"} => j.row \in SocialRows /\ j.user \in SocialUsers
         /\ j = Idle <=> j.at = "idle"
  BY DEF SocialJob, Idle

\* A step of one request keeps the invariant when rows stay with their users.
LEMMA SocialMove ==
  ASSUME SocialInv, NEW w \in Workers, NEW j \in SocialJob, job' = [job EXCEPT ![w] = j],
         socials' \in [SocialRows -> SocialRow \cup {None}], SocialsStay,
         j.at \notin {"idle", "start"} /\ socials[j.row] # None
         => socials[j.row].user = j.user
  PROVE  SocialInv'
  <1>1. SocialTypeOK'
    BY DEF SocialInv, SocialTypeOK
  <1>2. ASSUME NEW v \in Workers PROVE RowIsUsers(job[v])'
    <2>1. PICK i : i = job'[v]
      OBVIOUS
    <2>2. i = IF v = w THEN j ELSE job[v]
      BY <2>1 DEF SocialInv, SocialTypeOK
    <2>3. i \in SocialJob /\ RowIsUsers(i)
      BY <2>2 DEF SocialInv, SocialTypeOK, RowIsUsers, Exists
    <2>4. RowIsUsers(i)'
      BY <2>3, SocialFields DEF RowIsUsers, Exists, SocialsStay
    <2> QED
      BY <2>1, <2>4
  <1> QED
    BY <1>1, <1>2 DEF SocialInv

\* A row is made another of the same user, or goes.
LEMMA SocialEdit ==
  ASSUME SocialInv, DOMAIN socials' = SocialRows, socials' = [r \in SocialRows |-> socials'[r]],
         \A r \in SocialRows :
           \/ socials'[r] = socials[r] \/ socials'[r] = None
           \/ /\ socials[r] # None
              /\ \E row \in SocialRow : row.user = socials[r].user /\ socials'[r] = row
  PROVE  socials' \in [SocialRows -> SocialRow \cup {None}] /\ SocialsStay
  BY DEF SocialInv, SocialTypeOK, SocialsStay

\* The rows are left alone.
LEMMA SocialSame ==
  ASSUME SocialInv, UNCHANGED socials
  PROVE  socials' \in [SocialRows -> SocialRow \cup {None}] /\ SocialsStay
  BY DEF SocialInv, SocialTypeOK, SocialsStay

\* A row gets a status.
LEMMA SocialStatus ==
  ASSUME SocialInv, NEW r \in SocialRows, Exists(r), NEW s \in SocialVerificationStatus,
         socials' = [socials EXCEPT ![r].status = s]
  PROVE  socials' \in [SocialRows -> SocialRow \cup {None}] /\ SocialsStay
  <1>1. socials[r] \in SocialRow
    BY DEF SocialInv, SocialTypeOK, Exists
  <1>2. PICK row : row = [socials[r] EXCEPT !.status = s]
    OBVIOUS
  <1>3. row \in SocialRow /\ row.user = socials[r].user
    BY <1>1, <1>2 DEF SocialRow
  <1>4. socials' = [socials EXCEPT ![r] = row]
    BY <1>2
  <1> QED
    BY <1>1, <1>3, <1>4, SocialNames DEF SocialInv, SocialTypeOK, SocialsStay

\* The pending rows of a user expire as a new connection starts.
LEMMA SocialStart ==
  ASSUME SocialInv, NEW w \in Workers, NEW u \in SocialUsers, ExpirePendingSocials(w, u)
  PROVE  SocialInv'
  <1>1. PICK j : j = [at |-> "start", user |-> u]
    OBVIOUS
  <1>2. j \in SocialJob /\ job' = [job EXCEPT ![w] = j]
    BY <1>1 DEF ExpirePendingSocials, Begin, SocialJob
  <1>3. ASSUME NEW r \in SocialRows
        PROVE  \/ socials'[r] = socials[r]
               \/ /\ socials[r] # None
                  /\ \E row \in SocialRow : row.user = socials[r].user /\ socials'[r] = row
    <2>1. CASE Pending(r) /\ socials[r].user = u
      <3>1. socials[r] \in SocialRow /\ socials[r] # None
        BY <2>1 DEF SocialInv, SocialTypeOK, Pending, Exists
      <3>2. PICK row : row = [socials[r] EXCEPT !.status = "EXPIRED"]
        OBVIOUS
      <3>3. row \in SocialRow /\ row.user = socials[r].user
        BY <3>1, <3>2 DEF SocialRow, SocialVerificationStatus
      <3>4. socials'[r] = row
        BY <2>1, <3>2 DEF ExpirePendingSocials
      <3> QED
        BY <3>1, <3>3, <3>4
    <2>2. CASE ~(Pending(r) /\ socials[r].user = u)
      BY <2>2 DEF ExpirePendingSocials
    <2> QED
      BY <2>1, <2>2
  <1>4. DOMAIN socials' = SocialRows /\ socials' = [r \in SocialRows |-> socials'[r]]
    BY DEF ExpirePendingSocials
  <1>5. socials' \in [SocialRows -> SocialRow \cup {None}] /\ SocialsStay
    BY <1>3, <1>4, SocialEdit
  <1> QED
    BY <1>1, <1>2, <1>5, SocialMove

\* The row of the new connection is created.
LEMMA SocialCreate ==
  ASSUME SocialInv, NEW w \in Workers, CreateSocial(w)
  PROVE  SocialInv'
  <1>1. job[w].at = "start" /\ job[w] \in SocialJob
    BY DEF CreateSocial, SocialInv, SocialTypeOK
  <1>2. PICK row : row = [user |-> job[w].user, status |-> "PENDING",
                          channel |-> None, expired |-> FALSE]
    OBVIOUS
  <1>3. row \in SocialRow /\ row # None /\ row.user = job[w].user
    <2>1. job[w].user \in SocialUsers
      BY <1>1, SocialFields
    <2>2. row \in SocialRow /\ row.user = job[w].user
      BY <1>2, <2>1 DEF SocialRow, SocialVerificationStatus
    <2> QED
      BY <2>2, SocialNames
  <1>4. PICK r \in SocialRows : Unused(r) /\ socials' = [socials EXCEPT ![r] = row]
    BY <1>2 DEF CreateSocial
  <1>5. job' = [job EXCEPT ![w] = Idle]
    BY DEF CreateSocial, Finish
  <1>6. SocialTypeOK'
    BY <1>3, <1>4, <1>5 DEF SocialInv, SocialTypeOK, SocialJob
  <1>7. ASSUME NEW v \in Workers PROVE RowIsUsers(job[v])'
    <2>1. PICK i : i = job'[v]
      OBVIOUS
    <2>2. i = IF v = w THEN Idle ELSE job[v]
      BY <1>5, <2>1 DEF SocialInv, SocialTypeOK
    <2>3. CASE i.at \in {"idle", "start"}
      <3>1. RowIsUsers(i)'
        BY <2>3 DEF RowIsUsers
      <3> QED
        BY <2>1, <3>1
    <2>4. CASE i.at \notin {"idle", "start"}
      <3>1. v # w /\ i = job[v] /\ i \in SocialJob /\ RowIsUsers(i) /\ i # Idle
        BY <2>2, <2>4 DEF Idle, SocialInv, SocialTypeOK
      <3>2. i.row # r /\ i.row \in SocialRows
        BY <1>4, <2>4, <3>1, SocialFields DEF Unused, Busy
      <3>3. socials'[i.row] = socials[i.row]
        BY <1>4, <3>2 DEF SocialInv, SocialTypeOK
      <3>4. RowIsUsers(i)'
        BY <3>1, <3>3 DEF RowIsUsers, Exists
      <3> QED
        BY <2>1, <3>4
    <2> QED
      BY <2>3, <2>4
  <1> QED
    BY <1>6, <1>7 DEF SocialInv

\* A request reads a row that is pending.
LEMMA SocialRead ==
  ASSUME SocialInv, NEW w \in Workers, NEW r \in SocialRows,
         ReadStatus(w, r) \/ \E error \in BOOLEAN : Callback(w, r, error)
  PROVE  SocialInv'
  <1>1. PICK at \in {"exchange", "failSocial", "expireSocial"} :
          Begin(w, AtRow(at, r, socials[r].user))
    BY DEF ReadStatus, Callback
  <1>2. PICK j : j = AtRow(at, r, socials[r].user)
    OBVIOUS
  <1>3. job' = [job EXCEPT ![w] = j] /\ socials' = socials /\ Exists(r)
    BY <1>1, <1>2 DEF Begin, ReadStatus, Callback, Pending
  <1>4. socials[r] \in SocialRow
    BY <1>3 DEF Exists, SocialInv, SocialTypeOK
  <1>5. j \in SocialJob /\ j.row = r /\ j.user = socials[r].user
    BY <1>2, <1>4, SocialNames DEF AtRow, SocialJob
  <1> QED
    BY <1>3, <1>5, SocialMove, SocialSame

\* A request goes on with its row, or is done with it.
LEMMA SocialGoOn ==
  ASSUME SocialInv, NEW w \in Workers, NEW j \in SocialJob, job' = [job EXCEPT ![w] = j],
         job[w].at \notin {"idle", "start"},
         j = Idle \/ (j.at # "start" /\ j.row = job[w].row /\ j.user = job[w].user),
         socials' \in [SocialRows -> SocialRow \cup {None}], SocialsStay
  PROVE  SocialInv'
  <1>1. RowIsUsers(job[w])
    BY DEF SocialInv
  <1>2. j.at \notin {"idle", "start"} /\ socials[j.row] # None => socials[j.row].user = j.user
    BY <1>1 DEF RowIsUsers, Exists, Idle
  <1> QED
    BY <1>2, SocialMove

\* A request that gives up.
LEMMA SocialFails ==
  ASSUME SocialInv, NEW w \in Workers, Fail(w), job[w].at \notin {"idle", "start"},
         UNCHANGED socials
  PROVE  SocialInv'
  <1>1. PICK j : j = AtRow("failSocial", job[w].row, job[w].user)
    OBVIOUS
  <1>2. job[w] \in SocialJob
    BY DEF SocialInv, SocialTypeOK
  <1>3. j \in SocialJob /\ j.at = "failSocial" /\ j.row = job[w].row /\ j.user = job[w].user
    BY <1>1, <1>2, SocialFields DEF AtRow, SocialJob
  <1>4. job' = [job EXCEPT ![w] = j]
    BY <1>1 DEF Fail, GoTo
  <1> QED
    BY <1>3, <1>4, SocialGoOn, SocialSame

\* The code is exchanged for a channel, or is refused.
LEMMA SocialExchange ==
  ASSUME SocialInv, NEW w \in Workers, NEW c \in Channels \cup {None}, Exchange(w, c)
  PROVE  SocialInv'
  <1>1. job[w] \in SocialJob /\ job[w].at = "exchange" /\ UNCHANGED socials
    BY DEF SocialInv, SocialTypeOK, Exchange
  <1>2. CASE c = None
    BY <1>1, <1>2, SocialFails DEF Exchange
  <1>3. CASE c # None
    <2>1. PICK j : j = [at |-> "others", row |-> job[w].row, user |-> job[w].user,
                        channel |-> c]
      OBVIOUS
    <2>2. job' = [job EXCEPT ![w] = j]
      BY <1>3, <2>1 DEF Exchange, GoTo
    <2>3. j \in SocialJob /\ j.at # "start" /\ j.row = job[w].row /\ j.user = job[w].user
      BY <1>1, <1>3, <2>1, SocialFields DEF SocialJob
    <2> QED
      BY <1>1, <2>2, <2>3, SocialGoOn, SocialSame
  <1> QED
    BY <1>2, <1>3

\* A callback goes on to the next stage with what it knows.
LEMMA SocialAdvance ==
  ASSUME SocialInv, NEW w \in Workers, job[w].at \in {"others", "drop", "connect"},
         NEW at \in {"drop", "connect"}, GoTo(w, [job[w] EXCEPT !.at = at]),
         socials' \in [SocialRows -> SocialRow \cup {None}], SocialsStay
  PROVE  SocialInv'
  <1>1. job[w] \in [at : {"others", "drop", "connect"}, row : SocialRows,
                    user : SocialUsers, channel : Channels]
    BY SocialFields DEF SocialInv, SocialTypeOK
  <1>2. PICK j : j = [job[w] EXCEPT !.at = at]
    OBVIOUS
  <1>3. /\ j \in [at : {"others", "drop", "connect"}, row : SocialRows,
                  user : SocialUsers, channel : Channels]
        /\ j.at = at /\ j.row = job[w].row /\ j.user = job[w].user
    BY <1>1, <1>2
  <1>4. job' = [job EXCEPT ![w] = j] /\ j \in SocialJob
    BY <1>2, <1>3 DEF GoTo, SocialJob
  <1> QED
    BY <1>3, <1>4, SocialGoOn

\* Rows of other accounts for the channel are looked for.
LEMMA SocialOthers ==
  ASSUME SocialInv, NEW w \in Workers, CheckOtherAccounts(w)
  PROVE  SocialInv'
  <1>1. job[w].at = "others" /\ UNCHANGED socials
    BY DEF CheckOtherAccounts
  <1>2. Fail(w) \/ GoTo(w, [job[w] EXCEPT !.at = "drop"])
    BY DEF CheckOtherAccounts
  <1> QED
    BY <1>1, <1>2, SocialFails, SocialAdvance, SocialSame

\* The account's earlier rows of the channel are dropped.
LEMMA SocialDrop ==
  ASSUME SocialInv, NEW w \in Workers, DropOwn(w)
  PROVE  SocialInv'
  <1>1. job[w].at = "drop" /\ GoTo(w, [job[w] EXCEPT !.at = "connect"])
    BY DEF DropOwn
  <1>2. \A r \in SocialRows : socials'[r] \in {socials[r], None}
    BY DEF DropOwn
  <1>3. DOMAIN socials' = SocialRows /\ socials' = [r \in SocialRows |-> socials'[r]]
    BY DEF DropOwn
  <1>4. socials' \in [SocialRows -> SocialRow \cup {None}] /\ SocialsStay
    BY <1>2, <1>3, SocialEdit
  <1> QED
    BY <1>1, <1>4, SocialAdvance

\* The row is verified.
LEMMA SocialConnect ==
  ASSUME SocialInv, NEW w \in Workers, Connect(w)
  PROVE  SocialInv'
  <1>1. job[w].at = "connect" /\ job[w] \in SocialJob
    BY DEF Connect, SocialInv, SocialTypeOK
  <1>2. CASE Fail(w) /\ UNCHANGED socials
    BY <1>1, <1>2, SocialFails
  <1>3. CASE ~(Fail(w) /\ UNCHANGED socials)
    <2>1. PICK r, c : r = job[w].row /\ c = job[w].channel
      OBVIOUS
    <2>2. r \in SocialRows /\ c \in Channels
      BY <1>1, <2>1, SocialFields
    <2>3. /\ Exists(r)
          /\ socials' = [socials EXCEPT ![r].status = "VERIFIED", ![r].channel = c]
          /\ job' = [job EXCEPT ![w] = Idle]
      BY <1>3, <2>1 DEF Connect, Finish
    <2>4. socials[r] \in SocialRow
      BY <2>2, <2>3 DEF SocialInv, SocialTypeOK, Exists
    <2>5. PICK row : row = [socials[r] EXCEPT !.status = "VERIFIED", !.channel = c]
      OBVIOUS
    <2>6. row \in SocialRow /\ row.user = socials[r].user
      BY <2>2, <2>4, <2>5 DEF SocialRow, SocialVerificationStatus
    <2>7. socials' = [socials EXCEPT ![r] = row]
      BY <2>2, <2>3, <2>5 DEF SocialInv, SocialTypeOK
    <2>8. socials' \in [SocialRows -> SocialRow \cup {None}] /\ SocialsStay
      BY <2>3, <2>6, <2>7, SocialNames DEF SocialInv, SocialTypeOK, SocialsStay, Exists
    <2>9. Idle \in SocialJob
      BY DEF SocialJob
    <2> QED
      BY <1>1, <2>3, <2>8, <2>9, SocialGoOn
  <1> QED
    BY <1>2, <1>3

\* The row expires or fails.
LEMMA SocialSettle ==
  ASSUME SocialInv, NEW w \in Workers, ExpireSocial(w) \/ FailSocial(w)
  PROVE  SocialInv'
  <1>1. /\ job[w].at \in {"expireSocial", "failSocial"} /\ job[w] \in SocialJob
        /\ job' = [job EXCEPT ![w] = Idle]
    BY DEF ExpireSocial, FailSocial, Finish, SocialInv, SocialTypeOK
  <1>2. job[w].row \in SocialRows
    BY <1>1, SocialFields
  <1>3. \/ UNCHANGED socials
        \/ /\ Exists(job[w].row)
           /\ \E s \in SocialVerificationStatus :
                socials' = [socials EXCEPT ![job[w].row].status = s]
    BY DEF ExpireSocial, FailSocial, SocialVerificationStatus
  <1>4. socials' \in [SocialRows -> SocialRow \cup {None}] /\ SocialsStay
    BY <1>2, <1>3, SocialSame, SocialStatus
  <1>5. Idle \in SocialJob
    BY DEF SocialJob
  <1> QED
    BY <1>1, <1>4, <1>5, SocialGoOn

\* The deadline of a pending row passes.
LEMMA SocialTimes ==
  ASSUME SocialInv, NEW r \in SocialRows, SocialDeadlinePasses(r)
  PROVE  SocialInv'
  <1>1. socials[r] \in SocialRow /\ Exists(r)
    BY DEF SocialInv, SocialTypeOK, SocialDeadlinePasses, Pending, Exists
  <1>2. PICK row : row = [socials[r] EXCEPT !.expired = TRUE]
    OBVIOUS
  <1>3. row \in SocialRow /\ row.user = socials[r].user
    BY <1>1, <1>2 DEF SocialRow
  <1>4. socials' = [socials EXCEPT ![r] = row] /\ job' = job
    BY <1>2 DEF SocialDeadlinePasses
  <1>5. SocialTypeOK' /\ SocialsStay
    BY <1>1, <1>3, <1>4, SocialNames DEF SocialInv, SocialTypeOK, SocialsStay, Exists
  <1>6. ASSUME NEW w \in Workers PROVE RowIsUsers(job[w])'
    BY <1>4, <1>5, SocialFields DEF SocialInv, SocialTypeOK, RowIsUsers, Exists, SocialsStay
  <1> QED
    BY <1>5, <1>6 DEF SocialInv

\* No step of the component breaks the invariant.
LEMMA SocialKept ==
  ASSUME SocialInv, [SocialNext]_socialVars
  PROVE  SocialInv'
  <1>1. CASE UNCHANGED socialVars
    BY <1>1 DEF socialVars, SocialInv, SocialTypeOK, RowIsUsers, Exists
  <1>2. CASE SocialNext
    BY <1>2, SocialStart, SocialCreate, SocialRead, SocialExchange, SocialOthers, SocialDrop,
       SocialConnect, SocialSettle, SocialTimes DEF SocialNext
  <1> QED
    BY <1>1, <1>2

\* There are no rows at first.
LEMMA SocialStarted ==
  ASSUME SocialInit
  PROVE  SocialInv
  BY DEF SocialInit, SocialInv, SocialTypeOK, SocialJob, RowIsUsers, NoJobs, Idle

\* Who undoes what is connected.
LEMMA SocialUndone ==
  ASSUME SocialInv, [SocialNext]_socialVars, NEW r \in SocialRows,
         Exists(r), socials[r].status = "VERIFIED", socials'[r] # socials[r]
  PROVE  \E w \in Workers : /\ job'[w] # job[w] /\ job[w] # Idle
                            /\ HolderOf[job[w].user] = HolderOf[socials[r].user]
  <1> USE DEF SocialInv, SocialTypeOK
  <1>0. ASSUME NEW w \in Workers, job[w].at \notin {"idle", "start"}, job[w].row = r,
               job'[w] # job[w]
        PROVE  /\ job'[w] # job[w] /\ job[w] # Idle
               /\ HolderOf[job[w].user] = HolderOf[socials[r].user]
    BY <1>0 DEF RowIsUsers, Idle
  <1>1. ~UNCHANGED socials
    OBVIOUS
  <1>2. ASSUME NEW w \in Workers, NEW u \in SocialUsers, ExpirePendingSocials(w, u) PROVE FALSE
    BY <1>2 DEF ExpirePendingSocials, Pending
  <1>3. ASSUME NEW w \in Workers, CreateSocial(w) PROVE FALSE
    BY <1>3 DEF CreateSocial, Unused
  <1>4. ASSUME NEW w \in Workers, ExpireSocial(w) \/ FailSocial(w)
        PROVE  job[w].at \notin {"idle", "start"} /\ job[w].row = r /\ job'[w] # job[w]
    BY <1>4 DEF ExpireSocial, FailSocial, Finish, Idle
  <1>5. ASSUME NEW w \in Workers, DropOwn(w)
        PROVE  /\ job'[w] # job[w] /\ job[w] # Idle
               /\ HolderOf[job[w].user] = HolderOf[socials[r].user]
    <2>1. job[w] \in [at : {"others", "drop", "connect"}, row : SocialRows,
                      user : SocialUsers, channel : Channels]
      BY <1>5, SocialFields DEF DropOwn
    <2>2. job'[w].at = "connect" /\ job[w].at = "drop"
      BY <1>5, <2>1 DEF DropOwn, GoTo
    <2>3. HolderOf[job[w].user] = HolderOf[socials[r].user]
      BY <1>5 DEF DropOwn, Connected
    <2> QED
      BY <2>2, <2>3 DEF Idle
  <1>6. ASSUME NEW w \in Workers, Connect(w)
        PROVE  job[w].at \notin {"idle", "start"} /\ job[w].row = r /\ job'[w] # job[w]
    <2>1. job[w].at = "connect" /\ job' = [job EXCEPT ![w] = Idle]
      BY <1>1, <1>6 DEF Connect, Finish
    <2>2. job[w].row = r
      BY <1>1, <1>6 DEF Connect
    <2> QED
      BY <2>1, <2>2 DEF Idle
  <1>7. ASSUME NEW q \in SocialRows, SocialDeadlinePasses(q) PROVE FALSE
    BY <1>7 DEF SocialDeadlinePasses, Pending
  <1>8. CASE UNCHANGED socialVars
    BY <1>1, <1>8 DEF socialVars
  <1>9. CASE SocialNext
    <2>1. PICK w \in Workers :
            \/ \E u \in SocialUsers : ExpirePendingSocials(w, u)
            \/ CreateSocial(w) \/ ExpireSocial(w) \/ FailSocial(w) \/ DropOwn(w) \/ Connect(w)
      BY <1>1, <1>7, <1>9 DEF SocialNext, ReadStatus, Callback, Exchange, CheckOtherAccounts
    <2> QED
      BY <1>0, <1>2, <1>3, <1>4, <1>5, <1>6, <2>1
  <1> QED
    BY <1>8, <1>9

\* A connected social account is changed by a request of its own holder only.
THEOREM OthersUndoNothing == SocialSpec => OnlyOwnAccountUndoes
  <1>1. SocialInv /\ [SocialNext]_socialVars
        => [\A r \in SocialRows :
              Exists(r) /\ socials[r].status = "VERIFIED" /\ socials'[r] # socials[r]
              => \E w \in Workers :
                   /\ job'[w] # job[w] /\ job[w] # Idle
                   /\ HolderOf[job[w].user] = HolderOf[socials[r].user]]_socialVars
    BY SocialUndone
  <1> QED
    BY <1>1, SocialStarted, SocialKept, PTL DEF SocialSpec, OnlyOwnAccountUndoes

---------------------------------------------------------------------------
(* Billing *)

\* What a request remembers: the subscription it created is known at
\* Razorpay, the row its event is about exists, and what a deletion found
\* billable and has been through charges no more.
Backed(j) ==
  /\ j.at = "record" => gateway[j.razorpay] # None
  /\ j.at = "event" => subscriptions[j.user] # None
  /\ j.at \in {"cancel", "cancelled"} =>
       \A u \in Subscribers :
         /\ j.rows[u] # None => subscriptions[u] # None
         /\ j.rows[u] # None /\ j.rows[u].razorpay # None
            => gateway[j.rows[u].razorpay] # None
         /\ u \in j.left => Billable(j.rows[u])
         /\ Billable(j.rows[u]) => u \in j.left \/ ~Charges(j.rows[u].razorpay)
  /\ j.at = "cancelled" => j.next \in Subscribers /\ j.rows[j.next] # None

\* Every subscription in the table is known at Razorpay.
RowsKnown ==
  \A u \in Subscribers : subscriptions[u] # None /\ subscriptions[u].razorpay # None
                         => gateway[subscriptions[u].razorpay] # None

\* The tables hold what they are meant to.
BillingTables ==
  /\ subscriptions \in [Subscribers -> Subscription \cup {None}]
  /\ premium \subseteq Subscribers /\ closed \subseteq Subscribers
  /\ gateway \in [RazorpayIds -> Razorpay \cup {None}]
  /\ store \in [Purchases -> {"ACTIVE", "EXPIRED", "CANCELLED"}]

\* The inductive invariant of billing.
BillingInv ==
  /\ BillingTables /\ RowsKnown
  /\ job \in [Workers -> BillingJob]
  /\ \A w \in Workers : Backed(job[w])

\* Rows stay, and what is cancelled at Razorpay stays so.
BillingStays ==
  /\ \A u \in Subscribers : subscriptions[u] # None => subscriptions'[u] # None
  /\ \A s \in RazorpayIds :
       /\ gateway[s] # None => gateway'[s] # None
       /\ gateway[s] # None /\ gateway[s].status = "CANCELLED"
          => gateway'[s].status = "CANCELLED"

\* None is nothing else, and what a row holds.
LEMMA BillingNames ==
  /\ None \notin Subscribers /\ None \notin RazorpayIds /\ None \notin Purchases
  /\ None \notin Subscription /\ None \notin Razorpay
  /\ \A row \in Subscription : /\ row.razorpay \in RazorpayIds \cup {None}
                               /\ row.apple \in Purchases \cup {None}
                               /\ row.status \in SubscriptionStatus
  <1>1. \A row \in Subscription : /\ row.razorpay \in RazorpayIds \cup {None}
                                  /\ row.apple \in Purchases \cup {None}
                                  /\ row.status \in SubscriptionStatus
    BY DEF Subscription
  <1> QED
    BY <1>1, BillingConstants

\* The record of a deletion.
Closing == [at : {"cancel", "cancelled"}, user : Subscribers, left : SUBSET Subscribers,
            next : Subscribers \cup {None}, rows : [Subscribers -> Subscription \cup {None}]]

\* What a request of each stage holds.
LEMMA BillingFields ==
  ASSUME NEW j \in BillingJob
  PROVE  /\ j.at = "createAtRazorpay" => j.user \in Subscribers
         /\ j.at = "record" => j.user \in Subscribers /\ j.razorpay \in RazorpayIds
         /\ j.at = "event" => j.user \in Subscribers /\ j.status \in SubscriptionStatus
         /\ j.at \in {"checkPurchase", "upsertPurchase"} =>
              j \in [at : {"checkPurchase", "upsertPurchase"}, user : Subscribers,
                     purchase : Purchases, status : SubscriptionStatus]
         /\ j.at = "sync" => j.account \in {PayerOf[u] : u \in Subscribers}
         /\ j.at \in {"cancel", "cancelled"} => j \in Closing
         /\ j = Idle <=> j.at = "idle"
  BY DEF BillingJob, Closing, Idle

\* What a request remembers stays true.
LEMMA BackedOn ==
  ASSUME BillingTables, BillingTables', BillingStays, NEW j \in BillingJob, Backed(j)
  PROVE  Backed(j)'
  <1>1. CASE j.at = "record"
    BY <1>1, BillingFields DEF Backed, BillingStays
  <1>2. CASE j.at = "event"
    BY <1>2, BillingFields DEF Backed, BillingStays
  <1>3. CASE j.at \in {"cancel", "cancelled"}
    <2>1. j \in Closing
      BY <1>3, BillingFields
    <2>2. ASSUME NEW u \in Subscribers
          PROVE  /\ j.rows[u] # None => subscriptions'[u] # None
                 /\ j.rows[u] # None /\ j.rows[u].razorpay # None
                    => gateway'[j.rows[u].razorpay] # None
                 /\ u \in j.left => Billable(j.rows[u])
                 /\ Billable(j.rows[u]) => u \in j.left \/ ~Charges(j.rows[u].razorpay)'
      <3>1. j.rows[u] \in Subscription \cup {None}
        BY <2>1 DEF Closing
      <3>2. /\ j.rows[u] # None => subscriptions[u] # None
            /\ j.rows[u] # None /\ j.rows[u].razorpay # None
               => gateway[j.rows[u].razorpay] # None
            /\ u \in j.left => Billable(j.rows[u])
            /\ Billable(j.rows[u]) => u \in j.left \/ ~Charges(j.rows[u].razorpay)
        BY <1>3 DEF Backed
      <3>3. j.rows[u] # None => j.rows[u].razorpay \in RazorpayIds \cup {None}
        BY <3>1, BillingNames
      <3>4. Billable(j.rows[u]) => j.rows[u] # None
        BY DEF Billable
      <3> QED
        BY <3>2, <3>3, <3>4 DEF BillingStays, Charges
    <2>3. j.at = "cancelled" => j.next \in Subscribers /\ j.rows[j.next] # None
      BY DEF Backed
    <2> QED
      BY <1>3, <2>2, <2>3 DEF Backed
  <1>4. CASE j.at \notin {"record", "event", "cancel", "cancelled"}
    BY <1>4 DEF Backed
  <1> QED
    BY <1>1, <1>2, <1>3, <1>4

\* A step of one request keeps the invariant when rows stay and what is
\* cancelled stays so.
LEMMA BillingMove ==
  ASSUME BillingInv, BillingTables', RowsKnown', BillingStays,
         NEW w \in Workers, NEW j \in BillingJob, Backed(j)', job' = [job EXCEPT ![w] = j]
  PROVE  BillingInv'
  <1>1. job' \in [Workers -> BillingJob]
    BY DEF BillingInv
  <1>2. ASSUME NEW v \in Workers PROVE Backed(job[v])'
    <2>1. PICK i : i = job'[v]
      OBVIOUS
    <2>2. i = IF v = w THEN j ELSE job[v]
      BY <2>1 DEF BillingInv
    <2>3. Backed(i)'
      <3>1. CASE v = w
        BY <2>2, <3>1
      <3>2. CASE v # w
        BY <2>2, <3>2, BackedOn DEF BillingInv
      <3> QED
        BY <3>1, <3>2
    <2> QED
      BY <2>1, <2>3
  <1> QED
    BY <1>1, <1>2 DEF BillingInv

\* Tables that nobody writes.
LEMMA BillingSame ==
  ASSUME BillingInv, UNCHANGED <<subscriptions, gateway>>, 
         premium' \subseteq Subscribers, closed' \subseteq Subscribers, UNCHANGED store
  PROVE  BillingTables' /\ RowsKnown' /\ BillingStays
  BY DEF BillingInv, BillingTables, RowsKnown, BillingStays

\* A request that remembers nothing.
LEMMA BillingLight ==
  ASSUME NEW j, j.at \notin {"record", "event", "cancel", "cancelled"}
  PROVE  Backed(j)'
  BY DEF Backed

\* A step that writes at most premium and closed, to a request that remembers
\* nothing.
LEMMA BillingPass ==
  ASSUME BillingInv, NEW w \in Workers, NEW j \in BillingJob, job' = [job EXCEPT ![w] = j],
         j.at \notin {"record", "event", "cancel", "cancelled"},
         UNCHANGED <<subscriptions, gateway, store>>,
         premium' \subseteq Subscribers, closed' \subseteq Subscribers
  PROVE  BillingInv'
  BY BillingMove, BillingLight, BillingSame

\* What the invariant says of the tables, one row at a time.
LEMMA BillingTyped ==
  ASSUME BillingInv
  PROVE  /\ premium \subseteq Subscribers /\ closed \subseteq Subscribers
         /\ \A w \in Workers : job[w] \in BillingJob /\ Backed(job[w])
         /\ \A u \in Subscribers : subscriptions[u] \in Subscription \cup {None}
         /\ \A s \in RazorpayIds : gateway[s] \in Razorpay \cup {None}
         /\ \A o \in Purchases : store[o] \in {"ACTIVE", "EXPIRED", "CANCELLED"}
         /\ Idle \in BillingJob /\ Idle.at = "idle"
  BY DEF BillingInv, BillingTables, BillingJob, Idle

\* A subscription is asked for.
LEMMA BillingReadMine ==
  ASSUME BillingInv, NEW w \in Workers, NEW u \in Subscribers, ReadMine(w, u)
  PROVE  BillingInv'
  <1>1. PICK j : j = [at |-> "createAtRazorpay", user |-> u]
    OBVIOUS
  <1>2. /\ job' = [job EXCEPT ![w] = j]
        /\ UNCHANGED <<subscriptions, premium, closed, gateway, store>>
    BY <1>1 DEF ReadMine, Begin, external
  <1>3. j \in BillingJob /\ j.at = "createAtRazorpay"
    BY <1>1 DEF BillingJob
  <1> QED
    BY <1>2, <1>3, BillingPass, BillingTyped

\* It is created at Razorpay.
LEMMA BillingCreate ==
  ASSUME BillingInv, NEW w \in Workers, CreateAtRazorpay(w)
  PROVE  BillingInv'
  <1>1. PICK u : u = job[w].user
    OBVIOUS
  <1>2. u \in Subscribers
    BY <1>1, BillingTyped, BillingFields DEF CreateAtRazorpay
  <1>3. PICK row : row = [user |-> u, status |-> "CREATED", said |-> {}]
    OBVIOUS
  <1>4. PICK s \in RazorpayIds : /\ gateway[s] = None
                                 /\ gateway' = [gateway EXCEPT ![s] = row]
                                 /\ GoTo(w, [at |-> "record", user |-> u, razorpay |-> s])
    BY <1>1, <1>3 DEF CreateAtRazorpay
  <1>5. UNCHANGED <<subscriptions, premium, closed, store>>
    BY DEF CreateAtRazorpay
  <1>6. PICK j : j = [at |-> "record", user |-> u, razorpay |-> s]
    OBVIOUS
  <1>7. job' = [job EXCEPT ![w] = j] /\ j \in BillingJob /\ j.at = "record" /\ j.razorpay = s
    BY <1>2, <1>4, <1>6 DEF GoTo, BillingJob
  <1>8. row \in Razorpay /\ row # None
    <2>1. row \in Razorpay
      BY <1>2, <1>3 DEF Razorpay
    <2> QED
      BY <2>1, BillingNames
  <1>9. /\ \A r \in RazorpayIds : gateway'[r] = IF r = s THEN row ELSE gateway[r]
        /\ gateway' \in [RazorpayIds -> Razorpay \cup {None}]
    BY <1>4, <1>8 DEF BillingInv, BillingTables
  <1>10. BillingTables' /\ BillingStays
    BY <1>4, <1>5, <1>9 DEF BillingInv, BillingTables, BillingStays
  <1>11. RowsKnown'
    <2> SUFFICES ASSUME NEW v \in Subscribers, subscriptions[v] # None,
                        subscriptions[v].razorpay # None
                 PROVE  gateway'[subscriptions[v].razorpay] # None
      BY <1>5 DEF RowsKnown
    <2>1. subscriptions[v].razorpay \in RazorpayIds
      BY BillingTyped, BillingNames
    <2> QED
      BY <1>8, <1>9, <2>1 DEF BillingInv, RowsKnown
  <1>12. Backed(j)'
    BY <1>7, <1>8, <1>9 DEF Backed
  <1> QED
    BY <1>7, <1>10, <1>11, <1>12, BillingMove

\* A row is written with what Razorpay knows of, and nothing else is.
LEMMA BillingWrite ==
  ASSUME BillingInv, NEW u \in Subscribers, NEW row \in Subscription,
         row.razorpay # None => gateway[row.razorpay] # None,
         subscriptions' = [subscriptions EXCEPT ![u] = row],
         UNCHANGED <<premium, closed, gateway, store>>
  PROVE  BillingTables' /\ RowsKnown' /\ BillingStays
  BY BillingNames DEF BillingInv, BillingTables, RowsKnown, BillingStays

\* It is recorded.
LEMMA BillingRecord ==
  ASSUME BillingInv, NEW w \in Workers, RecordSubscription(w)
  PROVE  BillingInv'
  <1>1. PICK i : i = job[w]
    OBVIOUS
  <1>2. i.at = "record" /\ i \in BillingJob /\ Backed(i)
    BY <1>1, BillingTyped DEF RecordSubscription
  <1>3. i.user \in Subscribers /\ i.razorpay \in RazorpayIds /\ gateway[i.razorpay] # None
    BY <1>2, BillingFields DEF Backed
  <1>4. PICK row : row = [razorpay |-> i.razorpay, status |-> "CREATED",
                          apple |-> IF subscriptions[i.user] = None THEN None
                                    ELSE subscriptions[i.user].apple]
    OBVIOUS
  <1>5. row \in Subscription /\ row.razorpay = i.razorpay
    <2>1. (IF subscriptions[i.user] = None THEN None ELSE subscriptions[i.user].apple)
          \in Purchases \cup {None}
      BY <1>3, BillingTyped, BillingNames
    <2> QED
      BY <1>3, <1>4, <2>1 DEF Subscription, SubscriptionStatus
  <1>6. /\ subscriptions' = [subscriptions EXCEPT ![i.user] = row]
        /\ job' = [job EXCEPT ![w] = Idle]
        /\ UNCHANGED <<premium, closed, gateway, store>>
    BY <1>1, <1>4 DEF RecordSubscription, Finish, external
  <1>7. BillingTables' /\ RowsKnown' /\ BillingStays
    BY <1>3, <1>5, <1>6, BillingWrite
  <1> QED
    BY <1>6, <1>7, BillingMove, BillingLight, BillingTyped

\* An event of Razorpay's finds the row it is about.
LEMMA BillingFind ==
  ASSUME BillingInv, NEW w \in Workers, NEW u \in Subscribers, NEW s \in RazorpayIds,
         NEW status \in SubscriptionStatus, FindSubscription(w, u, s, status)
  PROVE  BillingInv'
  <1>1. PICK j : j = [at |-> "event", user |-> u, status |-> status]
    OBVIOUS
  <1>2. /\ job' = [job EXCEPT ![w] = j] /\ subscriptions[u] # None
        /\ UNCHANGED <<subscriptions, premium, closed, gateway, store>>
    BY <1>1 DEF FindSubscription, Begin, external
  <1>3. j \in BillingJob /\ Backed(j)'
    BY <1>1, <1>2 DEF BillingJob, Backed
  <1> QED
    BY <1>2, <1>3, BillingMove, BillingSame, BillingTyped

\* The row of u gets a status.
LEMMA BillingStatus ==
  ASSUME BillingInv, NEW u \in Subscribers, subscriptions[u] # None,
         NEW status \in SubscriptionStatus,
         subscriptions' = [subscriptions EXCEPT ![u].status = status],
         UNCHANGED <<premium, closed, gateway, store>>
  PROVE  BillingTables' /\ RowsKnown' /\ BillingStays
  <1>1. subscriptions[u] \in Subscription
    BY BillingTyped
  <1>2. PICK row : row = [subscriptions[u] EXCEPT !.status = status]
    OBVIOUS
  <1>3. row \in Subscription /\ row.razorpay = subscriptions[u].razorpay
    BY <1>1, <1>2 DEF Subscription
  <1>4. subscriptions' = [subscriptions EXCEPT ![u] = row]
    BY <1>2
  <1>5. row.razorpay # None => gateway[row.razorpay] # None
    BY <1>3 DEF BillingInv, RowsKnown
  <1> QED
    BY <1>3, <1>4, <1>5, BillingWrite

\* ToSync is a request, which remembers nothing.
LEMMA BillingToSync ==
  ASSUME NEW u \in Subscribers, NEW active \in BOOLEAN
  PROVE  ToSync(u, active) \in BillingJob /\ ToSync(u, active).at = "sync"
  BY DEF ToSync, BillingJob

\* The event is written.
LEMMA BillingEvent ==
  ASSUME BillingInv, NEW w \in Workers, WriteEvent(w)
  PROVE  BillingInv'
  <1>1. PICK i : i = job[w]
    OBVIOUS
  <1>2. i.at = "event" /\ i \in BillingJob /\ Backed(i)
    BY <1>1, BillingTyped DEF WriteEvent
  <1>3. i.user \in Subscribers /\ i.status \in SubscriptionStatus /\ subscriptions[i.user] # None
    BY <1>2, BillingFields DEF Backed
  <1>4. PICK j : j = ToSync(i.user, i.status = "ACTIVE")
    OBVIOUS
  <1>5. /\ subscriptions' = [subscriptions EXCEPT ![i.user].status = i.status]
        /\ job' = [job EXCEPT ![w] = j]
        /\ UNCHANGED <<premium, closed, gateway, store>>
    BY <1>1, <1>4 DEF WriteEvent, GoTo, external
  <1>6. j \in BillingJob /\ j.at = "sync"
    BY <1>3, <1>4, BillingToSync
  <1>7. BillingTables' /\ RowsKnown' /\ BillingStays
    BY <1>3, <1>5, BillingStatus
  <1> QED
    BY <1>5, <1>6, <1>7, BillingMove, BillingLight

\* Premium follows the subscriptions of the account.
LEMMA BillingSync ==
  ASSUME BillingInv, NEW w \in Workers, syncPremiumStatus(w)
  PROVE  BillingInv'
  <1>1. /\ job' = [job EXCEPT ![w] = Idle] /\ premium' \subseteq Subscribers
        /\ UNCHANGED <<subscriptions, closed, gateway, store>>
    BY BillingTyped DEF syncPremiumStatus, Finish, external, UsersOf
  <1> QED
    BY <1>1, BillingPass, BillingTyped

\* An admin overrides premium.
LEMMA BillingOverride ==
  ASSUME BillingInv, NEW w \in Workers, NEW u \in Subscribers, NEW active \in BOOLEAN,
         OverridePremium(w, u, active)
  PROVE  BillingInv'
  <1>1. PICK j : j = ToSync(u, active)
    OBVIOUS
  <1>2. /\ job' = [job EXCEPT ![w] = j]
        /\ UNCHANGED <<subscriptions, premium, closed, gateway, store>>
    BY <1>1 DEF OverridePremium, Begin, external
  <1>3. j \in BillingJob /\ j.at = "sync"
    BY <1>1, BillingToSync
  <1> QED
    BY <1>2, <1>3, BillingPass, BillingTyped

\* A purchase is verified, or a notification of Apple's arrives.
LEMMA BillingPurchase ==
  ASSUME BillingInv, NEW w \in Workers, NEW u \in Subscribers, NEW o \in Purchases,
         verifyPurchase(w, u, o) \/ \E revoked \in BOOLEAN : handleNotification(w, u, o, revoked)
  PROVE  BillingInv'
  <1>1. PICK status \in SubscriptionStatus : Begin(w, ToCheck(u, o, status))
    BY DEF verifyPurchase, handleNotification, statusFromTransaction, SubscriptionStatus
  <1>2. PICK j : j = ToCheck(u, o, status)
    OBVIOUS
  <1>3. /\ job' = [job EXCEPT ![w] = j]
        /\ UNCHANGED <<subscriptions, premium, closed, gateway, store>>
    BY <1>1, <1>2 DEF Begin, verifyPurchase, handleNotification, external
  <1>4. j \in BillingJob /\ j.at = "checkPurchase"
    BY <1>2 DEF ToCheck, BillingJob
  <1> QED
    BY <1>3, <1>4, BillingPass, BillingTyped

\* The purchase is looked up.
LEMMA BillingCheck ==
  ASSUME BillingInv, NEW w \in Workers, CheckPurchase(w)
  PROVE  BillingInv'
  <1>1. PICK i : i = job[w]
    OBVIOUS
  <1>2. i \in [at : {"checkPurchase", "upsertPurchase"}, user : Subscribers,
               purchase : Purchases, status : SubscriptionStatus]
    BY <1>1, BillingTyped, BillingFields DEF CheckPurchase
  <1>3. PICK j \in {Idle, [i EXCEPT !.at = "upsertPurchase"]} : job' = [job EXCEPT ![w] = j]
    BY <1>1 DEF CheckPurchase, Finish, GoTo
  <1>4. j \in BillingJob /\ j.at \notin {"record", "event", "cancel", "cancelled"}
    <2>1. CASE j = Idle
      BY <2>1, BillingTyped
    <2>2. CASE j = [i EXCEPT !.at = "upsertPurchase"]
      <3>1. j \in [at : {"checkPurchase", "upsertPurchase"}, user : Subscribers,
                   purchase : Purchases, status : SubscriptionStatus]
        BY <1>2, <2>2
      <3> QED
        BY <3>1 DEF BillingJob
    <2> QED
      BY <1>3, <2>1, <2>2
  <1>5. UNCHANGED <<subscriptions, premium, closed, gateway, store>>
    BY DEF CheckPurchase, external
  <1> QED
    BY <1>3, <1>4, <1>5, BillingPass, BillingTyped

\* Its row is upserted.
LEMMA BillingUpsert ==
  ASSUME BillingInv, NEW w \in Workers, UpsertPurchase(w)
  PROVE  BillingInv'
  <1>1. PICK i : i = job[w]
    OBVIOUS
  <1>2. /\ i \in [at : {"checkPurchase", "upsertPurchase"}, user : Subscribers,
                  purchase : Purchases, status : SubscriptionStatus]
        /\ UNCHANGED <<premium, closed, gateway, store>>
    BY <1>1, BillingTyped, BillingFields DEF UpsertPurchase, external
  <1>3. CASE Finish(w) /\ UNCHANGED subscriptions
    <2>1. job' = [job EXCEPT ![w] = Idle]
      BY <1>3 DEF Finish
    <2> QED
      BY <1>2, <1>3, <2>1, BillingPass, BillingTyped
  <1>4. CASE ~(Finish(w) /\ UNCHANGED subscriptions)
    <2>1. PICK row : row = [razorpay |-> IF subscriptions[i.user] = None THEN None
                                         ELSE subscriptions[i.user].razorpay,
                            apple |-> i.purchase, status |-> i.status]
      OBVIOUS
    <2>2. PICK j : j = ToSync(i.user, i.status = "ACTIVE")
      OBVIOUS
    <2>3. subscriptions' = [subscriptions EXCEPT ![i.user] = row] /\ job' = [job EXCEPT ![w] = j]
      BY <1>1, <1>4, <2>1, <2>2 DEF UpsertPurchase, GoTo
    <2>4. /\ i.user \in Subscribers /\ i.purchase \in Purchases /\ i.status \in SubscriptionStatus
          /\ subscriptions[i.user] \in Subscription \cup {None}
      BY <1>2, BillingTyped
    <2>5. /\ row \in Subscription
          /\ row.razorpay # None => row.razorpay = subscriptions[i.user].razorpay
                                    /\ subscriptions[i.user] # None
      <3>1. (IF subscriptions[i.user] = None THEN None ELSE subscriptions[i.user].razorpay)
            \in RazorpayIds \cup {None}
        BY <2>4, BillingNames
      <3> QED
        BY <2>1, <2>4, <3>1 DEF Subscription
    <2>6. row.razorpay # None => gateway[row.razorpay] # None
      BY <2>4, <2>5 DEF BillingInv, RowsKnown
    <2>7. BillingTables' /\ RowsKnown' /\ BillingStays
      BY <1>2, <2>3, <2>4, <2>5, <2>6, BillingWrite
    <2>8. j \in BillingJob /\ j.at = "sync"
      BY <2>2, <2>4, BillingToSync
    <2> QED
      BY <2>3, <2>7, <2>8, BillingMove, BillingLight
  <1> QED
    BY <1>3, <1>4

\* A deletion reads the subscriptions of the account.
LEMMA BillingReadToClose ==
  ASSUME BillingInv, NEW w \in Workers, NEW u \in Subscribers, ReadToClose(w, u)
  PROVE  BillingInv'
  <1>1. PICK rows : rows = [v \in Subscribers |-> IF v \in UsersOf(PayerOf[u])
                                                  THEN subscriptions[v] ELSE None]
    OBVIOUS
  <1>2. PICK j : j = [at |-> "cancel", user |-> u, rows |-> rows, next |-> None,
                      left |-> {v \in Subscribers : Billable(rows[v])}]
    OBVIOUS
  <1>3. /\ job' = [job EXCEPT ![w] = j]
        /\ UNCHANGED <<subscriptions, premium, closed, gateway, store>>
    BY <1>1, <1>2 DEF ReadToClose, Begin, external
  <1>4. rows \in [Subscribers -> Subscription \cup {None}]
    BY <1>1, BillingTyped
  <1>5. j \in BillingJob
    BY <1>2, <1>4 DEF BillingJob
  <1>6. Backed(j)'
    <2>1. \A v \in Subscribers : rows[v] # None => rows[v] = subscriptions[v]
      BY <1>1
    <2>2. j.at = "cancel" /\ j.rows = rows /\ j.left = {v \in Subscribers : Billable(rows[v])}
      BY <1>2
    <2> QED
      BY <1>3, <2>1, <2>2 DEF Backed, BillingInv, RowsKnown
  <1> QED
    BY <1>3, <1>5, <1>6, BillingMove, BillingSame, BillingTyped

\* It cancels one at Razorpay, which may fail.
LEMMA BillingCancel ==
  ASSUME BillingInv, NEW w \in Workers, NEW u \in Subscribers, NEW fails \in BOOLEAN,
         CancelAtRazorpay(w, u, fails)
  PROVE  BillingInv'
  <1>1. PICK i : i = job[w]
    OBVIOUS
  <1>2. /\ i \in Closing /\ Backed(i) /\ i.at = "cancel" /\ u \in i.left
        /\ UNCHANGED <<subscriptions, premium, closed, store>>
    BY <1>1, BillingTyped, BillingFields DEF CancelAtRazorpay
  <1>3. PICK s : s = i.rows[u].razorpay
    OBVIOUS
  <1>4. CASE fails \/ s = None
    <2>1. job' = [job EXCEPT ![w] = Idle] /\ UNCHANGED gateway
      BY <1>1, <1>3, <1>4 DEF CancelAtRazorpay, Finish
    <2> QED
      BY <1>2, <2>1, BillingPass, BillingTyped
  <1>5. CASE ~(fails \/ s = None)
    <2>1. PICK j : j = [i EXCEPT !.at = "cancelled", !.left = i.left \ {u}, !.next = u]
      OBVIOUS
    <2>2. job' = [job EXCEPT ![w] = j] /\ Cancelled(s)
      BY <1>1, <1>3, <1>5, <2>1 DEF CancelAtRazorpay, GoTo
    <2>3. /\ j \in Closing /\ j.at = "cancelled" /\ j.left = i.left \ {u} /\ j.next = u
          /\ j.rows = i.rows
      BY <1>2, <2>1 DEF Closing
    <2>4. i.rows \in [Subscribers -> Subscription \cup {None}] /\ i.left \subseteq Subscribers
      BY <1>2 DEF Closing
    <2>5. i.rows[u] # None /\ Billable(i.rows[u]) /\ i.rows[u] \in Subscription
      BY <1>2, <2>4 DEF Backed, Billable
    <2>6. s \in RazorpayIds /\ gateway[s] # None /\ gateway[s] \in Razorpay
      BY <1>2, <1>3, <1>5, <2>5, BillingNames, BillingTyped DEF Backed
    <2>7. PICK row : row = [gateway[s] EXCEPT !.status = "CANCELLED",
                                              !.said = gateway[s].said \cup {"CANCELLED"}]
      OBVIOUS
    <2>8. row \in Razorpay /\ row.status = "CANCELLED"
      BY <2>6, <2>7 DEF Razorpay
    <2>9. gateway' = [gateway EXCEPT ![s] = row]
      BY <2>2, <2>6, <2>7 DEF Cancelled, BillingInv, BillingTables
    <2>10. /\ \A r \in RazorpayIds : gateway'[r] = IF r = s THEN row ELSE gateway[r]
           /\ gateway' \in [RazorpayIds -> Razorpay \cup {None}] /\ row # None
      BY <2>8, <2>9, BillingNames DEF BillingInv, BillingTables
    <2>11. BillingTables' /\ BillingStays
      BY <1>2, <2>8, <2>10 DEF BillingInv, BillingTables, BillingStays
    <2>12. RowsKnown'
      <3> SUFFICES ASSUME NEW v \in Subscribers, subscriptions[v] # None,
                          subscriptions[v].razorpay # None
                   PROVE  gateway'[subscriptions[v].razorpay] # None
        BY <1>2 DEF RowsKnown
      <3>1. subscriptions[v].razorpay \in RazorpayIds
        BY BillingTyped, BillingNames
      <3> QED
        BY <2>10, <3>1 DEF BillingInv, RowsKnown
    <2>13. j \in BillingJob
      BY <2>3 DEF Closing, BillingJob
    <2>14. i \in BillingJob
      BY <1>1, BillingTyped
    <2>15. Backed(i)'
      BY <1>2, <2>11, <2>14, BackedOn DEF BillingInv
    <2>16. ~Charges(i.rows[u].razorpay)'
      BY <1>3, <2>6, <2>8, <2>10 DEF Charges
    <2>17. Backed(j)'
      BY <1>2, <2>3, <2>5, <2>15, <2>16 DEF Backed
    <2> QED
      BY <2>2, <2>11, <2>12, <2>13, <2>17, BillingMove
  <1> QED
    BY <1>4, <1>5

\* It records the cancellation.
LEMMA BillingRecordCancelled ==
  ASSUME BillingInv, NEW w \in Workers, RecordCancelled(w)
  PROVE  BillingInv'
  <1>1. PICK i : i = job[w]
    OBVIOUS
  <1>2. i \in Closing /\ i \in BillingJob /\ Backed(i) /\ i.at = "cancelled"
    BY <1>1, BillingTyped, BillingFields DEF RecordCancelled
  <1>3. i.next \in Subscribers /\ subscriptions[i.next] # None
    BY <1>2 DEF Backed
  <1>4. PICK j : j = [i EXCEPT !.at = "cancel", !.next = None]
    OBVIOUS
  <1>5. j \in Closing /\ j.at = "cancel" /\ j.left = i.left /\ j.rows = i.rows
    BY <1>2, <1>4 DEF Closing
  <1>6. /\ job' = [job EXCEPT ![w] = j]
        /\ subscriptions' = [subscriptions EXCEPT ![i.next].status = "CANCELLED"]
        /\ UNCHANGED <<premium, closed, gateway, store>>
    BY <1>1, <1>4 DEF RecordCancelled, GoTo, external
  <1>7. BillingTables' /\ RowsKnown' /\ BillingStays
    BY <1>3, <1>6, BillingStatus DEF SubscriptionStatus
  <1>8. Backed(i)'
    BY <1>2, <1>7, BackedOn DEF BillingInv
  <1>9. Backed(j)'
    BY <1>2, <1>5, <1>8 DEF Backed
  <1>10. j \in BillingJob
    BY <1>5 DEF Closing, BillingJob
  <1> QED
    BY <1>6, <1>7, <1>9, <1>10, BillingMove

\* It closes the account.
LEMMA BillingClose ==
  ASSUME BillingInv, NEW w \in Workers, CloseAccount(w)
  PROVE  BillingInv'
  <1>1. /\ job' = [job EXCEPT ![w] = Idle]
        /\ premium' \subseteq Subscribers /\ closed' \subseteq Subscribers
        /\ UNCHANGED <<subscriptions, gateway, store>>
    BY BillingTyped DEF CloseAccount, Finish, external, UsersOf
  <1> QED
    BY <1>1, BillingPass, BillingTyped

\* Razorpay moves a subscription by itself.
LEMMA BillingMoved ==
  ASSUME BillingInv, NEW s \in RazorpayIds, NEW status \in {"ACTIVE", "CANCELLED"},
         RazorpayMoves(s, status)
  PROVE  BillingInv'
  <1>1. /\ gateway[s] \in Razorpay /\ gateway[s].status # "CANCELLED" /\ gateway[s] # None
        /\ UNCHANGED <<subscriptions, premium, closed, store, job>>
    BY BillingTyped DEF RazorpayMoves
  <1>2. PICK row : row = [gateway[s] EXCEPT !.status = status,
                                            !.said = gateway[s].said \cup {status}]
    OBVIOUS
  <1>3. row \in Razorpay /\ row # None
    <2>1. row \in Razorpay
      BY <1>1, <1>2 DEF Razorpay
    <2> QED
      BY <2>1, BillingNames
  <1>4. gateway' = [gateway EXCEPT ![s] = row]
    BY <1>1, <1>2 DEF RazorpayMoves, BillingInv, BillingTables
  <1>5. /\ \A r \in RazorpayIds : gateway'[r] = IF r = s THEN row ELSE gateway[r]
        /\ gateway' \in [RazorpayIds -> Razorpay \cup {None}]
    BY <1>3, <1>4 DEF BillingInv, BillingTables
  <1>6. BillingTables' /\ BillingStays
    BY <1>1, <1>3, <1>5 DEF BillingInv, BillingTables, BillingStays
  <1>7. RowsKnown'
    <2> SUFFICES ASSUME NEW v \in Subscribers, subscriptions[v] # None,
                        subscriptions[v].razorpay # None
                 PROVE  gateway'[subscriptions[v].razorpay] # None
      BY <1>1 DEF RowsKnown
    <2>1. subscriptions[v].razorpay \in RazorpayIds
      BY BillingTyped, BillingNames
    <2> QED
      BY <1>3, <1>5, <2>1 DEF BillingInv, RowsKnown
  <1>8. ASSUME NEW w \in Workers PROVE Backed(job[w])'
    <2>1. PICK i : i = job[w]
      OBVIOUS
    <2>2. Backed(i)'
      BY <1>6, <2>1, BackedOn DEF BillingInv
    <2> QED
      BY <1>1, <2>1, <2>2
  <1> QED
    BY <1>1, <1>6, <1>7, <1>8 DEF BillingInv

\* Apple moves a purchase by itself.
LEMMA BillingApple ==
  ASSUME BillingInv, NEW o \in Purchases, NEW status \in {"EXPIRED", "CANCELLED"},
         AppleMoves(o, status)
  PROVE  BillingInv'
  <1>1. /\ store' \in [Purchases -> {"ACTIVE", "EXPIRED", "CANCELLED"}]
        /\ UNCHANGED <<subscriptions, premium, closed, gateway, job>>
    BY DEF AppleMoves, BillingInv, BillingTables
  <1>2. BillingTables' /\ RowsKnown'
    BY <1>1 DEF BillingInv, BillingTables, RowsKnown
  <1>3. ASSUME NEW w \in Workers PROVE Backed(job[w])'
    BY <1>1 DEF BillingInv, Backed, Charges
  <1> QED
    BY <1>1, <1>2, <1>3 DEF BillingInv

\* No step of the component breaks the invariant.
LEMMA BillingKept ==
  ASSUME BillingInv, [BillingNext]_billingVars
  PROVE  BillingInv'
  <1>1. CASE UNCHANGED billingVars
    BY <1>1 DEF billingVars, BillingInv, BillingTables, RowsKnown, Backed, Charges
  <1>2. ASSUME NEW w \in Workers, BillingArrive(w) PROVE BillingInv'
    BY <1>2, BillingReadMine, BillingReadToClose, BillingFind, BillingPurchase,
       BillingOverride DEF BillingArrive
  <1>3. ASSUME NEW w \in Workers, BillingStep(w) PROVE BillingInv'
    BY <1>3, BillingCreate, BillingRecord, BillingEvent, BillingSync, BillingCheck,
       BillingUpsert, BillingCancel, BillingRecordCancelled, BillingClose DEF BillingStep
  <1> QED
    BY <1>1, <1>2, <1>3, BillingMoved, BillingApple DEF BillingNext

\* There are no subscriptions at first.
LEMMA BillingStarted ==
  ASSUME BillingInit
  PROVE  BillingInv
  BY DEF BillingInit, BillingInv, BillingTables, RowsKnown, BillingJob, Backed, NoJobs, Idle

\* What closes an account, and what was cancelled by then.
LEMMA ClosedAfterCancelling ==
  ASSUME BillingInv, [BillingNext]_billingVars, NEW w \in Workers,
         job[w].at = "cancel", closed' # closed, job'[w] = Idle
  PROVE  \A u \in Subscribers :
           Billable(job[w].rows[u]) => ~Charges(job[w].rows[u].razorpay)
  <1>1. PICK v \in Workers : CloseAccount(v)
    BY DEF BillingNext, billingVars, BillingArrive, BillingStep, ReadMine, ReadToClose,
       FindSubscription, verifyPurchase, handleNotification, OverridePremium, CreateAtRazorpay,
       RecordSubscription, WriteEvent, syncPremiumStatus, CheckPurchase, UpsertPurchase,
       CancelAtRazorpay, RecordCancelled, RazorpayMoves, AppleMoves
  <1>2. job' = [job EXCEPT ![v] = Idle] /\ job[v].left = {}
    BY <1>1 DEF CloseAccount, Finish
  <1>3. v = w
    BY <1>2 DEF BillingInv, Idle
  <1> QED
    BY <1>2, <1>3, BillingTyped DEF Backed

\* A deletion cancels what it found billable before it closes the account.
THEOREM DeletionCancelsFirst == BillingSpec => CancelledBeforeClosed
  <1>1. BillingInv /\ [BillingNext]_billingVars
        => [\A w \in Workers :
              job[w].at = "cancel" /\ closed' # closed /\ job'[w] = Idle
              => \A u \in Subscribers :
                   Billable(job[w].rows[u]) => ~Charges(job[w].rows[u].razorpay)]_billingVars
    BY ClosedAfterCancelling
  <1> QED
    BY <1>1, BillingStarted, BillingKept, PTL DEF BillingSpec, CancelledBeforeClosed

---------------------------------------------------------------------------
(* Devices *)

\* A request of u is about to take the phone out of this store.
Leaving(u, t, at) ==
  \E w \in Workers : /\ job[w].at = "clear" /\ job[w].user = u /\ job[w].phone = t
                     /\ at \in job[w].left

\* A phone that a user wants pushes on has that user's row.
Heard(u, t) ==
  wanted[u][t] = "on" =>
    devices[t] = u /\ t \in installed /\ \A v \in PushUsers : ~Clearing(v, t)

\* One that a user wants none on is in neither store, or leaving it.
Hushed(u, t) ==
  wanted[u][t] = "off" =>
    /\ ~Registering(u, t)
    /\ devices[t] = u => Leaving(u, t, "row")
    /\ fcmToken[u] = t => Leaving(u, t, "column")

\* A token FCM did not know will never be known again.
DeadAreGone(j) == j.at = "send" => \A d \in j.dead : d[1] \notin installed

\* The inductive invariant of the phones.
DeviceInv ==
  /\ DeviceTypeOK
  /\ \A u \in PushUsers, t \in Phones : Heard(u, t) /\ Hushed(u, t)
  /\ \A w \in Workers : DeadAreGone(job[w])

\* What a request of each stage holds.
LEMMA DeviceFields ==
  ASSUME NEW j \in DeviceJob
  PROVE  /\ j.at = "legacy" => j.user \in PushUsers /\ j.phone \in Phones
         /\ j.at = "clear" => j \in [at : {"clear"}, user : PushUsers, phone : Phones,
                                     left : SUBSET Stores]
         /\ j.at = "read" => j \in [at : {"read"}, users : SUBSET PushUsers,
                                    tokens : SUBSET Phones, left : SUBSET Stores]
         /\ j.at = "send" => j \in [at : {"send"}, tokens : SUBSET Phones,
                                    dead : SUBSET (Phones \X Stores)]
         /\ j = Idle <=> j.at = "idle"
  BY DEF DeviceJob, Idle

\* Requests other than logging in and out of a phone.
Neither(j) == j.at \notin {"legacy", "clear"}

\* A step of a push, which at most takes phones that are not installed out of
\* the stores.
LEMMA DevicePushes ==
  ASSUME DeviceInv, NEW w \in Workers, NEW j \in DeviceJob, job' = [job EXCEPT ![w] = j],
         Neither(job[w]), Neither(j), DeadAreGone(j),
         UNCHANGED <<installed, wanted>>, 
         devices' \in [Phones -> PushUsers \cup {None}],
         fcmToken' \in [PushUsers -> Phones \cup {None}],
         \A t \in Phones : devices'[t] = devices[t] \/ (devices'[t] = None /\ t \notin installed),
         \A u \in PushUsers : fcmToken'[u] \in {fcmToken[u], None}
  PROVE  DeviceInv'
  <1>1. DeviceTypeOK'
    BY DEF DeviceInv, DeviceTypeOK
  <1>2. \A v \in Workers : job'[v] = job[v] \/ (Neither(job[v]) /\ Neither(job'[v]))
    BY DEF DeviceInv, DeviceTypeOK
  <1>3. ASSUME NEW u \in PushUsers, NEW t \in Phones
        PROVE  /\ Registering(u, t)' = Registering(u, t)
               /\ Clearing(u, t)' = Clearing(u, t)
               /\ \A at : Leaving(u, t, at) => Leaving(u, t, at)'
    BY <1>2 DEF Registering, Clearing, Leaving, Neither
  <1>4. ASSUME NEW u \in PushUsers, NEW t \in Phones PROVE Heard(u, t)' /\ Hushed(u, t)'
    <2>1. Heard(u, t) /\ Hushed(u, t) /\ None # u /\ None # t
      BY DeviceConstants DEF DeviceInv
    <2> QED
      BY <1>3, <2>1 DEF Heard, Hushed
  <1>5. \A v \in Workers : DeadAreGone(job[v])'
    BY DEF DeviceInv, DeviceTypeOK, DeadAreGone
  <1> QED
    BY <1>1, <1>4, <1>5 DEF DeviceInv

\* The two stores of tokens are left alone.
LEMMA DeviceSame ==
  ASSUME DeviceInv, UNCHANGED <<devices, fcmToken>>
  PROVE  /\ devices' \in [Phones -> PushUsers \cup {None}]
         /\ fcmToken' \in [PushUsers -> Phones \cup {None}]
         /\ \A t \in Phones : devices'[t] = devices[t]
         /\ \A u \in PushUsers : fcmToken'[u] = fcmToken[u]
  BY DEF DeviceInv, DeviceTypeOK

\* A push begins.
LEMMA DevicePush ==
  ASSUME DeviceInv, NEW w \in Workers, NEW us \in SUBSET PushUsers, Push(w, us)
  PROVE  DeviceInv'
  <1>1. PICK j : j = [at |-> "read", users |-> us, tokens |-> {}, left |-> Stores]
    OBVIOUS
  <1>2. /\ job' = [job EXCEPT ![w] = j] /\ job[w] = Idle
        /\ UNCHANGED <<devices, fcmToken, installed, wanted>>
    BY <1>1 DEF Push, Begin
  <1>3. j \in DeviceJob /\ Neither(j) /\ DeadAreGone(j) /\ Neither(job[w])
    BY <1>1, <1>2 DEF DeviceJob, Neither, DeadAreGone, Idle
  <1> QED
    BY <1>2, <1>3, DevicePushes, DeviceSame

\* It reads the tokens of one store.
LEMMA DeviceRead ==
  ASSUME DeviceInv, NEW w \in Workers, NEW at \in Stores, ReadTokens(w, at)
  PROVE  DeviceInv'
  <1>1. PICK i : i = job[w]
    OBVIOUS
  <1>2. i \in [at : {"read"}, users : SUBSET PushUsers, tokens : SUBSET Phones,
               left : SUBSET Stores]
    BY <1>1, DeviceFields DEF ReadTokens, DeviceInv, DeviceTypeOK
  <1>3. PICK tokens : tokens = i.tokens \cup
             (IF at = "row" THEN {t \in Phones : devices[t] \in i.users}
              ELSE {fcmToken[u] : u \in i.users} \ {None})
    OBVIOUS
  <1>4. tokens \subseteq Phones
    BY <1>2, <1>3 DEF DeviceInv, DeviceTypeOK
  <1>5. PICK j : /\ job' = [job EXCEPT ![w] = j]
                 /\ j \in {[i EXCEPT !.tokens = tokens, !.left = i.left \ {at}], Idle,
                           [at |-> "send", tokens |-> tokens, dead |-> {}]}
    BY <1>1, <1>3 DEF ReadTokens, GoTo, Finish
  <1>6. j \in DeviceJob /\ Neither(j) /\ DeadAreGone(j)
    <2>1. CASE j = [i EXCEPT !.tokens = tokens, !.left = i.left \ {at}]
      <3>1. j \in [at : {"read"}, users : SUBSET PushUsers, tokens : SUBSET Phones,
                   left : SUBSET Stores]
        BY <1>2, <1>4, <2>1
      <3> QED
        BY <3>1 DEF DeviceJob, Neither, DeadAreGone
    <2>2. CASE j = Idle
      BY <2>2 DEF DeviceJob, Neither, DeadAreGone, Idle
    <2>3. CASE j = [at |-> "send", tokens |-> tokens, dead |-> {}]
      BY <1>4, <2>3 DEF DeviceJob, Neither, DeadAreGone
    <2> QED
      BY <1>5, <2>1, <2>2, <2>3
  <1>7. Neither(job[w]) /\ UNCHANGED <<devices, fcmToken, installed, wanted>>
    BY <1>1, <1>2 DEF ReadTokens, Neither
  <1> QED
    BY <1>5, <1>6, <1>7, DevicePushes, DeviceSame

\* FCM answers for some of the tokens, and names the dead ones.
LEMMA DeviceSend ==
  ASSUME DeviceInv, NEW w \in Workers, NEW ts \in SUBSET Phones, Send(w, ts)
  PROVE  DeviceInv'
  <1>1. PICK i : i = job[w]
    OBVIOUS
  <1>2. i \in [at : {"send"}, tokens : SUBSET Phones, dead : SUBSET (Phones \X Stores)]
    BY <1>1, DeviceFields DEF Send, DeviceInv, DeviceTypeOK
  <1>3. PICK dead : dead = i.dead \cup ((ts \ installed) \X Stores)
    OBVIOUS
  <1>4. dead \subseteq Phones \X Stores /\ \A d \in dead : d[1] \notin installed
    <2>1. \A d \in i.dead : d[1] \notin installed
      BY <1>1, <1>2 DEF DeviceInv, DeadAreGone
    <2> QED
      BY <1>2, <1>3, <2>1
  <1>5. PICK j \in {[i EXCEPT !.tokens = i.tokens \ ts, !.dead = dead], Idle} :
          job' = [job EXCEPT ![w] = j]
    BY <1>1, <1>3 DEF Send, GoTo, Finish
  <1>6. j \in DeviceJob /\ Neither(j) /\ DeadAreGone(j)
    <2>1. CASE j = [i EXCEPT !.tokens = i.tokens \ ts, !.dead = dead]
      <3>1. /\ j \in [at : {"send"}, tokens : SUBSET Phones, dead : SUBSET (Phones \X Stores)]
            /\ j.dead = dead
        BY <1>2, <1>4, <2>1
      <3> QED
        BY <1>4, <3>1 DEF DeviceJob, Neither, DeadAreGone
    <2>2. CASE j = Idle
      BY <2>2 DEF DeviceJob, Neither, DeadAreGone, Idle
    <2> QED
      BY <1>5, <2>1, <2>2
  <1>7. Neither(job[w]) /\ UNCHANGED <<devices, fcmToken, installed, wanted>>
    BY <1>1, <1>2 DEF Send, Neither
  <1> QED
    BY <1>5, <1>6, <1>7, DevicePushes, DeviceSame

\* A dead token is taken out of a store.
LEMMA DevicePrune ==
  ASSUME DeviceInv, NEW w \in Workers, NEW t \in Phones, NEW at \in Stores,
         pruneDeadToken(w, t, at)
  PROVE  DeviceInv'
  <1>1. PICK i : i = job[w]
    OBVIOUS
  <1>2. i \in [at : {"send"}, tokens : SUBSET Phones, dead : SUBSET (Phones \X Stores)]
    BY <1>1, DeviceFields DEF pruneDeadToken, DeviceInv, DeviceTypeOK
  <1>3. /\ <<t, at>> \in i.dead /\ \A d \in i.dead : d[1] \notin installed
        /\ UNCHANGED <<installed, wanted>>
    BY <1>1, <1>2 DEF pruneDeadToken, DeviceInv, DeadAreGone
  <1>4. t \notin installed
    BY <1>3
  <1>5. PICK j \in {[i EXCEPT !.dead = i.dead \ {<<t, at>>}], Idle} :
          job' = [job EXCEPT ![w] = j]
    BY <1>1 DEF pruneDeadToken, GoTo, Finish
  <1>6. j \in DeviceJob /\ Neither(j) /\ DeadAreGone(j)
    <2>1. CASE j = [i EXCEPT !.dead = i.dead \ {<<t, at>>}]
      <3>1. /\ j \in [at : {"send"}, tokens : SUBSET Phones, dead : SUBSET (Phones \X Stores)]
            /\ j.dead \subseteq i.dead
        BY <1>2, <2>1
      <3> QED
        BY <1>3, <3>1 DEF DeviceJob, Neither, DeadAreGone
    <2>2. CASE j = Idle
      BY <2>2 DEF DeviceJob, Neither, DeadAreGone, Idle
    <2> QED
      BY <1>5, <2>1, <2>2
  <1>7. Neither(job[w])
    BY <1>1, <1>2 DEF Neither
  <1>8. /\ devices' \in [Phones -> PushUsers \cup {None}]
        /\ fcmToken' \in [PushUsers -> Phones \cup {None}]
        /\ \A q \in Phones : devices'[q] = devices[q] \/ (devices'[q] = None /\ q \notin installed)
        /\ \A u \in PushUsers : fcmToken'[u] \in {fcmToken[u], None}
    BY <1>4 DEF pruneDeadToken, DeviceInv, DeviceTypeOK
  <1> QED
    BY <1>3, <1>5, <1>6, <1>7, <1>8, DevicePushes

\* What a step of worker w to j changes of who logs in and out.
LEMMA DeviceFlags ==
  ASSUME DeviceInv, NEW w \in Workers, NEW j, job' = [job EXCEPT ![w] = j]
  PROVE  /\ \A u \in PushUsers, t \in Phones :
              Registering(u, t)' =>
                Registering(u, t) \/ (j.at = "legacy" /\ j.user = u /\ j.phone = t)
         /\ \A u \in PushUsers, t \in Phones :
              Clearing(u, t)' =>
                Clearing(u, t) \/ (j.at = "clear" /\ j.user = u /\ j.phone = t)
         /\ \A u \in PushUsers, t \in Phones : \A at \in Stores :
              Leaving(u, t, at) =>
                \/ Leaving(u, t, at)'
                \/ job[w].at = "clear" /\ job[w].user = u /\ job[w].phone = t
                   /\ at \in job[w].left
         /\ \A u \in PushUsers, t \in Phones : \A at \in Stores :
              j.at = "clear" /\ j.user = u /\ j.phone = t /\ at \in j.left
              => Leaving(u, t, at)'
  <1>1. \A v \in Workers : job'[v] = IF v = w THEN j ELSE job[v]
    BY DEF DeviceInv, DeviceTypeOK
  <1> QED
    BY <1>1 DEF Registering, Clearing, Leaving

\* A user logs in on a phone: the row is upserted.
LEMMA DeviceRegister ==
  ASSUME DeviceInv, NEW w \in Workers, NEW u \in PushUsers, NEW t \in Phones,
         RegisterDevice(w, u, t)
  PROVE  DeviceInv'
  <1>0. Idle.at = "idle"
    BY DEF Idle
  <1>1. PICK j : j = [at |-> "legacy", user |-> u, phone |-> t]
    OBVIOUS
  <1>2. /\ job' = [job EXCEPT ![w] = j] /\ job[w] = Idle /\ t \in installed
        /\ devices' = [devices EXCEPT ![t] = u]
        /\ UNCHANGED <<fcmToken, installed>>
    BY <1>1 DEF RegisterDevice, Begin
  <1>3. /\ wanted' \in [PushUsers -> [Phones -> {"on", "off", "open"}]]
        /\ \A v \in PushUsers, q \in Phones :
             /\ q # t => wanted'[v][q] = wanted[v][q]
             /\ v # u /\ wanted'[v][t] = "on" => FALSE
             /\ v # u /\ wanted'[v][t] = "off" => wanted[v][t] = "off"
             /\ wanted'[u][t] # "off"
             /\ wanted'[u][t] = "on" => \A p \in PushUsers : ~Clearing(p, t)
    BY DEF RegisterDevice, DeviceInv, DeviceTypeOK
  <1>4. j \in DeviceJob /\ j.at = "legacy" /\ j.user = u /\ j.phone = t
    BY <1>1 DEF DeviceJob
  <1>5. DeviceTypeOK'
    BY <1>2, <1>3, <1>4 DEF DeviceInv, DeviceTypeOK
  <1>6. ASSUME NEW v \in PushUsers, NEW q \in Phones PROVE Heard(v, q)' /\ Hushed(v, q)'
    <2>1. Heard(v, q) /\ Hushed(v, q) /\ None # q
      BY DeviceConstants DEF DeviceInv
    <2>2. \A p \in PushUsers : Clearing(p, q)' => Clearing(p, q)
      BY <1>2, <1>4, DeviceFlags
    <2>3. /\ Registering(v, q)' => Registering(v, q) \/ (u = v /\ t = q)
          /\ \A at \in Stores : Leaving(v, q, at) => Leaving(v, q, at)'
      <3>1. Registering(v, q)' => Registering(v, q) \/ (u = v /\ t = q)
        BY <1>2, <1>4, DeviceFlags DEF Registering
      <3>2. \A at \in Stores : Leaving(v, q, at) => Leaving(v, q, at)'
        BY <1>0, <1>2, DeviceFlags
      <3> QED
        BY <3>1, <3>2
    <2>4. devices'[q] = IF q = t THEN u ELSE devices[q]
      BY <1>2 DEF DeviceInv, DeviceTypeOK
    <2> QED
      BY <1>2, <1>3, <2>1, <2>2, <2>3, <2>4 DEF Heard, Hushed, Stores
  <1>7. \A v \in Workers : DeadAreGone(job[v])'
    BY <1>2, <1>4 DEF DeviceInv, DeviceTypeOK, DeadAreGone
  <1> QED
    BY <1>5, <1>6, <1>7 DEF DeviceInv

\* The column follows.
LEMMA DeviceLegacy ==
  ASSUME DeviceInv, NEW w \in Workers, WriteLegacy(w)
  PROVE  DeviceInv'
  <1>0. Idle.at = "idle"
    BY DEF Idle
  <1>1. PICK u, t : u = job[w].user /\ t = job[w].phone
    OBVIOUS
  <1>2. u \in PushUsers /\ t \in Phones
    BY <1>1, DeviceFields DEF WriteLegacy, DeviceInv, DeviceTypeOK
  <1>3. /\ job' = [job EXCEPT ![w] = Idle] /\ job[w].at = "legacy"
        /\ fcmToken' = [fcmToken EXCEPT ![u] = t]
        /\ UNCHANGED <<devices, installed, wanted>>
    BY <1>1 DEF WriteLegacy, Finish
  <1>4. DeviceTypeOK'
    BY <1>2, <1>3 DEF DeviceInv, DeviceTypeOK, DeviceJob
  <1>5. Registering(u, t)
    BY <1>1, <1>3 DEF Registering
  <1>6. ASSUME NEW v \in PushUsers, NEW q \in Phones PROVE Heard(v, q)' /\ Hushed(v, q)'
    <2>1. Heard(v, q) /\ Hushed(v, q)
      BY DEF DeviceInv
    <2>2. \A p \in PushUsers : Clearing(p, q)' => Clearing(p, q)
      BY <1>3, DeviceFlags, <1>0
    <2>3. /\ Registering(v, q)' => Registering(v, q)
          /\ \A at \in Stores : Leaving(v, q, at) => Leaving(v, q, at)'
      BY <1>3, DeviceFlags, <1>0
    <2>4. fcmToken'[v] = IF v = u THEN t ELSE fcmToken[v]
      BY <1>2, <1>3 DEF DeviceInv, DeviceTypeOK
    <2> QED
      BY <1>3, <1>5, <2>1, <2>2, <2>3, <2>4 DEF Heard, Hushed, Stores
  <1>7. \A v \in Workers : DeadAreGone(job[v])'
    BY <1>3 DEF DeviceInv, DeviceTypeOK, DeadAreGone, Idle
  <1> QED
    BY <1>4, <1>6, <1>7 DEF DeviceInv

\* A user logs out of a phone: both stores are to be cleared.
LEMMA DeviceUnregister ==
  ASSUME DeviceInv, NEW w \in Workers, NEW u \in PushUsers, NEW t \in Phones,
         UnregisterDevice(w, u, t)
  PROVE  DeviceInv'
  <1>0. Idle.at = "idle"
    BY DEF Idle
  <1>1. PICK j : j = [at |-> "clear", user |-> u, phone |-> t, left |-> Stores]
    OBVIOUS
  <1>2. /\ job' = [job EXCEPT ![w] = j] /\ job[w] = Idle
        /\ UNCHANGED <<devices, fcmToken, installed>>
    BY <1>1 DEF UnregisterDevice, Begin
  <1>3. /\ wanted' \in [PushUsers -> [Phones -> {"on", "off", "open"}]]
        /\ \A v \in PushUsers, q \in Phones :
             /\ q # t => wanted'[v][q] = wanted[v][q]
             /\ wanted'[v][t] # "on"
             /\ v # u /\ wanted'[v][t] = "off" => wanted[v][t] = "off"
             /\ wanted'[u][t] = "off" => ~Registering(u, t)
    BY DEF UnregisterDevice, DeviceInv, DeviceTypeOK
  <1>4. /\ j \in DeviceJob /\ j.at = "clear" /\ j.user = u /\ j.phone = t
        /\ "row" \in j.left /\ "column" \in j.left
    BY <1>1 DEF DeviceJob, Stores
  <1>5. DeviceTypeOK'
    BY <1>2, <1>3, <1>4 DEF DeviceInv, DeviceTypeOK
  <1>6. ASSUME NEW v \in PushUsers, NEW q \in Phones PROVE Heard(v, q)' /\ Hushed(v, q)'
    <2>1. Heard(v, q) /\ Hushed(v, q)
      BY DEF DeviceInv
    <2>2. \A p \in PushUsers : Clearing(p, q)' => Clearing(p, q) \/ q = t
      BY <1>2, <1>4, DeviceFlags
    <2>3. Registering(v, q)' => Registering(v, q)
      BY <1>2, <1>4, DeviceFlags
    <2>4. \A at \in Stores : Leaving(v, q, at) => Leaving(v, q, at)'
      BY <1>0, <1>2, DeviceFlags
    <2>5. v = u /\ q = t => Leaving(v, q, "row")' /\ Leaving(v, q, "column")'
      BY <1>2, <1>4, DeviceFlags DEF Stores
    <2> QED
      BY <1>2, <1>3, <2>1, <2>2, <2>3, <2>4, <2>5 DEF Heard, Hushed, Stores
  <1>7. \A v \in Workers : DeadAreGone(job[v])'
    BY <1>2, <1>4 DEF DeviceInv, DeviceTypeOK, DeadAreGone
  <1> QED
    BY <1>5, <1>6, <1>7 DEF DeviceInv

\* One of them is.
LEMMA DeviceClear ==
  ASSUME DeviceInv, NEW w \in Workers, NEW at \in Stores, Clear(w, at)
  PROVE  DeviceInv'
  <1>1. PICK i : i = job[w]
    OBVIOUS
  <1>2. PICK u, t : u = i.user /\ t = i.phone
    OBVIOUS
  <1>3. /\ i \in [at : {"clear"}, user : PushUsers, phone : Phones, left : SUBSET Stores]
        /\ i.at = "clear"
    BY <1>1, DeviceFields DEF Clear, DeviceInv, DeviceTypeOK
  <1>4. /\ u \in PushUsers /\ t \in Phones
        /\ IF at = "row" THEN devices' = [devices EXCEPT ![t] = None] /\ UNCHANGED fcmToken
           ELSE /\ fcmToken' = [fcmToken EXCEPT ![u] = IF @ = t THEN None ELSE @]
                /\ UNCHANGED devices
        /\ UNCHANGED <<installed, wanted>>
    BY <1>1, <1>2, <1>3 DEF Clear
  <1>5. PICK j : /\ job' = [job EXCEPT ![w] = j]
                 /\ \/ j = [i EXCEPT !.left = i.left \ {at}]
                    \/ j = Idle /\ i.left = {at}
    BY <1>1 DEF Clear, GoTo, Finish
  <1>6. /\ j \in DeviceJob /\ j.at \in {"clear", "idle"}
        /\ j.at = "clear" => j.user = u /\ j.phone = t /\ j.left = i.left \ {at}
        /\ j.at = "idle" => i.left = {at}
    <2>1. CASE j = [i EXCEPT !.left = i.left \ {at}]
      <3>1. /\ j \in [at : {"clear"}, user : PushUsers, phone : Phones, left : SUBSET Stores]
            /\ j.user = u /\ j.phone = t /\ j.left = i.left \ {at}
        BY <1>2, <1>3, <2>1
      <3> QED
        BY <3>1 DEF DeviceJob
    <2>2. CASE j = Idle /\ i.left = {at}
      BY <2>2 DEF DeviceJob, Idle
    <2> QED
      BY <1>5, <2>1, <2>2
  <1>7. Clearing(u, t)
    BY <1>1, <1>2, <1>3 DEF Clearing
  <1>8. DeviceTypeOK'
    <2>1. /\ devices' \in [Phones -> PushUsers \cup {None}]
          /\ fcmToken' \in [PushUsers -> Phones \cup {None}]
      BY <1>4 DEF DeviceInv, DeviceTypeOK
    <2> QED
      BY <1>4, <1>5, <1>6, <2>1 DEF DeviceInv, DeviceTypeOK
  <1>9. ASSUME NEW v \in PushUsers, NEW q \in Phones PROVE Heard(v, q)' /\ Hushed(v, q)'
    <2>1. Heard(v, q) /\ Hushed(v, q) /\ None # v /\ None # q
      BY DeviceConstants DEF DeviceInv
    <2>2. ASSUME NEW p \in PushUsers PROVE Clearing(p, q)' => Clearing(p, q)
      <3>1. Clearing(p, q)' => Clearing(p, q) \/ (j.at = "clear" /\ j.user = p /\ j.phone = q)
        BY <1>5, DeviceFlags DEF Clearing
      <3> QED
        BY <1>6, <1>7, <3>1
    <2>3. Registering(v, q)' => Registering(v, q)
      BY <1>5, <1>6, DeviceFlags
    <2>4. ASSUME NEW s \in Stores
          PROVE  Leaving(v, q, s) => Leaving(v, q, s)' \/ (v = u /\ q = t /\ s = at)
      <3>1. /\ Leaving(v, q, s) =>
                 \/ Leaving(v, q, s)'
                 \/ i.at = "clear" /\ i.user = v /\ i.phone = q /\ s \in i.left
            /\ j.at = "clear" /\ j.user = v /\ j.phone = q /\ s \in j.left
               => Leaving(v, q, s)'
        BY <1>1, <1>5, DeviceFlags
      <3> QED
        BY <1>2, <1>6, <3>1
    <2>5. /\ devices'[q] = IF at = "row" /\ q = t THEN None ELSE devices[q]
          /\ fcmToken'[v] = IF at # "row" /\ v = u /\ fcmToken[v] = t THEN None ELSE fcmToken[v]
      BY <1>4 DEF DeviceInv, DeviceTypeOK
    <2>6. q = t => wanted[v][q] # "on"
      BY <1>4, <1>7, <2>1 DEF Heard
    <2>7. Heard(v, q)'
      BY <1>4, <2>1, <2>2, <2>5, <2>6 DEF Heard
    <2>8. Hushed(v, q)'
      BY <1>4, <2>1, <2>3, <2>4, <2>5 DEF Hushed, Stores
    <2> QED
      BY <2>7, <2>8
  <1>10. \A v \in Workers : DeadAreGone(job[v])'
    BY <1>4, <1>5, <1>6 DEF DeviceInv, DeviceTypeOK, DeadAreGone
  <1> QED
    BY <1>8, <1>9, <1>10 DEF DeviceInv

\* The devices of a deleted user are forgotten.
LEMMA DeviceForget ==
  ASSUME DeviceInv, NEW u \in PushUsers, ForgetDevices(u)
  PROVE  DeviceInv'
  <1>1. /\ wanted' \in [PushUsers -> [Phones -> {"on", "off", "open"}]]
        /\ \A v \in PushUsers, q \in Phones :
             /\ v # u => wanted'[v][q] = wanted[v][q]
             /\ wanted'[u][q] # "on"
             /\ wanted'[u][q] = "off" => ~Registering(u, q)
    BY DEF ForgetDevices, DeviceInv, DeviceTypeOK
  <1>2. /\ \A q \in Phones : devices'[q] = IF devices[q] = u THEN None ELSE devices[q]
        /\ \A v \in PushUsers : fcmToken'[v] = IF v = u THEN None ELSE fcmToken[v]
        /\ devices' \in [Phones -> PushUsers \cup {None}]
        /\ fcmToken' \in [PushUsers -> Phones \cup {None}]
        /\ UNCHANGED <<installed, job>>
    BY DEF ForgetDevices, DeviceInv, DeviceTypeOK
  <1>3. DeviceTypeOK'
    BY <1>1, <1>2 DEF DeviceInv, DeviceTypeOK
  <1>4. ASSUME NEW v \in PushUsers, NEW q \in Phones PROVE Heard(v, q)' /\ Hushed(v, q)'
    <2>1. Heard(v, q) /\ Hushed(v, q) /\ None # v /\ None # q
      BY DeviceConstants DEF DeviceInv
    <2> QED
      BY <1>1, <1>2, <2>1 DEF Heard, Hushed, Registering, Clearing, Leaving
  <1>5. \A w \in Workers : DeadAreGone(job[w])'
    BY <1>2 DEF DeviceInv, DeadAreGone
  <1> QED
    BY <1>3, <1>4, <1>5 DEF DeviceInv

\* The app is removed from a phone.
LEMMA DeviceUninstall ==
  ASSUME DeviceInv, NEW t \in Phones, Uninstall(t)
  PROVE  DeviceInv'
  <1>1. /\ wanted' \in [PushUsers -> [Phones -> {"on", "off", "open"}]]
        /\ \A v \in PushUsers, q \in Phones :
             /\ q # t => wanted'[v][q] = wanted[v][q]
             /\ wanted'[v][t] # "on"
             /\ wanted'[v][t] = "off" => wanted[v][t] = "off"
    BY DEF Uninstall, DeviceInv, DeviceTypeOK
  <1>2. installed' = installed \ {t} /\ UNCHANGED <<devices, fcmToken, job>>
    BY DEF Uninstall
  <1>3. DeviceTypeOK'
    BY <1>1, <1>2 DEF DeviceInv, DeviceTypeOK
  <1>4. ASSUME NEW v \in PushUsers, NEW q \in Phones PROVE Heard(v, q)' /\ Hushed(v, q)'
    <2>1. Heard(v, q) /\ Hushed(v, q)
      BY DEF DeviceInv
    <2> QED
      BY <1>1, <1>2, <2>1 DEF Heard, Hushed, Registering, Clearing, Leaving
  <1>5. \A w \in Workers : DeadAreGone(job[w])'
    BY <1>2 DEF DeviceInv, DeadAreGone
  <1> QED
    BY <1>3, <1>4, <1>5 DEF DeviceInv

\* No step of the component breaks the invariant.
LEMMA DeviceKept ==
  ASSUME DeviceInv, [DeviceNext]_deviceVars
  PROVE  DeviceInv'
  <1>1. CASE UNCHANGED deviceVars
    BY <1>1 DEF deviceVars, DeviceInv, DeviceTypeOK, Heard, Hushed, DeadAreGone,
       Registering, Clearing, Leaving
  <1>2. ASSUME NEW w \in Workers, DeviceArrive(w) PROVE DeviceInv'
    BY <1>2, DeviceRegister, DeviceUnregister, DevicePush DEF DeviceArrive
  <1>3. ASSUME NEW w \in Workers, DeviceStep(w) PROVE DeviceInv'
    BY <1>3, DeviceLegacy, DeviceClear, DeviceRead, DeviceSend, DevicePrune DEF DeviceStep
  <1> QED
    BY <1>1, <1>2, <1>3, DeviceForget, DeviceUninstall DEF DeviceNext

\* No phone is registered at first.
LEMMA DeviceStarted ==
  ASSUME DeviceInit
  PROVE  DeviceInv
  <1>1. \A w \in Workers : job[w].at = "idle"
    BY DEF DeviceInit, NoJobs, Idle
  <1>2. DeviceTypeOK
    BY DEF DeviceInit, DeviceTypeOK, DeviceJob, NoJobs
  <1>3. \A u \in PushUsers, t \in Phones : Heard(u, t) /\ Hushed(u, t)
    BY <1>1, DeviceConstants DEF DeviceInit, Heard, Hushed, Registering
  <1> QED
    BY <1>1, <1>2, <1>3 DEF DeviceInv, DeadAreGone

\* The invariant gives what users asked for.
LEMMA DevicePromises ==
  ASSUME DeviceInv
  PROVE  PhonesAsAsked
  <1> SUFFICES ASSUME NEW u \in PushUsers, NEW t \in Phones
               PROVE  /\ wanted[u][t] = "on" => t \in getTokensForUser(u)
                      /\ wanted[u][t] = "off" /\ ~Clearing(u, t) => t \notin getTokensForUser(u)
    BY DEF PhonesAsAsked
  <1>1. Heard(u, t) /\ Hushed(u, t)
    BY DEF DeviceInv
  <1>2. ~Clearing(u, t) => \A at : ~Leaving(u, t, at)
    BY DEF Clearing, Leaving
  <1> QED
    BY <1>1, <1>2 DEF Heard, Hushed, getTokensForUser

\* A phone gets a user's pushes once registered and until logged out of,
\* whatever logins, logouts, pushes and prunings of dead tokens interleave.
THEOREM PushesGoAsAsked == DeviceSpec => [](DeviceTypeOK /\ PhonesAsAsked)
  <1>1. DeviceInv => DeviceTypeOK /\ PhonesAsAsked
    BY DevicePromises DEF DeviceInv
  <1> QED
    BY <1>1, DeviceStarted, DeviceKept, PTL DEF DeviceSpec

---------------------------------------------------------------------------
(* FanOut *)

\* Whom the request at j may still tell has not been told, nor is it anybody
\* who was apart all along once the blocks are read.
Heeds(j) ==
  /\ j.at = "partners" => \A u \in Others : notified[u] = 0
  /\ j.at \in {"each", "stop"} =>
       /\ j.asking \cap j.telling = {} /\ j.telling \cap shunned = {}
       /\ j.asking \cup j.telling \subseteq j.told
       /\ \A u \in Others : u \in j.asking \cup j.telling \/ u \notin j.told
                            => notified[u] = 0
  /\ j.at \in {"blocks", "createMany"} => \A u \in j.users : notified[u] = 0
  /\ j.at = "createMany" => j.users \cap shunned = {}

\* The inductive invariant of who is told: a single post is told about.
FanOutInv ==
  /\ FanOutTypeOK
  /\ shunned \subseteq apart
  /\ \A u \in Others : notified[u] \in IF u \in shunned THEN {0} ELSE {0, 1}
  /\ \A v \in Workers, w \in Workers : v = w \/ job[v] = Idle \/ job[w] = Idle
  /\ \A w \in Workers : Heeds(job[w])

\* What a request of each stage holds.
LEMMA FanOutFields ==
  ASSUME NEW j \in FanOutJob
  PROVE  /\ j.at \in {"each", "stop"} =>
              /\ j \in [at : {"each", "stop"}, told : SUBSET Others,
                        asking : SUBSET Others, telling : SUBSET Others]
              /\ j.told \subseteq Others /\ j.asking \subseteq Others
              /\ j.telling \subseteq Others
         /\ j.at \in {"blocks", "createMany"} =>
              j = [at |-> j.at, users |-> j.users] /\ j.users \subseteq Others
         /\ j # Idle <=> j.at # "idle"
  BY DEF FanOutJob, Idle

\* A step of one request keeps the invariant when the request it becomes
\* heeds who has been told.
LEMMA FanOutMove ==
  ASSUME FanOutInv, NEW w \in Workers, NEW j, job' = [job EXCEPT ![w] = j],
         job[w] # Idle, UNCHANGED <<partners, audience, apart, shunned>>,
         \/ j = Idle
         \/ j \in [at : {"each", "stop"}, told : SUBSET Others, asking : SUBSET Others,
                   telling : SUBSET Others]
         \/ j \in [at : {"blocks", "createMany"}, users : SUBSET Others],
         Heeds(j)',
         notified' \in [Others -> {0, 1}],
         \A u \in shunned : notified'[u] = 0
  PROVE  FanOutInv'
  <1>1. j \in FanOutJob
    BY DEF FanOutJob
  <1>2. FanOutTypeOK'
    BY <1>1 DEF FanOutInv, FanOutTypeOK
  <1>3. shunned' \subseteq apart'
    BY DEF FanOutInv
  <1>4. \A u \in Others : notified'[u] \in IF u \in shunned' THEN {0} ELSE {0, 1}
    OBVIOUS
  <1>5. \A v \in Workers \ {w} : job[v] = Idle /\ job'[v] = Idle
    BY DEF FanOutInv, FanOutTypeOK
  <1>6. job'[w] = j
    BY DEF FanOutInv, FanOutTypeOK
  <1>7. ASSUME NEW v \in Workers PROVE Heeds(job[v])'
    <2> DEFINE i == job'[v]
    <2>1. CASE v = w
      BY <1>6, <2>1
    <2>2. CASE v # w
      <3>1. i = Idle
        BY <1>5, <2>2
      <3> QED
        BY <3>1 DEF Heeds, Idle
    <2> QED
      BY <2>1, <2>2
  <1> QED
    BY <1>2, <1>3, <1>4, <1>5, <1>6, <1>7 DEF FanOutInv

\* A post is created, and nobody has been told.
LEMMA FanOutBegin ==
  ASSUME FanOutInv, NEW w \in Workers, PostCreated(w)
  PROVE  FanOutInv'
  <1>1. PICK j : j = [at |-> "partners"]
    OBVIOUS
  <1>2. /\ job' = [job EXCEPT ![w] = j] /\ \A v \in Workers : job[v] = Idle
        /\ \A u \in Others : notified[u] = 0
        /\ shunned' = apart /\ UNCHANGED <<partners, audience, apart, notified>>
    BY <1>1 DEF PostCreated, Begin
  <1>3. j \in FanOutJob
    BY <1>1 DEF FanOutJob
  <1>4. FanOutTypeOK'
    BY <1>2, <1>3 DEF FanOutInv, FanOutTypeOK
  <1>5. ASSUME NEW v \in Workers PROVE Heeds(job[v])'
    <2>1. PICK i : i = job'[v]
      OBVIOUS
    <2>2. i = j \/ i = Idle
      BY <1>2, <2>1 DEF FanOutInv, FanOutTypeOK
    <2>3. Heeds(i)'
      BY <1>1, <1>2, <2>2 DEF Heeds, Idle
    <2> QED
      BY <2>1, <2>3
  <1>6. \A v \in Workers \ {w} : job'[v] = Idle
    BY <1>2 DEF FanOutInv, FanOutTypeOK
  <1>7. \A u \in Others : notified'[u] = 0
    BY <1>2
  <1> QED
    BY <1>2, <1>4, <1>5, <1>6, <1>7 DEF FanOutInv

\* Its collaboration partners are read.
LEMMA FanOutPartners ==
  ASSUME FanOutInv, NEW w \in Workers, ReadPartners(w)
  PROVE  FanOutInv'
  <1>1. PICK j : j = [at |-> "each", told |-> partners, asking |-> partners, telling |-> {}]
    OBVIOUS
  <1>2. /\ job' = [job EXCEPT ![w] = j] /\ job[w].at = "partners"
        /\ UNCHANGED <<partners, audience, apart, shunned, notified>>
    BY <1>1 DEF ReadPartners, GoTo
  <1>3. \A u \in Others : notified[u] = 0
    BY <1>2 DEF FanOutInv, Heeds
  <1>4. job[w] # Idle
    BY <1>2 DEF Idle
  <1>5. partners \subseteq Others
    BY DEF FanOutInv, FanOutTypeOK
  <1>6. notified' \in [Others -> {0, 1}] /\ \A u \in shunned : notified'[u] = 0
    BY <1>2, <1>3 DEF FanOutInv, FanOutTypeOK
  <1>7. Heeds(j)'
    BY <1>1, <1>2, <1>3 DEF Heeds
  <1> QED
    BY <1>1, <1>2, <1>4, <1>5, <1>6, <1>7, FanOutMove

\* What the invariant says of who has been told.
LEMMA FanOutTells ==
  ASSUME FanOutInv
  PROVE  /\ notified \in [Others -> {0, 1}]
         /\ shunned \subseteq Others
         /\ \A u \in shunned : notified[u] = 0
  BY DEF FanOutInv, FanOutTypeOK

\* A partner is asked about, or the question fails.
LEMMA FanOutAsk ==
  ASSUME FanOutInv, NEW w \in Workers, NEW u \in Others, AskBlock(w, u) \/ BlockUnknown(w, u)
  PROVE  FanOutInv'
  <1>1. job[w] \in FanOutJob /\ Heeds(job[w]) /\ shunned \subseteq apart
    BY DEF FanOutInv, FanOutTypeOK
  <1>2. PICK i : i = job[w]
    OBVIOUS
  <1>3. /\ i.at \in {"each", "stop"} /\ u \in i.asking
        /\ UNCHANGED <<partners, audience, apart, shunned, notified>>
    BY <1>2 DEF AskBlock, BlockUnknown
  <1>4. i \in [at : {"each", "stop"}, told : SUBSET Others, asking : SUBSET Others,
              telling : SUBSET Others]
    BY <1>1, <1>2, <1>3, FanOutFields
  <1>5. PICK at \in {"each", "stop"}, T \in {i.telling, i.telling \cup {u}} :
          /\ GoTo(w, [i EXCEPT !.at = at, !.asking = i.asking \ {u}, !.telling = T])
          /\ u \in T => u \in i.telling \/ u \notin apart
    <2>1. CASE AskBlock(w, u)
      <3>1. PICK T \in {i.telling, i.telling \cup {u}} :
              /\ u \in T => u \in i.telling \/ u \notin apart
              /\ GoTo(w, [i EXCEPT !.asking = i.asking \ {u}, !.telling = T])
        BY <1>2, <2>1 DEF AskBlock
      <3>2. [i EXCEPT !.asking = i.asking \ {u}, !.telling = T]
            = [i EXCEPT !.at = i.at, !.asking = i.asking \ {u}, !.telling = T]
        BY <1>4
      <3> QED
        BY <1>3, <3>1, <3>2
    <2>2. CASE BlockUnknown(w, u)
      <3>1. GoTo(w, [i EXCEPT !.at = "stop", !.asking = i.asking \ {u}])
        BY <1>2, <2>2 DEF BlockUnknown
      <3>2. [i EXCEPT !.at = "stop", !.asking = i.asking \ {u}]
            = [i EXCEPT !.at = "stop", !.asking = i.asking \ {u}, !.telling = i.telling]
        BY <1>4
      <3> QED
        BY <3>1, <3>2
    <2> QED
      BY <2>1, <2>2
  <1>6. PICK j : j = [i EXCEPT !.at = at, !.asking = i.asking \ {u}, !.telling = T]
    OBVIOUS
  <1>7. job' = [job EXCEPT ![w] = j]
    BY <1>5, <1>6 DEF GoTo
  <1>8. j.at = at /\ j.told = i.told /\ j.asking = i.asking \ {u} /\ j.telling = T
    BY <1>4, <1>6
  <1>9. j \in [at : {"each", "stop"}, told : SUBSET Others, asking : SUBSET Others,
              telling : SUBSET Others]
    BY <1>4, <1>6
  <1>10. Heeds(j)'
    BY <1>1, <1>2, <1>3, <1>4, <1>5, <1>8 DEF Heeds
  <1>11. job[w] # Idle
    BY <1>2, <1>3 DEF Idle
  <1> QED
    BY <1>3, <1>7, <1>9, <1>10, <1>11, FanOutMove, FanOutTells

\* Telling people who had not been told, and were not shunned.
LEMMA FanOutNotify ==
  ASSUME FanOutInv, NEW us \in SUBSET Others, \A u \in us : notified[u] = 0 /\ u \notin shunned,
         Notify(us) \/ UNCHANGED notified
  PROVE  /\ notified' \in [Others -> {0, 1}]
         /\ \A u \in shunned : notified'[u] = 0
         /\ \A u \in Others \ us : notified'[u] = notified[u]
  BY FanOutTells DEF Notify

\* A partner is told.
LEMMA FanOutTell ==
  ASSUME FanOutInv, NEW w \in Workers, NEW u \in Others, NotifyPartner(w, u)
  PROVE  FanOutInv'
  <1>1. job[w] \in FanOutJob /\ Heeds(job[w])
    BY DEF FanOutInv, FanOutTypeOK
  <1>2. PICK i : i = job[w]
    OBVIOUS
  <1>3. /\ i.at \in {"each", "stop"} /\ u \in i.telling
        /\ Notify({u}) \/ UNCHANGED notified
        /\ UNCHANGED <<partners, audience, apart, shunned>>
    BY <1>2 DEF NotifyPartner
  <1>4. i \in [at : {"each", "stop"}, told : SUBSET Others, asking : SUBSET Others,
              telling : SUBSET Others]
    BY <1>1, <1>2, <1>3, FanOutFields
  <1>5. PICK at \in {i.at, "stop"} :
          GoTo(w, [i EXCEPT !.at = at, !.telling = i.telling \ {u}])
    BY <1>2 DEF NotifyPartner
  <1>6. PICK j : j = [i EXCEPT !.at = at, !.telling = i.telling \ {u}]
    OBVIOUS
  <1>7. job' = [job EXCEPT ![w] = j]
    BY <1>5, <1>6 DEF GoTo
  <1>8. j.at = at /\ j.told = i.told /\ j.asking = i.asking /\ j.telling = i.telling \ {u}
    BY <1>4, <1>6
  <1>9. j \in [at : {"each", "stop"}, told : SUBSET Others, asking : SUBSET Others,
              telling : SUBSET Others]
    BY <1>3, <1>4, <1>6
  <1>10. notified[u] = 0 /\ u \notin shunned
    BY <1>1, <1>2, <1>3 DEF Heeds
  <1>11. /\ notified' \in [Others -> {0, 1}]
         /\ \A v \in shunned : notified'[v] = 0
         /\ \A v \in Others \ {u} : notified'[v] = notified[v]
    BY <1>3, <1>10, FanOutNotify
  <1>12. Heeds(j)'
    BY <1>1, <1>2, <1>3, <1>4, <1>5, <1>8, <1>11 DEF Heeds
  <1>13. job[w] # Idle
    BY <1>2, <1>3 DEF Idle
  <1> QED
    BY <1>3, <1>7, <1>9, <1>11, <1>12, <1>13, FanOutMove

\* The rest of the audience is read, without the partners.
LEMMA FanOutAudience ==
  ASSUME FanOutInv, NEW w \in Workers, ReadAudience(w)
  PROVE  FanOutInv'
  <1>1. job[w] \in FanOutJob /\ Heeds(job[w]) /\ audience \subseteq Others
    BY DEF FanOutInv, FanOutTypeOK
  <1>2. PICK us : us = audience \ job[w].told
    OBVIOUS
  <1>3. PICK j \in {Idle, [at |-> "blocks", users |-> us]} : job' = [job EXCEPT ![w] = j]
    BY <1>2 DEF ReadAudience, GoTo, Finish
  <1>4. /\ job[w].at \in {"each", "stop"}
        /\ UNCHANGED <<partners, audience, apart, shunned, notified>>
    BY DEF ReadAudience
  <1>5. \A u \in us : notified[u] = 0
    BY <1>1, <1>2, <1>4 DEF Heeds
  <1>6. Heeds(j)'
    BY <1>3, <1>4, <1>5 DEF Heeds, Idle
  <1>7. job[w] # Idle /\ us \subseteq Others
    BY <1>1, <1>2, <1>4 DEF Idle
  <1> QED
    BY <1>3, <1>4, <1>6, <1>7, FanOutMove, FanOutTells

\* Whom a block keeps apart is taken out of it.
LEMMA FanOutBlocks ==
  ASSUME FanOutInv, NEW w \in Workers, ReadBlockedIds(w)
  PROVE  FanOutInv'
  <1>1. job[w] \in FanOutJob /\ Heeds(job[w]) /\ shunned \subseteq apart
    BY DEF FanOutInv, FanOutTypeOK
  <1>2. PICK us : us = job[w].users \ apart
    OBVIOUS
  <1>3. PICK j : j = [at |-> "createMany", users |-> us]
    OBVIOUS
  <1>4. /\ job' = [job EXCEPT ![w] = j] /\ job[w].at = "blocks"
        /\ UNCHANGED <<partners, audience, apart, shunned, notified>>
    BY <1>2, <1>3 DEF ReadBlockedIds, GoTo
  <1>5. us \subseteq Others
    BY <1>1, <1>2, <1>4, FanOutFields
  <1>6. Heeds(j)'
    BY <1>1, <1>2, <1>3, <1>4 DEF Heeds
  <1>7. job[w] # Idle
    BY <1>4 DEF Idle
  <1> QED
    BY <1>3, <1>4, <1>5, <1>6, <1>7, FanOutMove, FanOutTells

\* The audience is told.
LEMMA FanOutTellAll ==
  ASSUME FanOutInv, NEW w \in Workers, NotifyAudience(w)
  PROVE  FanOutInv'
  <1>1. job[w] \in FanOutJob /\ Heeds(job[w])
    BY DEF FanOutInv, FanOutTypeOK
  <1>2. PICK us : us = job[w].users
    OBVIOUS
  <1>3. /\ job' = [job EXCEPT ![w] = Idle] /\ job[w].at = "createMany"
        /\ UNCHANGED <<partners, audience, apart, shunned>>
        /\ Notify(us) \/ UNCHANGED notified
    BY <1>2 DEF NotifyAudience, Finish
  <1>4. us \subseteq Others
    BY <1>1, <1>2, <1>3, FanOutFields
  <1>5. \A u \in us : notified[u] = 0 /\ u \notin shunned
    BY <1>1, <1>2, <1>3 DEF Heeds
  <1>6. Heeds(Idle)'
    BY DEF Heeds, Idle
  <1>7. job[w] # Idle
    BY <1>3 DEF Idle
  <1> QED
    BY <1>3, <1>4, <1>5, <1>6, <1>7, FanOutMove, FanOutNotify

\* Blocks come and go while the two rounds run.
LEMMA FanOutMeanwhile ==
  ASSUME FanOutInv, NEW u \in Others, Meanwhile(u)
  PROVE  FanOutInv'
  <1>1. /\ partners' \subseteq Others /\ audience' \subseteq Others /\ apart' \subseteq Others
        /\ shunned' \subseteq shunned /\ shunned' \subseteq apart'
        /\ UNCHANGED <<notified, job>>
    BY DEF Meanwhile, FanOutInv, FanOutTypeOK
  <1>2. FanOutTypeOK'
    BY <1>1 DEF FanOutInv, FanOutTypeOK
  <1>3. ASSUME NEW w \in Workers PROVE Heeds(job[w])'
    <2>1. Heeds(job[w])
      BY DEF FanOutInv
    <2> QED
      BY <1>1, <2>1 DEF Heeds
  <1>4. \A v \in Others : notified'[v] \in IF v \in shunned' THEN {0} ELSE {0, 1}
    BY <1>1 DEF FanOutInv
  <1> QED
    BY <1>1, <1>2, <1>3, <1>4 DEF FanOutInv

\* No step of the component breaks the invariant.
LEMMA FanOutKept ==
  ASSUME FanOutInv, [FanOutNext]_fanOutVars
  PROVE  FanOutInv'
  <1>1. CASE UNCHANGED fanOutVars
    BY <1>1 DEF fanOutVars, FanOutInv, FanOutTypeOK, Heeds
  <1>2. ASSUME NEW w \in Workers, PostCreated(w) \/ FanOutStep(w)
        PROVE  FanOutInv'
    BY <1>2, FanOutBegin, FanOutPartners, FanOutAsk, FanOutTell, FanOutAudience, FanOutBlocks,
       FanOutTellAll DEF FanOutStep
  <1> QED
    BY <1>1, <1>2, FanOutMeanwhile DEF FanOutNext

\* Nobody has been told at first.
LEMMA FanOutStarted ==
  ASSUME FanOutInit
  PROVE  FanOutInv
  BY DEF FanOutInit, FanOutInv, FanOutTypeOK, FanOutJob, Heeds, NoJobs, Idle

\* A new post tells nobody twice, and nobody who was apart from its author
\* all along: the two rounds of notifications read different tables.
THEOREM NobodyToldTwice == FanOutSpec => [](FanOutTypeOK /\ OncePerPerson)
  <1>1. FanOutInv => FanOutTypeOK /\ OncePerPerson
    BY DEF FanOutInv, OncePerPerson
  <1> QED
    BY <1>1, FanOutStarted, FanOutKept, PTL DEF FanOutSpec

---------------------------------------------------------------------------
(* MCCallbacks *)

\* The tables of a component that is not in focus are as they were at first.
Untouched ==
  /\ focus # "instagram" => igs = <<>>
  /\ focus # "social" => socials = [r \in SocialRows |-> None]
  /\ focus # "billing" => closed = {}
  /\ focus # "devices" => /\ devices = [t \in Phones |-> None]
                          /\ fcmToken = [u \in PushUsers |-> None]
                          /\ wanted = [u \in PushUsers |-> [t \in Phones |-> "off"]]
  /\ focus # "fanout" => shunned = {} /\ notified = [u \in Others |-> 0]

\* The component in focus keeps its invariant.
Focused ==
  \/ focus = "instagram" /\ IgInv
  \/ focus = "social" /\ SocialInv
  \/ focus = "billing" /\ BillingInv
  \/ focus = "devices" /\ DeviceInv
  \/ focus = "fanout" /\ FanOutInv

CallbackInv == Focused /\ Untouched

callbackVars == <<igVars, socials, billingVars, deviceVars, fanOutVars, focus>>

\* Behaviours begin in one of the components.
LEMMA CallbackStarted ==
  ASSUME Init
  PROVE  CallbackInv
  <1>1. Untouched
    BY DEF Init, Untouched, IgInit, SocialInit, BillingInit, DeviceInit
  <1>2. CASE focus = "instagram"
    BY <1>1, <1>2, IgStarted DEF Init, CallbackInv, Focused
  <1>3. CASE focus = "social"
    BY <1>1, <1>3, SocialStarted DEF Init, CallbackInv, Focused
  <1>4. CASE focus = "billing"
    BY <1>1, <1>4, BillingStarted DEF Init, CallbackInv, Focused
  <1>5. CASE focus = "devices"
    BY <1>1, <1>5, DeviceStarted DEF Init, CallbackInv, Focused
  <1>6. CASE focus = "fanout"
    BY <1>1, <1>6, FanOutStarted DEF Init, CallbackInv, Focused
  <1> QED
    BY <1>2, <1>3, <1>4, <1>5, <1>6 DEF Init

\* A step is one of the component in focus, and of no other table.
LEMMA CallbackStep ==
  ASSUME [Next]_callbackVars
  PROVE  /\ focus' = focus
         /\ focus = "instagram" => [IgNext]_igVars
         /\ focus = "social" => [SocialNext]_socialVars
         /\ focus = "billing" => [BillingNext]_billingVars
         /\ focus = "devices" => [DeviceNext]_deviceVars
         /\ focus = "fanout" => [FanOutNext]_fanOutVars
         /\ focus # "instagram" => igs' = igs
         /\ focus # "social" => socials' = socials
         /\ focus # "billing" => closed' = closed
         /\ focus # "devices" => UNCHANGED <<devices, fcmToken, wanted>>
         /\ focus # "fanout" => shunned' = shunned /\ notified' = notified
  <1>1. CASE UNCHANGED callbackVars
    BY <1>1 DEF callbackVars, igVars, socialVars, billingVars, deviceVars, fanOutVars
  <1>2. CASE Next
    BY <1>2 DEF Next, Rest
  <1> QED
    BY <1>1, <1>2

\* No step breaks the invariant of the component in focus.
LEMMA CallbackKept ==
  ASSUME CallbackInv, [Next]_callbackVars
  PROVE  CallbackInv'
  <1>1. Untouched'
    BY CallbackStep DEF CallbackInv, Untouched
  <1>2. Focused'
    <2>1. CASE focus = "instagram" /\ IgInv
      BY <2>1, CallbackStep, IgKept DEF Focused
    <2>2. CASE focus = "social" /\ SocialInv
      BY <2>2, CallbackStep, SocialKept DEF Focused
    <2>3. CASE focus = "billing" /\ BillingInv
      BY <2>3, CallbackStep, BillingKept DEF Focused
    <2>4. CASE focus = "devices" /\ DeviceInv
      BY <2>4, CallbackStep, DeviceKept DEF Focused
    <2>5. CASE focus = "fanout" /\ FanOutInv
      BY <2>5, CallbackStep, FanOutKept DEF Focused
    <2> QED
      BY <2>1, <2>2, <2>3, <2>4, <2>5 DEF CallbackInv, Focused
  <1> QED
    BY <1>1, <1>2 DEF CallbackInv

\* What the components in focus promise of a state.
LEMMA CallbackPromises ==
  ASSUME CallbackInv
  PROVE  TypeOK /\ PhonesAsAsked /\ OncePerPerson
  <1>1. TypeOK
    <2>1. IgInv => IgTypeOK
      BY IgRowsTyped DEF IgInv, IgTypeOK
    <2>2. BillingInv => BillingTypeOK
      BY DEF BillingInv, BillingTables, BillingTypeOK
    <2> QED
      BY <2>1, <2>2
         DEF CallbackInv, Focused, TypeOK, SocialInv, DeviceInv, FanOutInv
  <1>2. PhonesAsAsked
    <2>1. CASE focus = "devices"
      BY <2>1, DevicePromises DEF CallbackInv, Focused
    <2>2. CASE focus # "devices"
      <3>1. None \notin PushUsers /\ None \notin Phones
        BY DeviceConstants
      <3> QED
        BY <2>2, <3>1 DEF CallbackInv, Untouched, PhonesAsAsked, getTokensForUser
    <2> QED
      BY <2>1, <2>2
  <1>3. OncePerPerson
    <2>1. CASE focus = "fanout"
      BY <2>1 DEF CallbackInv, Focused, FanOutInv, OncePerPerson
    <2>2. CASE focus # "fanout"
      BY <2>2 DEF CallbackInv, Untouched, OncePerPerson
    <2> QED
      BY <2>1, <2>2
  <1> QED
    BY <1>1, <1>2, <1>3

\* Every row and request of a component in focus is of its type; pushes go to
\* the phones a user asked for; and a new post tells nobody twice, nor
\* anybody apart from its author all along.
THEOREM CallbacksAreSafe == Spec => [](TypeOK /\ PhonesAsAsked /\ OncePerPerson)
  BY CallbackStarted, CallbackKept, CallbackPromises, PTL DEF Spec, callbackVars

\* A handle one account has proven, and no request is at, stays with that
\* account alone while it is verified there at all.
THEOREM HandlesBelongToOne == Spec => ExclusiveHandles
  <1>1. CallbackInv /\ [Next]_callbackVars
        => [\A u \in IgUsers, h \in Handles :
              LET a == AccountOf[u]
              IN  Exclusive(a, h) /\ AccountIgs(a, h, "VERIFIED")' # {}
                  => Exclusive(a, h)']_igVars
    <2> SUFFICES ASSUME CallbackInv, [Next]_callbackVars, NEW u \in IgUsers, NEW h \in Handles,
                        Exclusive(AccountOf[u], h),
                        AccountIgs(AccountOf[u], h, "VERIFIED")' # {}
                 PROVE  Exclusive(AccountOf[u], h)'
      OBVIOUS
    <2>1. CASE focus = "instagram"
      BY <2>1, CallbackStep, ExclusiveKept DEF CallbackInv, Focused
    <2>2. CASE focus # "instagram"
      <3>1. DOMAIN igs' = {}
        BY <2>2, CallbackStep DEF CallbackInv, Untouched
      <3> QED
        BY <3>1 DEF AccountIgs
    <2> QED
      BY <2>1, <2>2
  <1> QED
    BY <1>1, CallbackStarted, CallbackKept, PTL DEF Spec, callbackVars, ExclusiveHandles

\* A user's first verified Instagram account, while no request is about to
\* verify an earlier one, stays the first and is not removed.
THEOREM FirstIsKept == Spec => FirstIsPermanent
  <1>1. CallbackInv /\ [Next]_callbackVars
        => [\A u \in IgUsers, r \in DOMAIN igs : Anchored(u, r) => Anchored(u, r)']_igVars
    <2> SUFFICES ASSUME CallbackInv, [Next]_callbackVars, NEW u \in IgUsers,
                        NEW r \in DOMAIN igs, Anchored(u, r)
                 PROVE  Anchored(u, r)'
      OBVIOUS
    <2>1. CASE focus = "instagram"
      BY <2>1, CallbackStep, AnchoredKept DEF CallbackInv, Focused
    <2>2. CASE focus # "instagram"
      BY <2>2 DEF CallbackInv, Untouched
    <2> QED
      BY <2>1, <2>2
  <1> QED
    BY <1>1, CallbackStarted, CallbackKept, PTL DEF Spec, callbackVars, FirstIsPermanent

\* A connected social account is changed by a request of its own holder only.
THEOREM SocialsAreOwned == Spec => OnlyOwnAccountUndoes
  <1>1. CallbackInv /\ [Next]_callbackVars
        => [\A r \in SocialRows :
              Exists(r) /\ socials[r].status = "VERIFIED" /\ socials'[r] # socials[r]
              => \E w \in Workers :
                   /\ job'[w] # job[w] /\ job[w] # Idle
                   /\ HolderOf[job[w].user] = HolderOf[socials[r].user]]_socialVars
    <2> SUFFICES ASSUME CallbackInv, [Next]_callbackVars, NEW r \in SocialRows,
                        Exists(r), socials[r].status = "VERIFIED", socials'[r] # socials[r]
                 PROVE  \E w \in Workers : /\ job'[w] # job[w] /\ job[w] # Idle
                                           /\ HolderOf[job[w].user] = HolderOf[socials[r].user]
      OBVIOUS
    <2>1. focus = "social"
      BY CallbackStep
    <2> QED
      BY <2>1, CallbackStep, SocialUndone DEF CallbackInv, Focused
  <1> QED
    BY <1>1, CallbackStarted, CallbackKept, PTL DEF Spec, callbackVars, OnlyOwnAccountUndoes

\* Once an account is closed, the subscriptions its deletion found billable
\* are cancelled at Razorpay.
THEOREM NothingChargesTheClosed == Spec => CancelledBeforeClosed
  <1>1. CallbackInv /\ [Next]_callbackVars
        => [\A w \in Workers :
              job[w].at = "cancel" /\ closed' # closed /\ job'[w] = Idle
              => \A u \in Subscribers :
                   Billable(job[w].rows[u]) => ~Charges(job[w].rows[u].razorpay)]_billingVars
    <2> SUFFICES ASSUME CallbackInv, [Next]_callbackVars, NEW w \in Workers,
                        job[w].at = "cancel", closed' # closed, job'[w] = Idle
                 PROVE  \A u \in Subscribers :
                          Billable(job[w].rows[u]) => ~Charges(job[w].rows[u].razorpay)
      OBVIOUS
    <2>1. focus = "billing"
      BY CallbackStep
    <2> QED
      BY <2>1, CallbackStep, ClosedAfterCancelling DEF CallbackInv, Focused
  <1> QED
    BY <1>1, CallbackStarted, CallbackKept, PTL DEF Spec, callbackVars, CancelledBeforeClosed

=============================================================================
