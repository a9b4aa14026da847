--------------------------- MODULE IdentityProofs ---------------------------
(***************************************************************************)
(* Codes by SMS and email, event tickets, admins and the addresses of      *)
(* profiles, for any number of requests and rows; and with the accounts of *)
(* AccountProofs, the properties of MCIdentity whatever it is instantiated *)
(* with.                                                                   *)
(***************************************************************************)
EXTENDS MCIdentity, AccountProofs, FiniteSetTheorems, WellFoundedInduction,
        SequenceTheorems

---------------------------------------------------------------------------
\* A set of rows has a newest one.
LEMMA MaxIsIn ==
  ASSUME NEW n \in Nat, NEW S \in SUBSET (1..n), S # {}
  PROVE  Max(S) \in S
  <1> DEFINE T == {k \in Nat : n - k \in S}
             R == {ss \in Nat \X Nat : ss[1] < ss[2]}
  <1>1. T # {}
    <2>1. PICK s \in S : TRUE
      OBVIOUS
    <2>2. s \in 1..n
      BY <2>1
    <2>3. n - s \in Nat /\ n - (n - s) = s
      BY <2>2
    <2> QED
      BY <2>1, <2>3
  <1>2. T \subseteq Nat
    OBVIOUS
  <1>3. IsWellFoundedOn(R, Nat)
    BY NatLessThanWellFounded DEF OpToRel
  <1>4. \A k \in T, i \in T : <<i, k>> \in R <=> i < k
    BY <1>2
  <1> HIDE DEF T, R
  <1>5. PICK k \in T : \A i \in T : ~(<<i, k>> \in R)
    BY <1>1, <1>2, <1>3, WFMin
  <1>6. n - k \in S /\ \A s \in S : n - k >= s
    <2>1. n - k \in S /\ k \in Nat
      BY DEF T
    <2>2. ASSUME NEW s \in S PROVE n - k >= s
      <3>1. s \in 1..n
        OBVIOUS
      <3>2. n - s \in Nat /\ n - (n - s) = s
        BY <3>1
      <3>3. n - s \in T
        BY <3>2, <2>2 DEF T
      <3>4. ~(n - s < k)
        BY <1>4, <1>5, <3>3
      <3> QED
        BY <2>1, <3>1, <3>4
    <2> QED
      BY <2>1, <2>2
  <1> QED
    BY <1>6 DEF Max

---------------------------------------------------------------------------
(* PhoneOtp *)

\* The requests that count a wrong guess at row i.
Missing(i) == {w \in Workers : job[w] = [at |-> "miss", otp |-> i]}

\* The requests about to write a new code.
Inserting == {w \in Workers : job[w].at = "insert"}

\* Rows and requests are of their types.
OtpTyped ==
  /\ otps \in Seq(OtpRow)
  /\ job \in [Workers -> OtpJob]

\* The inductive invariant of the codes by SMS.
OtpInv == OtpTyped /\ OtpGuessLimit /\ OtpsUsable

\* The rows of the table.
LEMMA OtpRowsTyped ==
  ASSUME otps \in Seq(OtpRow)
  PROVE  /\ Len(otps) \in Nat /\ DOMAIN otps = 1..Len(otps)
         /\ \A i \in DOMAIN otps : /\ otps[i] \in OtpRow
                                   /\ otps[i].attempts \in Nat
  <1>1. Len(otps) \in Nat /\ DOMAIN otps = 1..Len(otps)
    OBVIOUS
  <1>2. ASSUME NEW i \in 1..Len(otps) PROVE otps[i] \in OtpRow
    OBVIOUS
  <1>3. \A row \in OtpRow : row.attempts \in Nat
    BY DEF OtpRow
  <1> QED
    BY <1>1, <1>2, <1>3

\* The record a request is at, by the stage.
LEMMA OtpFields ==
  ASSUME NEW j \in OtpJob
  PROVE  /\ j.at \in {"miss", "burn", "use"}
            => /\ j.otp \in DOMAIN otps
               /\ j = [at |-> j.at, otp |-> j.otp]
         /\ j.at = "idle" <=> j = Idle
  BY DEF OtpJob, Idle

\* A step of worker w to j that keeps the rows there are.
LEMMA OtpMove ==
  ASSUME OtpTyped, otps' \in Seq(OtpRow), DOMAIN otps \subseteq DOMAIN otps',
         NEW w \in Workers, NEW j, job' = [job EXCEPT ![w] = j],
         \/ j = Idle
         \/ j.at \in {"invalidate", "insert"} /\ j = [at |-> j.at]
         \/ /\ j.at \in {"miss", "burn", "use"} /\ j.otp \in DOMAIN otps'
            /\ j = [at |-> j.at, otp |-> j.otp]
  PROVE  OtpTyped'
  <1>1. j \in OtpJob'
    BY DEF OtpJob
  <1>2. OtpJob \subseteq OtpJob'
    BY DEF OtpJob
  <1>3. job' \in [Workers -> OtpJob']
    BY <1>1, <1>2 DEF OtpTyped
  <1> QED
    BY <1>3 DEF OtpTyped

\* Sets of workers are counted.
LEMMA OtpCounts ==
  /\ IsFiniteSet(Workers) /\ Cardinality(Workers) \in Nat
  /\ \A S \in SUBSET Workers :
       /\ IsFiniteSet(S) /\ Cardinality(S) \in Nat
       /\ Cardinality(S) <= Cardinality(Workers)
       /\ \A T \in SUBSET S : Cardinality(T) <= Cardinality(S)
       /\ \A w \in Workers : w \notin S => Cardinality(S) < Cardinality(Workers)
       /\ \A w : Cardinality(S \ {w}) = IF w \in S THEN Cardinality(S) - 1 ELSE Cardinality(S)
  <1>1. IsFiniteSet(Workers)
    BY OtpConstants
  <1>2. ASSUME NEW S \in SUBSET Workers
        PROVE  /\ IsFiniteSet(S) /\ Cardinality(S) \in Nat
               /\ Cardinality(S) <= Cardinality(Workers)
               /\ \A w \in Workers : w \notin S => Cardinality(S) < Cardinality(Workers)
    BY <1>1, FS_Subset, FS_CardinalityType
  <1> QED
    BY <1>1, <1>2, FS_CardinalityType, FS_Subset, FS_RemoveElement

\* Usable codes are counted.
LEMMA UsableCounts ==
  ASSUME otps \in Seq(OtpRow)
  PROVE  IsFiniteSet(Usable) /\ Cardinality(Usable) \in Nat
  <1>1. IsFiniteSet(DOMAIN otps)
    BY OtpRowsTyped, FS_Interval
  <1>2. Usable \in SUBSET DOMAIN otps
    BY DEF Usable
  <1> QED
    BY <1>1, <1>2, FS_Subset, FS_CardinalityType

\* Counts of guesses that do not grow.
LEMMA GuessesSame ==
  ASSUME OtpInv, OtpTyped', DOMAIN otps' = DOMAIN otps,
         \A i \in DOMAIN otps : /\ otps'[i].attempts = otps[i].attempts
                                /\ Missing(i)' \subseteq Missing(i)
  PROVE  OtpGuessLimit'
  <1> SUFFICES ASSUME NEW i \in DOMAIN otps
               PROVE  otps[i].attempts + Cardinality(Missing(i)')
                        < OTP_MAX_ATTEMPTS + Cardinality(Workers)
    BY DEF OtpGuessLimit, Missing
  <1>1. otps[i].attempts + Cardinality(Missing(i)) < OTP_MAX_ATTEMPTS + Cardinality(Workers)
    BY DEF OtpInv, OtpGuessLimit, Missing
  <1>2. Missing(i) \subseteq Workers /\ Missing(i)' \subseteq Workers
    BY DEF Missing
  <1>3. /\ Cardinality(Missing(i)) \in Nat /\ Cardinality(Missing(i)') \in Nat
        /\ Cardinality(Missing(i)') <= Cardinality(Missing(i))
        /\ Cardinality(Workers) \in Nat
    BY <1>2, OtpCounts
  <1>4. otps[i].attempts \in Nat /\ OTP_MAX_ATTEMPTS \in Nat
    BY OtpRowsTyped, OtpConstants DEF OtpInv, OtpTyped
  <1> QED
    BY <1>1, <1>3, <1>4

\* Usable codes that do not grow.
LEMMA UsableSame ==
  ASSUME OtpInv, OtpTyped', Usable' \subseteq Usable, Inserting' \subseteq Inserting
  PROVE  OtpsUsable'
  <1>1. IsFiniteSet(Usable) /\ Cardinality(Usable) \in Nat
    BY UsableCounts DEF OtpInv, OtpTyped
  <1>2. Cardinality(Usable') \in Nat /\ Cardinality(Usable') <= Cardinality(Usable)
    BY <1>1, FS_Subset, FS_CardinalityType
  <1>3. /\ Cardinality(Inserting) \in Nat /\ Cardinality(Inserting') \in Nat
        /\ Cardinality(Inserting') <= Cardinality(Inserting)
    BY OtpCounts DEF Inserting
  <1>4. Cardinality(Usable) + Cardinality(Inserting) <= Cardinality(Workers)
    BY DEF OtpInv, OtpsUsable, Inserting
  <1>5. Cardinality(Usable') + Cardinality(Inserting') <= Cardinality(Workers)
    BY <1>1, <1>2, <1>3, <1>4, OtpCounts
  <1> QED
    BY <1>5 DEF OtpsUsable, Inserting

\* sendOtp finds no code that is cooling down.
LEMMA OtpCheckCooldown ==
  ASSUME OtpInv, NEW w \in Workers, CheckCooldown(w)
  PROVE  OtpInv'
  <1>1. PICK j : j = [at |-> "invalidate"]
    OBVIOUS
  <1>2. job' = [job EXCEPT ![w] = j] /\ otps' = otps
    BY <1>1 DEF CheckCooldown, Begin
  <1>3. OtpTyped'
    BY <1>1, <1>2, OtpMove DEF OtpInv, OtpTyped
  <1>4. Usable' = Usable /\ Inserting' \subseteq Inserting
    BY <1>1, <1>2 DEF Usable, Inserting, OtpInv, OtpTyped
  <1>5. \A i : Missing(i)' \subseteq Missing(i)
    BY <1>1, <1>2 DEF Missing, OtpInv, OtpTyped
  <1> QED
    BY <1>2, <1>3, <1>4, <1>5, GuessesSame, UsableSame DEF OtpInv

\* The usable codes are used up, which leaves room for those to come.
LEMMA OtpInvalidate ==
  ASSUME OtpInv, NEW w \in Workers, InvalidateOtps(w)
  PROVE  OtpInv'
  <1>1. PICK j : j = [at |-> "insert"]
    OBVIOUS
  <1>2. /\ job' = [job EXCEPT ![w] = j]
        /\ otps' = [i \in DOMAIN otps |->
                      IF i \in Usable THEN [otps[i] EXCEPT !.isUsed = TRUE] ELSE otps[i]]
    BY <1>1 DEF InvalidateOtps, GoTo
  <1>3. ASSUME NEW i \in DOMAIN otps
        PROVE  /\ otps'[i] \in OtpRow /\ otps'[i].attempts = otps[i].attempts
               /\ otps'[i].isUsed \/ otps'[i].expired
    <2>1. otps[i] \in OtpRow
      BY OtpRowsTyped DEF OtpInv, OtpTyped
    <2>2. CASE i \in Usable
      BY <1>2, <2>1, <2>2 DEF OtpRow
    <2>3. CASE i \notin Usable
      BY <1>2, <2>1, <2>3 DEF Usable
    <2> QED
      BY <2>2, <2>3
  <1>4. otps' \in Seq(OtpRow) /\ DOMAIN otps' = DOMAIN otps
    <2>1. otps' \in [1..Len(otps) -> OtpRow] /\ Len(otps) \in Nat
      BY <1>2, <1>3, OtpRowsTyped DEF OtpInv, OtpTyped
    <2> QED
      BY <1>2, <2>1, SeqDef
  <1>5. OtpTyped'
    BY <1>1, <1>2, <1>4, OtpMove DEF OtpInv
  <1>6. \A i : Missing(i)' \subseteq Missing(i)
    BY <1>1, <1>2 DEF Missing, OtpInv, OtpTyped
  <1>7. OtpGuessLimit'
    BY <1>3, <1>4, <1>5, <1>6, GuessesSame
  <1>8. Usable' = {}
    BY <1>3, <1>4 DEF Usable
  <1>9. OtpsUsable'
    BY <1>8, OtpCounts, FS_EmptySet DEF OtpsUsable
  <1> QED
    BY <1>5, <1>7, <1>9 DEF OtpInv

\* A new code is usable instead of being about to be written.
LEMMA OtpInsert ==
  ASSUME OtpInv, NEW w \in Workers, InsertOtp(w)
  PROVE  OtpInv'
  <1>a. PICK row : row = [attempts |-> 0, isUsed |-> FALSE, cooling |-> TRUE, expired |-> FALSE]
    OBVIOUS
  <1>b. PICK n : n = Len(otps) + 1
    OBVIOUS
  <1>1. /\ job' = [job EXCEPT ![w] = Idle] /\ otps' = Append(otps, row)
        /\ job[w].at = "insert"
    BY <1>a DEF InsertOtp, Finish
  <1>2. row \in OtpRow /\ row.attempts = 0
    BY <1>a DEF OtpRow
  <1>3. /\ otps' \in Seq(OtpRow) /\ DOMAIN otps' = DOMAIN otps \cup {n} /\ n \notin DOMAIN otps
        /\ otps'[n] = row /\ \A i \in DOMAIN otps : otps'[i] = otps[i]
    BY <1>b, <1>1, <1>2, OtpRowsTyped DEF OtpInv, OtpTyped
  <1>4. OtpTyped'
    BY <1>1, <1>3, OtpMove DEF OtpInv
  <1>5. \A i : Missing(i)' \subseteq Missing(i)
    BY <1>1 DEF Missing, OtpInv, OtpTyped, Idle
  <1>6. OtpGuessLimit'
    <2> SUFFICES ASSUME NEW i \in DOMAIN otps'
                 PROVE  otps'[i].attempts + Cardinality(Missing(i)')
                          < OTP_MAX_ATTEMPTS + Cardinality(Workers)
      BY DEF OtpGuessLimit, Missing
    <2>1. CASE i \in DOMAIN otps
      <3>1. otps[i].attempts + Cardinality(Missing(i)) < OTP_MAX_ATTEMPTS + Cardinality(Workers)
        BY <2>1 DEF OtpInv, OtpGuessLimit, Missing
      <3>2. Missing(i) \subseteq Workers /\ Missing(i)' \subseteq Workers
        BY DEF Missing
      <3>3. /\ Cardinality(Missing(i)) \in Nat /\ Cardinality(Missing(i)') \in Nat
            /\ Cardinality(Missing(i)') <= Cardinality(Missing(i))
            /\ Cardinality(Workers) \in Nat
        BY <1>5, <3>2, OtpCounts
      <3> QED
        BY <1>3, <2>1, <3>1, <3>3, OtpRowsTyped, OtpConstants DEF OtpInv, OtpTyped
    <2>2. CASE i = n
      <3>1. Missing(n) = {}
        <4>1. \A v \in Workers : job[v] # [at |-> "miss", otp |-> n]
          BY <1>3, OtpFields DEF OtpInv, OtpTyped
        <4> QED
          BY <4>1 DEF Missing
      <3>2. Missing(n)' = {}
        BY <1>5, <3>1
      <3>3. Cardinality(Workers) > 0
        BY OtpCounts, FS_EmptySet
      <3>4. otps'[i].attempts = 0 /\ Cardinality(Missing(i)') = 0
        BY <1>2, <1>3, <2>2, <3>2, FS_EmptySet
      <3> QED
        BY <3>3, <3>4, OtpConstants, OtpCounts
    <2> QED
      BY <1>3, <2>1, <2>2
  <1>7. OtpsUsable'
    <2>1. Usable' \subseteq Usable \cup {n}
      BY <1>3 DEF Usable
    <2>2. IsFiniteSet(Usable) /\ Cardinality(Usable) \in Nat
      BY UsableCounts DEF OtpInv, OtpTyped
    <2>3. /\ IsFiniteSet(Usable \cup {n}) /\ Cardinality(Usable \cup {n}) <= Cardinality(Usable) + 1
          /\ Cardinality(Usable \cup {n}) \in Nat
      BY <2>2, FS_AddElement, FS_CardinalityType
    <2>4. Cardinality(Usable') <= Cardinality(Usable) + 1 /\ Cardinality(Usable') \in Nat
      BY <2>1, <2>2, <2>3, FS_Subset, FS_CardinalityType
    <2>5. Inserting' = Inserting \ {w} /\ w \in Inserting
      BY <1>1 DEF Inserting, Idle, OtpInv, OtpTyped
    <2>6. Cardinality(Inserting') = Cardinality(Inserting) - 1 /\ Cardinality(Inserting) \in Nat
      BY <2>5, OtpCounts DEF Inserting
    <2>7. Cardinality(Usable) + Cardinality(Inserting) <= Cardinality(Workers)
      BY DEF OtpInv, OtpsUsable, Inserting
    <2> QED
      BY <2>2, <2>4, <2>6, <2>7, OtpCounts DEF OtpsUsable, Inserting
  <1> QED
    BY <1>4, <1>6, <1>7 DEF OtpInv

\* A guess that goes on to be counted finds an attempt left.
LEMMA OtpFind ==
  ASSUME OtpInv, NEW w \in Workers, NEW right \in BOOLEAN, FindOtp(w, right)
  PROVE  OtpInv'
  <1> DEFINE unused == {i \in DOMAIN otps : ~otps[i].isUsed}
  <1>1. unused # {} /\ Begin(w, [at |-> Verdict(Max(unused), right), otp |-> Max(unused)])
        /\ otps' = otps
    BY DEF FindOtp
  <1>2. PICK i \in DOMAIN otps : i = Max(unused)
    <2>1. unused \in SUBSET (1..Len(otps)) /\ Len(otps) \in Nat
      BY OtpRowsTyped DEF OtpInv, OtpTyped
    <2>2. Max(unused) \in unused
      BY <1>1, <2>1, MaxIsIn
    <2> QED
      BY <2>2
  <1>3. PICK j : j = [at |-> Verdict(i, right), otp |-> i]
    OBVIOUS
  <1>4. job' = [job EXCEPT ![w] = j] /\ job[w] = Idle
    BY <1>1, <1>2, <1>3 DEF Begin
  <1>5. Verdict(i, right) \in {"miss", "burn", "use"}
    BY DEF Verdict
  <1>6. OtpTyped'
    BY <1>1, <1>3, <1>4, <1>5, OtpMove DEF OtpInv, OtpTyped
  <1>7. Usable' = Usable /\ Inserting' \subseteq Inserting
    BY <1>1, <1>3, <1>4, <1>5 DEF Usable, Inserting, OtpInv, OtpTyped
  <1>8. OtpGuessLimit'
    <2> SUFFICES ASSUME NEW k \in DOMAIN otps
                 PROVE  otps[k].attempts + Cardinality(Missing(k)')
                          < OTP_MAX_ATTEMPTS + Cardinality(Workers)
      BY <1>1 DEF OtpGuessLimit, Missing
    <2>1. Missing(k) \subseteq Workers /\ Missing(k)' \subseteq Workers
      BY DEF Missing
    <2>2. /\ Cardinality(Missing(k)) \in Nat /\ Cardinality(Missing(k)') \in Nat
          /\ Cardinality(Missing(k)') <= Cardinality(Workers) /\ Cardinality(Workers) \in Nat
          /\ otps[k].attempts \in Nat /\ OTP_MAX_ATTEMPTS \in Nat
      BY <2>1, OtpCounts, OtpRowsTyped, OtpConstants DEF OtpInv, OtpTyped
    <2>3. CASE k = i /\ Verdict(i, right) = "miss"
      <3>1. otps[i].attempts < OTP_MAX_ATTEMPTS
        BY <2>2, <2>3 DEF Verdict, Exhausted
      <3> QED
        BY <2>2, <2>3, <3>1
    <2>4. CASE ~(k = i /\ Verdict(i, right) = "miss")
      <3>1. j # [at |-> "miss", otp |-> k]
        BY <1>3, <2>4
      <3>2. Missing(k)' \subseteq Missing(k)
        BY <1>4, <3>1 DEF Missing, OtpInv, OtpTyped
      <3>3. Cardinality(Missing(k)') <= Cardinality(Missing(k))
        BY <2>1, <3>2, OtpCounts
      <3>4. otps[k].attempts + Cardinality(Missing(k)) < OTP_MAX_ATTEMPTS + Cardinality(Workers)
        BY DEF OtpInv, OtpGuessLimit, Missing
      <3> QED
        BY <2>2, <3>3, <3>4
    <2> QED
      BY <2>3, <2>4
  <1> QED
    BY <1>6, <1>7, <1>8, UsableSame DEF OtpInv

\* Counting a guess takes it from those to be counted.
LEMMA OtpCountAttempt ==
  ASSUME OtpInv, NEW w \in Workers, CountAttempt(w)
  PROVE  OtpInv'
  <1>1. PICK i \in DOMAIN otps : job[w] = [at |-> "miss", otp |-> i]
    BY OtpFields DEF CountAttempt, OtpInv, OtpTyped
  <1>2. PICK row : row = [otps[i] EXCEPT !.attempts = @ + 1]
    OBVIOUS
  <1>3. otps[i] \in OtpRow /\ otps[i].attempts \in Nat /\ Len(otps) \in Nat
        /\ DOMAIN otps = 1..Len(otps)
    BY OtpRowsTyped DEF OtpInv, OtpTyped
  <1>4. /\ row \in OtpRow /\ row.attempts = otps[i].attempts + 1
        /\ row.isUsed = otps[i].isUsed /\ row.expired = otps[i].expired
    BY <1>2, <1>3 DEF OtpRow
  <1>5. otps' = [otps EXCEPT ![i] = row]
    BY <1>1, <1>2 DEF CountAttempt
  <1>6. /\ otps' \in Seq(OtpRow) /\ DOMAIN otps' = DOMAIN otps /\ otps'[i] = row
        /\ \A k \in DOMAIN otps \ {i} : otps'[k] = otps[k]
    BY <1>3, <1>4, <1>5, ExceptSeq DEF OtpInv, OtpTyped
  <1>7. PICK j : /\ job' = [job EXCEPT ![w] = j]
                 /\ j = Idle \/ j = [at |-> "burn", otp |-> i]
    <2>1. [job[w] EXCEPT !.at = "burn"] = [at |-> "burn", otp |-> i]
      BY <1>1
    <2> QED
      BY <2>1 DEF CountAttempt, GoTo, Finish
  <1>8. OtpTyped'
    BY <1>6, <1>7, OtpMove DEF OtpInv
  <1>9. OtpsUsable'
    <2>1. Usable' = Usable
      BY <1>4, <1>6 DEF Usable
    <2>2. Inserting' \subseteq Inserting
      BY <1>7 DEF Inserting, Idle, OtpInv, OtpTyped
    <2> QED
      BY <1>8, <2>1, <2>2, UsableSame
  <1>10. OtpGuessLimit'
    <2> SUFFICES ASSUME NEW k \in DOMAIN otps
                 PROVE  otps'[k].attempts + Cardinality(Missing(k)')
                          < OTP_MAX_ATTEMPTS + Cardinality(Workers)
      BY <1>6 DEF OtpGuessLimit, Missing
    <2>1. Missing(k) \subseteq Workers /\ Missing(k)' \subseteq Workers
      BY DEF Missing
    <2>2. Missing(k)' = Missing(k) \ {w}
      <3>1. j # [at |-> "miss", otp |-> k]
        BY <1>7 DEF Idle
      <3> QED
        BY <1>7, <3>1 DEF Missing, OtpInv, OtpTyped
    <2>3. /\ Cardinality(Missing(k)) \in Nat
          /\ Cardinality(Missing(k)') =
               IF w \in Missing(k) THEN Cardinality(Missing(k)) - 1 ELSE Cardinality(Missing(k))
      BY <2>1, <2>2, OtpCounts
    <2>4. otps[k].attempts + Cardinality(Missing(k)) < OTP_MAX_ATTEMPTS + Cardinality(Workers)
      BY DEF OtpInv, OtpGuessLimit, Missing
    <2>5. CASE k = i
      <3>1. w \in Missing(k)
        BY <1>1, <2>5 DEF Missing
      <3> QED
        BY <1>3, <1>4, <1>6, <2>3, <2>4, <2>5, <3>1, OtpConstants, OtpCounts
    <2>6. CASE k # i
      <3>1. w \notin Missing(k)
        BY <1>1, <2>6 DEF Missing
      <3> QED
        BY <1>6, <2>3, <2>4, <2>6, <3>1
    <2> QED
      BY <2>5, <2>6
  <1> QED
    BY <1>8, <1>9, <1>10 DEF OtpInv

\* A row that is marked, but for the count.
LEMMA OtpMarked ==
  ASSUME OtpInv, NEW i \in DOMAIN otps, NEW row,
         row \in {[otps[i] EXCEPT !.isUsed = TRUE], [otps[i] EXCEPT !.cooling = FALSE],
                  [otps[i] EXCEPT !.expired = TRUE]},
         otps' = [otps EXCEPT ![i] = row]
  PROVE  /\ otps' \in Seq(OtpRow) /\ DOMAIN otps' = DOMAIN otps
         /\ \A k \in DOMAIN otps : otps'[k].attempts = otps[k].attempts
                                   /\ (otps[k].isUsed => otps'[k].isUsed)
         /\ Usable' \subseteq Usable
  <1>1. otps[i] \in OtpRow /\ Len(otps) \in Nat /\ DOMAIN otps = 1..Len(otps)
    BY OtpRowsTyped DEF OtpInv, OtpTyped
  <1>2. /\ row \in OtpRow /\ row.attempts = otps[i].attempts
        /\ otps[i].isUsed => row.isUsed
        /\ otps[i].expired => row.expired
    <2>1. CASE row = [otps[i] EXCEPT !.isUsed = TRUE]
      BY <1>1, <2>1 DEF OtpRow
    <2>2. CASE row = [otps[i] EXCEPT !.cooling = FALSE]
      BY <1>1, <2>2 DEF OtpRow
    <2>3. CASE row = [otps[i] EXCEPT !.expired = TRUE]
      BY <1>1, <2>3 DEF OtpRow
    <2> QED
      BY <2>1, <2>2, <2>3
  <1>3. /\ otps' \in Seq(OtpRow) /\ DOMAIN otps' = DOMAIN otps /\ otps'[i] = row
        /\ \A k \in DOMAIN otps \ {i} : otps'[k] = otps[k]
    BY <1>1, <1>2, ExceptSeq DEF OtpInv, OtpTyped
  <1>4. Usable' \subseteq Usable
    BY <1>2, <1>3 DEF Usable
  <1> QED
    BY <1>2, <1>3, <1>4

\* A code is used up.
LEMMA OtpUse ==
  ASSUME OtpInv, NEW w \in Workers, UseOtp(w)
  PROVE  OtpInv'
  <1>1. PICK i \in DOMAIN otps : job[w].otp = i
    BY OtpFields DEF UseOtp, OtpInv, OtpTyped
  <1>2. PICK row : row = [otps[i] EXCEPT !.isUsed = TRUE]
    OBVIOUS
  <1>3. otps' = [otps EXCEPT ![i] = row] /\ job' = [job EXCEPT ![w] = Idle]
    BY <1>1, <1>2 DEF UseOtp, Finish
  <1>4. /\ otps' \in Seq(OtpRow) /\ DOMAIN otps' = DOMAIN otps
        /\ \A k \in DOMAIN otps : otps'[k].attempts = otps[k].attempts
        /\ Usable' \subseteq Usable
    BY <1>2, <1>3, OtpMarked
  <1>5. OtpTyped'
    BY <1>3, <1>4, OtpMove DEF OtpInv
  <1>6. Inserting' \subseteq Inserting
    BY <1>3 DEF Inserting, Idle, OtpInv, OtpTyped
  <1>7. \A k : Missing(k)' \subseteq Missing(k)
    BY <1>3 DEF Missing, Idle, OtpInv, OtpTyped
  <1> QED
    BY <1>4, <1>5, <1>6, <1>7, GuessesSame, UsableSame DEF OtpInv

\* Time does not change what is counted.
LEMMA OtpTime ==
  ASSUME OtpInv, NEW i \in DOMAIN otps, OtpTimePasses(i)
  PROVE  OtpInv'
  <1>1. PICK row \in {[otps[i] EXCEPT !.cooling = FALSE], [otps[i] EXCEPT !.expired = TRUE]} :
          otps' = [otps EXCEPT ![i] = row]
    BY DEF OtpTimePasses
  <1>2. job' = job
    BY DEF OtpTimePasses
  <1>3. /\ otps' \in Seq(OtpRow) /\ DOMAIN otps' = DOMAIN otps
        /\ \A k \in DOMAIN otps : otps'[k].attempts = otps[k].attempts
        /\ Usable' \subseteq Usable
    BY <1>1, OtpMarked
  <1>4. OtpTyped'
    BY <1>2, <1>3 DEF OtpInv, OtpTyped, OtpJob
  <1> QED
    BY <1>2, <1>3, <1>4, GuessesSame, UsableSame DEF OtpInv, Missing, Inserting

\* No step breaks OtpInv.
LEMMA OtpKept ==
  ASSUME OtpInv, [OtpNext]_otpVars
  PROVE  OtpInv'
  <1>1. CASE UNCHANGED otpVars
    BY <1>1 DEF otpVars, OtpInv, OtpTyped, OtpJob, OtpGuessLimit, OtpsUsable, Usable
  <1> QED
    BY <1>1, OtpCheckCooldown, OtpInvalidate, OtpInsert, OtpFind, OtpCountAttempt, OtpUse,
       OtpTime DEF OtpNext

\* There are no codes at first.
LEMMA OtpStarted ==
  ASSUME OtpInit
  PROVE  OtpInv
  <1>1. otps = <<>> /\ \A w \in Workers : job[w] = Idle
    BY DEF OtpInit, NoJobs
  <1>2. OtpTyped
    BY <1>1 DEF OtpInit, OtpTyped, OtpJob, NoJobs
  <1>3. OtpGuessLimit
    BY <1>1 DEF OtpGuessLimit
  <1>4. Usable = {} /\ Inserting = {}
    BY <1>1 DEF Usable, Inserting, Idle
  <1>5. OtpsUsable
    BY <1>4, FS_EmptySet, OtpCounts DEF OtpsUsable, Inserting
  <1> QED
    BY <1>2, <1>3, <1>5 DEF OtpInv

\* OTP_MAX_ATTEMPTS for any number of requests: each code is guessed at most
\* that often and once more by each other request in flight, and as few are
\* good at once as there are requests.
THEOREM PhoneGuessesAreLimited ==
  OtpSpec => [](OtpTypeOK /\ OtpGuessLimit /\ OtpsUsable)
  <1>1. OtpInv => OtpTypeOK /\ OtpGuessLimit /\ OtpsUsable
    BY OtpRowsTyped DEF OtpInv, OtpTyped, OtpTypeOK
  <1> QED
    BY <1>1, OtpStarted, OtpKept, PTL DEF OtpSpec

\* No step makes a used code one to be guessed.
LEMMA SpentKept ==
  ASSUME OtpInv, OtpNext, NEW i \in DOMAIN otps, SpentOtp(i)
  PROVE  SpentOtp(i)'
  <1>1. /\ otps[i] \in OtpRow /\ Len(otps) \in Nat /\ DOMAIN otps = 1..Len(otps)
        /\ otps[i].isUsed
    BY OtpRowsTyped DEF OtpInv, OtpTyped, SpentOtp
  <1>2. ASSUME NEW w \in Workers, NEW j, job' = [job EXCEPT ![w] = j],
               j.at \in {"miss", "burn", "use"} => j.otp # i, otps'[i].isUsed
        PROVE  SpentOtp(i)'
    BY <1>2 DEF SpentOtp, OtpInv, OtpTyped
  <1>3. ASSUME NEW w \in Workers, CheckCooldown(w) \/ InsertOtp(w) PROVE SpentOtp(i)'
    <2>1. otps'[i] = otps[i]
      BY <1>1, <1>3 DEF CheckCooldown, InsertOtp, OtpInv, OtpTyped
    <2> QED
      BY <1>1, <1>2, <1>3, <2>1 DEF CheckCooldown, InsertOtp, Begin, Finish, Idle
  <1>4. ASSUME NEW w \in Workers, InvalidateOtps(w) PROVE SpentOtp(i)'
    <2>1. otps'[i].isUsed
      BY <1>1, <1>4 DEF InvalidateOtps, OtpRow
    <2> QED
      BY <1>2, <1>4, <2>1 DEF InvalidateOtps, GoTo
  <1>5. ASSUME NEW w \in Workers, NEW right \in BOOLEAN, FindOtp(w, right) PROVE SpentOtp(i)'
    <2> DEFINE unused == {k \in DOMAIN otps : ~otps[k].isUsed}
    <2>1. Max(unused) \in unused
      BY <1>1, <1>5, MaxIsIn DEF FindOtp
    <2>2. PICK k : k = Max(unused) /\ k # i
      BY <1>1, <2>1
    <2>3. PICK j : j = [at |-> Verdict(k, right), otp |-> k]
      OBVIOUS
    <2>4. job' = [job EXCEPT ![w] = j] /\ otps' = otps
      BY <1>5, <2>2, <2>3 DEF FindOtp, Begin
    <2> QED
      BY <1>1, <1>2, <2>2, <2>3, <2>4
  <1>6. ASSUME NEW w \in Workers, CountAttempt(w) \/ UseOtp(w) PROVE SpentOtp(i)'
    <2>1. PICK k \in DOMAIN otps : job[w].otp = k /\ k # i /\ job[w] = [at |-> job[w].at, otp |-> k]
      BY <1>6, OtpFields DEF CountAttempt, UseOtp, SpentOtp, OtpInv, OtpTyped
    <2>2. otps'[i] = otps[i]
      BY <1>1, <1>6, <2>1 DEF CountAttempt, UseOtp
    <2>3. PICK j : job' = [job EXCEPT ![w] = j] /\ (j = Idle \/ j = [at |-> "burn", otp |-> k])
      <3>1. [job[w] EXCEPT !.at = "burn"] = [at |-> "burn", otp |-> k]
        BY <2>1
      <3> QED
        BY <1>6, <3>1 DEF CountAttempt, UseOtp, GoTo, Finish
    <2> QED
      BY <1>1, <1>2, <2>1, <2>2, <2>3 DEF Idle
  <1>7. ASSUME NEW k \in DOMAIN otps, OtpTimePasses(k) PROVE SpentOtp(i)'
    <2>1. otps'[i].isUsed
      <3>1. PICK row \in {[otps[k] EXCEPT !.cooling = FALSE], [otps[k] EXCEPT !.expired = TRUE]} :
              otps' = [otps EXCEPT ![k] = row]
        BY <1>7 DEF OtpTimePasses
      <3> QED
        BY <1>1, <3>1, OtpMarked
    <2> QED
      BY <1>7, <2>1 DEF OtpTimePasses, SpentOtp
  <1> QED
    BY <1>3, <1>4, <1>5, <1>6, <1>7 DEF OtpNext

\* A code by SMS that is used up stays so.
THEOREM SpentCodesStaySpent == OtpSpec => SpentOtpsStaySpent
  <1>1. OtpInv /\ [OtpNext]_otpVars
        => [\A i \in DOMAIN otps : SpentOtp(i) => SpentOtp(i)']_otpVars
    BY SpentKept
  <1> QED
    BY <1>1, OtpStarted, OtpKept, PTL DEF OtpSpec, SpentOtpsStaySpent

---------------------------------------------------------------------------
(* EmailOtp *)

\* Rows and requests are of their types.
EmailTyped ==
  /\ emails \in Seq(EmailRow)
  /\ job \in [Workers -> EmailJob]

\* Nobody makes a code pending again.
EmailInv ==
  /\ EmailTyped
  /\ \A w \in Workers : job[w].at = "settleEmail" => job[w].status # "PENDING"
  /\ ExhaustedEmailsFail

\* The rows of the table.
LEMMA EmailRowsTyped ==
  ASSUME emails \in Seq(EmailRow)
  PROVE  /\ Len(emails) \in Nat /\ DOMAIN emails = 1..Len(emails)
         /\ \A i \in DOMAIN emails : /\ emails[i] \in EmailRow
                                     /\ emails[i].attempts \in Nat
  <1>1. Len(emails) \in Nat /\ DOMAIN emails = 1..Len(emails)
    OBVIOUS
  <1>2. ASSUME NEW i \in 1..Len(emails) PROVE emails[i] \in EmailRow
    OBVIOUS
  <1>3. \A row \in EmailRow : row.attempts \in Nat
    BY DEF EmailRow
  <1> QED
    BY <1>1, <1>2, <1>3

\* The record a request is at, by the stage.
LEMMA EmailFields ==
  ASSUME NEW j \in EmailJob
  PROVE  /\ j.at = "missEmail" => j.email \in DOMAIN emails
         /\ j.at = "settleEmail" => j.email \in DOMAIN emails
                                    /\ j.status \in EmailVerificationStatus
  BY DEF EmailJob, Idle

\* A step of worker w to j, after which row k of the table has changed, if any
\* has, and is not newly exhausted without a request at it.
LEMMA EmailMove ==
  ASSUME EmailInv, emails' \in Seq(EmailRow), DOMAIN emails \subseteq DOMAIN emails',
         NEW w \in Workers, NEW j, job' = [job EXCEPT ![w] = j],
         \/ j = Idle
         \/ j.at \in {"expireEarlier", "createEmail"} /\ j = [at |-> j.at]
         \/ /\ j.at = "missEmail" /\ j.email \in DOMAIN emails
            /\ j = [at |-> j.at, email |-> j.email]
         \/ /\ j.at = "settleEmail" /\ j.email \in DOMAIN emails
            /\ j.status \in EmailVerificationStatus \ {"PENDING"}
            /\ j = [at |-> j.at, email |-> j.email, status |-> j.status],
         \A i \in DOMAIN emails' :
           \/ emails'[i].attempts < EMAIL_OTP_MAX_ATTEMPTS
           \/ emails'[i].status # "PENDING"
           \/ j.at \in {"missEmail", "settleEmail"} /\ j.email = i
           \/ /\ i \in DOMAIN emails /\ emails'[i].attempts = emails[i].attempts
              /\ emails'[i].status = emails[i].status /\ w \notin AtEmail(i)
  PROVE  EmailInv'
  <1>1. j \in EmailJob'
    BY DEF EmailJob
  <1>2. EmailJob \subseteq EmailJob'
    BY DEF EmailJob
  <1>3. job' \in [Workers -> EmailJob']
    BY <1>1, <1>2 DEF EmailInv, EmailTyped
  <1>4. \A v \in Workers : job'[v].at = "settleEmail" => job'[v].status # "PENDING"
    BY DEF EmailInv, EmailTyped, Idle
  <1>5. ASSUME NEW i \in DOMAIN emails', emails'[i].attempts >= EMAIL_OTP_MAX_ATTEMPTS,
               emails'[i].status = "PENDING"
        PROVE  AtEmail(i)' # {}
    <2>0. emails'[i].attempts \in Nat /\ EMAIL_OTP_MAX_ATTEMPTS \in Nat
      <3>1. emails'[i] \in EmailRow
        OBVIOUS
      <3> QED
        BY <3>1, EmailConstants DEF EmailRow
    <2>1. CASE j.at \in {"missEmail", "settleEmail"} /\ j.email = i
      <3>1. w \in AtEmail(i)'
        BY <2>1 DEF AtEmail, EmailInv, EmailTyped
      <3> QED
        BY <3>1
    <2>2. CASE /\ i \in DOMAIN emails /\ emails'[i].attempts = emails[i].attempts
               /\ emails'[i].status = emails[i].status /\ w \notin AtEmail(i)
      <3>1. PICK v \in AtEmail(i) : v # w
        BY <1>5, <2>2 DEF EmailInv, ExhaustedEmailsFail
      <3>2. v \in AtEmail(i)'
        BY <3>1 DEF AtEmail, EmailInv, EmailTyped
      <3> QED
        BY <3>2
    <2> QED
      BY <1>5, <2>0, <2>1, <2>2
  <1> QED
    BY <1>3, <1>4, <1>5 DEF EmailInv, EmailTyped, ExhaustedEmailsFail

\* startEmailVerification finds no code that is cooling down.
LEMMA EmailCheckCooldown ==
  ASSUME EmailInv, NEW w \in Workers, CheckEmailCooldown(w)
  PROVE  EmailInv'
  <1>1. PICK j : j = [at |-> "expireEarlier"]
    OBVIOUS
  <1>2. job' = [job EXCEPT ![w] = j] /\ emails' = emails /\ job[w] = Idle
    BY <1>1 DEF CheckEmailCooldown, Begin
  <1>3. \A i : w \notin AtEmail(i)
    BY <1>2 DEF AtEmail, Idle
  <1> QED
    BY <1>1, <1>2, <1>3, EmailMove DEF EmailInv, EmailTyped

\* The earlier codes expire.
LEMMA EmailExpire ==
  ASSUME EmailInv, NEW w \in Workers, ExpireEarlier(w)
  PROVE  EmailInv'
  <1>1. PICK j : j = [at |-> "createEmail"]
    OBVIOUS
  <1>2. /\ job' = [job EXCEPT ![w] = j] /\ job[w].at = "expireEarlier"
        /\ emails' = [i \in DOMAIN emails |->
                        IF emails[i].status = "PENDING"
                        THEN [emails[i] EXCEPT !.status = "EXPIRED"] ELSE emails[i]]
    BY <1>1 DEF ExpireEarlier, GoTo
  <1>3. ASSUME NEW i \in DOMAIN emails
        PROVE  emails'[i] \in EmailRow /\ emails'[i].status # "PENDING"
    <2>1. emails[i] \in EmailRow
      BY EmailRowsTyped DEF EmailInv, EmailTyped
    <2> QED
      BY <1>2, <2>1 DEF EmailRow, EmailVerificationStatus
  <1>4. emails' \in Seq(EmailRow) /\ DOMAIN emails' = DOMAIN emails
    <2>1. emails' \in [1..Len(emails) -> EmailRow] /\ Len(emails) \in Nat
      BY <1>2, <1>3, EmailRowsTyped DEF EmailInv, EmailTyped
    <2> QED
      BY <1>2, <2>1, SeqDef
  <1> QED
    BY <1>1, <1>2, <1>3, <1>4, EmailMove

\* A new code has no attempts.
LEMMA EmailCreate ==
  ASSUME EmailInv, NEW w \in Workers, CreateEmail(w)
  PROVE  EmailInv'
  <1>1. PICK row : row = [status |-> "PENDING", attempts |-> 0,
                          cooling |-> TRUE, expired |-> FALSE]
    OBVIOUS
  <1>2. PICK n : n = Len(emails) + 1
    OBVIOUS
  <1>3. row \in EmailRow /\ row.attempts < EMAIL_OTP_MAX_ATTEMPTS
    BY <1>1, EmailConstants DEF EmailRow, EmailVerificationStatus
  <1>4. /\ job' = [job EXCEPT ![w] = Idle] /\ emails' = Append(emails, row)
        /\ job[w].at = "createEmail"
    BY <1>1 DEF CreateEmail, Finish
  <1>5. /\ emails' \in Seq(EmailRow) /\ DOMAIN emails' = DOMAIN emails \cup {n}
        /\ emails'[n] = row /\ \A i \in DOMAIN emails : emails'[i] = emails[i]
    BY <1>2, <1>3, <1>4, EmailRowsTyped DEF EmailInv, EmailTyped
  <1>6. \A i : w \notin AtEmail(i)
    BY <1>4 DEF AtEmail
  <1> QED
    BY <1>3, <1>4, <1>5, <1>6, EmailMove

\* verifyEmailCode reads a pending code.
LEMMA EmailFind ==
  ASSUME EmailInv, NEW w \in Workers, NEW i \in DOMAIN emails, NEW right \in BOOLEAN,
         FindEmail(w, i, right)
  PROVE  EmailInv'
  <1>1. PICK j \in {SettleAs(i, "EXPIRED"), SettleAs(i, "FAILED"), SettleAs(i, "VERIFIED"),
                    [at |-> "missEmail", email |-> i]} : Begin(w, j)
    <2>1. /\ emails[i].attempts \in Nat /\ EMAIL_OTP_MAX_ATTEMPTS \in Nat
          /\ emails[i].expired \in BOOLEAN
      BY EmailRowsTyped, EmailConstants DEF EmailInv, EmailTyped, EmailRow
    <2>2. CASE emails[i].expired
      BY <2>2 DEF FindEmail
    <2>3. CASE ~emails[i].expired /\ emails[i].attempts >= EMAIL_OTP_MAX_ATTEMPTS
      BY <2>1, <2>3 DEF FindEmail
    <2>4. CASE ~emails[i].expired /\ emails[i].attempts < EMAIL_OTP_MAX_ATTEMPTS
      BY <2>1, <2>4 DEF FindEmail
    <2> QED
      BY <2>1, <2>2, <2>3, <2>4
  <1>2. job' = [job EXCEPT ![w] = j] /\ emails' = emails /\ job[w] = Idle
    BY <1>1 DEF Begin, FindEmail
  <1>3. \A k : w \notin AtEmail(k)
    BY <1>2 DEF AtEmail, Idle
  <1> QED
    BY <1>1, <1>2, <1>3, EmailMove DEF SettleAs, EmailVerificationStatus, EmailInv, EmailTyped

\* A row of the table is replaced.
LEMMA EmailReplaced ==
  ASSUME emails \in Seq(EmailRow), NEW i \in DOMAIN emails, NEW row \in EmailRow,
         emails' = [emails EXCEPT ![i] = row]
  PROVE  /\ emails' \in Seq(EmailRow) /\ DOMAIN emails' = DOMAIN emails /\ emails'[i] = row
         /\ \A k \in DOMAIN emails \ {i} : emails'[k] = emails[k]
  BY EmailRowsTyped, ExceptSeq

\* Who takes the last attempt goes on to fail the code.
LEMMA EmailCount ==
  ASSUME EmailInv, NEW w \in Workers, CountEmailAttempt(w)
  PROVE  EmailInv'
  <1>1. PICK i \in DOMAIN emails : job[w].email = i /\ job[w].at = "missEmail"
    BY EmailFields DEF CountEmailAttempt, EmailInv, EmailTyped
  <1>2. emails[i] \in EmailRow /\ emails[i].attempts \in Nat
    BY EmailRowsTyped DEF EmailInv, EmailTyped
  <1>3. PICK row : row = [emails[i] EXCEPT !.attempts = @ + 1]
    OBVIOUS
  <1>4. row \in EmailRow /\ row.attempts = emails[i].attempts + 1
    BY <1>2, <1>3 DEF EmailRow
  <1>5. emails' = [emails EXCEPT ![i] = row]
    BY <1>1, <1>3 DEF CountEmailAttempt
  <1>6. /\ emails' \in Seq(EmailRow) /\ DOMAIN emails' = DOMAIN emails /\ emails'[i] = row
        /\ \A k \in DOMAIN emails \ {i} : emails'[k] = emails[k]
    BY <1>4, <1>5, EmailReplaced DEF EmailInv, EmailTyped
  <1>7. \A k \in DOMAIN emails \ {i} : w \notin AtEmail(k)
    BY <1>1 DEF AtEmail
  <1>8. CASE emails[i].attempts + 1 >= EMAIL_OTP_MAX_ATTEMPTS
    <2>1. PICK j : j = SettleAs(i, "FAILED")
      OBVIOUS
    <2>2. job' = [job EXCEPT ![w] = j]
      BY <1>1, <1>8, <2>1 DEF CountEmailAttempt, GoTo
    <2>3. /\ j.at = "settleEmail" /\ j.email = i
          /\ j.status \in EmailVerificationStatus \ {"PENDING"}
          /\ j = [at |-> j.at, email |-> j.email, status |-> j.status]
      BY <2>1 DEF SettleAs, EmailVerificationStatus
    <2>4. \A k \in DOMAIN emails' :
            \/ j.email = k
            \/ /\ k \in DOMAIN emails /\ emails'[k].attempts = emails[k].attempts
               /\ emails'[k].status = emails[k].status /\ w \notin AtEmail(k)
      BY <1>6, <1>7, <2>3
    <2> QED
      BY <1>6, <2>2, <2>3, <2>4, EmailMove
  <1>9. CASE ~(emails[i].attempts + 1 >= EMAIL_OTP_MAX_ATTEMPTS)
    <2>1. job' = [job EXCEPT ![w] = Idle]
      BY <1>1, <1>9 DEF CountEmailAttempt, Finish
    <2>2. emails'[i].attempts < EMAIL_OTP_MAX_ATTEMPTS
      BY <1>2, <1>4, <1>6, <1>9, EmailConstants
    <2> QED
      BY <1>6, <1>7, <2>1, <2>2, EmailMove
  <1> QED
    BY <1>8, <1>9

\* The outcome is written, which is never PENDING.
LEMMA EmailSettle ==
  ASSUME EmailInv, NEW w \in Workers, SettleEmail(w)
  PROVE  EmailInv'
  <1>1. PICK i \in DOMAIN emails :
          /\ job[w].email = i /\ job[w].at = "settleEmail"
          /\ job[w].status \in EmailVerificationStatus \ {"PENDING"}
    BY EmailFields DEF SettleEmail, EmailInv, EmailTyped
  <1>2. emails[i] \in EmailRow
    BY EmailRowsTyped DEF EmailInv, EmailTyped
  <1>3. PICK row : row = [emails[i] EXCEPT !.status = job[w].status]
    OBVIOUS
  <1>4. row \in EmailRow /\ row.status # "PENDING"
    BY <1>1, <1>2, <1>3 DEF EmailRow
  <1>5. emails' = [emails EXCEPT ![i] = row] /\ job' = [job EXCEPT ![w] = Idle]
    BY <1>1, <1>3 DEF SettleEmail, Finish
  <1>6. /\ emails' \in Seq(EmailRow) /\ DOMAIN emails' = DOMAIN emails /\ emails'[i] = row
        /\ \A k \in DOMAIN emails \ {i} : emails'[k] = emails[k]
    BY <1>4, <1>5, EmailReplaced DEF EmailInv, EmailTyped
  <1>7. \A k \in DOMAIN emails \ {i} : w \notin AtEmail(k)
    BY <1>1 DEF AtEmail
  <1> QED
    BY <1>4, <1>5, <1>6, <1>7, EmailMove

\* Time does not touch what a code has become.
LEMMA EmailTimed ==
  ASSUME EmailInv, NEW i \in DOMAIN emails, EmailTimePasses(i)
  PROVE  /\ emails' \in Seq(EmailRow) /\ DOMAIN emails' = DOMAIN emails /\ job' = job
         /\ \A k \in DOMAIN emails : /\ emails'[k].status = emails[k].status
                                     /\ emails'[k].attempts = emails[k].attempts
  <1>1. PICK row \in {[emails[i] EXCEPT !.cooling = FALSE], [emails[i] EXCEPT !.expired = TRUE]} :
          emails' = [emails EXCEPT ![i] = row]
    BY DEF EmailTimePasses
  <1>2. emails[i] \in EmailRow
    BY EmailRowsTyped DEF EmailInv, EmailTyped
  <1>3. /\ row \in EmailRow /\ row.status = emails[i].status
        /\ row.attempts = emails[i].attempts
    <2>1. CASE row = [emails[i] EXCEPT !.cooling = FALSE]
      BY <1>2, <2>1 DEF EmailRow
    <2>2. CASE row = [emails[i] EXCEPT !.expired = TRUE]
      BY <1>2, <2>2 DEF EmailRow
    <2> QED
      BY <2>1, <2>2
  <1> QED
    BY <1>1, <1>3, EmailReplaced DEF EmailInv, EmailTyped, EmailTimePasses

\* No step breaks EmailInv.
LEMMA EmailKept ==
  ASSUME EmailInv, [EmailNext]_emailVars
  PROVE  EmailInv'
  <1>1. CASE UNCHANGED emailVars
    BY <1>1 DEF emailVars, EmailInv, EmailTyped, EmailJob, ExhaustedEmailsFail, AtEmail
  <1>2. ASSUME NEW i \in DOMAIN emails, EmailTimePasses(i) PROVE EmailInv'
    BY <1>2, EmailTimed DEF EmailInv, EmailTyped, EmailJob, ExhaustedEmailsFail, AtEmail
  <1> QED
    BY <1>1, <1>2, EmailCheckCooldown, EmailExpire, EmailCreate, EmailFind, EmailCount,
       EmailSettle DEF EmailNext

\* There are no codes at first.
LEMMA EmailStarted ==
  ASSUME EmailInit
  PROVE  EmailInv
  BY DEF EmailInit, EmailInv, EmailTyped, EmailJob, ExhaustedEmailsFail, NoJobs, Idle

\* EMAIL_OTP_MAX_ATTEMPTS for any number of requests: a code out of attempts
\* is no longer pending, or a request is about to fail it.
THEOREM EmailGuessesAreLimited == EmailSpec => [](EmailTypeOK /\ ExhaustedEmailsFail)
  <1>1. EmailInv => EmailTypeOK /\ ExhaustedEmailsFail
    BY EmailRowsTyped DEF EmailInv, EmailTyped, EmailTypeOK
  <1> QED
    BY <1>1, EmailStarted, EmailKept, PTL DEF EmailSpec

\* No step changes what became of a code nobody is at.
LEMMA SettledKept ==
  ASSUME EmailInv, EmailNext, NEW i \in DOMAIN emails, SettledEmail(i)
  PROVE  SettledEmail(i)' /\ emails'[i].status = emails[i].status
  <1>1. /\ emails[i] \in EmailRow /\ Len(emails) \in Nat /\ DOMAIN emails = 1..Len(emails)
        /\ emails[i].status # "PENDING" /\ \A w : w \notin AtEmail(i)
    BY EmailRowsTyped DEF EmailInv, EmailTyped, SettledEmail
  <1>2. ASSUME NEW w \in Workers, NEW j, job' = [job EXCEPT ![w] = j],
               j.at \in {"missEmail", "settleEmail"} => j.email # i,
               emails'[i].status = emails[i].status
        PROVE  SettledEmail(i)' /\ emails'[i].status = emails[i].status
    BY <1>1, <1>2 DEF SettledEmail, AtEmail, EmailInv, EmailTyped
  <1>3. ASSUME NEW w \in Workers, CheckEmailCooldown(w) \/ ExpireEarlier(w) \/ CreateEmail(w)
        PROVE  SettledEmail(i)' /\ emails'[i].status = emails[i].status
    <2>1. emails'[i] = emails[i]
      BY <1>1, <1>3 DEF CheckEmailCooldown, ExpireEarlier, CreateEmail, EmailInv, EmailTyped
    <2> QED
      BY <1>2, <1>3, <2>1 DEF CheckEmailCooldown, ExpireEarlier, CreateEmail, Begin, GoTo,
         Finish, Idle
  <1>4. ASSUME NEW w \in Workers, NEW k \in DOMAIN emails, NEW right \in BOOLEAN,
               FindEmail(w, k, right)
        PROVE  SettledEmail(i)' /\ emails'[i].status = emails[i].status
    <2>1. k # i /\ emails' = emails /\ job[w] = Idle
      BY <1>1, <1>4 DEF FindEmail, Begin
    <2>2. PICK j \in {SettleAs(k, "EXPIRED"), SettleAs(k, "FAILED"), SettleAs(k, "VERIFIED"),
                      [at |-> "missEmail", email |-> k]} : Begin(w, j)
      <3>1. /\ emails[k].attempts \in Nat /\ EMAIL_OTP_MAX_ATTEMPTS \in Nat
            /\ emails[k].expired \in BOOLEAN
        BY EmailRowsTyped, EmailConstants DEF EmailInv, EmailTyped, EmailRow
      <3>2. CASE emails[k].expired
        BY <1>4, <3>2 DEF FindEmail
      <3>3. CASE ~emails[k].expired /\ emails[k].attempts >= EMAIL_OTP_MAX_ATTEMPTS
        BY <1>4, <3>1, <3>3 DEF FindEmail
      <3>4. CASE ~emails[k].expired /\ emails[k].attempts < EMAIL_OTP_MAX_ATTEMPTS
        BY <1>4, <3>1, <3>4 DEF FindEmail
      <3> QED
        BY <3>1, <3>2, <3>3, <3>4
    <2> QED
      BY <1>2, <2>1, <2>2 DEF Begin, SettleAs
  <1>5. ASSUME NEW w \in Workers, CountEmailAttempt(w) \/ SettleEmail(w)
        PROVE  SettledEmail(i)' /\ emails'[i].status = emails[i].status
    <2>1. PICK k \in DOMAIN emails : job[w].email = k /\ k # i
      BY <1>1, <1>5, EmailFields DEF CountEmailAttempt, SettleEmail, AtEmail, EmailInv, EmailTyped
    <2>2. emails'[i] = emails[i]
      BY <1>5, <2>1 DEF CountEmailAttempt, SettleEmail
    <2>3. PICK j \in {Idle, SettleAs(k, "FAILED")} : job' = [job EXCEPT ![w] = j]
      BY <1>5, <2>1 DEF CountEmailAttempt, SettleEmail, GoTo, Finish
    <2> QED
      BY <1>2, <2>1, <2>2, <2>3 DEF SettleAs, Idle
  <1>6. ASSUME NEW k \in DOMAIN emails, EmailTimePasses(k)
        PROVE  SettledEmail(i)' /\ emails'[i].status = emails[i].status
    BY <1>6, EmailTimed DEF SettledEmail, AtEmail
  <1> QED
    BY <1>3, <1>4, <1>5, <1>6 DEF EmailNext

\* The outcome of a verification that no request is at stays.
THEOREM SettledVerificationsStay == EmailSpec => SettledEmailsStay
  <1>1. EmailInv /\ [EmailNext]_emailVars
        => [\A i \in DOMAIN emails :
              SettledEmail(i) => SettledEmail(i)' /\ emails'[i].status = emails[i].status
           ]_emailVars
    BY SettledKept
  <1> QED
    BY <1>1, EmailStarted, EmailKept, PTL DEF EmailSpec, SettledEmailsStay

---------------------------------------------------------------------------
(* Events *)

\* The inductive invariant of tickets.
EventInv ==
  /\ registrations \in Seq(Registration)
  /\ job \in [Workers -> EventJob]

\* The rows of the table.
LEMMA TicketRows ==
  ASSUME registrations \in Seq(Registration)
  PROVE  /\ Len(registrations) \in Nat /\ DOMAIN registrations = 1..Len(registrations)
         /\ \A t \in DOMAIN registrations : registrations[t] \in Registration
  OBVIOUS

\* The record a request is at, by the stage.
LEMMA TicketFields ==
  ASSUME NEW j \in EventJob
  PROVE  /\ j.at \in {"insertTicket", "refetchTicket"}
              => /\ j.mobile \in Mobiles /\ j.email \in Emails
                 /\ j = [at |-> j.at, mobile |-> j.mobile, email |-> j.email]
         /\ j.at = "send" => j.ticket \in DOMAIN registrations
         /\ j.at = "checkin" => j.ticket \in DOMAIN registrations /\ j.by \in Staff
  BY DEF EventJob, Idle

\* A step of worker w to j: the table keeps its rows.
LEMMA EventMove ==
  ASSUME EventInv, registrations' \in Seq(Registration),
         DOMAIN registrations \subseteq DOMAIN registrations',
         NEW w \in Workers, NEW j, job' = [job EXCEPT ![w] = j],
         \/ j = Idle
         \/ \E m \in Mobiles, e \in Emails, at \in {"insertTicket", "refetchTicket"} :
              j = [at |-> at, mobile |-> m, email |-> e]
         \/ \E t \in DOMAIN registrations' : j = [at |-> "send", ticket |-> t]
         \/ \E t \in DOMAIN registrations', a \in Staff :
              j = [at |-> "checkin", ticket |-> t, by |-> a]
  PROVE  EventInv'
  <1>1. j \in EventJob'
    BY DEF EventJob
  <1>2. EventJob \subseteq EventJob'
    BY DEF EventJob
  <1>3. job' \in [Workers -> EventJob']
    BY <1>1, <1>2 DEF EventInv
  <1> QED
    BY <1>3 DEF EventInv

\* One row of the table is replaced.
LEMMA TicketReplaced ==
  ASSUME registrations \in Seq(Registration), NEW t \in DOMAIN registrations,
         NEW row \in Registration, registrations' = [registrations EXCEPT ![t] = row]
  PROVE  /\ registrations' \in Seq(Registration) /\ registrations'[t] = row
         /\ DOMAIN registrations' = DOMAIN registrations
         /\ \A u \in DOMAIN registrations \ {t} : registrations'[u] = registrations[u]
  BY TicketRows, ExceptSeq

\* A new ticket leaves the others alone.
LEMMA TicketInserted ==
  ASSUME EventInv, NEW w \in Workers, InsertTicket(w)
  PROVE  /\ EventInv'
         /\ job' = [job EXCEPT ![w] = job'[w]]
         /\ job'[w].at # "checkin"
         /\ \A t \in DOMAIN registrations :
              t \in DOMAIN registrations' /\ registrations'[t] = registrations[t]
  <1>1. PICK m \in Mobiles, e \in Emails :
          /\ job[w] = [at |-> "insertTicket", mobile |-> m, email |-> e]
    BY TicketFields DEF InsertTicket, EventInv
  <1>2. CASE findExisting(m, e) # {}
    <2>1. PICK j : j = [at |-> "refetchTicket", mobile |-> m, email |-> e]
      OBVIOUS
    <2>2. j = [job[w] EXCEPT !.at = "refetchTicket"] /\ j.at # "checkin"
      BY <1>1, <2>1
    <2>3. job' = [job EXCEPT ![w] = j] /\ registrations' = registrations
      BY <1>1, <1>2, <2>2 DEF InsertTicket, GoTo
    <2> QED
      BY <2>1, <2>2, <2>3, EventMove DEF EventInv
  <1>3. CASE findExisting(m, e) = {}
    <2>1. PICK row : row = Ticket(m, e)
      OBVIOUS
    <2>2. row \in Registration
      BY <2>1 DEF Ticket, Registration
    <2>3. registrations' = Append(registrations, row)
      BY <1>1, <1>3, <2>1 DEF InsertTicket
    <2>4. /\ registrations' \in Seq(Registration)
          /\ DOMAIN registrations \subseteq DOMAIN registrations'
          /\ Len(registrations') \in DOMAIN registrations'
          /\ \A t \in DOMAIN registrations : registrations'[t] = registrations[t]
      BY <2>2, <2>3, TicketRows DEF EventInv
    <2>5. PICK j : j = [at |-> "send", ticket |-> Len(registrations')]
      OBVIOUS
    <2>6. job' = [job EXCEPT ![w] = j] /\ j.at # "checkin"
      BY <1>1, <1>3, <2>5 DEF InsertTicket, GoTo
    <2>7. EventInv'
      BY <2>4, <2>5, <2>6, EventMove
    <2> QED
      BY <2>4, <2>6, <2>7 DEF EventInv
  <1> QED
    BY <1>2, <1>3

\* Sending a ticket does not check it in.
LEMMA TicketSent ==
  ASSUME EventInv, NEW w \in Workers, NEW status \in WhatsappStatus, sendTicket(w, status)
  PROVE  /\ EventInv' /\ job' = [job EXCEPT ![w] = Idle]
         /\ \A t \in DOMAIN registrations :
              /\ t \in DOMAIN registrations'
              /\ registrations'[t].checkedInBy = registrations[t].checkedInBy
  <1>1. PICK t \in DOMAIN registrations : job[w].ticket = t
    BY TicketFields DEF sendTicket, EventInv
  <1>2. PICK row : row = [registrations[t] EXCEPT !.whatsapp = status]
    OBVIOUS
  <1>3. registrations[t] \in Registration
    BY TicketRows DEF EventInv
  <1>4. row \in Registration /\ row.checkedInBy = registrations[t].checkedInBy
    BY <1>2, <1>3 DEF Registration
  <1>5. registrations' = [registrations EXCEPT ![t] = row] /\ job' = [job EXCEPT ![w] = Idle]
    BY <1>1, <1>2 DEF sendTicket, Finish
  <1> QED
    BY <1>4, <1>5, TicketReplaced, EventMove DEF EventInv

\* Checking in is about the one ticket of the request.
LEMMA CheckedIn ==
  ASSUME EventInv, NEW w \in Workers, CheckIn(w)
  PROVE  /\ EventInv' /\ job' = [job EXCEPT ![w] = Idle]
         /\ job[w].at = "checkin"
         /\ \A t \in DOMAIN registrations \ {job[w].ticket} :
              t \in DOMAIN registrations' /\ registrations'[t] = registrations[t]
  <1>1. PICK t \in DOMAIN registrations, a \in Staff : job[w].ticket = t /\ job[w].by = a
    BY TicketFields DEF CheckIn, EventInv
  <1>2. PICK row : row = [registrations[t] EXCEPT !.checkedInBy = a]
    OBVIOUS
  <1>3. registrations[t] \in Registration
    BY TicketRows DEF EventInv
  <1>4. row \in Registration
    BY <1>2, <1>3 DEF Registration
  <1>5. registrations' = [registrations EXCEPT ![t] = row] /\ job' = [job EXCEPT ![w] = Idle]
    BY <1>1, <1>2 DEF CheckIn, Finish
  <1> QED
    BY <1>1, <1>4, <1>5, TicketReplaced, EventMove DEF EventInv, CheckIn

\* The steps that leave the table alone.
LEMMA TicketRead ==
  ASSUME EventInv, NEW w \in Workers,
         \/ \E m \in Mobiles, e \in Emails : FindTicket(w, m, e)
         \/ RefetchTicket(w)
         \/ \E t \in DOMAIN registrations : resendWhatsapp(w, t) \/ \E a \in Staff : Scan(w, t, a)
  PROVE  /\ EventInv' /\ registrations' = registrations
         /\ job' = [job EXCEPT ![w] = job'[w]]
         /\ job'[w].at = "checkin" => registrations[job'[w].ticket].checkedInBy = None
  <1>1. CASE RefetchTicket(w)
    <2>1. registrations' = registrations /\ job' = [job EXCEPT ![w] = Idle]
      BY <1>1 DEF RefetchTicket, Finish
    <2> QED
      BY <2>1, EventMove DEF EventInv, Idle
  <1>2. ASSUME NEW m \in Mobiles, NEW e \in Emails, FindTicket(w, m, e)
        PROVE  /\ EventInv' /\ registrations' = registrations
               /\ job' = [job EXCEPT ![w] = job'[w]] /\ job'[w].at # "checkin"
    <2>1. PICK j : j = [at |-> "insertTicket", mobile |-> m, email |-> e]
      OBVIOUS
    <2>2. registrations' = registrations /\ job' = [job EXCEPT ![w] = j] /\ j.at # "checkin"
      BY <1>2, <2>1 DEF FindTicket, Begin
    <2> QED
      BY <2>1, <2>2, EventMove DEF EventInv
  <1>3. ASSUME NEW t \in DOMAIN registrations, resendWhatsapp(w, t)
        PROVE  /\ EventInv' /\ registrations' = registrations
               /\ job' = [job EXCEPT ![w] = job'[w]] /\ job'[w].at # "checkin"
    <2>1. PICK j : j = [at |-> "send", ticket |-> t]
      OBVIOUS
    <2>2. registrations' = registrations /\ job' = [job EXCEPT ![w] = j] /\ j.at # "checkin"
      BY <1>3, <2>1 DEF resendWhatsapp, Begin
    <2> QED
      BY <2>1, <2>2, EventMove DEF EventInv
  <1>4. ASSUME NEW t \in DOMAIN registrations, NEW a \in Staff, Scan(w, t, a)
        PROVE  /\ EventInv' /\ registrations' = registrations
               /\ job' = [job EXCEPT ![w] = job'[w]]
               /\ registrations[job'[w].ticket].checkedInBy = None
    <2>1. PICK j : j = [at |-> "checkin", ticket |-> t, by |-> a]
      OBVIOUS
    <2>2. registrations' = registrations /\ job' = [job EXCEPT ![w] = j] /\ j.ticket = t
      BY <1>4, <2>1 DEF Scan, Begin
    <2>3. EventInv' /\ job'[w] = j
      BY <2>1, <2>2, EventMove DEF EventInv
    <2> QED
      BY <1>4, <2>2, <2>3 DEF Scan
  <1> QED
    BY <1>1, <1>2, <1>3, <1>4

\* No step breaks EventInv.
LEMMA EventKept ==
  ASSUME EventInv, [EventNext]_eventVars
  PROVE  EventInv'
  <1>1. CASE UNCHANGED eventVars
    BY <1>1 DEF eventVars, EventInv, EventJob
  <1> QED
    BY <1>1, TicketInserted, TicketSent, CheckedIn, TicketRead DEF EventNext

\* Nobody is registered at first.
LEMMA EventStarted ==
  ASSUME EventInit
  PROVE  EventInv
  BY DEF EventInit, EventInv, EventJob, NoJobs, Idle

\* The invariant of the entries: a ticket that is not checked in has let nobody
\* in, so that scans that race are scans of a ticket with no entries.
EntryInv ==
  /\ entries \in Seq(Nat) /\ Len(entries) = Len(registrations)
  /\ \A t \in DOMAIN registrations : registrations[t].checkedInBy = None => entries[t] = 0
  /\ EntriesBounded

\* Each ticket has its entries.
LEMMA EntryRows ==
  ASSUME EventInv, EntryInv
  PROVE  /\ Len(entries) \in Nat /\ DOMAIN entries = 1..Len(entries)
         /\ DOMAIN registrations = DOMAIN entries
         /\ \A t \in DOMAIN registrations : entries[t] \in Nat
  BY TicketRows DEF EventInv, EntryInv

\* The scans of a ticket under way are counted.
LEMMA ScansCounted ==
  ASSUME EventInv, NEW t
  PROVE  /\ IsFiniteSet(Scanning(t)) /\ Cardinality(Scanning(t)) \in Nat
         /\ Cardinality(Workers) \in Nat
         /\ Cardinality(Scanning(t)) <= Cardinality(Workers)
         /\ IsFiniteSet(Scanning(t)') /\ Cardinality(Scanning(t)') \in Nat
         /\ Cardinality(Scanning(t)') <= Cardinality(Workers)
         /\ Scanning(t)' \subseteq Scanning(t)
               => Cardinality(Scanning(t)') <= Cardinality(Scanning(t))
         /\ \A w : Cardinality(Scanning(t) \ {w}) =
                    IF w \in Scanning(t) THEN Cardinality(Scanning(t)) - 1
                    ELSE Cardinality(Scanning(t))
  <1>1. Scanning(t) \in SUBSET Workers /\ Scanning(t)' \in SUBSET Workers
    BY DEF Scanning
  <1> QED
    BY <1>1, OtpCounts

\* A worker that stops scanning, or does not begin to, adds nobody.
LEMMA NoScanBegins ==
  ASSUME EventInv, NEW w \in Workers, NEW t, job' = [job EXCEPT ![w] = job'[w]],
         job'[w].at = "checkin" => job'[w].ticket # t
  PROVE  Scanning(t)' = Scanning(t) \ {w}
  <1>1. \A v \in Workers \ {w} : job'[v] = job[v]
    BY DEF EventInv
  <1> QED
    BY <1>1 DEF Scanning

\* A step that leaves the entries alone, and begins no scan of a ticket that
\* has some.
LEMMA EntriesStay ==
  ASSUME EventInv, EntryInv, EventInv', entries' = entries,
         DOMAIN registrations' = DOMAIN registrations, Len(registrations') = Len(registrations),
         \A t \in DOMAIN registrations :
           registrations'[t].checkedInBy = registrations[t].checkedInBy,
         NEW w \in Workers, job' = [job EXCEPT ![w] = job'[w]],
         \A t \in DOMAIN registrations :
           job'[w].at = "checkin" /\ job'[w].ticket = t => registrations[t].checkedInBy = None
  PROVE  EntryInv'
  <1>1. ASSUME NEW t \in DOMAIN registrations
        PROVE  entries[t] + Cardinality(Scanning(t)') <= Cardinality(Workers)
    <2>1. CASE job'[w].at = "checkin" /\ job'[w].ticket = t
      <3>1. entries[t] = 0
        BY <2>1 DEF EntryInv
      <3> QED
        BY <3>1, ScansCounted
    <2>2. CASE ~(job'[w].at = "checkin" /\ job'[w].ticket = t)
      <3>1. Scanning(t)' \subseteq Scanning(t)
        BY <2>2, NoScanBegins
      <3>2. entries[t] \in Nat /\ entries[t] + Cardinality(Scanning(t)) <= Cardinality(Workers)
        BY EntryRows DEF EntryInv, EntriesBounded
      <3> QED
        BY <3>1, <3>2, ScansCounted
    <2> QED
      BY <2>1, <2>2
  <1> QED
    BY <1>1 DEF EntryInv, EntriesBounded

\* A new ticket has let nobody in.
LEMMA EntryAdded ==
  ASSUME EventInv, EntryInv, NEW w \in Workers, InsertTicket(w)
  PROVE  EntryInv'
  <1>1. /\ EventInv' /\ job' = [job EXCEPT ![w] = job'[w]] /\ job'[w].at # "checkin"
        /\ \A t \in DOMAIN registrations : registrations'[t] = registrations[t]
    BY TicketInserted
  <1>2. CASE UNCHANGED <<registrations, entries>>
    BY <1>1, <1>2, EntriesStay
  <1>3. CASE entries' = Append(entries, 0)
             /\ \E row : registrations' = Append(registrations, row)
    <2>1. /\ entries' \in Seq(Nat) /\ Len(entries') = Len(registrations')
          /\ DOMAIN registrations' = DOMAIN registrations \cup {Len(registrations')}
          /\ entries'[Len(registrations')] = 0
          /\ \A t \in DOMAIN registrations : entries'[t] = entries[t]
      BY <1>1, <1>3, EntryRows, TicketRows DEF EntryInv, EventInv
    <2>2. ASSUME NEW t \in DOMAIN registrations
          PROVE  entries'[t] + Cardinality(Scanning(t)') <= Cardinality(Workers)
      <3>1. Scanning(t)' \subseteq Scanning(t)
        BY <1>1, NoScanBegins
      <3>2. entries[t] \in Nat /\ entries[t] + Cardinality(Scanning(t)) <= Cardinality(Workers)
        BY EntryRows DEF EntryInv, EntriesBounded
      <3> QED
        BY <2>1, <3>1, <3>2, ScansCounted
    <2>3. ASSUME NEW t
          PROVE  Cardinality(Scanning(t)') \in Nat
                 /\ Cardinality(Scanning(t)') <= Cardinality(Workers)
      BY ScansCounted
    <2>4. ASSUME NEW t \in DOMAIN registrations'
          PROVE  /\ entries'[t] + Cardinality(Scanning(t)') <= Cardinality(Workers)
                 /\ registrations'[t].checkedInBy = None => entries'[t] = 0
      <3>1. CASE t \in DOMAIN registrations
        BY <1>1, <2>1, <2>2, <3>1 DEF EntryInv
      <3>2. CASE t = Len(registrations')
        BY <2>1, <2>3, <3>2, OtpCounts
      <3> QED
        BY <2>1, <3>1, <3>2
    <2> QED
      BY <2>1, <2>4 DEF EntryInv, EntriesBounded
  <1> QED
    BY <1>2, <1>3 DEF InsertTicket

\* Who is checked in was about to be.
LEMMA EntryCounted ==
  ASSUME EventInv, EntryInv, NEW w \in Workers, CheckIn(w)
  PROVE  EntryInv'
  <1>1. PICK t \in DOMAIN registrations, a \in Staff : job[w].ticket = t /\ job[w].by = a
    BY TicketFields DEF CheckIn, EventInv
  <1>2. /\ EventInv' /\ job' = [job EXCEPT ![w] = Idle] /\ w \in Scanning(t)
        /\ \A u \in DOMAIN registrations \ {t} : registrations'[u] = registrations[u]
    BY <1>1, CheckedIn DEF Scanning
  <1>3. job' = [job EXCEPT ![w] = job'[w]] /\ job'[w].at # "checkin"
    BY <1>2 DEF EventInv, Idle
  <1>4. /\ entries' = [entries EXCEPT ![t] = entries[t] + 1]
        /\ DOMAIN registrations' = DOMAIN registrations
        /\ Len(registrations') = Len(registrations)
        /\ registrations'[t].checkedInBy = a /\ a # None
    <2>1. registrations[t] \in Registration
      BY TicketRows DEF EventInv
    <2>2. registrations' = [registrations EXCEPT ![t].checkedInBy = a]
      BY <1>1 DEF CheckIn
    <2>3. a # None
      BY EventConstants
    <2> QED
      BY <1>1, <2>1, <2>2, <2>3, TicketRows DEF CheckIn, EventInv, Registration
  <1>5. /\ entries' \in Seq(Nat) /\ Len(entries') = Len(entries)
        /\ entries'[t] = entries[t] + 1
        /\ \A u \in DOMAIN registrations \ {t} : entries'[u] = entries[u]
    BY <1>4, EntryRows, ExceptSeq DEF EntryInv
  <1>6. ASSUME NEW u \in DOMAIN registrations
        PROVE  entries'[u] + Cardinality(Scanning(u)') <= Cardinality(Workers)
    <2>1. Scanning(u)' = Scanning(u) \ {w}
      BY <1>3, NoScanBegins
    <2>2. entries[u] \in Nat /\ entries[u] + Cardinality(Scanning(u)) <= Cardinality(Workers)
      BY EntryRows DEF EntryInv, EntriesBounded
    <2>3. Cardinality(Scanning(u)') = IF w \in Scanning(u) THEN Cardinality(Scanning(u)) - 1
                                      ELSE Cardinality(Scanning(u))
      BY <2>1, ScansCounted
    <2> QED
      BY <1>2, <1>5, <2>2, <2>3, ScansCounted
  <1> QED
    BY <1>2, <1>4, <1>5, <1>6 DEF EntryInv, EntriesBounded

\* No step breaks EntryInv.
LEMMA EntriesKept ==
  ASSUME EventInv, EntryInv, [EventNext]_eventVars
  PROVE  EntryInv'
  <1>1. CASE UNCHANGED eventVars
    BY <1>1 DEF eventVars, EntryInv, EntriesBounded, Scanning
  <1>2. ASSUME NEW w \in Workers, NEW status \in WhatsappStatus, sendTicket(w, status)
        PROVE  EntryInv'
    <2>1. /\ EventInv' /\ job' = [job EXCEPT ![w] = Idle]
          /\ \A t \in DOMAIN registrations :
               registrations'[t].checkedInBy = registrations[t].checkedInBy
      BY <1>2, TicketSent
    <2>2. job' = [job EXCEPT ![w] = job'[w]] /\ job'[w].at # "checkin"
      BY <2>1 DEF EventInv, Idle
    <2>3. /\ DOMAIN registrations' = DOMAIN registrations
          /\ Len(registrations') = Len(registrations) /\ entries' = entries
      BY <1>2, TicketRows DEF sendTicket, EventInv
    <2> QED
      BY <2>1, <2>2, <2>3, EntriesStay
  <1>3. ASSUME NEW w \in Workers,
               \/ \E m \in Mobiles, e \in Emails : FindTicket(w, m, e)
               \/ RefetchTicket(w)
               \/ \E k \in DOMAIN registrations :
                    resendWhatsapp(w, k) \/ \E a \in Staff : Scan(w, k, a)
        PROVE  EntryInv'
    <2>1. entries' = entries
      BY <1>3 DEF FindTicket, RefetchTicket, resendWhatsapp, Scan
    <2> QED
      BY <1>3, <2>1, TicketRead, EntriesStay
  <1> QED
    BY <1>1, <1>2, <1>3, EntryAdded, EntryCounted DEF EventNext

\* Nobody is in at first.
LEMMA EntriesStarted ==
  ASSUME EventInit
  PROVE  EntryInv
  BY DEF EventInit, EntryInv, EntriesBounded

\* Every ticket and request is of its type.
THEOREM TicketsAreTyped == EventSpec => []EventTypeOK
  <1>1. EventInv /\ EntryInv => EventTypeOK
    BY TicketRows, EntryRows DEF EventInv, EventTypeOK
  <1> QED
    BY <1>1, EventStarted, EventKept, EntriesStarted, EntriesKept, PTL DEF EventSpec

\* A ticket is checked in no more often than there are requests at once.
THEOREM FewDoubleEntries == EventSpec => []EntriesBounded
  <1>1. EntryInv => EntriesBounded
    BY DEF EntryInv
  <1> QED
    BY <1>1, EventStarted, EventKept, EntriesStarted, EntriesKept, PTL DEF EventSpec

---------------------------------------------------------------------------
(* Admins *)

\* The rows a request goes on with are there, and its actor is not the one
\* it takes rights from.
Checked(j) ==
  /\ j.at # "idle" => admins[j.actor] # None
  /\ j.at = "updateAdmin" => /\ admins[j.admin] # None
                             /\ ~OnOneself(j.actor, j.admin, j.change)

\* The inductive invariant of the team.
AdminInv == AdminTypeOK /\ \A w \in Workers : Checked(job[w])

\* The record a request is at, by the stage.
LEMMA AdminFields ==
  ASSUME NEW j \in AdminJob
  PROVE  /\ j.at # "idle" => j.actor \in AdminIds
         /\ j.at \in {"password", "secondFactor", "code", "setup", "enable", "disable"}
              => j = [at |-> j.at, actor |-> j.actor]
         /\ j.at = "insertAdmin" => j.admin \in AdminIds /\ j.role \in AdminRole
         /\ j.at = "updateAdmin" => j.admin \in AdminIds /\ j.change \in Changes
  BY DEF AdminJob, Idle

\* The columns of a row.
LEMMA AdminFieldsOf ==
  ASSUME NEW row \in AdminUser
  PROVE  /\ row # None /\ row.role \in AdminRole /\ row.isActive \in BOOLEAN
         /\ row.secret \in Secrets \cup {None} /\ row.enabled \in BOOLEAN
  BY AdminRows DEF AdminUser

\* What is not null is a row.
LEMMA AdminRowOf ==
  ASSUME AdminTypeOK, NEW a \in AdminIds, admins[a] # None
  PROVE  admins[a] \in AdminUser
  BY DEF AdminTypeOK

\* A step of worker w to j while no row goes away.
LEMMA AdminMove ==
  ASSUME AdminInv, admins' \in [AdminIds -> AdminUser \cup {None}],
         \A a \in AdminIds : admins[a] # None => admins'[a] # None,
         sessions' \subseteq AdminIds, met' \subseteq Workers,
         NEW w \in Workers, NEW j \in AdminJob, Checked(j), job' = [job EXCEPT ![w] = j]
  PROVE  AdminInv'
  <1>1. \A k \in AdminJob : Checked(k) => Checked(k)'
    BY AdminFields DEF Checked
  <1>2. \A v \in Workers : job'[v] \in AdminJob /\ Checked(job'[v])
    BY DEF AdminInv, AdminTypeOK
  <1>3. ASSUME NEW v \in Workers PROVE Checked(job[v])'
    <2>1. PICK k \in AdminJob : k = job'[v] /\ Checked(k)
      BY <1>2
    <2>2. Checked(k)'
      BY <1>1, <2>1
    <2> QED
      BY <2>1, <2>2 DEF Checked
  <1>4. job' \in [Workers -> AdminJob]
    BY DEF AdminInv, AdminTypeOK
  <1> QED
    BY <1>3, <1>4 DEF AdminInv, AdminTypeOK

\* One row is replaced by a request that ends.
LEMMA AdminWrote ==
  ASSUME AdminInv, NEW w \in Workers, NEW a \in AdminIds, NEW row \in AdminUser,
         admins' = [admins EXCEPT ![a] = row], sessions' = sessions,
         met' \subseteq Workers, job' = [job EXCEPT ![w] = Idle]
  PROVE  AdminInv' /\ admins'[a] = row /\ \A b \in AdminIds \ {a} : admins'[b] = admins[b]
  <1>1. /\ admins' \in [AdminIds -> AdminUser \cup {None}] /\ admins'[a] = row
        /\ \A b \in AdminIds \ {a} : admins'[b] = admins[b]
    BY DEF AdminInv, AdminTypeOK
  <1>2. \A b \in AdminIds : admins[b] # None => admins'[b] # None
    BY <1>1, AdminFieldsOf
  <1>3. Idle \in AdminJob /\ Checked(Idle)
    BY DEF AdminJob, Checked, Idle
  <1> QED
    BY <1>1, <1>2, <1>3, AdminMove DEF AdminInv, AdminTypeOK

\* A request comes in from an admin who may do what it is about.
LEMMA AdminArrived ==
  ASSUME AdminInv, NEW w \in Workers, AdminArrive(w)
  PROVE  /\ AdminInv' /\ admins' = admins
         /\ \E a \in AdminIds :
              /\ Active(a) /\ job'[w].actor = a /\ job' = [job EXCEPT ![w] = job'[w]]
              /\ job'[w].at = "password" => admins[a].enabled # TRUE
  <1>1. ASSUME NEW a \in AdminIds, Active(a), NEW j \in AdminJob, j.actor = a,
               j.at # "updateAdmin", Begin(w, j), UNCHANGED <<admins, sessions, met>>,
               j.at = "password" => admins[a].enabled # TRUE
        PROVE  /\ AdminInv' /\ admins' = admins
               /\ Active(a) /\ job'[w].actor = a /\ job' = [job EXCEPT ![w] = job'[w]]
               /\ job'[w].at = "password" => admins[a].enabled # TRUE
    <2>1. Checked(j) /\ job' = [job EXCEPT ![w] = j]
      BY <1>1 DEF Checked, Active, Begin
    <2>2. AdminInv'
      BY <1>1, <2>1, AdminMove DEF AdminInv, AdminTypeOK
    <2>3. job'[w] = j
      BY <2>1 DEF AdminInv, AdminTypeOK
    <2> QED
      BY <1>1, <2>1, <2>2, <2>3
  <1>2. ASSUME NEW a \in AdminIds, LoginAdmin(w, a)
        PROVE  /\ AdminInv' /\ admins' = admins
               /\ Active(a) /\ job'[w].actor = a /\ job' = [job EXCEPT ![w] = job'[w]]
               /\ job'[w].at = "password" => admins[a].enabled # TRUE
    <2>1. PICK j : /\ j = [at |-> IF admins[a].enabled THEN "secondFactor" ELSE "password",
                           actor |-> a]
      OBVIOUS
    <2>2. j \in AdminJob /\ j.actor = a /\ j.at # "updateAdmin"
      BY <2>1 DEF AdminJob
    <2>3. j.at = "password" => admins[a].enabled # TRUE
      BY <2>1
    <2> QED
      BY <1>1, <1>2, <2>1, <2>2, <2>3 DEF LoginAdmin
  <1>3. ASSUME NEW a \in AdminIds, NEW at \in {"setup", "disable", "enable"},
               authenticateAdmin(a), Begin(w, [at |-> at, actor |-> a]),
               UNCHANGED <<admins, sessions, met>>
        PROVE  /\ AdminInv' /\ admins' = admins
               /\ Active(a) /\ job'[w].actor = a /\ job' = [job EXCEPT ![w] = job'[w]]
               /\ job'[w].at = "password" => admins[a].enabled # TRUE
    <2>1. PICK j : j = [at |-> at, actor |-> a]
      OBVIOUS
    <2>2. /\ j \in AdminJob /\ j.actor = a /\ j.at # "updateAdmin" /\ j.at # "password"
      BY <2>1 DEF AdminJob
    <2> QED
      BY <1>1, <1>3, <2>1, <2>2 DEF authenticateAdmin
  <1>4. ASSUME NEW a \in AdminIds, NEW b \in AdminIds, NEW role \in AdminRole,
               FindAdmin(w, a, b, role)
        PROVE  /\ AdminInv' /\ admins' = admins
               /\ Active(a) /\ job'[w].actor = a /\ job' = [job EXCEPT ![w] = job'[w]]
               /\ job'[w].at = "password" => admins[a].enabled # TRUE
    <2>1. PICK j : j = [at |-> "insertAdmin", actor |-> a, admin |-> b, role |-> role]
      OBVIOUS
    <2>2. /\ j \in AdminJob /\ j.actor = a /\ j.at # "updateAdmin" /\ j.at # "password"
      BY <2>1 DEF AdminJob
    <2> QED
      BY <1>1, <1>4, <2>1, <2>2 DEF FindAdmin, requireSuperAdmin, Supers
  <1>5. ASSUME NEW a \in AdminIds, NEW b \in AdminIds, NEW change \in Changes,
               CheckUpdate(w, a, b, change)
        PROVE  /\ AdminInv' /\ admins' = admins
               /\ Active(a) /\ job'[w].actor = a /\ job' = [job EXCEPT ![w] = job'[w]]
               /\ job'[w].at = "password" => admins[a].enabled # TRUE
    <2>1. PICK j : j = [at |-> "updateAdmin", actor |-> a, admin |-> b, change |-> change]
      OBVIOUS
    <2>2. /\ j \in AdminJob /\ j.actor = a /\ j.at # "password" /\ j.admin = b
          /\ j.change = change /\ j.at # "idle"
      BY <2>1 DEF AdminJob
    <2>3. /\ Active(a) /\ admins[a] # None /\ ~OnOneself(a, b, change) /\ admins[b] # None
          /\ UNCHANGED <<admins, sessions>> /\ job' = [job EXCEPT ![w] = j]
          /\ met' \subseteq Workers
      BY <1>5, <2>1 DEF CheckUpdate, requireSuperAdmin, Supers, Active, Begin, Meet, Updating,
         AdminInv, AdminTypeOK
    <2>4. Checked(j)
      BY <2>2, <2>3 DEF Checked
    <2>5. AdminInv'
      BY <2>2, <2>3, <2>4, AdminMove DEF AdminInv, AdminTypeOK
    <2>6. job'[w] = j
      BY <2>3 DEF AdminInv, AdminTypeOK
    <2> QED
      BY <2>2, <2>3, <2>5, <2>6
  <1> QED
    BY <1>2, <1>3, <1>4, <1>5 DEF AdminArrive, SetUp, TurnOff, ConfirmSecret

\* A request that writes changes one row, and an update of the second factor
\* changes neither the role nor whether the admin is active.
LEMMA AdminStepped ==
  ASSUME AdminInv, NEW w \in Workers,
         \/ WriteEnabled(w) \/ WriteDisabled(w)
         \/ \E s \in Secrets : WriteSecret(w, s)
  PROVE  /\ AdminInv' /\ job' = [job EXCEPT ![w] = Idle]
         /\ \A b \in AdminIds : admins[b] # None => /\ admins'[b] # None
                                                    /\ admins'[b].role = admins[b].role
                                                    /\ admins'[b].isActive = admins[b].isActive
  <1>1. PICK a \in AdminIds : job[w].actor = a /\ admins[a] # None
    BY AdminFields DEF AdminInv, AdminTypeOK, Checked, WriteEnabled, WriteDisabled, WriteSecret
  <1>2. admins[a] \in AdminUser
    BY <1>1, AdminRowOf DEF AdminInv
  <1>3. PICK row : /\ row \in AdminUser /\ row.role = admins[a].role
                   /\ row.isActive = admins[a].isActive
                   /\ admins' = [admins EXCEPT ![a] = row]
    <2>1. CASE WriteEnabled(w)
      <3>1. PICK row : row = [admins[a] EXCEPT !.enabled = TRUE]
        OBVIOUS
      <3>2. row \in AdminUser /\ row.role = admins[a].role /\ row.isActive = admins[a].isActive
        BY <1>2, <3>1 DEF AdminUser
      <3> QED
        BY <1>1, <2>1, <3>1, <3>2 DEF WriteEnabled
    <2>2. CASE WriteDisabled(w)
      <3>1. PICK row : row = [admins[a] EXCEPT !.enabled = FALSE, !.secret = None]
        OBVIOUS
      <3>2. row \in AdminUser /\ row.role = admins[a].role /\ row.isActive = admins[a].isActive
        BY <1>2, <3>1 DEF AdminUser
      <3>3. admins' = [admins EXCEPT ![a].enabled = FALSE, ![a].secret = None]
        BY <1>1, <2>2 DEF WriteDisabled
      <3>4. admins' = [admins EXCEPT ![a] = row]
        BY <3>1, <3>3, <1>2 DEF AdminInv, AdminTypeOK
      <3> QED
        BY <3>2, <3>4
    <2>3. ASSUME NEW s \in Secrets, WriteSecret(w, s)
          PROVE  \E row : /\ row \in AdminUser /\ row.role = admins[a].role
                          /\ row.isActive = admins[a].isActive
                          /\ admins' = [admins EXCEPT ![a] = row]
      <3>1. PICK row : row = [admins[a] EXCEPT !.secret = s]
        OBVIOUS
      <3>2. row \in AdminUser /\ row.role = admins[a].role /\ row.isActive = admins[a].isActive
        BY <1>2, <3>1 DEF AdminUser
      <3> QED
        BY <1>1, <2>3, <3>1, <3>2 DEF WriteSecret
    <2> QED
      BY <2>1, <2>2, <2>3
  <1>4. sessions' = sessions /\ met' \subseteq Workers /\ job' = [job EXCEPT ![w] = Idle]
    BY DEF WriteEnabled, WriteDisabled, WriteSecret, Finish, AdminInv, AdminTypeOK
  <1>5. AdminInv' /\ admins'[a] = row /\ \A b \in AdminIds \ {a} : admins'[b] = admins[b]
    BY <1>3, <1>4, AdminWrote
  <1>6. row # None
    BY <1>3, AdminFieldsOf
  <1> QED
    BY <1>3, <1>4, <1>5, <1>6

\* A new admin leaves the others alone.
LEMMA AdminInserted ==
  ASSUME AdminInv, NEW w \in Workers, InsertAdmin(w)
  PROVE  /\ AdminInv' /\ job' = [job EXCEPT ![w] = Idle]
         /\ \A b \in AdminIds : admins[b] # None => admins'[b] = admins[b]
  <1>1. PICK a \in AdminIds, role \in AdminRole : job[w].admin = a /\ job[w].role = role
    BY AdminFields DEF InsertAdmin, AdminInv, AdminTypeOK
  <1>2. job' = [job EXCEPT ![w] = Idle] /\ sessions' = sessions /\ met' \subseteq Workers
    BY DEF InsertAdmin, Finish, AdminInv, AdminTypeOK
  <1>3. CASE admins[a] = None
    <2>1. PICK row : row = NewAdmin(role)
      OBVIOUS
    <2>2. row \in AdminUser /\ admins' = [admins EXCEPT ![a] = row]
      BY <1>1, <1>3, <2>1 DEF InsertAdmin, NewAdmin, AdminUser
    <2> QED
      BY <1>2, <1>3, <2>2, AdminWrote
  <1>4. CASE admins[a] # None
    <2>1. admins' = admins
      BY <1>1, <1>4 DEF InsertAdmin
    <2>2. Idle \in AdminJob /\ Checked(Idle)
      BY DEF AdminJob, Checked, Idle
    <2> QED
      BY <1>2, <2>1, <2>2, AdminMove DEF AdminInv, AdminTypeOK
  <1> QED
    BY <1>3, <1>4

\* An update by a super admin leaves that admin one.
LEMMA AdminUpdated ==
  ASSUME AdminInv, NEW w \in Workers, WriteUpdate(w)
  PROVE  /\ AdminInv' /\ job' = [job EXCEPT ![w] = Idle] /\ job[w].at = "updateAdmin"
         /\ job[w].actor \in Supers => job[w].actor \in Supers'
  <1>1. PICK a \in AdminIds, b \in AdminIds, change \in Changes :
          /\ job[w].actor = a /\ job[w].admin = b /\ job[w].change = change
          /\ job[w].at = "updateAdmin" /\ ~OnOneself(a, b, change)
          /\ admins[a] # None /\ admins[b] # None
    BY AdminFields DEF WriteUpdate, AdminInv, AdminTypeOK, Checked
  <1>2. admins[b] \in AdminUser
    BY <1>1, AdminRowOf DEF AdminInv
  <1>3. PICK r, i : /\ r = (IF change.role = None THEN admins[b].role ELSE change.role)
                    /\ i = (IF change.isActive = None THEN admins[b].isActive
                            ELSE change.isActive)
    OBVIOUS
  <1>4. /\ r \in AdminRole /\ i \in BOOLEAN
        /\ change.role = None \/ change.isActive = None
        /\ change.isActive \in BOOLEAN \cup {None}
    BY <1>2, <1>3, AdminFieldsOf DEF Changes
  <1>5. PICK row : row = [admins[b] EXCEPT !.role = r, !.isActive = i]
    OBVIOUS
  <1>6. row \in AdminUser /\ row.role = r /\ row.isActive = i
    BY <1>2, <1>4, <1>5 DEF AdminUser
  <1>7. admins' = [admins EXCEPT ![b].role = r, ![b].isActive = i]
    <2>1. [admins EXCEPT ![b].role = r].isActive = [admins EXCEPT ![b].role = r].isActive
      OBVIOUS
    <2>2. [admins EXCEPT ![b].role = r][b].isActive = admins[b].isActive
      BY <1>2 DEF AdminInv, AdminTypeOK, AdminUser
    <2> QED
      BY <1>1, <1>3, <2>2 DEF WriteUpdate
  <1>8. admins' = [admins EXCEPT ![b] = row]
    BY <1>2, <1>5, <1>7 DEF AdminInv, AdminTypeOK
  <1>9. job' = [job EXCEPT ![w] = Idle] /\ sessions' = sessions /\ met' \subseteq Workers
    BY DEF WriteUpdate, Finish, AdminInv, AdminTypeOK
  <1>10. AdminInv' /\ admins'[b] = row /\ \A c \in AdminIds \ {b} : admins'[c] = admins[c]
    BY <1>6, <1>8, <1>9, AdminWrote
  <1>11. ASSUME a \in Supers PROVE a \in Supers'
    <2>1. CASE a # b
      BY <1>10, <1>11, <2>1 DEF Supers, Active
    <2>2. CASE a = b
      <3>1. change.role = None /\ change.isActive # FALSE
        BY <1>1, <2>2 DEF OnOneself
      <3>2. r = admins[b].role /\ (i = admins[b].isActive \/ i = TRUE)
        BY <1>3, <1>4, <3>1
      <3>3. admins[b].role = "SUPER_ADMIN" /\ admins[b].isActive
        BY <1>11, <2>2 DEF Supers, Active
      <3>4. row # None
        BY <1>6, AdminFieldsOf
      <3> QED
        BY <1>6, <1>10, <2>2, <3>2, <3>3, <3>4 DEF Supers, Active
    <2> QED
      BY <2>1, <2>2
  <1> QED
    BY <1>1, <1>9, <1>10, <1>11

\* The steps that leave the team alone.
LEMMA AdminRead ==
  ASSUME AdminInv, NEW w \in Workers,
         GrantSession(w) \/ \E s \in Secrets : VerifyTwoFactorLogin(w, s)
  PROVE  /\ AdminInv' /\ admins' = admins
         /\ \/ job' = [job EXCEPT ![w] = Idle]
            \/ /\ Active(job[w].actor)
               /\ job' = [job EXCEPT ![w] = [at |-> "code", actor |-> job[w].actor]]
  <1>1. Idle \in AdminJob /\ Checked(Idle)
    BY DEF AdminJob, Checked, Idle
  <1>2. PICK a \in AdminIds : job[w].actor = a /\ admins[a] # None
    BY AdminFields DEF AdminInv, AdminTypeOK, Checked, GrantSession, VerifyTwoFactorLogin
  <1>3. admins' = admins /\ sessions' \subseteq AdminIds /\ met' \subseteq Workers
    BY <1>2 DEF GrantSession, VerifyTwoFactorLogin, AdminInv, AdminTypeOK
  <1>4. CASE job' = [job EXCEPT ![w] = Idle]
    BY <1>1, <1>3, <1>4, AdminMove DEF AdminInv, AdminTypeOK
  <1>5. CASE job' # [job EXCEPT ![w] = Idle]
    <2>1. /\ job[w].at = "secondFactor" /\ Active(a)
          /\ job' = [job EXCEPT ![w] = [job[w] EXCEPT !.at = "code"]]
      BY <1>2, <1>5 DEF GrantSession, VerifyTwoFactorLogin, GoTo, Finish
    <2>2. job[w] = [at |-> "secondFactor", actor |-> a]
      BY <1>2, <2>1, AdminFields DEF AdminInv, AdminTypeOK
    <2>3. PICK j : j = [at |-> "code", actor |-> a]
      OBVIOUS
    <2>4. /\ j = [job[w] EXCEPT !.at = "code"] /\ j \in AdminJob /\ j.at # "updateAdmin"
          /\ j.actor = a
      BY <2>2, <2>3 DEF AdminJob
    <2>5. Checked(j)
      BY <1>2, <2>4 DEF Checked
    <2>6. job' = [job EXCEPT ![w] = j]
      BY <2>1, <2>4
    <2>7. AdminInv'
      BY <1>3, <2>4, <2>5, <2>6, AdminMove DEF AdminInv, AdminTypeOK
    <2> QED
      BY <1>2, <1>3, <2>1, <2>3, <2>6, <2>7
  <1> QED
    BY <1>4, <1>5

\* No step breaks AdminInv.
LEMMA AdminKept ==
  ASSUME AdminInv, [AdminNext]_adminVars
  PROVE  AdminInv'
  <1>1. CASE UNCHANGED adminVars
    BY <1>1 DEF adminVars, AdminInv, AdminTypeOK, Checked
  <1>2. ASSUME NEW a \in AdminIds, SessionExpires(a) PROVE AdminInv'
    BY <1>2 DEF SessionExpires, AdminInv, AdminTypeOK, Checked
  <1> QED
    BY <1>1, <1>2, AdminArrived, AdminStepped, AdminInserted, AdminUpdated, AdminRead
       DEF AdminNext, AdminStep

\* There is a super admin at first.
LEMMA AdminStarted ==
  ASSUME AdminInit
  PROVE  AdminInv
  <1>1. NewAdmin("SUPER_ADMIN") \in AdminUser
    BY DEF NewAdmin, AdminUser, AdminRole
  <1> QED
    BY <1>1 DEF AdminInit, AdminInv, AdminTypeOK, AdminJob, Checked, NoJobs, Idle

\* Every admin, session and request is of its type.
THEOREM AdminsAreTyped == AdminSpec => []AdminTypeOK
  <1>1. AdminInv => AdminTypeOK
    BY DEF AdminInv
  <1> QED
    BY <1>1, AdminStarted, AdminKept, PTL DEF AdminSpec

\* An update that has met no other is the only one, and its actor is still one
\* of the super admins.
LoneUpdates ==
  \A w \in Workers : job[w].at = "updateAdmin" /\ w \notin met =>
    /\ job[w].actor \in Supers
    /\ \A v \in Workers : job[v].at = "updateAdmin" => v = w

\* Of the requests that come in, only an update counts whom it meets.
LEMMA UpdateArrives ==
  ASSUME AdminInv, NEW w \in Workers, AdminArrive(w)
  PROVE  \/ met' = met /\ job'[w].at # "updateAdmin"
         \/ Meet(w) /\ job'[w].actor \in Supers
  <1>1. ASSUME NEW j, Begin(w, j) PROVE job'[w] = j
    BY <1>1 DEF Begin, AdminInv, AdminTypeOK
  <1>2. ASSUME NEW a \in AdminIds, NEW b \in AdminIds, NEW change \in Changes,
               CheckUpdate(w, a, b, change)
        PROVE  Meet(w) /\ job'[w].actor \in Supers
    BY <1>1, <1>2 DEF CheckUpdate, requireSuperAdmin
  <1>3. ASSUME NEW a \in AdminIds, NEW b \in AdminIds, NEW role \in AdminRole,
               FindAdmin(w, a, b, role)
        PROVE  met' = met /\ job'[w].at # "updateAdmin"
    BY <1>1, <1>3 DEF FindAdmin
  <1>4. ASSUME NEW a \in AdminIds,
               LoginAdmin(w, a) \/ SetUp(w, a) \/ TurnOff(w, a)
               \/ \E s \in Secrets : ConfirmSecret(w, a, s)
        PROVE  met' = met /\ job'[w].at # "updateAdmin"
    BY <1>1, <1>4 DEF LoginAdmin, SetUp, TurnOff, ConfirmSecret
  <1> QED
    BY <1>2, <1>3, <1>4 DEF AdminArrive

\* A statement ends an update, or none.
LEMMA UpdateSteps ==
  ASSUME AdminInv, NEW w \in Workers, AdminStep(w)
  PROVE  /\ job'[w].at # "updateAdmin"
         /\ \A v \in Workers \ {w} : job'[v] = job[v]
         /\ met \ {w} \subseteq met'
         /\ WriteUpdate(w) \/ Supers \subseteq Supers'
  <1>1. /\ job' = [job EXCEPT ![w] = Idle]
           \/ job' = [job EXCEPT ![w] = [at |-> "code", actor |-> job[w].actor]]
        /\ WriteUpdate(w) \/ \A a \in AdminIds : admins[a] # None =>
                                /\ admins'[a] # None /\ admins'[a].role = admins[a].role
                                /\ admins'[a].isActive = admins[a].isActive
    BY AdminStepped, AdminInserted, AdminUpdated, AdminRead DEF AdminStep
  <1>2. met \ {w} \subseteq met'
    BY DEF AdminStep, GrantSession, WriteEnabled, WriteDisabled, InsertAdmin, WriteUpdate,
       VerifyTwoFactorLogin, WriteSecret
  <1>3. job'[w] = Idle \/ job'[w].at = "code"
    <2>1. PICK j : j = [at |-> "code", actor |-> job[w].actor]
      OBVIOUS
    <2>2. j.at = "code" /\ (job'[w] = Idle \/ job'[w] = j)
      BY <1>1, <2>1 DEF AdminInv, AdminTypeOK
    <2> QED
      BY <2>2
  <1> QED
    BY <1>1, <1>2, <1>3 DEF AdminInv, AdminTypeOK, Idle, Supers, Active

\* No step breaks LoneUpdates.
LEMMA UpdatesKept ==
  ASSUME AdminInv, LoneUpdates, [AdminNext]_adminVars
  PROVE  LoneUpdates'
  <1>1. CASE UNCHANGED <<admins, met, job>>
    BY <1>1 DEF LoneUpdates, Supers, Active
  <1>2. ASSUME NEW w \in Workers, AdminArrive(w) PROVE LoneUpdates'
    <2>1. Supers' = Supers /\ job' = [job EXCEPT ![w] = job'[w]]
      BY <1>2, AdminArrived DEF Supers, Active
    <2>2. CASE met' = met /\ job'[w].at # "updateAdmin"
      BY <2>1, <2>2 DEF LoneUpdates, AdminInv, AdminTypeOK
    <2>3. CASE Meet(w) /\ job'[w].actor \in Supers
      <3>1. ASSUME NEW v \in Workers, job'[v].at = "updateAdmin", v \notin met'
            PROVE  v = w /\ Updating = {}
        BY <2>1, <2>3, <3>1 DEF Meet, Updating, AdminInv, AdminTypeOK
      <3>2. Updating = {} => \A v \in Workers : job'[v].at = "updateAdmin" => v = w
        BY <2>1 DEF Updating, AdminInv, AdminTypeOK
      <3> QED
        BY <2>1, <2>3, <3>1, <3>2 DEF LoneUpdates
    <2> QED
      BY <1>2, <2>2, <2>3, UpdateArrives
  <1>3. ASSUME NEW w \in Workers, AdminStep(w) PROVE LoneUpdates'
    <2>1. ASSUME NEW v \in Workers, job'[v].at = "updateAdmin", v \notin met'
          PROVE  /\ job'[v].actor \in Supers'
                 /\ \A k \in Workers : job'[k].at = "updateAdmin" => k = v
      <3>1. v # w /\ job'[v] = job[v] /\ v \notin met
        BY <1>3, <2>1, UpdateSteps
      <3>2. job[v].actor \in Supers /\ \A k \in Workers : job[k].at = "updateAdmin" => k = v
        BY <2>1, <3>1 DEF LoneUpdates
      <3>3. ~WriteUpdate(w)
        BY <3>1, <3>2 DEF WriteUpdate
      <3> QED
        BY <1>3, <3>1, <3>2, <3>3, UpdateSteps
    <2> QED
      BY <2>1 DEF LoneUpdates
  <1> QED
    BY <1>1, <1>2, <1>3 DEF AdminNext, SessionExpires, adminVars

\* Nobody updates the team at first.
LEMMA UpdatesStarted ==
  ASSUME AdminInit
  PROVE  LoneUpdates
  BY DEF AdminInit, LoneUpdates, NoJobs, Idle

\* The last super admin goes by an update that has met another.
LEMMA SupersKept ==
  ASSUME AdminInv, LoneUpdates, [AdminNext]_adminVars, Supers # {}, Supers' = {}
  PROVE  \E w \in met : job[w].at = "updateAdmin" /\ job'[w] = Idle
  <1>1. ASSUME admins' = admins PROVE FALSE
    BY <1>1 DEF Supers, Active
  <1>2. PICK w \in Workers : AdminStep(w)
    BY <1>1, AdminArrived DEF AdminNext, adminVars, SessionExpires
  <1>3. WriteUpdate(w)
    BY <1>2, UpdateSteps
  <1>4. /\ job' = [job EXCEPT ![w] = Idle] /\ job[w].at = "updateAdmin"
        /\ job[w].actor \notin Supers
    BY <1>3, AdminUpdated
  <1>5. w \in met /\ job'[w] = Idle
    BY <1>4 DEF LoneUpdates, AdminInv, AdminTypeOK
  <1> QED
    BY <1>4, <1>5

\* The last super admin goes only by an update that met another one, however
\* many requests and admins there are.
THEOREM SomebodyManages == AdminSpec => SupersRemain
  <1>1. AdminInv /\ LoneUpdates /\ [AdminNext]_adminVars
        => [Supers # {} /\ Supers' = {}
            => \E w \in met : job[w].at = "updateAdmin" /\ job'[w] = Idle]_adminVars
    BY SupersKept
  <1> QED
    BY <1>1, AdminStarted, AdminKept, UpdatesStarted, UpdatesKept, PTL
       DEF AdminSpec, SupersRemain

\* A request gets to where it acts for an admin only when the admin is active,
\* and to where a password is enough only when there is no second factor.
LEMMA ActingBegins ==
  ASSUME AdminInv, [AdminNext]_adminVars, NEW w \in Workers, NEW at \in ActorStages,
         NEW a \in AdminIds,
         job'[w].at = at /\ job'[w].actor = a, ~(job[w].at = at /\ job[w].actor = a)
  PROVE  /\ Active(a) /\ admins' = admins
         /\ at = "password" => admins[a].enabled # TRUE
  <1>1. job' # job /\ at # "idle" /\ Idle.at = "idle"
    BY DEF ActorStages, Idle
  <1>2. PICK v \in Workers : AdminArrive(v) \/ AdminStep(v)
    BY <1>1 DEF AdminNext, SessionExpires, adminVars
  <1>3. ASSUME job' = [job EXCEPT ![v] = Idle] PROVE FALSE
    BY <1>1, <1>3 DEF AdminInv, AdminTypeOK
  <1>4. CASE AdminArrive(v)
    BY <1>1, <1>4, AdminArrived DEF AdminInv, AdminTypeOK
  <1>5. CASE AdminStep(v)
    <2>1. /\ admins' = admins /\ Active(job[v].actor)
          /\ job' = [job EXCEPT ![v] = [at |-> "code", actor |-> job[v].actor]]
      BY <1>3, <1>5, AdminStepped, AdminInserted, AdminUpdated, AdminRead DEF AdminStep
    <2>2. v = w
      BY <2>1 DEF AdminInv, AdminTypeOK
    <2>3. PICK b : b = job[v].actor /\ job'[w] = [at |-> "code", actor |-> b]
      BY <2>1, <2>2 DEF AdminInv, AdminTypeOK
    <2>4. at = "code" /\ a = b
      BY <2>3
    <2> QED
      BY <2>1, <2>3, <2>4
  <1> QED
    BY <1>2, <1>4, <1>5

\* No step lets somebody in who was kept out.
LEMMA WayIn ==
  ASSUME AdminInv, [AdminNext]_adminVars, NEW a \in AdminIds
  PROVE  /\ admins[a] # None /\ ~Active(a) /\ ~Acting(a, ActorStages)
            => Active(a)' \/ ~Acting(a, ActorStages)'
         /\ admins[a] # None /\ admins[a].enabled /\ ~Acting(a, {"password"})
            => ~admins'[a].enabled \/ ~Acting(a, {"password"})'
  <1>1. ASSUME ~Active(a), ~Acting(a, ActorStages), Acting(a, ActorStages)'
        PROVE  FALSE
    <2>1. PICK w \in Workers : job'[w].at \in ActorStages /\ job'[w].actor = a
      BY <1>1 DEF Acting
    <2>2. PICK at \in ActorStages : at = job'[w].at
      BY <2>1
    <2>3. ~(job[w].at = at /\ job[w].actor = a)
      BY <1>1 DEF Acting
    <2> QED
      BY <1>1, <2>1, <2>2, <2>3, ActingBegins
  <1>2. ASSUME admins[a].enabled, ~Acting(a, {"password"}), Acting(a, {"password"})'
        PROVE  FALSE
    <2>1. PICK w \in Workers : job'[w].at = "password" /\ job'[w].actor = a
      BY <1>2 DEF Acting
    <2>2. ~(job[w].at = "password" /\ job[w].actor = a) /\ "password" \in ActorStages
      BY <1>2 DEF Acting, ActorStages
    <2> QED
      BY <1>2, <2>1, <2>2, ActingBegins
  <1> QED
    BY <1>1, <1>2

\* A deactivated admin gets nowhere, and a second factor is not gone around.
THEOREM DeactivatedStayOut == AdminSpec => NoWayIn
  <1>1. AdminInv /\ [AdminNext]_adminVars
        => [\A a \in AdminIds :
              /\ admins[a] # None /\ ~Active(a) /\ ~Acting(a, ActorStages)
                 => Active(a)' \/ ~Acting(a, ActorStages)'
              /\ admins[a] # None /\ admins[a].enabled /\ ~Acting(a, {"password"})
                 => ~admins'[a].enabled \/ ~Acting(a, {"password"})']_adminVars
    BY WayIn
  <1> QED
    BY <1>1, AdminStarted, AdminKept, PTL DEF AdminSpec, NoWayIn

---------------------------------------------------------------------------
(* Profiles *)

\* An address that a person has shown to be theirs, or none.
IsProven(person, email) ==
  email \in Mails =>
    \E v \in ProfileUsers : PersonOf[v] = person /\ <<v, email>> \in verified

\* What a request is about to write, and what it has read and will not ask
\* for again, is proven.
JobProven(j) ==
  /\ j.at \in WriteStages => IsProven(PersonOf[j.user], j.email)
  /\ j.at \in {"available", "verified"} => IsProven(PersonOf[j.user], j.old)

\* The inductive invariant of the addresses.
ProfileInv ==
  /\ ProfileTypeOK
  /\ EmailsAreProven
  /\ \A w \in Workers : JobProven(job[w])

\* The record a request is at, by the stage.
LEMMA ProfileFields ==
  ASSUME NEW j \in ProfileJob
  PROVE  /\ j.at \in {"available", "verified"}
              => /\ j.user \in ProfileUsers /\ j.email \in Mails
                 /\ j.old \in Writable \cup {Tombstone, None}
                 /\ j = [at |-> j.at, user |-> j.user, email |-> j.email, old |-> j.old]
         /\ j.at \in WriteStages
              => /\ j.user \in ProfileUsers /\ j.email \in Writable
                 /\ j = [at |-> j.at, user |-> j.user, email |-> j.email]
         /\ j.at = "tombstone" => j.named \in SUBSET ProfileUsers
  BY DEF ProfileJob, Idle, WriteStages

\* A step of worker w to j that writes proven addresses at most.
LEMMA ProfileMove ==
  ASSUME ProfileInv, profiles' \in [ProfileUsers -> Writable \cup {Tombstone, None}],
         \A u \in ProfileUsers : \/ profiles'[u] = profiles[u]
                                 \/ profiles'[u] \notin Mails
                                 \/ IsProven(PersonOf[u], profiles'[u]),
         verified' = verified, gone' \subseteq ProfileUsers,
         NEW w \in Workers, NEW j \in ProfileJob, JobProven(j), job' = [job EXCEPT ![w] = j]
  PROVE  ProfileInv'
  <1>1. EmailsAreProven'
    BY DEF ProfileInv, EmailsAreProven, IsProven
  <1>2. \A v \in Workers : job'[v] \in ProfileJob /\ JobProven(job'[v])
    BY DEF ProfileInv, ProfileTypeOK
  <1>3. ASSUME NEW v \in Workers PROVE JobProven(job[v])'
    <2>1. PICK k \in ProfileJob : k = job'[v] /\ JobProven(k)
      BY <1>2
    <2>2. JobProven(k)'
      BY <2>1 DEF JobProven, IsProven
    <2> QED
      BY <2>1, <2>2 DEF JobProven
  <1>4. job' \in [Workers -> ProfileJob]
    BY DEF ProfileInv, ProfileTypeOK
  <1> QED
    BY <1>1, <1>3, <1>4 DEF ProfileInv, ProfileTypeOK

\* A request ends and has written no address that was not proven.
LEMMA ProfileEnds ==
  ASSUME ProfileInv, profiles' \in [ProfileUsers -> Writable \cup {Tombstone, None}],
         \A u \in ProfileUsers : \/ profiles'[u] = profiles[u]
                                 \/ profiles'[u] \notin Mails
                                 \/ IsProven(PersonOf[u], profiles'[u]),
         verified' = verified, gone' \subseteq ProfileUsers,
         NEW w \in Workers, job' = [job EXCEPT ![w] = Idle]
  PROVE  ProfileInv'
  <1>1. Idle \in ProfileJob /\ JobProven(Idle)
    BY DEF ProfileJob, Idle, JobProven, WriteStages
  <1> QED
    BY <1>1, ProfileMove

\* An address that does not change is the one that was read, which is proven.
LEMMA AvailabilityKeeps ==
  ASSUME ProfileInv, NEW w \in Workers, ensureEmailAvailable(w)
  PROVE  ProfileInv'
  <1>1. PICK u \in ProfileUsers, e \in Mails, old \in Writable \cup {Tombstone, None} :
          job[w] = [at |-> "available", user |-> u, email |-> e, old |-> old]
    BY ProfileFields DEF ensureEmailAvailable, ProfileInv, ProfileTypeOK
  <1>2. IsProven(PersonOf[u], old)
    <2>1. JobProven(job[w]) /\ job[w].at = "available" /\ job[w].user = u /\ job[w].old = old
      BY <1>1 DEF ProfileInv
    <2> QED
      BY <2>1 DEF JobProven
  <1>3. profiles' = profiles /\ verified' = verified /\ gone' = gone
    BY DEF ensureEmailAvailable
  <1>4. CASE job' = [job EXCEPT ![w] = Idle]
    BY <1>3, <1>4, ProfileEnds DEF ProfileInv, ProfileTypeOK
  <1>5. CASE e = old /\ job' = [job EXCEPT ![w] = Passed(job[w])]
    <2>1. PICK j : j = Passed(job[w])
      OBVIOUS
    <2>2. old # None
      BY <1>5, ProfileConstants
    <2>3. j = [at |-> "updateProfile", user |-> u, email |-> e]
      BY <1>1, <2>1, <2>2 DEF Passed, Writes
    <2>4. j \in ProfileJob /\ JobProven(j)
      BY <1>2, <1>5, <2>3 DEF ProfileJob, JobProven, WriteStages, Writable
    <2> QED
      BY <1>3, <1>5, <2>1, <2>4, ProfileMove DEF ProfileInv, ProfileTypeOK
  <1>6. CASE job' = [job EXCEPT ![w] = [job[w] EXCEPT !.at = "verified"]]
    <2>1. PICK j : j = [at |-> "verified", user |-> u, email |-> e, old |-> old]
      OBVIOUS
    <2>2. j = [job[w] EXCEPT !.at = "verified"]
      BY <1>1, <2>1
    <2>3. j \in ProfileJob /\ JobProven(j)
      BY <1>2, <2>1 DEF ProfileJob, JobProven, WriteStages
    <2> QED
      BY <1>3, <1>6, <2>2, <2>3, ProfileMove DEF ProfileInv, ProfileTypeOK
  <1> QED
    BY <1>1, <1>4, <1>5, <1>6 DEF ensureEmailAvailable, GoTo, Finish

\* Another one is looked up.
LEMMA VerificationKeeps ==
  ASSUME ProfileInv, NEW w \in Workers, ensureEmailVerified(w)
  PROVE  ProfileInv'
  <1>1. PICK u \in ProfileUsers, e \in Mails, old \in Writable \cup {Tombstone, None} :
          job[w] = [at |-> "verified", user |-> u, email |-> e, old |-> old]
    BY ProfileFields DEF ensureEmailVerified, ProfileInv, ProfileTypeOK
  <1>2. profiles' = profiles /\ verified' = verified /\ gone' = gone
    BY DEF ensureEmailVerified
  <1>3. CASE <<u, e>> \notin verified
    <2>1. job' = [job EXCEPT ![w] = Idle]
      BY <1>1, <1>3 DEF ensureEmailVerified, Finish
    <2> QED
      BY <1>2, <2>1, ProfileEnds DEF ProfileInv, ProfileTypeOK
  <1>4. CASE <<u, e>> \in verified
    <2>1. PICK j : j = Passed(job[w])
      OBVIOUS
    <2>2. PICK at \in {"insertProfile", "updateProfile"} : j = [at |-> at, user |-> u, email |-> e]
      BY <1>1, <2>1 DEF Passed, Writes
    <2>3. IsProven(PersonOf[u], e)
      BY <1>4 DEF IsProven
    <2>4. j \in ProfileJob /\ JobProven(j)
      BY <2>2, <2>3 DEF ProfileJob, JobProven, WriteStages, Writable
    <2>5. job' = [job EXCEPT ![w] = j]
      BY <1>1, <1>4, <2>1 DEF ensureEmailVerified, GoTo
    <2> QED
      BY <1>2, <2>4, <2>5, ProfileMove DEF ProfileInv, ProfileTypeOK
  <1> QED
    BY <1>3, <1>4

\* What one write of email to the profile of u makes of the table.
LEMMA ProfileWritten ==
  ASSUME ProfileInv, NEW u \in ProfileUsers, NEW e \in Writable, IsProven(PersonOf[u], e),
         profiles' = profiles \/ profiles' = [profiles EXCEPT ![u] = e]
  PROVE  /\ profiles' \in [ProfileUsers -> Writable \cup {Tombstone, None}]
         /\ \A v \in ProfileUsers : \/ profiles'[v] = profiles[v]
                                    \/ profiles'[v] \notin Mails
                                    \/ IsProven(PersonOf[v], profiles'[v])
  BY DEF ProfileInv, ProfileTypeOK

\* What is written is proven.
LEMMA WriteKeeps ==
  ASSUME ProfileInv, NEW w \in Workers, InsertProfile(w) \/ WriteProfile(w) \/ SyncSibling(w)
  PROVE  ProfileInv'
  <1>1. PICK u \in ProfileUsers, e \in Writable, at \in WriteStages :
          job[w] = [at |-> at, user |-> u, email |-> e]
    BY ProfileFields DEF InsertProfile, WriteProfile, SyncSibling, ProfileInv, ProfileTypeOK,
       WriteStages
  <1>2. IsProven(PersonOf[u], e)
    <2>1. JobProven(job[w]) /\ job[w].at \in WriteStages /\ job[w].user = u /\ job[w].email = e
      BY <1>1 DEF ProfileInv
    <2> QED
      BY <2>1 DEF JobProven
  <1>3. /\ profiles' = profiles \/ profiles' = [profiles EXCEPT ![u] = e]
        /\ verified' = verified /\ gone' = gone
    BY <1>1 DEF InsertProfile, WriteProfile, SyncSibling
  <1>4. CASE job' = [job EXCEPT ![w] = Idle]
    BY <1>2, <1>3, <1>4, ProfileWritten, ProfileEnds DEF ProfileInv, ProfileTypeOK
  <1>5. CASE job' = [job EXCEPT ![w] = [job[w] EXCEPT !.at = "sibling"]]
    <2>1. PICK j : j = [at |-> "sibling", user |-> u, email |-> e]
      OBVIOUS
    <2>2. j = [job[w] EXCEPT !.at = "sibling"]
      BY <1>1, <2>1
    <2>3. j \in ProfileJob /\ JobProven(j)
      BY <1>2, <2>1 DEF ProfileJob, JobProven, WriteStages
    <2> QED
      BY <1>2, <1>3, <1>5, <2>2, <2>3, ProfileWritten, ProfileMove DEF ProfileInv, ProfileTypeOK
  <1> QED
    BY <1>4, <1>5 DEF InsertProfile, WriteProfile, SyncSibling, GoTo, Finish

\* The sibling is another role of the same person.
LEMMA SiblingKeeps ==
  ASSUME ProfileInv, NEW w \in Workers, FindSibling(w)
  PROVE  ProfileInv'
  <1>1. PICK u \in ProfileUsers, e \in Writable :
          job[w] = [at |-> "sibling", user |-> u, email |-> e]
    BY ProfileFields DEF FindSibling, ProfileInv, ProfileTypeOK, WriteStages
  <1>2. IsProven(PersonOf[u], e)
    <2>1. JobProven(job[w]) /\ job[w].at = "sibling" /\ job[w].user = u /\ job[w].email = e
      BY <1>1 DEF ProfileInv
    <2> QED
      BY <2>1 DEF JobProven, WriteStages
  <1>3. profiles' = profiles /\ verified' = verified /\ gone' = gone
    BY DEF FindSibling
  <1>4. CASE job' = [job EXCEPT ![w] = Idle]
    BY <1>3, <1>4, ProfileEnds DEF ProfileInv, ProfileTypeOK
  <1>5. ASSUME NEW v \in ProfileUsers, PersonOf[v] = PersonOf[u],
               job' = [job EXCEPT ![w] = Writes("sync", v, e)]
        PROVE  ProfileInv'
    <2>1. PICK j : j = Writes("sync", v, e)
      OBVIOUS
    <2>2. j \in ProfileJob /\ JobProven(j)
      BY <1>2, <1>5, <2>1 DEF Writes, ProfileJob, JobProven, WriteStages
    <2> QED
      BY <1>3, <1>5, <2>1, <2>2, ProfileMove DEF ProfileInv, ProfileTypeOK
  <1> QED
    BY <1>1, <1>4, <1>5 DEF FindSibling, GoTo, Finish

\* A tombstone is no address.
LEMMA TombstoneKeeps ==
  ASSUME ProfileInv, NEW w \in Workers, TombstoneEmails(w)
  PROVE  ProfileInv'
  <1>1. Tombstone \notin Mails
    BY ProfileConstants
  <1>2. \A u \in ProfileUsers : profiles'[u] = profiles[u] \/ profiles'[u] = Tombstone
    BY DEF TombstoneEmails
  <1>3. profiles' \in [ProfileUsers -> Writable \cup {Tombstone, None}]
    BY DEF TombstoneEmails, ProfileInv, ProfileTypeOK
  <1>4. verified' = verified /\ gone' \subseteq ProfileUsers /\ job' = [job EXCEPT ![w] = Idle]
    BY DEF TombstoneEmails, Finish, ProfileInv, ProfileTypeOK
  <1> QED
    BY <1>1, <1>2, <1>3, <1>4, ProfileEnds

\* A request comes in with the address it has read.
LEMMA ProfileArrives ==
  ASSUME ProfileInv, NEW w \in Workers, NEW u \in ProfileUsers,
         \/ ReadProfiles(w, u)
         \/ \E email \in Mails : CreateProfile(w, u, email)
         \/ \E email \in Writable : UpdateProfile(w, u, email)
  PROVE  ProfileInv'
  <1>1. ASSUME NEW j \in ProfileJob, JobProven(j), Begin(w, j),
               UNCHANGED <<profiles, verified, gone>>
        PROVE  ProfileInv'
    BY <1>1, ProfileMove DEF Begin, ProfileInv, ProfileTypeOK
  <1>2. /\ profiles[u] \in Writable \cup {Tombstone, None}
        /\ IsProven(PersonOf[u], profiles[u])
    BY DEF ProfileInv, ProfileTypeOK, EmailsAreProven, IsProven
  <1>3. None \notin Mails /\ Blank \notin Mails /\ NoEmail \notin Mails
    BY ProfileConstants
  <1>4. ASSUME NEW email \in Mails, NEW old \in Writable \cup {Tombstone, None},
               IsProven(PersonOf[u], old)
        PROVE  [at |-> "available", user |-> u, email |-> email, old |-> old] \in
                 {j \in ProfileJob : JobProven(j)}
    BY <1>4 DEF ProfileJob, JobProven, WriteStages
  <1>5. CASE \E email \in Mails : CreateProfile(w, u, email)
    <2>1. PICK email \in Mails : CreateProfile(w, u, email)
      BY <1>5
    <2>2. IsProven(PersonOf[u], None)
      BY <1>3 DEF IsProven
    <2> QED
      BY <1>1, <1>4, <2>1, <2>2 DEF CreateProfile
  <1>6. CASE \E email \in Writable : UpdateProfile(w, u, email)
    <2>1. PICK email \in Writable : UpdateProfile(w, u, email)
      BY <1>6
    <2>2. CASE email \in Mails
      BY <1>1, <1>2, <1>4, <2>1, <2>2 DEF UpdateProfile
    <2>3. CASE email \notin Mails
      <3>1. PICK j : j = Writes("updateProfile", u, email)
        OBVIOUS
      <3>2. j \in ProfileJob /\ JobProven(j)
        BY <2>3, <3>1 DEF Writes, ProfileJob, JobProven, WriteStages, IsProven
      <3> QED
        BY <1>1, <2>1, <2>3, <3>1, <3>2 DEF UpdateProfile
    <2> QED
      BY <2>2, <2>3
  <1>7. CASE ReadProfiles(w, u)
    <2>1. PICK named \in SUBSET ProfileUsers :
            named = {v \in ProfileUsers \ Unlinked :
                      PersonOf[v] = PersonOf[u] /\ profiles[v] \in Mails \cup {Tombstone}}
      OBVIOUS
    <2>2. PICK j : j = [at |-> "tombstone", person |-> PersonOf[u], named |-> named]
      OBVIOUS
    <2>3. j \in ProfileJob /\ JobProven(j)
      BY <2>2 DEF ProfileJob, JobProven, WriteStages
    <2> QED
      BY <1>1, <1>7, <2>1, <2>2, <2>3 DEF ReadProfiles
  <1> QED
    BY <1>5, <1>6, <1>7

\* No step breaks ProfileInv.
LEMMA ProfileKept ==
  ASSUME ProfileInv, [ProfileNext]_profileVars
  PROVE  ProfileInv'
  <1>1. CASE UNCHANGED profileVars
    BY <1>1 DEF profileVars, ProfileInv, ProfileTypeOK, EmailsAreProven, JobProven, IsProven
  <1>2. ASSUME NEW u \in ProfileUsers, NEW email \in Mails, VerifyEmail(u, email)
        PROVE  ProfileInv'
    <2>1. /\ verified \subseteq verified' /\ verified' \subseteq ProfileUsers \X Mails
          /\ profiles' = profiles /\ gone' = gone /\ job' = job
      BY <1>2 DEF VerifyEmail, ProfileInv, ProfileTypeOK
    <2>2. EmailsAreProven'
      BY <2>1 DEF ProfileInv, EmailsAreProven
    <2>3. \A w \in Workers : JobProven(job[w])'
      BY <2>1 DEF ProfileInv, JobProven, IsProven
    <2> QED
      BY <2>1, <2>2, <2>3 DEF ProfileInv, ProfileTypeOK
  <1> QED
    BY <1>1, <1>2, AvailabilityKeeps, VerificationKeeps, WriteKeeps, SiblingKeeps,
       TombstoneKeeps, ProfileArrives DEF ProfileNext

\* There are no profiles at first.
LEMMA ProfileStarted ==
  ASSUME ProfileInit
  PROVE  ProfileInv
  <1>1. None \notin Mails
    BY ProfileConstants
  <1> QED
    BY <1>1 DEF ProfileInit, ProfileInv, ProfileTypeOK, ProfileJob, EmailsAreProven,
       JobProven, WriteStages, NoJobs, Idle

\* The address in a profile was verified by the same person, for any number
\* of requests and users.
THEOREM ProfileEmailsAreProven == ProfileSpec => [](ProfileTypeOK /\ EmailsAreProven)
  <1>1. ProfileInv => ProfileTypeOK /\ EmailsAreProven
    BY DEF ProfileInv
  <1> QED
    BY <1>1, ProfileStarted, ProfileKept, PTL DEF ProfileSpec

---------------------------------------------------------------------------
(* MCIdentity *)

\* The tables of a component that is not in focus are as they were at first.
Untouched ==
  /\ focus # "accounts" => /\ accounts = [a \in AccountIds |-> None]
                           /\ users = [u \in UserIds |-> None]
  /\ focus # "phone" => otps = <<>>
  /\ focus # "email" => emails = <<>>
  /\ focus # "events" => registrations = <<>> /\ entries = <<>>
  /\ focus # "profiles" => profiles = [u \in ProfileUsers |-> None]
  /\ focus # "admins" => admins = [a \in AdminIds |-> None]

\* The component in focus keeps its invariant.
Focused ==
  \/ focus = "accounts" /\ AccountsInv /\ OneUserPerRole /\ LoneRequests
  \/ focus = "phone" /\ OtpInv
  \/ focus = "email" /\ EmailInv
  \/ focus = "events" /\ EventInv /\ EntryInv
  \/ focus = "profiles" /\ ProfileInv
  \/ focus = "admins" /\ AdminInv /\ LoneUpdates

IdentityInv == Focused /\ Untouched

\* Behaviours begin in one of the components.
LEMMA IdentityStarted ==
  ASSUME Init
  PROVE  IdentityInv
  <1>1. Untouched
    BY DEF Init, Untouched, OtpInit, EmailInit, EventInit, ProfileInit
  <1>2. CASE focus = "accounts"
    BY <1>1, <1>2, AccountsStarted, LoneStarted DEF Init, IdentityInv, Focused
  <1>3. CASE focus = "phone"
    BY <1>1, <1>3, OtpStarted DEF Init, IdentityInv, Focused
  <1>4. CASE focus = "email"
    BY <1>1, <1>4, EmailStarted DEF Init, IdentityInv, Focused
  <1>5. CASE focus = "events"
    BY <1>1, <1>5, EventStarted, EntriesStarted DEF Init, IdentityInv, Focused
  <1>6. CASE focus = "profiles"
    BY <1>1, <1>6, ProfileStarted DEF Init, IdentityInv, Focused
  <1>7. CASE focus = "admins"
    BY <1>1, <1>7, AdminStarted, UpdatesStarted DEF Init, IdentityInv, Focused
  <1> QED
    BY <1>2, <1>3, <1>4, <1>5, <1>6, <1>7 DEF Init

\* A step is one of the component in focus, and of no other table.
LEMMA IdentityStep ==
  ASSUME [Next]_identityVars
  PROVE  /\ focus' = focus
         /\ focus = "accounts" => [AccountsNext]_accountsVars
         /\ focus = "phone" => [OtpNext]_otpVars
         /\ focus = "email" => [EmailNext]_emailVars
         /\ focus = "events" => [EventNext]_eventVars
         /\ focus = "profiles" => [ProfileNext]_profileVars
         /\ focus = "admins" => [AdminNext]_adminVars
         /\ focus # "accounts" => accounts' = accounts /\ users' = users
         /\ focus # "phone" => otps' = otps
         /\ focus # "email" => emails' = emails
         /\ focus # "events" => registrations' = registrations /\ entries' = entries
         /\ focus # "profiles" => profiles' = profiles
         /\ focus # "admins" => admins' = admins
  <1>1. CASE UNCHANGED identityVars
    BY <1>1 DEF identityVars, accountsVars, otpVars, emailVars, eventVars, profileVars, adminVars
  <1>2. CASE Next
    BY <1>2 DEF Next, Rest
  <1> QED
    BY <1>1, <1>2

\* No step breaks the invariant of the component in focus.
LEMMA IdentityKept ==
  ASSUME IdentityInv, [Next]_identityVars
  PROVE  IdentityInv'
  <1>1. Untouched'
    BY IdentityStep DEF IdentityInv, Untouched
  <1>2. Focused'
    <2>1. CASE focus = "accounts" /\ AccountsInv /\ OneUserPerRole /\ LoneRequests
      BY <2>1, IdentityStep, AccountsKept, OneUserKept, LoneKept DEF Focused
    <2>2. CASE focus = "phone" /\ OtpInv
      BY <2>2, IdentityStep, OtpKept DEF Focused
    <2>3. CASE focus = "email" /\ EmailInv
      BY <2>3, IdentityStep, EmailKept DEF Focused
    <2>4. CASE focus = "events" /\ EventInv /\ EntryInv
      BY <2>4, IdentityStep, EventKept, EntriesKept DEF Focused
    <2>5. CASE focus = "profiles" /\ ProfileInv
      BY <2>5, IdentityStep, ProfileKept DEF Focused
    <2>6. CASE focus = "admins" /\ AdminInv /\ LoneUpdates
      BY <2>6, IdentityStep, AdminKept, UpdatesKept DEF Focused
    <2> QED
      BY <2>1, <2>2, <2>3, <2>4, <2>5, <2>6 DEF IdentityInv, Focused
  <1> QED
    BY <1>1, <1>2 DEF IdentityInv

\* What the components in focus promise of a state.
LEMMA IdentityPromises ==
  ASSUME IdentityInv
  PROVE  TypeOK /\ OneUserPerRole /\ GuessesAreLimited /\ EmailsAreProven /\ EntriesBounded
  <1>1. TypeOK
    BY OtpRowsTyped, EmailRowsTyped, TicketRows, EntryRows
       DEF IdentityInv, Focused, TypeOK, AccountsInv, AccountsRows, AccountsTypeOK,
           OtpInv, OtpTyped, OtpTypeOK, EmailInv, EmailTyped, EmailTypeOK, EventInv, EventTypeOK,
           ProfileInv, AdminInv
  <1>2. OneUserPerRole
    <2>1. CASE focus # "accounts"
      BY <2>1 DEF IdentityInv, Untouched, OneUserPerRole, Live
    <2> QED
      BY <2>1 DEF IdentityInv, Focused
  <1>3. OtpGuessLimit /\ OtpsUsable
    <2>1. CASE focus # "phone"
      <3>1. DOMAIN otps = {} /\ Usable = {}
        BY <2>1 DEF IdentityInv, Untouched, Usable
      <3>2. {w \in Workers : job[w].at = "insert"} \in SUBSET Workers
        OBVIOUS
      <3>3. OtpsUsable
        BY <3>1, <3>2, OtpCounts, FS_EmptySet DEF OtpsUsable
      <3> QED
        BY <3>1, <3>3 DEF OtpGuessLimit
    <2> QED
      BY <2>1 DEF IdentityInv, Focused, OtpInv
  <1>4. ExhaustedEmailsFail
    <2>1. CASE focus # "email"
      BY <2>1 DEF IdentityInv, Untouched, ExhaustedEmailsFail
    <2> QED
      BY <2>1 DEF IdentityInv, Focused, EmailInv
  <1>5. EmailsAreProven
    <2>1. CASE focus # "profiles"
      <3>1. None \notin Mails
        BY ProfileConstants
      <3> QED
        BY <2>1, <3>1 DEF IdentityInv, Untouched, EmailsAreProven
    <2> QED
      BY <2>1 DEF IdentityInv, Focused, ProfileInv
  <1>6. EntriesBounded
    <2>1. CASE focus # "events"
      BY <2>1 DEF IdentityInv, Untouched, EntriesBounded
    <2> QED
      BY <2>1 DEF IdentityInv, Focused, EntryInv
  <1> QED
    BY <1>1, <1>2, <1>3, <1>4, <1>5, <1>6 DEF GuessesAreLimited

\* Every row and request of a component in focus is of its type; no account
\* has two living users in a role; codes are limited in how often they are
\* guessed and how many are good at once; tickets in how often they are
\* checked in; and the addresses in profiles are proven.
THEOREM IdentityIsSafe ==
  Spec => [](TypeOK /\ OneUserPerRole /\ GuessesAreLimited /\ EmailsAreProven
            /\ EntriesBounded)
  BY IdentityStarted, IdentityKept, IdentityPromises, PTL DEF Spec

\* Codes, by SMS and by email, are limited in how often they are guessed.
THEOREM GuessesStayLimited == Spec => []GuessesAreLimited
  BY IdentityIsSafe, PTL

\* deleteAccount closes an account, which neither a token nor a moderator
\* opens again.
THEOREM AccountsStayClosed == Spec => AccountsClose
  <1>1. IdentityInv /\ [Next]_identityVars
        => /\ [\A a \in AccountIds :
                 accounts'[a] = a /\ accounts[a] # a /\ overlapped = {}
                 => Closed(a)']_accountsVars
           /\ [\A a \in AccountIds : Sealed(a) => Sealed(a)']_accountsVars
           /\ [\A u \in UserIds : Final(u) => Final(u)']_accountsVars
    <2> SUFFICES ASSUME IdentityInv, [Next]_identityVars
                 PROVE  /\ [\A a \in AccountIds :
                              accounts'[a] = a /\ accounts[a] # a /\ overlapped = {}
                              => Closed(a)']_accountsVars
                        /\ [\A a \in AccountIds : Sealed(a) => Sealed(a)']_accountsVars
                        /\ [\A u \in UserIds : Final(u) => Final(u)']_accountsVars
      OBVIOUS
    <2>1. CASE focus # "accounts"
      <3>1. accounts' = accounts /\ \A a \in AccountIds : accounts[a] # a
        BY <2>1, IdentityStep, AccountsNames DEF IdentityInv, Untouched
      <3>2. \A u \in UserIds : users[u] = None
        BY <2>1 DEF IdentityInv, Untouched
      <3> QED
        BY <3>1, <3>2 DEF Sealed, Closed, Final
    <2>2. CASE focus = "accounts"
      <3>1. AccountsInv /\ LoneRequests /\ [AccountsNext]_accountsVars
        BY <2>2, IdentityStep DEF IdentityInv, Focused
      <3>2. [\A a \in AccountIds :
               accounts'[a] = a /\ accounts[a] # a /\ overlapped = {}
               => Closed(a)']_accountsVars
        BY <3>1, DeletionClosed
      <3>3. [\A a \in AccountIds : Sealed(a) => Sealed(a)']_accountsVars
        BY <3>1, ClosedKept
      <3>4. [\A u \in UserIds : Final(u) => Final(u)']_accountsVars
        BY <3>1, FinalKept
      <3> QED
        BY <3>2, <3>3, <3>4
    <2> QED
      BY <2>1, <2>2
  <1> QED
    BY <1>1, IdentityStarted, IdentityKept, PTL
       DEF Spec, AccountsClose, DeletionCloses, ClosedForGood, DeletionIsFinal

\* A login that meets no other request gets in, unless one of that number is
\* suspended.
THEOREM LoginsSucceed == Spec => LoginAloneSucceeds
  <1> DEFINE Succeeds ==
        \A w \in Workers :
          LET j == job[w]
              left == job'[w].at \notin EntryStages
              suspended == \E u \in Existing :
                             /\ users[u].status = "SUSPENDED"
                             /\ \/ users[u].number = j.number
                                \/ u \in OfAccount(j.account)
              entered == \E u \in UserIds :
                           /\ job'[w] = Issue(u)
                           /\ users'[u].status = "ACTIVE"
                           /\ accounts'[users'[u].account] = j.number
          IN  /\ j.at \in EntryStages /\ j.kind \in LoginKinds /\ left
              /\ w \notin overlapped
              => entered \/ suspended
  <1>1. IdentityInv /\ [Next]_identityVars => [Succeeds]_accountsVars
    <2> SUFFICES ASSUME IdentityInv, [Next]_identityVars PROVE [Succeeds]_accountsVars
      OBVIOUS
    <2>1. CASE focus = "accounts"
      <3>1. AccountsInv /\ LoneRequests /\ [AccountsNext]_accountsVars
        BY <2>1, IdentityStep DEF IdentityInv, Focused
      <3> QED
        BY <3>1, LoginEnds
    <2>2. CASE focus # "accounts"
      <3>1. \A w \in Workers : job[w].at \notin EntryStages
        <4>1. OtpInv => \A w \in Workers : job[w].at \notin EntryStages
          BY DEF OtpInv, OtpTyped, OtpJob, Idle, EntryStages
        <4>2. EmailInv => \A w \in Workers : job[w].at \notin EntryStages
          BY DEF EmailInv, EmailTyped, EmailJob, Idle, EntryStages
        <4>3. EventInv => \A w \in Workers : job[w].at \notin EntryStages
          BY DEF EventInv, EventJob, Idle, EntryStages
        <4>4. ProfileInv => \A w \in Workers : job[w].at \notin EntryStages
          BY DEF ProfileInv, ProfileTypeOK, ProfileJob, WriteStages, Idle, EntryStages
        <4>5. AdminInv => \A w \in Workers : job[w].at \notin EntryStages
          BY DEF AdminInv, AdminTypeOK, AdminJob, Idle, EntryStages
        <4> QED
          BY <2>2, <4>1, <4>2, <4>3, <4>4, <4>5 DEF IdentityInv, Focused
      <3> QED
        BY <3>1
    <2> QED
      BY <2>1, <2>2
  <1> QED
    BY <1>1, IdentityStarted, IdentityKept, PTL DEF Spec, LoginAloneSucceeds

\* What became of a code that no request is at stays, by SMS and by email.
THEOREM CodesSettle == Spec => CodesStaySettled
  <1>1. IdentityInv /\ [Next]_identityVars
        => /\ [\A i \in DOMAIN otps : SpentOtp(i) => SpentOtp(i)']_otpVars
           /\ [\A i \in DOMAIN emails :
                 SettledEmail(i) => SettledEmail(i)' /\ emails'[i].status = emails[i].status
              ]_emailVars
    <2> SUFFICES ASSUME IdentityInv, [Next]_identityVars
                 PROVE  /\ [\A i \in DOMAIN otps : SpentOtp(i) => SpentOtp(i)']_otpVars
                        /\ [\A i \in DOMAIN emails :
                              SettledEmail(i)
                              => SettledEmail(i)' /\ emails'[i].status = emails[i].status
                           ]_emailVars
      OBVIOUS
    <2>1. [\A i \in DOMAIN otps : SpentOtp(i) => SpentOtp(i)']_otpVars
      <3>1. CASE focus = "phone"
        BY <3>1, IdentityStep, SpentKept DEF IdentityInv, Focused
      <3>2. CASE focus # "phone"
        BY <3>2 DEF IdentityInv, Untouched
      <3> QED
        BY <3>1, <3>2
    <2>2. [\A i \in DOMAIN emails :
             SettledEmail(i)
             => SettledEmail(i)' /\ emails'[i].status = emails[i].status]_emailVars
      <3>1. CASE focus = "email"
        BY <3>1, IdentityStep, SettledKept DEF IdentityInv, Focused
      <3>2. CASE focus # "email"
        BY <3>2 DEF IdentityInv, Untouched
      <3> QED
        BY <3>1, <3>2
    <2> QED
      BY <2>1, <2>2
  <1> QED
    BY <1>1, IdentityStarted, IdentityKept, PTL
       DEF Spec, CodesStaySettled, SpentOtpsStaySpent, SettledEmailsStay

\* A ticket is checked in no more often than there are requests at once.
THEOREM TicketsAdmitFew == Spec => []EntriesBounded
  BY IdentityIsSafe, PTL

\* The last super admin goes only by an update that met another one.
THEOREM TeamIsManaged == Spec => SupersRemain
  <1>1. IdentityInv /\ [Next]_identityVars
        => [Supers # {} /\ Supers' = {}
            => \E w \in met : job[w].at = "updateAdmin" /\ job'[w] = Idle]_adminVars
    <2> SUFFICES ASSUME IdentityInv, [Next]_identityVars, Supers # {}, Supers' = {}
                 PROVE  \E w \in met : job[w].at = "updateAdmin" /\ job'[w] = Idle
      OBVIOUS
    <2>1. focus = "admins"
      BY DEF IdentityInv, Untouched, Supers, Active
    <2>2. AdminInv /\ LoneUpdates /\ [AdminNext]_adminVars
      BY <2>1, IdentityStep DEF IdentityInv, Focused
    <2> QED
      BY <2>2, SupersKept
  <1> QED
    BY <1>1, IdentityStarted, IdentityKept, PTL DEF Spec, SupersRemain

\* Who was deactivated gets in no more, and a second factor is not gone around.
THEOREM TeamKeepsOut == Spec => NoWayIn
  <1>1. IdentityInv /\ [Next]_identityVars
        => [\A a \in AdminIds :
              /\ admins[a] # None /\ ~Active(a) /\ ~Acting(a, ActorStages)
                 => Active(a)' \/ ~Acting(a, ActorStages)'
              /\ admins[a] # None /\ admins[a].enabled /\ ~Acting(a, {"password"})
                 => ~admins'[a].enabled \/ ~Acting(a, {"password"})']_adminVars
    <2>1. ASSUME IdentityInv, [Next]_identityVars, focus = "admins"
          PROVE  AdminInv /\ [AdminNext]_adminVars
      BY <2>1, IdentityStep DEF IdentityInv, Focused
    <2>2. ASSUME IdentityInv, focus # "admins" PROVE \A a \in AdminIds : admins[a] = None
      BY <2>2 DEF IdentityInv, Untouched
    <2> QED
      BY <2>1, <2>2, WayIn
  <1> QED
    BY <1>1, IdentityStarted, IdentityKept, PTL DEF Spec, NoWayIn

=============================================================================
