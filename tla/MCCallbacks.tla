---------------------------- MODULE MCCallbacks ----------------------------
(***************************************************************************)
(* What goes through other services, for TLC: Instagram accounts proven    *)
(* by a direct message, social accounts by OAuth, subscriptions by         *)
(* Razorpay and Apple, the phones pushes go to, and who is told of a new   *)
(* post.  The five share no table and do not call each other once they     *)
(* began, so that each behaviour is one of the component in focus.         *)
(***************************************************************************)
EXTENDS Instagram, Social, Billing, Devices, FanOut, TLC

CONSTANTS x, y, z  \* users; x and y are roles of one person

VARIABLE focus  \* the component whose requests are served

MCAccountOf == [u \in {x, y, z} |-> IF u = z THEN "other" ELSE "same"]

Init ==
  /\ focus \in {"instagram", "social", "billing", "devices", "fanout"}
  /\ IgInit /\ SocialInit /\ BillingInit /\ DeviceInit
  /\ IF focus = "fanout" THEN FanOutInit
     ELSE /\ partners = {} /\ audience = {} /\ apart = {} /\ shunned = {}
          /\ notified = [u \in Others |-> 0]

Rest(c) ==
  /\ focus = c /\ UNCHANGED focus
  /\ c # "instagram" => UNCHANGED <<igs, igClock>>
  /\ c # "social" => UNCHANGED socials
  /\ c # "billing" => UNCHANGED <<subscriptions, premium, closed, gateway, store>>
  /\ c # "devices" => UNCHANGED <<devices, fcmToken, installed, wanted>>
  /\ c # "fanout" => UNCHANGED <<partners, audience, apart, shunned, notified>>

Next ==
  \/ Rest("instagram") /\ IgNext
  \/ Rest("social") /\ SocialNext
  \/ Rest("billing") /\ BillingNext
  \/ Rest("devices") /\ DeviceNext
  \/ Rest("fanout") /\ FanOutNext

Spec ==
  Init /\ [][Next]_<<igVars, socials, billingVars, deviceVars, fanOutVars, focus>>

\* No property is temporal beyond single steps.
Interchangeable ==
  Permutations(Workers) \cup Permutations({x, y}) \cup Permutations(Handles)
  \cup Permutations(Phones)

\* Every row and every request is of its type.
TypeOK ==
  /\ focus = "instagram" => IgTypeOK
  /\ focus = "social" => SocialTypeOK
  /\ focus = "billing" => BillingTypeOK
  /\ focus = "devices" => DeviceTypeOK
  /\ focus = "fanout" => FanOutTypeOK

=============================================================================
