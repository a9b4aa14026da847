------------------------------ MODULE Devices ------------------------------
(***************************************************************************)
(* The phones a user's pushes go to (services/push/push.service.js,        *)
(* modules/calls/calls.service.js): a row of table FcmDevice per phone,    *)
(* and the column User.fcmToken that older builds rely on.  An install of  *)
(* the app has one token and is called a phone here.  What a push says,    *)
(* whether its user has turned pushes off and the VoIP tokens of iPhones   *)
(* are left out.                                                           *)
(***************************************************************************)
EXTENDS Requests

CONSTANTS
  PushUsers,  \* users
  Phones      \* installs of the app

VARIABLES
  devices,    \* table FcmDevice: the user in the row of each phone
  fcmToken,   \* column User.fcmToken: a phone
  installed,  \* external: the phones whose token FCM knows
  wanted      \* history: what each user asked of each phone last

deviceVars == <<devices, fcmToken, installed, wanted, job>>

ASSUME DeviceConstants == None \notin PushUsers \cup Phones

Stores == {"row", "column"}

DeviceJob ==
  {Idle}
  \cup [at : {"legacy"}, user : PushUsers, phone : Phones]
  \cup [at : {"clear"}, user : PushUsers, phone : Phones, left : SUBSET Stores]
  \cup [at : {"read"}, users : SUBSET PushUsers, tokens : SUBSET Phones,
        left : SUBSET Stores]
  \cup [at : {"send"}, tokens : SUBSET Phones, dead : SUBSET (Phones \X Stores)]

DeviceInit ==
  /\ devices = [t \in Phones |-> None]
  /\ fcmToken = [u \in PushUsers |-> None]
  /\ installed = Phones
  /\ wanted = [u \in PushUsers |-> [t \in Phones |-> "off"]]
  /\ job = NoJobs

getTokensForUser(u) == {t \in Phones : devices[t] = u \/ fcmToken[u] = t}

Registering(u, t) ==
  \E w \in Workers : job[w].at = "legacy" /\ job[w].user = u /\ job[w].phone = t

Clearing(u, t) ==
  \E w \in Workers : job[w].at = "clear" /\ job[w].user = u /\ job[w].phone = t

---------------------------------------------------------------------------
(* registerDevice, unregisterDevice and the phones of a deleted account *)

\* The row of the phone moves to u, whoever's it was.  What others wanted of
\* the phone, and what u wants while somebody logs it out, is open.
RegisterDevice(w, u, t) ==
  /\ t \in installed
  /\ devices' = [devices EXCEPT ![t] = u]
  /\ Begin(w, [at |-> "legacy", user |-> u, phone |-> t])
  /\ wanted' = [v \in PushUsers |-> [wanted[v] EXCEPT ![t] =
       IF v = u THEN IF \E x \in PushUsers : Clearing(x, t) THEN "open" ELSE "on"
       ELSE IF @ = "on" THEN "open" ELSE @]]
  /\ UNCHANGED <<fcmToken, installed>>

WriteLegacy(w) ==
  /\ job[w].at = "legacy"
  /\ fcmToken' = [fcmToken EXCEPT ![job[w].user] = job[w].phone]
  /\ Finish(w)
  /\ UNCHANGED <<devices, installed, wanted>>

\* Mutant: older builds are forgotten.
UnregisterRow(w, u, t) ==
  /\ Begin(w, [at |-> "clear", user |-> u, phone |-> t, left |-> {"row"}])
  /\ wanted' = [v \in PushUsers |-> [wanted[v] EXCEPT ![t] =
       IF v = u THEN IF Registering(u, t) THEN "open" ELSE "off"
       ELSE IF @ = "on" THEN "open" ELSE @]]
  /\ UNCHANGED <<devices, fcmToken, installed>>

\* Two statements at once: the row goes whoever's it is.
UnregisterDevice(w, u, t) ==
  /\ Begin(w, [at |-> "clear", user |-> u, phone |-> t, left |-> Stores])
  /\ wanted' = [v \in PushUsers |-> [wanted[v] EXCEPT ![t] =
       IF v = u THEN IF Registering(u, t) THEN "open" ELSE "off"
       ELSE IF @ = "on" THEN "open" ELSE @]]
  /\ UNCHANGED <<devices, fcmToken, installed>>

Clear(w, store) ==
  LET j == job[w]
  IN  /\ j.at = "clear" /\ store \in j.left
      /\ IF store = "row"
         THEN devices' = [devices EXCEPT ![j.phone] = None] /\ UNCHANGED fcmToken
         ELSE /\ fcmToken' = [fcmToken EXCEPT ![j.user] =
                                IF @ = j.phone THEN None ELSE @]
              /\ UNCHANGED devices
      /\ IF j.left = {store} THEN Finish(w)
         ELSE GoTo(w, [j EXCEPT !.left = j.left \ {store}])
      /\ UNCHANGED <<installed, wanted>>

\* Part of deleting the account of u.
ForgetDevices(u) ==
  /\ devices' = [t \in Phones |-> IF devices[t] = u THEN None ELSE devices[t]]
  /\ fcmToken' = [fcmToken EXCEPT ![u] = None]
  /\ wanted' = [wanted EXCEPT ![u] =
                  [t \in Phones |-> IF Registering(u, t) THEN "open" ELSE "off"]]
  /\ UNCHANGED <<installed, job>>

---------------------------------------------------------------------------
(* sendToUser, sendBroadcast and sendPersonalizedBroadcast *)

\* A push to one user, or a broadcast to many.
Push(w, us) ==
  /\ Begin(w, [at |-> "read", users |-> us, tokens |-> {}, left |-> Stores])
  /\ UNCHANGED <<devices, fcmToken, installed, wanted>>

\* Both stores are read at once.
ReadTokens(w, store) ==
  LET j == job[w]
      found == IF store = "row" THEN {t \in Phones : devices[t] \in j.users}
               ELSE {fcmToken[u] : u \in j.users} \ {None}
      tokens == j.tokens \cup found
  IN  /\ j.at = "read" /\ store \in j.left
      /\ IF j.left # {store}
         THEN GoTo(w, [j EXCEPT !.tokens = tokens, !.left = j.left \ {store}])
         ELSE IF tokens = {} THEN Finish(w)
         ELSE GoTo(w, [at |-> "send", tokens |-> tokens, dead |-> {}])
      /\ UNCHANGED <<devices, fcmToken, installed, wanted>>

\* FCM answers for a chunk of the tokens which of them are dead.
Send(w, ts) ==
  LET j == job[w]
      left == j.tokens \ ts
      dead == j.dead \cup ((ts \ installed) \X Stores)
  IN  /\ j.at = "send" /\ ts # {} /\ ts \subseteq j.tokens
      /\ IF left = {} /\ dead = {} THEN Finish(w)
         ELSE GoTo(w, [j EXCEPT !.tokens = left, !.dead = dead])
      /\ UNCHANGED <<devices, fcmToken, installed, wanted>>

\* Here the column of every user is looked at.
pruneDeadToken(w, t, store) ==
  LET j == job[w]
      dead == j.dead \ {<<t, store>>}
  IN  /\ j.at = "send" /\ <<t, store>> \in j.dead
      /\ IF store = "row"
         THEN devices' = [devices EXCEPT ![t] = None] /\ UNCHANGED fcmToken
         ELSE /\ fcmToken' = [u \in PushUsers |->
                                IF fcmToken[u] = t THEN None ELSE fcmToken[u]]
              /\ UNCHANGED devices
      /\ IF j.tokens = {} /\ dead = {} THEN Finish(w)
         ELSE GoTo(w, [j EXCEPT !.dead = dead])
      /\ UNCHANGED <<installed, wanted>>

\* The app is removed from a phone; installed again it has another token.
Uninstall(t) ==
  /\ t \in installed
  /\ installed' = installed \ {t}
  /\ wanted' = [u \in PushUsers |->
                  [wanted[u] EXCEPT ![t] = IF @ = "on" THEN "open" ELSE @]]
  /\ UNCHANGED <<devices, fcmToken, job>>

---------------------------------------------------------------------------
DeviceStep(w) ==
  \/ WriteLegacy(w)
  \/ \E store \in Stores : Clear(w, store) \/ ReadTokens(w, store)
  \/ \E ts \in SUBSET Phones : Send(w, ts)
  \/ \E t \in Phones, store \in Stores : pruneDeadToken(w, t, store)

DeviceArrive(w) ==
  \/ \E u \in PushUsers, t \in Phones : RegisterDevice(w, u, t) \/ UnregisterDevice(w, u, t)
  \/ \E us \in SUBSET PushUsers \ {{}} : Push(w, us)

DeviceNext ==
  \/ \E w \in Workers : DeviceArrive(w) \/ DeviceStep(w)
  \/ \E u \in PushUsers : ForgetDevices(u)
  \/ \E t \in Phones : Uninstall(t)

DeviceSpec == DeviceInit /\ [][DeviceNext]_deviceVars

---------------------------------------------------------------------------
(* Properties *)

DeviceTypeOK ==
  /\ devices \in [Phones -> PushUsers \cup {None}]
  /\ fcmToken \in [PushUsers -> Phones \cup {None}]
  /\ installed \subseteq Phones
  /\ wanted \in [PushUsers -> [Phones -> {"on", "off", "open"}]]
  /\ job \in [Workers -> DeviceJob]

\* A phone gets a user's pushes once the user registered it, and none after
\* the user logged it out or deleted the account, whatever other users,
\* phones, pushes and dead tokens do to the two places it is kept in.  What a
\* user wants is open when requests about the phone overlap.
PhonesAsAsked ==
  \A u \in PushUsers, t \in Phones :
    /\ wanted[u][t] = "on" => t \in getTokensForUser(u)
    /\ wanted[u][t] = "off" /\ ~Clearing(u, t) => t \notin getTokensForUser(u)

=============================================================================
