------------------------------- MODULE Roles -------------------------------
(***************************************************************************)
(* The roles of users and who works with whom (constants/roles.js).        *)
(***************************************************************************)

ROLES == {"CREATOR", "FREELANCER", "BRAND", "AGENCY", "ADMIN"}

\* ADMIN is absent from the table of the code, which reads it as no role.
OPPOSITE_FEED_ROLE ==
  [CREATOR    |-> {"FREELANCER"},
   FREELANCER |-> {"CREATOR"},
   BRAND      |-> {"CREATOR", "FREELANCER"},
   AGENCY     |-> {"CREATOR", "FREELANCER"},
   ADMIN      |-> {}]

=============================================================================
