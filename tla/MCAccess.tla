-------------------------------- MODULE MCAccess -------------------------------
(* A founder who may manage roles, a colleague, and two roles of which one   *)
(* has the permission.                                                       *)
EXTENDS Access, TLC

CONSTANTS founder, colleague, ceo, staff

MCUsers == {founder, colleague}
MCRoles == {ceo, staff}
MCSeed == (ceo :> {Manage}) @@ (staff :> {})
MCFounder == {<<founder, ceo>>}
=============================================================================
