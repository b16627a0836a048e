---------------------------- MODULE MCToolset ----------------------------
(* Two servers of the agent's own configs that offer a common name, one of   *)
(* them also a builtin name, and a skill with two servers, one with tokens.  *)
EXTENDS Toolset, TLC

CONSTANTS home, hub, near, far, Shell, search, fetch

FourOffers == (home :> {Shell, search}) @@ (hub :> {search})
              @@ (near :> {search, fetch}) @@ (far :> {fetch})
TwoOverlays == {{fetch}, {Shell}}
OneSkill    == {{near, far}}
=============================================================================
