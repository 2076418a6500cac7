---------------------------- MODULE MCAgentCards ----------------------------
(* Instances of AgentCards for TLC: the ACLs it may be given.              *)
EXTENDS AgentCards, TLC

CONSTANTS m1, m2, sys, alice

MCModules == {m1, m2}
MCSystemModules == {sys}
MCCallers == {alice}

Cell(a, g) == [access |-> a, gate |-> g]
Free == Cell("allow", "none")

(* One rule for everybody and everything, except the cells in "special".   *)
Table(default, special) ==
  [p \in Principals |-> [s \in Skills |->
     IF <<p, s>> \in DOMAIN special THEN special[<<p, s>>] ELSE default]]

(* Denied to strangers; a gate on some arguments; a check that raises; an  *)
(* ACL without check_access that denies one module to everybody.           *)
MCAcls == {
  [checkAccess |-> TRUE,
   rule |-> Table(Free, <<Anonymous, m1>> :> Cell("deny", "none")
                        @@ <<alice, sys>> :> Cell("deny", "none"))],
  [checkAccess |-> TRUE,
   rule |-> Table(Free, <<Anonymous, m1>> :> Cell("allow", "byArguments")
                        @@ <<alice, m1>> :> Cell("allow", "always")
                        @@ <<alice, m2>> :> Cell("deny", "none")
                        @@ <<Anonymous, m2>> :> Cell("error", "none"))],
  [checkAccess |-> FALSE,
   rule |-> Table(Free, <<Anonymous, m2>> :> Cell("deny", "none")
                        @@ <<alice, m2>> :> Cell("deny", "none"))]}
=============================================================================
