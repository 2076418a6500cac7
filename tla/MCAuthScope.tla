---------------------------- MODULE MCAuthScope -----------------------------
(* Instances of AuthScope for TLC.                                         *)
EXTENDS AuthScope, TLC

Claim(k, t) == [kind |-> k, text |-> t]
NoClaim == Claim("null", "")

Bearer(id, roles) ==
  [bearer |-> TRUE, valid |-> TRUE,
   payload |-> [id |-> id, type |-> NoClaim, roles |-> roles]]

(* Two users, one of them with a numeric id and in two roles, a token      *)
(* whose id is no scalar, one whose id is empty (the anonymous owner) and  *)
(* one that does not decode.                                               *)
MCHeaders == {
  Bearer(Claim("string", "alice"), {}),
  Bearer(Claim("number", "7"), {Claim("string", "admin"), Claim("list", "")}),
  Bearer(Claim("string", "7"), {}),
  Bearer(Claim("list", ""), {}),
  Bearer(Claim("string", ""), {}),
  [bearer |-> TRUE, valid |-> FALSE,
   payload |-> [id |-> NoClaim, type |-> NoClaim, roles |-> {}]]}

Symmetry == Permutations(Handlers) \cup Permutations(Tasks)
              \cup Permutations(Requests)
=============================================================================
