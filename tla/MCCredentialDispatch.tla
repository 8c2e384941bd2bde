----------------------- MODULE MCCredentialDispatch -------------------------
(* Values for model-checking CredentialDispatch.                           *)
EXTENDS CredentialDispatch

CONSTANTS w1, w2, w3, t1, t2, s1, s2

(* One credential is created; two more calls of either tenant rotate or    *)
(* revoke it, with the value it has or with another.                       *)
WritesOfOne ==
  {[op |-> "create", tenant |-> t1, credential |-> w1, secret |-> s1]}
  \union {[op |-> "rotate", tenant |-> t, credential |-> w1, secret |-> s] :
            t \in {t1, t2}, s \in {s1, s2}}
  \union {[op |-> "revoke", tenant |-> t, credential |-> w1, secret |-> None] :
            t \in {t1, t2}}
=============================================================================
