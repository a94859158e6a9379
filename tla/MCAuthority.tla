------------------------------ MODULE MCAuthority ------------------------------
(* A proposal of each kind: a scope entry, an authorization and a rate ceiling. *)
EXTENDS Authority

CONSTANTS p1, p2, p3

MCEntry == {<<"in", 1>>, <<"out", 1>>}
MCRate == {None, 10, 20}
MCPayload ==
    [p \in Proposal |->
        CASE p = p1 -> [kind |-> "scope", entry |-> <<"in", 1>>]
          [] p = p2 -> [kind |-> "authorization"]
          [] OTHER -> [kind |-> "rate_ceiling", rate |-> 10]]
===============================================================================
