------------------------------ MODULE MCVerify ------------------------------
(* A backup whose root a has a directory d and a file f, which is also in d. *)
EXTENDS Verify

ChildrenOf == [a |-> <<"d", "f">>, d |-> <<"f">>, f |-> <<>>]
=============================================================================
