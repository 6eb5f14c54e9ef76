----------------------------- MODULE MCWebRecheck -----------------------------
(***************************************************************************)
(* The lists of candidates TLC explores.                                   *)
(***************************************************************************)
EXTENDS WebRecheckProperties

four(n) == [ip |-> n, family |-> "ipv4", public |-> TRUE]
six(n) == [ip |-> n, family |-> "ipv6", public |-> TRUE]
private4 == [ip |-> 9, family |-> "ipv4", public |-> FALSE]

SomeAddresses == {four(1), four(2), four(3), six(4), private4}

\* Empty, one, two, one more than the limit, the other family, two families, and
\* a private address.
SomeLists ==
  {<<>>, <<four(1)>>, <<four(1), four(2)>>, <<four(3), four(1), four(2)>>,
   <<six(4)>>, <<four(1), six(4)>>, <<four(1), private4>>}
=============================================================================
