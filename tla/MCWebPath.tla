------------------------------ MODULE MCWebPath ------------------------------
(***************************************************************************)
(* The small instances of webpath that TLC explores.                       *)
(***************************************************************************)
EXTENDS WebPathProperties

v4 == [family |-> "ipv4", public |-> TRUE]
v6 == [family |-> "ipv6", public |-> TRUE]
private4 == [family |-> "ipv4", public |-> FALSE]

\* Nothing public; a private address before one public address of each family
\* and one more than the limit of 1 admits.
TwoAnswers == {<<private4>>, <<private4, v4, v6, v4>>}
=============================================================================
