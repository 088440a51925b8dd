--------------------------- MODULE MCServerProcess ---------------------------
(* Instances of ServerProcess for TLC. *)
EXTENDS ServerProcess

(* A file with defaults left out, and one whose domain is an address. *)
Sparse ==
  [listen |-> "", domain |-> <<"name", "name">>, path |-> "set", parent |-> TRUE,
   ttl |-> 0, cost |-> 0, audit |-> 0, log |-> 7, retention |-> 0, secret |-> "set",
   master |-> "set"]
Address == [Sparse EXCEPT !.domain = <<"digits", "digits", "digits", "digits">>]
SomeFiles == {Sparse, Address}
=============================================================================
