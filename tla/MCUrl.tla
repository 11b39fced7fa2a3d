------------------------------- MODULE MCUrl -------------------------------
(* Small instances of Url for TLC. *)
EXTENDS Url
Slow == {[caverify |-> "always", fast |-> FALSE]}
Both == {[caverify |-> "always", fast |-> f] : f \in BOOLEAN}
Views == {{}, {"reload", "download"}}
OtherLoads == {{}, {"reload"}, {"docext"}, {"ifinmem"}}
NoPosts == {}
=============================================================================
