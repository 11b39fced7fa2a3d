------------------------------ MODULE MCFetch ------------------------------
(* Small instances of Fetch for TLC. *)
EXTENDS Fetch, TLC

Load(c, img, pst) == [class |-> c, image |-> img, post |-> pst]

\* One network: documents that may be sent twice compete with images.
NetLoads == {Load("net", FALSE, TRUE), Load("net", TRUE, FALSE)}

\* The same, with a local file and a channel.
PageLoads == NetLoads \cup {Load("local", FALSE, FALSE),
                           Load("channel", FALSE, FALSE)}

\* WAIT DOC.
DocWaits == {[doc |-> TRUE, img |-> FALSE]}
NoWaits == {}

AllUpdates == {"data", "notmodified", "postnogood"}

Symmetry == Permutations(Fetches)
=============================================================================
