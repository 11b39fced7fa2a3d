----------------------------- MODULE FetchPool -----------------------------
(***************************************************************************)
(* What the fetch scheduler promises to the url objects and to the network, *)
(* without its lists, counters and flags: a pool of fetches of which a      *)
(* limited number per class is served at a time.                            *)
(*                                                                         *)
(* A fetch belongs to its url from the moment it is made until the url lets *)
(* go of it or gets its one final update; it never belongs to a url again.  *)
(* It waits only if there is no room, it is served only if there is, and of *)
(* those that wait documents are served before images.                      *)
(***************************************************************************)
EXTENDS Naturals, FiniteSets

CONSTANTS Fetches, MaxLimit

VARIABLES phase,   \* what happens to the fetch
          owned,   \* a url holds it
          class, image,
          limit    \* how many of a class may be served at a time

vars == <<phase, owned, class, image, limit>>

Limited == {"net", "local"}

\* No such fetch; waiting in a queue; a driver works for it; the driver is
\* gone; the user is asked about a document that ended early.
Phases == {"free", "waiting", "served", "ending", "asking"}

Served(s) == {f \in Fetches : class[f] = s /\ phase[f] = "served"}

Room(s) == s \in Limited => Cardinality(Served(s)) < limit[s]

Init ==
  /\ phase = [f \in Fetches |-> "free"]
  /\ owned = [f \in Fetches |-> FALSE]
  /\ class = [f \in Fetches |-> "none"]
  /\ image = [f \in Fetches |-> FALSE]
  /\ limit \in [Limited -> 1 .. MaxLimit]

Becomes(f, p) == phase' = [phase EXCEPT ![f] = p]

\* A fetch of class s wants a driver.
Wants(f, s) == Becomes(f, IF Room(s) THEN "served" ELSE "waiting")

Vanishes(f) ==
  /\ Becomes(f, "free")
  /\ owned' = [owned EXCEPT ![f] = FALSE]
  /\ class' = [class EXCEPT ![f] = "none"]
  /\ image' = [image EXCEPT ![f] = FALSE]
  /\ UNCHANGED limit

\* A url makes a fetch.
Ask(f) ==
  /\ phase[f] = "free"
  /\ \E s \in Limited \cup {"channel", "none"}, img \in BOOLEAN :
       /\ class' = [class EXCEPT ![f] = s]
       /\ image' = [image EXCEPT ![f] = img]
       /\ Wants(f, s)
  /\ owned' = [owned EXCEPT ![f] = TRUE]
  /\ UNCHANGED limit

\* It is the turn of a waiting fetch.
Serve(f) ==
  /\ phase[f] = "waiting"
  /\ Room(class[f])
  /\ image[f] => \A g \in Fetches :
                   phase[g] = "waiting" /\ class[g] = class[f] => image[g]
  /\ Becomes(f, "served")
  /\ UNCHANGED <<owned, class, image, limit>>

\* The url lets go, or gets the final update, of one that goes on.
Release(f) ==
  /\ owned[f] /\ phase[f] # "waiting"
  /\ owned' = [owned EXCEPT ![f] = FALSE]
  /\ UNCHANGED <<phase, class, image, limit>>

\* The driver ends.
End(f) ==
  /\ phase[f] = "served"
  /\ \E p \in {"ending", "asking"} : Becomes(f, p)
  /\ UNCHANGED <<owned, class, image, limit>>

\* A second attempt.
Again(f) ==
  /\ phase[f] \in {"ending", "asking"}
  /\ Wants(f, class[f])
  /\ UNCHANGED <<owned, class, image, limit>>

\* A fetch that no driver works for is freed.  If a url holds it, the url
\* gets the final update first or frees it itself.
Vanish(f) == phase[f] \notin {"free", "served"} /\ Vanishes(f)

Setlimit(s, n) ==
  /\ limit' = [limit EXCEPT ![s] = n]
  /\ UNCHANGED <<phase, owned, class, image>>

Next ==
  \/ \E f \in Fetches : \/ Ask(f) \/ Serve(f) \/ Release(f) \/ End(f)
                        \/ Again(f) \/ Vanish(f)
  \/ \E s \in Limited, n \in 1 .. MaxLimit : Setlimit(s, n)

Spec == Init /\ [][Next]_vars
=============================================================================
