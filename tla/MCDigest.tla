------------------------------ MODULE MCDigest ------------------------------
(* An instance of Digest for TLC: a mailbox of three messages, two of them   *)
(* older than the digest's window, and a list of one contact.                *)
EXTENDS Digest

CONSTANTS m1, m2, m3, c1

MCItemsOf == [mail |-> {m1, m2, m3}, contacts |-> {c1}]

\* The old messages are there when the watch begins, and nothing else is.
MCInit ==
  /\ Init
  /\ clock = Cardinality(Old)
  /\ \A i \in Item : (alive[i] <=> i \in Old) /\ (changed[i] > 0 <=> i \in Old)

MCSpec == MCInit /\ [][Next]_vars /\ Fairness
=============================================================================
