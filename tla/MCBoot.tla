------------------------------- MODULE MCBoot -------------------------------
(* Instances of Boot for TLC: the angels are numbers, and the first part of  *)
(* the name of an entry, a pair, is the id it is spawned under.              *)
EXTENDS Boot

MCId == [e \in Entry |-> e[1]]
MCEntryPair == {<<1, 1>>, <<1, 2>>}
MCEntryTriple == MCEntryPair \cup {<<1, 3>>}
=============================================================================
