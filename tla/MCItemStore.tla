---- MODULE MCItemStore ----
(* ItemStore for TLC: a section of a page and another page, of which only  *)
(* the URL of the section is normalized in two ways; a title that is       *)
(* looked up as it is stored, and one that is not (only normalizeTitle     *)
(* drops a "THE" in capitals).  No property of the run names one of those  *)
(* in the symmetry, and none is a liveness property.                       *)
EXTENDS ItemStore, TLC

MCNormalUrl(u) == IF u = "page#section" THEN "page" ELSE u
MCSqlUrl(u) == u
MCTitleMatch(stored, t) == stored = "walk" /\ t = "walk"

Symmetry == Permutations(Savers) \cup Permutations(Editors)
====
