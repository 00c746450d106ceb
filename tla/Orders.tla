------------------------------- MODULE Orders --------------------------------
(***************************************************************************)
(* Sorting (cardano_array_sort of collections/array.c): the order is given *)
(* as a set of pairs, because a definition with an operator as a parameter *)
(* is one that nothing can be proved about.                                *)
(***************************************************************************)
EXTENDS Integers, Sequences, FiniteSets, SequencesExt

(* The elements of a finite set S as a sequence in the order of R, a strict *)
(* total order of S as a set of pairs: each comes behind those below it.    *)
(* (Appending it to <<>> has TLC compute it once.)                          *)
InOrder(S, R) ==
  <<>> \o [n \in 1 .. Cardinality(S) |->
             CHOOSE x \in S : Cardinality({y \in S : <<y, x>> \in R}) = n - 1]

(* A finite set of numbers in ascending order. *)
Ascending(S) == InOrder(S, {p \in S \X S : p[1] < p[2]})
=============================================================================
