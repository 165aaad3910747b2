------------------------------ MODULE Ordering -------------------------------
(***************************************************************************)
(* The orders of lists: numbers as an iteration over the index meets them, *)
(* and a stable sort, as Rust's sort_by promises it: tui/app.rs            *)
(* (apply_sort) and tui/threading.rs (flatten, build_threads) rely on it.  *)
(***************************************************************************)
EXTENDS Naturals, Sequences, FiniteSets

(* A set of numbers as a list, the smallest first. *)
Ascending(set) ==
    [n \in 1 .. Cardinality(set) |->
        CHOOSE k \in set : Cardinality({i \in set : i < k}) = n - 1]

(* Where the elements less than a given one go before it, and equal ones   *)
(* keep their order.  An element's new place is the number of elements     *)
(* that must precede it.                                                   *)
StableSort(list, Less(_, _)) ==
    LET Precedes(i, j) == \/ Less(list[i], list[j])
                          \/ ~Less(list[j], list[i]) /\ i < j
        Place(j) == Cardinality({i \in DOMAIN list \ {j} : Precedes(i, j)}) + 1
    IN  [n \in DOMAIN list |-> list[CHOOSE j \in DOMAIN list : Place(j) = n]]
=============================================================================
