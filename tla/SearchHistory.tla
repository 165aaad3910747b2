----------------------------- MODULE SearchHistory ----------------------------
(***************************************************************************)
(* The history of the search bar: the latest queries that were confirmed   *)
(* in the bar or submitted from the filter popup, and the entry that the   *)
(* bar shows (tui/app.rs, tui/event.rs).  SearchForm has the keys.         *)
(***************************************************************************)
EXTENDS Integers, Sequences, SequencesExt, Ordering

CONSTANT MaxHistory     \* MAX_SEARCH_HISTORY

ASSUME HistoryAssumption == MaxHistory \in Nat \ {0}

VARIABLES search_active, search_query, history, history_index

(* The history without a query (retain). *)
Others(query) ==
    LET kept == Ascending({i \in DOMAIN history : history[i] # query})
    IN  [k \in DOMAIN kept |-> history[kept[k]]]

(* push_search_history *)
Pushed(query) ==
    IF query = <<>> THEN history
    ELSE LET all == <<query>> \o Others(query)
         IN  SubSeq(all, 1, IF Len(all) < MaxHistory THEN Len(all) ELSE MaxHistory)

(* The history holds the latest searches once each, and while the user     *)
(* browses it the bar shows the entry the index names, whatever was typed, *)
(* confirmed, left or submitted before (tui/event.rs:838-878).             *)
HistoryIsBrowsable ==
    /\ Len(history) <= MaxHistory
    /\ \A i, j \in DOMAIN history : history[i] = history[j] => i = j
    /\ <<>> \notin Range(history)
    /\ history_index # <<>> =>
           search_active /\ history_index[1] \in DOMAIN history /\ search_query = history[history_index[1]]
=============================================================================
