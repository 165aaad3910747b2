------------------------------ MODULE AppProofs ------------------------------
(***************************************************************************)
(* Theorems about the interface, for every mailbox, every set of labels,   *)
(* every outcome of every query, any number of search threads and every    *)
(* sequence of keys.                                                       *)
(***************************************************************************)
EXTENDS App, CountingProofs

(* A list of these messages, each once. *)
IsListOf(list, set) ==
    /\ list \in Seq(Messages)
    /\ Range(list) = set
    /\ IsInjective(list)

-----------------------------------------------------------------------------
(* The lists. *)

LEMMA MessagesAreFinite ==
  /\ IsFiniteSet(Messages)
  /\ Messages \subseteq Nat
  /\ \A set \in SUBSET Messages : IsFiniteSet(set) /\ Cardinality(set) \in Nat
<1>1. N \in Nat
  BY AppAssumption
<1>2. IsFiniteSet(Messages)
  BY <1>1, FS_Interval DEF Messages
<1>3. \A set \in SUBSET Messages : IsFiniteSet(set)
  BY <1>2, FS_Subset
<1>4. \A set \in SUBSET Messages : Cardinality(set) \in Nat
  BY <1>3, FS_CardinalityType
<1>5. Messages \subseteq Nat
  BY <1>1 DEF Messages
<1>6. QED
  BY <1>2, <1>3, <1>4, <1>5

(* apply_sort moves the rows, and loses and repeats none.                  *)
LEMMA SortingMovesRows ==
  ASSUME NEW list \in Seq(Messages), NEW column \in Columns, NEW ascending \in BOOLEAN
  PROVE  /\ SortedBy(list, column, ascending) \in Seq(Messages)
         /\ Len(SortedBy(list, column, ascending)) = Len(list)
         /\ Range(SortedBy(list, column, ascending)) = Range(list)
         /\ IsInjective(list) => IsInjective(SortedBy(list, column, ascending))
<1> DEFINE rows == 1 .. Len(list)
           key == [i \in rows |-> IF ascending THEN SortKey[column][list[i]]
                                               ELSE 0 - SortKey[column][list[i]]]
           before == [j \in rows |-> {i \in rows : key[i] < key[j] \/ (key[i] = key[j] /\ i < j)}]
           sorted == SortedBy(list, column, ascending)
<1>1. Len(list) \in Nat /\ DOMAIN list = rows
  OBVIOUS
<1>2. \A i \in rows : list[i] \in Messages
  OBVIOUS
<1>3. \A i \in rows : SortKey[column][list[i]] \in Int
  <2>1. SortKey \in [Columns -> [Messages -> Int]]
    BY AppAssumption
  <2>2. SortKey[column] \in [Messages -> Int]
    BY <2>1
  <2>3. QED
    BY <1>2, <2>2
<1>4. key \in [rows -> Int]
  BY <1>3
<1>5. \A i, j \in rows : Before(column, ascending, list[i], list[j]) <=> key[i] < key[j]
  BY <1>3 DEF Before
<1>6. IsRanking(before, rows)
  <2> HIDE DEF key
  <2>1. \A i \in rows : key[i] \in Int /\ i \in Nat
    BY <1>1, <1>4
  <2>2. \A i, j \in rows : i \in before[j] <=> key[i] < key[j] \/ (key[i] = key[j] /\ i < j)
    OBVIOUS
  <2>3. before \in [rows -> SUBSET rows]
    OBVIOUS
  <2> HIDE DEF before, rows
  <2>4. \A j \in rows : j \notin before[j]
    BY <2>1, <2>2
  <2>5. \A i, j \in rows : i # j => i \in before[j] \/ j \in before[i]
    BY <2>1, <2>2
  <2>6. \A i, j, k \in rows : i \in before[j] /\ k \in before[i] => k \in before[j]
    BY <2>1, <2>2
  <2>7. \A i, j \in rows : i \in before[j] => before[i] \subseteq before[j]
    BY <2>3, <2>6
  <2>8. QED
    BY <2>3, <2>4, <2>5, <2>7 DEF IsRanking
<1>7. IsFiniteSet(rows) /\ Cardinality(rows) = Len(list)
  <2>1. \A n \in Nat : IsFiniteSet(1 .. n) /\ Cardinality(1 .. n) = n
    BY FS_Interval
  <2>2. QED
    BY <1>1, <2>1
<1>8. /\ \A i, j \in rows : PlaceIn(before, i) = PlaceIn(before, j) => i = j
      /\ \A n \in rows : \E j \in rows : PlaceIn(before, j) = n
      /\ \A j \in rows : PlaceIn(before, j) \in rows
  <2> HIDE DEF before
  <2>1. QED
    BY <1>6, <1>7, PlacesAreTaken
<1>9. ASSUME NEW j \in rows
      PROVE  {i \in DOMAIN list \ {j} :
                  \/ Before(column, ascending, list[i], list[j])
                  \/ ~Before(column, ascending, list[j], list[i]) /\ i < j}
             = before[j]
  <2>1. \A i \in rows : i # j /\ (\/ Before(column, ascending, list[i], list[j])
                                  \/ ~Before(column, ascending, list[j], list[i]) /\ i < j)
                        <=> key[i] < key[j] \/ (key[i] = key[j] /\ i < j)
    <3> HIDE DEF key
    <3>1. QED
      BY <1>1, <1>4, <1>5
  <2> HIDE DEF key
  <2>2. QED
    BY <1>1, <2>1
<1> DEFINE AtPlace(j, n) ==
             Cardinality({i \in DOMAIN list \ {j} :
                  \/ Before(column, ascending, list[i], list[j])
                  \/ ~Before(column, ascending, list[j], list[i]) /\ i < j}) + 1 = n
           Row(n) == CHOOSE j \in DOMAIN list : AtPlace(j, n)
<1>10. \A n \in rows : Row(n) \in rows /\ PlaceIn(before, Row(n)) = n
  <2>1. \A j \in rows : \A n : AtPlace(j, n) <=> PlaceIn(before, j) = n
    <3> HIDE DEF before
    <3>1. QED
      BY <1>9 DEF PlaceIn
  <2> HIDE DEF before, rows, AtPlace
  <2>2. QED
    BY <1>1, <1>8, <2>1
<1>11. sorted = [n \in rows |-> list[Row(n)]]
  <2>1. sorted = [n \in DOMAIN list |-> list[Row(n)]]
    BY DEF SortedBy, StableSort
  <2> HIDE DEF Row, sorted, before
  <2>2. QED
    BY <1>1, <2>1
<1>12. QED
  <2> HIDE DEF before, Row, sorted
  <2>1. sorted \in [rows -> Messages]
    BY <1>2, <1>10, <1>11
  <2>2. \A i, j \in rows : Row(i) = Row(j) => i = j
    BY <1>10
  <2>3. \A j \in rows : Row(PlaceIn(before, j)) = j
    BY <1>8, <1>10
  <2>4. Range(sorted) = Range(list)
    BY <1>1, <1>8, <1>10, <1>11, <2>3 DEF Range
  <2>5. IsInjective(list) => IsInjective(sorted)
    BY <1>1, <1>10, <1>11, <2>2 DEF IsInjective
  <2>6. sorted \in Seq(Messages) /\ Len(sorted) = Len(list)
    BY <1>1, <2>1
  <2>7. QED
    BY <2>4, <2>5, <2>6 DEF sorted

LEMMA AscendingIsAList ==
  ASSUME NEW set \in SUBSET Messages
  PROVE  IsListOf(Ascending(set), set)
<1>1. set \in SUBSET Nat /\ IsFiniteSet(set)
  BY MessagesAreFinite
<1> DEFINE list == Ascending(set)
<1>2. /\ Cardinality(set) \in Nat
      /\ list \in [1 .. Cardinality(set) -> set]
      /\ \A k \in set : \E n \in 1 .. Cardinality(set) : list[n] = k
      /\ \A i, j \in 1 .. Cardinality(set) : list[i] = list[j] => i = j
  BY <1>1, AscendingListsTheSet
<1> HIDE DEF list
<1>3. Range(list) = set
  BY <1>2 DEF Range
<1>4. list \in Seq(Messages)
  BY <1>2
<1>5. IsInjective(list)
  BY <1>2 DEF IsInjective
<1>6. QED
  BY <1>3, <1>4, <1>5 DEF IsListOf, list

LEMMA SortedIsAList ==
  ASSUME NEW set, NEW list, IsListOf(list, set),
         NEW column \in Columns, NEW ascending \in BOOLEAN
  PROVE  /\ IsListOf(SortedBy(list, column, ascending), set)
         /\ Len(SortedBy(list, column, ascending)) = Len(list)
BY SortingMovesRows DEF IsListOf

(* The conversations of a set list each of its messages once.              *)
LEMMA ThreadedIsAList ==
  ASSUME NEW set \in SUBSET Messages
  PROVE  /\ IsListOf(MessagesOf(Threaded(set)), set)
         /\ DepthsOf(Threaded(set)) \in Seq(Nat)
<1> DEFINE all == 1 .. Len(Conversations)
           rows == {i \in all : Conversations[i][1] \in set}
           kept == Ascending(rows)
           count == Cardinality(rows)
<1>1. /\ Len(Conversations) \in Nat
      /\ DOMAIN Conversations = all
      /\ \A i \in all : Conversations[i] \in Messages \X Nat
      /\ \A m \in Messages : \E i \in all : Conversations[i][1] = m
      /\ \A i, j \in all : Conversations[i][1] = Conversations[j][1] => i = j
  <2>1. Conversations \in Seq(Messages \X Nat)
    BY AppAssumption
  <2>2. Len(Conversations) \in Nat /\ DOMAIN Conversations = all
        /\ \A i \in all : Conversations[i] \in Messages \X Nat
    BY <2>1
  <2>3. QED
    BY <2>2, AppAssumption
<1>2. rows \in SUBSET Nat /\ IsFiniteSet(rows)
  <2>1. IsFiniteSet(all)
    BY <1>1, FS_Interval
  <2>2. rows \in SUBSET all
    OBVIOUS
  <2>3. QED
    BY <2>1, <2>2, FS_Subset
<1>3. /\ count \in Nat
      /\ kept \in [1 .. count -> rows]
      /\ \A k \in rows : \E n \in 1 .. count : kept[n] = k
      /\ \A i, j \in 1 .. count : kept[i] = kept[j] => i = j
  <2> HIDE DEF rows
  <2>1. QED
    BY <1>2, AscendingListsTheSet
<1>4. Threaded(set) = [n \in 1 .. count |-> Conversations[kept[n]]]
  <2>1. Threaded(set) = [n \in DOMAIN kept |-> Conversations[kept[n]]]
    BY <1>1 DEF Threaded
  <2>2. DOMAIN kept = 1 .. count
    BY <1>3
  <2> HIDE DEF kept, count
  <2>3. QED
    BY <2>1, <2>2
<1>5. \A k \in rows : k \in all /\ Conversations[k][1] \in set
  OBVIOUS
<1>6. \A m \in set : \E k \in rows : Conversations[k][1] = m
  BY <1>1
<1> DEFINE listed == MessagesOf(Threaded(set))
<1> HIDE DEF all, rows, kept, count
<1>7. listed = [n \in 1 .. count |-> Conversations[kept[n]][1]]
  BY <1>4 DEF MessagesOf
<1>8. DepthsOf(Threaded(set)) = [n \in 1 .. count |-> Conversations[kept[n]][2]]
  BY <1>4 DEF DepthsOf
<1>9. \A n \in 1 .. count : /\ Conversations[kept[n]][1] \in set
                            /\ Conversations[kept[n]][2] \in Nat
  BY <1>1, <1>3, <1>5
<1>10. DepthsOf(Threaded(set)) \in Seq(Nat)
  BY <1>3, <1>8, <1>9
<1> HIDE DEF listed
<1>11. listed \in [1 .. count -> set]
  BY <1>7, <1>9
<1>12. listed \in Seq(Messages)
  BY <1>3, <1>11
<1>13. IsInjective(listed)
  BY <1>1, <1>3, <1>5, <1>7 DEF IsInjective
<1>14. \A m \in set : \E n \in 1 .. count : listed[n] = m
  BY <1>3, <1>6, <1>7
<1>15. Range(listed) = set
  BY <1>11, <1>14 DEF Range
<1>16. QED
  BY <1>10, <1>12, <1>13, <1>15 DEF IsListOf, listed

-----------------------------------------------------------------------------
(* Types, with those of the records, by the groups of variables.  The list *)
(* repeats no message: otherwise sorting it and threading it would show    *)
(* different sets.                                                         *)

BodySearches == [active : BOOLEAN, matches : Seq(Messages), index : Nat]

Answers == {<<>>} \cup {<<found>> : found \in SUBSET Messages}

Filters == {<<>>} \cup {<<l>> : l \in Labels}

JobRecords == [worker : {"none", "running", "ended"}, query : Queries,
               restrict : SUBSET Messages, cancel : BOOLEAN, answer : Answers,
               startedIn : SUBSET Filters]

ListTypes ==
    /\ visible_indices \in Seq(Messages) /\ IsInjective(visible_indices)
    /\ thread_depths \in Seq(Nat)
    /\ selected \in Nat
    /\ current_body \in {<<>>} \cup {<<m>> : m \in Readable}
    /\ body_search \in BodySearches
    /\ Len(body_search.matches) <= MaxMatches /\ body_search.index <= MaxMatches

OrderTypes ==
    /\ threaded_view \in BOOLEAN /\ sort_column \in Columns /\ sort_ascending \in BOOLEAN
    /\ active_label_filter \in {<<>>} \cup {<<l>> : l \in Labels}

SearchTypes ==
    /\ search_active \in BOOLEAN /\ filter_within_results \in BOOLEAN
    /\ search_query \in Queries
    /\ search_dirty \in {"no", "recent", "settled"}
    /\ search_results \in Seq(Messages) /\ search_result_index \in Nat
    /\ search_job \in {0} \cup Jobs
    /\ jobs \in [Jobs -> JobRecords]

UiTypes == should_quit \in BOOLEAN /\ focus \in Panels /\ popups \subseteq Popups

Types == ListTypes /\ OrderTypes /\ SearchTypes /\ UiTypes

-----------------------------------------------------------------------------
(* What a step does to the list. *)

(* Another list is shown, of these messages, and its first row selected.   *)
Replaced(set) ==
    /\ IsListOf(visible_indices', set)
    /\ thread_depths' \in Seq(Nat)
    /\ set # {} =>
           /\ Len(visible_indices') > 0
           /\ selected' = 0
           /\ current_body' = BodyOf(visible_indices'[1])
           /\ body_search' = NoBodySearch
    /\ set = {} =>
           /\ UNCHANGED <<selected, body_search>>
           /\ current_body' = <<>> \/ (Visible = {} /\ UNCHANGED current_body)

(* The selection moves, or a key has no effect.                            *)
Moved ==
    /\ UNCHANGED <<visible_indices, thread_depths>>
    /\ \/ UNCHANGED <<selected, current_body, body_search>>
       \/ /\ selected' \in Nat /\ selected' < Len(visible_indices)
          /\ current_body' = BodyOf(visible_indices[selected' + 1])
          /\ body_search' = NoBodySearch

(* A sort key moves the rows under the selection.                          *)
Reordered ==
    /\ \A set : IsListOf(visible_indices, set) => IsListOf(visible_indices', set)
    /\ visible_indices' \in Seq(Messages)
    /\ Range(visible_indices') = Visible
    /\ Len(visible_indices') = Len(visible_indices)
    /\ UNCHANGED <<thread_depths, selected, current_body, body_search>>
    /\ sort_column' # sort_column \/ sort_ascending' # sort_ascending

(* Only the in-body search changes: its focus, its prompt, or what it      *)
(* finds in the loaded body.                                               *)
SearchedBody ==
    /\ UNCHANGED <<visible_indices, thread_depths, selected, current_body>>
    /\ body_search' \in BodySearches
    /\ Len(body_search'.matches) <= MaxMatches /\ body_search'.index <= MaxMatches
    /\ \/ /\ body_search'.matches = body_search.matches
          /\ body_search'.index = body_search.index
       \/ body_search'.matches = body_search.matches
          /\ body_search'.index < Len(body_search.matches)
       \/ body_search'.matches = <<>>
       \/ /\ current_body # <<>>
          /\ \A i \in DOMAIN body_search'.matches : body_search'.matches[i] = current_body[1]
          /\ body_search'.index = 0

(* Where the messages of a new list come from.                             *)
WithinScope(set) == set \subseteq LabelScope' \/ (set \subseteq Visible /\ UNCHANGED active_label_filter)

Answered(set) ==
    /\ PollSearch
    /\ set \subseteq jobs[search_job].restrict
    /\ UNCHANGED active_label_filter

ListStep ==
    \/ Moved /\ UNCHANGED active_label_filter
    \/ SearchedBody /\ UNCHANGED active_label_filter
    \/ Reordered /\ UNCHANGED active_label_filter
    \/ \E set \in SUBSET Messages : Replaced(set) /\ (Answered(set) \/ WithinScope(set))

LEMMA ListedIsEmpty ==
  ASSUME NEW list, NEW set, IsListOf(list, set)
  PROVE  /\ set = {} <=> list = <<>>
         /\ set # {} => Len(list) \in Nat /\ Len(list) > 0 /\ list[1] \in set
<1>1. list \in Seq(Messages) /\ set = {list[i] : i \in 1 .. Len(list)}
  BY DEF IsListOf, Range
<1>2. QED
  BY <1>1

LEMMA VisibleIsListed ==
  ASSUME Types
  PROVE  Visible \subseteq Messages
BY DEF Types, ListTypes, Visible, Range

LEMMA ScopeIsOfMessages ==
  ASSUME Types
  PROVE  LabelScope \subseteq Messages /\ (LabelScope = {} => Visible = {})
<1>1. ASSUME NEW l \in Labels
      PROVE  Labelled[l] \in SUBSET Messages /\ Labelled[l] # {}
  BY AppAssumption
<1>2. CASE active_label_filter = <<>>
  BY <1>2, VisibleIsListed DEF LabelScope
<1>3. CASE active_label_filter # <<>>
  <2>1. PICK l \in Labels : active_label_filter = <<l>>
    BY <1>3 DEF Types, OrderTypes
  <2>2. QED
    BY <1>1, <1>3, <2>1 DEF LabelScope
<1>4. QED
  BY <1>2, <1>3

LEMMA RestrictIsOfMessages ==
  ASSUME Types
  PROVE  /\ SearchRestrictSet \subseteq Messages
         /\ SearchRestrictSet = {} => Visible = {}
         /\ SearchRestrictSet \subseteq Visible \/ SearchRestrictSet \subseteq LabelScope
BY VisibleIsListed, ScopeIsOfMessages DEF SearchRestrictSet

(* The list is sorted, or threaded.                                        *)
LEMMA NewListIsAList ==
  ASSUME Types, NEW set \in SUBSET Messages
  PROVE  /\ IsListOf(Sorted(Ascending(set)), set)
         /\ IsListOf(MessagesOf(Threaded(set)), set)
         /\ DepthsOf(Threaded(set)) \in Seq(Nat)
BY AscendingIsAList, SortedIsAList, ThreadedIsAList DEF Types, OrderTypes, Sorted

LEMMA FirstRowIsSelected ==
  ASSUME Types, NEW set \in SUBSET Messages,
         IsListOf(visible_indices', set), thread_depths' \in Seq(Nat),
         SelectMessage(visible_indices', 0), set = {} => Visible = {}
  PROVE  Replaced(set)
<1>1. CASE set = {}
  <2>1. visible_indices' = <<>>
    BY <1>1, ListedIsEmpty
  <2>2. ~(0 < Len(visible_indices'))
    BY <2>1
  <2>3. UNCHANGED <<selected, current_body, body_search>>
    BY <2>2 DEF SelectMessage
  <2>4. QED
    BY <1>1, <2>3 DEF Replaced
<1>2. CASE set # {}
  <2>1. 0 < Len(visible_indices') /\ 0 + 1 = 1
    BY <1>2, ListedIsEmpty
  <2>2. QED
    BY <1>2, <2>1 DEF SelectMessage, Replaced
<1>3. QED
  BY <1>1, <1>2

LEMMA ShowReplaces ==
  ASSUME Types, NEW set \in SUBSET Messages, Show(set)
  PROVE  Replaced(set)
<1>1. IsListOf(visible_indices', set) /\ thread_depths' \in Seq(Nat)
  BY NewListIsAList DEF Show, Types, ListTypes
<1>2. CASE set = {}
  BY <1>1, <1>2 DEF Show, Replaced
<1>3. CASE set # {}
  BY <1>1, <1>3, FirstRowIsSelected DEF Show
<1>4. QED
  BY <1>2, <1>3

LEMMA ShowUnthreadedReplaces ==
  ASSUME Types, NEW set \in SUBSET Messages, ShowUnthreaded(set), set = {} => Visible = {}
  PROVE  Replaced(set)
BY NewListIsAList, FirstRowIsSelected DEF ShowUnthreaded, Types, ListTypes

LEMMA SelectMoves ==
  ASSUME Types, NEW row \in Nat, SelectMessage(visible_indices, row),
         UNCHANGED <<visible_indices, thread_depths>>
  PROVE  Moved
BY DEF SelectMessage, Moved

LEMMA NothingMoves ==
  ASSUME UNCHANGED <<listVars, active_label_filter>>
  PROVE  ListStep
BY DEF ListStep, Moved, listVars

LEMMA SearchReplaces ==
  ASSUME Types, NEW query \in Queries, ExecuteSearch(query), UNCHANGED active_label_filter
  PROVE  ListStep
<1> DEFINE restrict == SearchRestrictSet
<1>1. /\ restrict \in SUBSET Messages
      /\ restrict = {} => Visible = {}
      /\ \A set : set \subseteq restrict => WithinScope(set)
  BY RestrictIsOfMessages DEF WithinScope, LabelScope
<1>2. CASE ShowUnthreaded(restrict)
  BY <1>1, <1>2, ShowUnthreadedReplaces DEF ListStep
<1>3. CASE UNCHANGED listVars
  BY <1>3, NothingMoves
<1>4. CASE ApplySearchResults(Hits[query], restrict)
  <2>1. Hits[query] \cap restrict \in SUBSET Messages /\ WithinScope(Hits[query] \cap restrict)
    BY <1>1
  <2>2. Show(Hits[query] \cap restrict)
    BY <1>4 DEF ApplySearchResults
  <2>3. QED
    BY <2>1, <2>2, ShowReplaces DEF ListStep
<1>5. QED
  BY <1>2, <1>3, <1>4 DEF ExecuteSearch

LEMMA LabelReplaces ==
  ASSUME Types, NEW label \in {<<>>} \cup {<<l>> : l \in Labels}, ApplyLabelFilter(label)
  PROVE  ListStep
<1> DEFINE set == IF label = <<>> THEN Messages ELSE Labelled[label[1]]
<1>1. set \in SUBSET Messages
  <2>1. \A l \in Labels : Labelled[l] \in SUBSET Messages
    BY AppAssumption
  <2>2. QED
    BY <2>1
<1>2. set = LabelScope' /\ Show(set)
  BY DEF ApplyLabelFilter, LabelScope
<1>3. WithinScope(set)
  BY <1>2 DEF WithinScope
<1>4. QED
  BY <1>1, <1>2, <1>3, ShowReplaces DEF ListStep

LEMMA LeavingReplaces ==
  ASSUME Types, LeaveSearch
  PROVE  ListStep
<1>1. CASE ApplyLabelFilter(active_label_filter)
  BY <1>1, LabelReplaces DEF Types, OrderTypes
<1>2. CASE active_label_filter = <<>> /\ ShowUnthreaded(Messages)
           /\ UNCHANGED active_label_filter
  <2>1. WithinScope(Messages)
    BY <1>2 DEF WithinScope, LabelScope
  <2>2. Messages \in SUBSET Messages /\ (Messages = {} => Visible = {})
    BY VisibleIsListed
  <2>3. QED
    BY <1>2, <2>1, <2>2, ShowUnthreadedReplaces DEF ListStep
<1>3. QED
  BY <1>1, <1>2 DEF LeaveSearch

LEMMA PollReplaces ==
  ASSUME Types, Poll
  PROVE  ListStep
<1>1. CASE PollSearch
  <2> DEFINE set == jobs[search_job].answer[1] \cap jobs[search_job].restrict
  <2>1. jobs[search_job].restrict \in SUBSET Messages
    BY <1>1 DEF PollSearch, Types, SearchTypes, JobRecords
  <2>2. UNCHANGED active_label_filter
    BY <1>1 DEF PollSearch
  <2>3. CASE UNCHANGED listVars
    BY <2>2, <2>3, NothingMoves
  <2>4. CASE Show(set)
    <3>1. set \in SUBSET Messages
      BY <2>1
    <3>2. Answered(set)
      BY <1>1, <2>2 DEF Answered
    <3>3. QED
      BY <2>4, <3>1, <3>2, ShowReplaces DEF ListStep
  <2>5. QED
    BY <1>1, <2>3, <2>4 DEF PollSearch, ApplySearchResults
<1>2. CASE PollIncrementalSearch
  <2>1. UNCHANGED active_label_filter
    BY <1>2 DEF PollIncrementalSearch
  <2>2. /\ LabelScope \in SUBSET Messages /\ (LabelScope = {} => Visible = {})
        /\ \A set : set \subseteq LabelScope => WithinScope(set)
    BY <2>1, ScopeIsOfMessages DEF WithinScope, LabelScope
  <2>3. CASE ShowUnthreaded(LabelScope)
    BY <2>2, <2>3, ShowUnthreadedReplaces DEF ListStep
  <2>4. CASE UNCHANGED listVars
    BY <2>1, <2>4, NothingMoves
  <2>5. CASE Show(QuickHits[search_query] \cap LabelScope)
    BY <2>2, <2>5, ShowReplaces DEF ListStep
  <2>6. QED
    BY <1>2, <2>3, <2>4, <2>5 DEF PollIncrementalSearch
<1>3. QED
  BY <1>1, <1>2 DEF Poll

LEMMA ToggleReplaces ==
  ASSUME Types, ToggleThreads
  PROVE  ListStep
<1>1. Visible \in SUBSET Messages
  BY VisibleIsListed
<1>2. IsListOf(Sorted(visible_indices), Visible)
  <2>1. IsListOf(visible_indices, Visible)
    BY DEF Types, ListTypes, IsListOf, Visible
  <2>2. QED
    BY <2>1, SortedIsAList DEF Types, OrderTypes, Sorted
<1>3. IsListOf(visible_indices', Visible) /\ thread_depths' \in Seq(Nat)
  <2>1. /\ IsListOf(MessagesOf(Threaded(Visible)), Visible)
        /\ DepthsOf(Threaded(Visible)) \in Seq(Nat)
    BY <1>1, NewListIsAList
  <2>2. <<>> \in Seq(Nat)
    OBVIOUS
  <2>3. \/ /\ visible_indices' = MessagesOf(Threaded(Visible))
           /\ thread_depths' = DepthsOf(Threaded(Visible))
        \/ visible_indices' = Sorted(visible_indices) /\ thread_depths' = <<>>
    BY DEF ToggleThreads
  <2>4. QED
    BY <1>2, <2>1, <2>2, <2>3
<1>4. Replaced(Visible)
  BY <1>1, <1>3, FirstRowIsSelected DEF ToggleThreads
<1>5. WithinScope(Visible)
  BY DEF ToggleThreads, WithinScope
<1>6. QED
  BY <1>1, <1>4, <1>5 DEF ListStep

LEMMA SortReorders ==
  ASSUME Types, CycleSort \/ ReverseSort
  PROVE  ListStep
<1>1. sort_column \in Columns /\ sort_ascending \in BOOLEAN
  BY DEF Types, OrderTypes
<1>2. ASSUME NEW column \in Columns, NEW ascending \in BOOLEAN, SortList(column, ascending),
             column # sort_column \/ ascending # sort_ascending
      PROVE  ListStep
  <2>1. visible_indices' = SortedBy(visible_indices, column, ascending)
    BY <1>2 DEF SortList
  <2>2. \A set : IsListOf(visible_indices, set) => IsListOf(visible_indices', set)
    BY <2>1, SortedIsAList
  <2>3. IsListOf(visible_indices, Visible)
    BY DEF Types, ListTypes, IsListOf, Visible
  <2>4. Len(visible_indices') = Len(visible_indices)
    BY <2>1, <2>3, SortedIsAList
  <2>5. visible_indices' \in Seq(Messages) /\ Range(visible_indices') = Visible
    BY <2>2, <2>3 DEF IsListOf
  <2>6. Reordered /\ UNCHANGED active_label_filter
    BY <1>2, <2>2, <2>4, <2>5 DEF Reordered, SortList
  <2>7. QED
    BY <2>6 DEF ListStep
<1>3. CASE CycleSort
  <2>1. NextColumn[sort_column] \in Columns /\ NextColumn[sort_column] # sort_column
    BY <1>1 DEF NextColumn, Columns
  <2>2. QED
    BY <1>2, <1>3, <2>1 DEF CycleSort
<1>4. CASE ReverseSort
  <2>1. (~sort_ascending) \in BOOLEAN /\ (~sort_ascending) # sort_ascending
    BY <1>1
  <2>2. SortList(sort_column, ~sort_ascending)
    BY <1>4 DEF ReverseSort
  <2>3. QED
    BY <1>1, <1>2, <2>1, <2>2
<1>5. QED
  BY <1>3, <1>4

LEMMA ResultIsSelected ==
  ASSUME Types, NEW delta \in {1, -1}, StepResult(delta)
  PROVE  ListStep
<1> DEFINE m == search_results[search_result_index' + 1]
           row == (CHOOSE i \in DOMAIN visible_indices : visible_indices[i] = m) - 1
<1>1. CASE m \in Visible
  <2>1. visible_indices \in Seq(Messages)
    BY DEF Types, ListTypes
  <2>2. \E i \in DOMAIN visible_indices : visible_indices[i] = m
    BY <1>1 DEF Visible, Range
  <2>3. row \in Nat
    <3> HIDE DEF m
    <3>1. (CHOOSE i \in DOMAIN visible_indices : visible_indices[i] = m) \in 1 .. Len(visible_indices)
      BY <2>1, <2>2
    <3>2. QED
      BY <3>1
  <2>4. SelectMessage(visible_indices, row) /\ UNCHANGED <<visible_indices, thread_depths,
                                                            active_label_filter>>
    BY <1>1 DEF StepResult
  <2> HIDE DEF row
  <2>5. QED
    BY <2>3, <2>4, SelectMoves DEF ListStep
<1>2. CASE m \notin Visible
  BY <1>2 DEF StepResult, ListStep, Moved
<1>3. QED
  BY <1>1, <1>2

LEMMA EmptyIsShort == Len(<<>>) = 0
OBVIOUS

LEMMA BodyIsSearched ==
  ASSUME Types, TypeBodyQuery \/ CloseBodyPrompt \/ OpenBodySearch \/ StepMatch
  PROVE  ListStep
<1>1. /\ body_search \in BodySearches /\ Len(body_search.matches) <= MaxMatches
      /\ body_search.index <= MaxMatches /\ MaxMatches \in Nat
  BY AppAssumption DEF Types, ListTypes
<1>2. NoBodySearch \in BodySearches /\ NoBodySearch.matches = <<>> /\ NoBodySearch.index = 0
  BY DEF NoBodySearch, BodySearches
<1>3. CASE TypeBodyQuery
  <2>1. PICK n \in IF current_body = <<>> THEN {0} ELSE 0 .. MaxMatches :
            body_search' = [active |-> TRUE, matches |-> [i \in 1 .. n |-> current_body[1]],
                            index |-> 0]
    BY <1>3 DEF TypeBodyQuery
  <2>2. n \in Nat /\ n <= MaxMatches /\ (current_body = <<>> => n = 0)
    BY <1>1
  <2>3. current_body # <<>> => current_body[1] \in Messages
    BY AppAssumption DEF Types, ListTypes
  <2> DEFINE found == [i \in 1 .. n |-> current_body[1]]
  <2>4. found \in Seq(Messages) /\ Len(found) = n /\ (current_body = <<>> => found = <<>>)
    BY <2>2, <2>3
  <2>5. \A i \in DOMAIN found : found[i] = current_body[1]
    OBVIOUS
  <2> HIDE DEF found
  <2>6. body_search' = [active |-> TRUE, matches |-> found, index |-> 0]
    BY <2>1 DEF found
  <2>7. /\ body_search' \in BodySearches /\ body_search'.matches = found
        /\ body_search'.index = 0
    BY <2>4, <2>6 DEF BodySearches
  <2>8. UNCHANGED <<visible_indices, thread_depths, selected, current_body, active_label_filter>>
    BY <1>3 DEF TypeBodyQuery
  <2>9. SearchedBody
    BY <1>1, <2>2, <2>4, <2>5, <2>7, <2>8 DEF SearchedBody
  <2>10. QED
    BY <2>8, <2>9 DEF ListStep
<1>4. CASE CloseBodyPrompt
  <2> DEFINE closed == [body_search EXCEPT !.active = FALSE]
  <2>1. closed \in BodySearches /\ closed.matches = body_search.matches
        /\ closed.index = body_search.index
    BY <1>1 DEF BodySearches
  <2>2. body_search' = NoBodySearch \/ body_search' = closed
    BY <1>4 DEF CloseBodyPrompt
  <2>3. UNCHANGED <<visible_indices, thread_depths, selected, current_body, active_label_filter>>
    BY <1>4 DEF CloseBodyPrompt
  <2> HIDE DEF closed
  <2>4. SearchedBody
    BY <1>1, <1>2, <2>1, <2>2, <2>3, EmptyIsShort DEF SearchedBody
  <2>5. QED
    BY <2>3, <2>4 DEF ListStep, CloseBodyPrompt
<1>5. CASE OpenBodySearch
  <2> DEFINE opened == [NoBodySearch EXCEPT !.active = TRUE]
  <2>1. opened \in BodySearches /\ opened.matches = <<>> /\ opened.index = 0
    <3>1. opened \in BodySearches /\ opened.matches = NoBodySearch.matches
          /\ opened.index = NoBodySearch.index
      BY <1>2 DEF BodySearches
    <3>2. QED
      BY <1>2, <3>1
  <2>2. body_search' = opened /\ UNCHANGED <<visible_indices, thread_depths, selected,
                                             current_body, active_label_filter>>
    BY <1>5 DEF OpenBodySearch
  <2> HIDE DEF opened
  <2>3. SearchedBody
    BY <1>1, <2>1, <2>2, EmptyIsShort DEF SearchedBody
  <2>4. QED
    BY <2>2, <2>3 DEF ListStep, OpenBodySearch
<1>6. CASE StepMatch
  <2> DEFINE count == Len(body_search.matches)
  <2>1. count \in Nat /\ count > 0
    BY <1>1, <1>6 DEF StepMatch, BodySearches
  <2>2. \A k \in Nat : k % count \in Nat /\ k % count < count
    <3> HIDE DEF count
    <3>1. QED
      BY <2>1
  <2>3. /\ (body_search.index + 1) % count \in Nat
        /\ (body_search.index + 1) % count < count
        /\ (body_search.index + count - 1) % count \in Nat
        /\ (body_search.index + count - 1) % count < count
    <3>1. body_search.index + 1 \in Nat /\ body_search.index + count - 1 \in Nat
      BY <1>1, <2>1 DEF BodySearches
    <3> HIDE DEF count
    <3>2. QED
      BY <2>2, <3>1
  <2>4. \/ \E k \in Nat : k < count /\ body_search' = [body_search EXCEPT !.index = k]
        \/ body_search' = NoBodySearch
    BY <1>6, <2>3 DEF StepMatch
  <2>5. ASSUME NEW k \in Nat
        PROVE  LET other == [body_search EXCEPT !.index = k]
               IN  other \in BodySearches /\ other.matches = body_search.matches /\ other.index = k
    BY <1>1 DEF BodySearches
  <2>6. UNCHANGED <<visible_indices, thread_depths, selected, current_body, active_label_filter>>
    BY <1>6 DEF StepMatch
  <2>7. ASSUME body_search' = NoBodySearch
        PROVE  SearchedBody
    BY <1>1, <1>2, <2>6, <2>7, EmptyIsShort DEF SearchedBody
  <2>8. ASSUME body_search' # NoBodySearch
        PROVE  SearchedBody
    <3>1. PICK k \in Nat : k < count /\ body_search' = [body_search EXCEPT !.index = k]
      BY <2>4, <2>8
    <3>2. /\ body_search' \in BodySearches /\ body_search'.matches = body_search.matches
          /\ body_search'.index = k
      BY <2>5, <3>1
    <3>3. k <= MaxMatches
      BY <1>1, <2>1, <3>1
    <3>4. QED
      BY <1>1, <2>6, <3>1, <3>2, <3>3 DEF SearchedBody
  <2>9. QED
    BY <2>6, <2>7, <2>8 DEF ListStep, StepMatch
<1>7. QED
  BY <1>3, <1>4, <1>5, <1>6

(* No step does anything else to the list. *)
LEMMA EveryStepIsAListStep ==
  ASSUME Types, Next
  PROVE  ListStep
<1>1. ASSUME NEW query \in Queries, TypeQuery(query)
      PROVE  ListStep
  BY <1>1, NothingMoves DEF TypeQuery
<1>2. ASSUME NEW query \in Queries, ConfirmFilter(query)
      PROVE  ListStep
  BY <1>2, SearchReplaces DEF ConfirmFilter
<1>3. CASE ConfirmSearch
  <2>1. search_query \in Queries
    BY DEF Types, SearchTypes
  <2>2. QED
    BY <1>3, <2>1, SearchReplaces DEF ConfirmSearch
<1>4. CASE OpenSearch \/ CancelSearch
  BY <1>4, NothingMoves DEF OpenSearch, CancelSearch
<1>5. ASSUME NEW popup \in Popups, OpenPopup(popup) \/ ClosePopup(popup)
      PROVE  ListStep
  BY <1>5, NothingMoves DEF OpenPopup, ClosePopup
<1>6. CASE ToggleWithinResults \/ Quit
  BY <1>6, NothingMoves DEF ToggleWithinResults, Quit
<1>7. ASSUME NEW panel \in Panels, MoveFocus(panel)
      PROVE  ListStep
  BY <1>7, NothingMoves DEF MoveFocus
<1>8. ASSUME NEW label \in {<<>>} \cup {<<l>> : l \in Labels}, ChooseLabel(label)
      PROVE  ListStep
  BY <1>8, LabelReplaces DEF ChooseLabel
<1>9. ASSUME NEW row \in 0 .. N - 1, MoveTo(row)
      PROVE  ListStep
  <2>1. row \in Nat
    BY AppAssumption
  <2>2. QED
    BY <1>9, <2>1, SelectMoves DEF MoveTo, ListStep
<1>10. CASE InputSettles
  BY <1>10, NothingMoves DEF InputSettles
<1>11. ASSUME NEW j \in Jobs, Worker(j)
       PROVE  ListStep
  BY <1>11, NothingMoves DEF Worker, WorkerEnds, WorkerFails
<1>12. CASE Key
  <2>1. <<>> \in {<<>>} \cup {<<l>> : l \in Labels}
        /\ \A l \in Labels : <<l>> \in {<<>>} \cup {<<k>> : k \in Labels}
    OBVIOUS
  <2>2. QED
    BY <1>1, <1>2, <1>3, <1>4, <1>5, <1>6, <1>7, <1>8, <1>9, <1>12, <2>1,
       LeavingReplaces, BodyIsSearched, SortReorders, ToggleReplaces, ResultIsSelected DEF Key
<1>13. QED
  BY <1>10, <1>11, <1>12, PollReplaces DEF Next

-----------------------------------------------------------------------------
(* The types are kept. *)

LEMMA BodyTypes ==
  ASSUME NEW m \in Messages
  PROVE  BodyOf(m) \in {<<>>} \cup {<<k>> : k \in Readable}
BY DEF BodyOf

LEMMA NoBodySearchTypes ==
  /\ NoBodySearch \in BodySearches
  /\ NoBodySearch.matches = <<>> /\ NoBodySearch.index = 0
  /\ Len(NoBodySearch.matches) <= MaxMatches /\ NoBodySearch.index <= MaxMatches
<1>1. MaxMatches \in Nat
  BY AppAssumption
<1>2. QED
  BY <1>1, EmptyIsShort DEF NoBodySearch, BodySearches

LEMMA ListTypesStep ==
  ASSUME Types, ListStep
  PROVE  ListTypes'
<1>1. CASE Moved
  <2>1. ListTypes
    BY DEF Types
  <2>2. CASE UNCHANGED <<selected, current_body, body_search>>
    BY <1>1, <2>1, <2>2 DEF Moved, ListTypes, IsInjective
  <2>3. CASE ~UNCHANGED <<selected, current_body, body_search>>
    <3>1. visible_indices[selected' + 1] \in Messages /\ selected' \in Nat
      BY <1>1, <2>1, <2>3 DEF Moved, ListTypes
    <3>2. current_body' \in {<<>>} \cup {<<k>> : k \in Readable}
      BY <1>1, <2>3, <3>1, BodyTypes DEF Moved
    <3>3. body_search' = NoBodySearch /\ UNCHANGED <<visible_indices, thread_depths>>
      BY <1>1, <2>3 DEF Moved
    <3>4. QED
      BY <2>1, <3>1, <3>2, <3>3, NoBodySearchTypes DEF ListTypes
  <2>4. QED
    BY <2>2, <2>3
<1>2. CASE SearchedBody
  BY <1>2 DEF SearchedBody, Types, ListTypes
<1>3. CASE Reordered
  <2>1. IsListOf(visible_indices, Visible)
    BY DEF Types, ListTypes, IsListOf, Visible
  <2>2. IsListOf(visible_indices', Visible)
    BY <1>3, <2>1 DEF Reordered
  <2>3. QED
    BY <1>3, <2>2 DEF Reordered, Types, ListTypes, IsListOf
<1>4. ASSUME NEW set \in SUBSET Messages, Replaced(set)
      PROVE  ListTypes'
  <2>1. IsListOf(visible_indices', set) /\ thread_depths' \in Seq(Nat)
    BY <1>4 DEF Replaced
  <2>2. visible_indices' \in Seq(Messages) /\ IsInjective(visible_indices')
    BY <2>1 DEF IsListOf
  <2>3. CASE set = {}
    BY <1>4, <2>1, <2>2, <2>3 DEF Replaced, Types, ListTypes
  <2>4. CASE set # {}
    <3>1. selected' = 0 /\ body_search' = NoBodySearch
          /\ current_body' = BodyOf(visible_indices'[1])
      BY <1>4, <2>4 DEF Replaced
    <3>2. visible_indices'[1] \in Messages
      BY <2>1, <2>4, ListedIsEmpty
    <3>3. QED
      BY <2>1, <2>2, <3>1, <3>2, BodyTypes, NoBodySearchTypes DEF ListTypes
  <2>5. QED
    BY <2>3, <2>4
<1>5. QED
  BY <1>1, <1>2, <1>3, <1>4 DEF ListStep

LEMMA OrderTypesStep ==
  ASSUME Types, Next
  PROVE  OrderTypes'
<1> USE DEF Types, OrderTypes
<1>1. ASSUME UNCHANGED <<orderVars, active_label_filter>>
      PROVE  OrderTypes'
  BY <1>1 DEF orderVars
<1>2. ASSUME NEW label \in {<<>>} \cup {<<l>> : l \in Labels}, ApplyLabelFilter(label),
             UNCHANGED orderVars
      PROVE  OrderTypes'
  BY <1>2 DEF ApplyLabelFilter, orderVars
<1>3. CASE LeaveSearch
  BY <1>1, <1>2, <1>3 DEF LeaveSearch
<1>4. ASSUME NEW label \in {<<>>} \cup {<<l>> : l \in Labels}, ChooseLabel(label)
      PROVE  OrderTypes'
  BY <1>2, <1>4 DEF ChooseLabel
<1>5. CASE CycleSort \/ ReverseSort
  <2>1. NextColumn[sort_column] \in Columns
    BY DEF NextColumn, Columns
  <2>2. (NextColumn[sort_column] # "date") \in BOOLEAN /\ (~sort_ascending) \in BOOLEAN
    OBVIOUS
  <2>3. QED
    BY <1>5, <2>1, <2>2 DEF CycleSort, ReverseSort, SortList
<1>6. CASE ToggleThreads
  <2>1. threaded_view' = ~threaded_view /\ (~threaded_view) \in BOOLEAN
    BY <1>6 DEF ToggleThreads
  <2>2. QED
    BY <1>6, <2>1 DEF ToggleThreads
<1>7. CASE \/ ConfirmSearch \/ OpenSearch \/ CancelSearch
           \/ TypeBodyQuery \/ CloseBodyPrompt \/ OpenBodySearch \/ StepMatch
           \/ ToggleWithinResults \/ Quit \/ InputSettles
  BY <1>1, <1>7 DEF ConfirmSearch, OpenSearch, CancelSearch, TypeBodyQuery, CloseBodyPrompt,
                    OpenBodySearch, StepMatch, ToggleWithinResults, Quit, InputSettles
<1>8. CASE \/ \E query \in Queries : TypeQuery(query) \/ ConfirmFilter(query)
           \/ \E popup \in Popups : OpenPopup(popup) \/ ClosePopup(popup)
           \/ \E panel \in Panels : MoveFocus(panel)
           \/ \E row \in 0 .. N - 1 : MoveTo(row)
           \/ \E delta \in {1, -1} : StepResult(delta)
  BY <1>1, <1>8 DEF TypeQuery, ConfirmFilter, OpenPopup, ClosePopup, MoveFocus, MoveTo, StepResult
<1>9. CASE Poll
  BY <1>1, <1>9 DEF Poll, PollSearch, PollIncrementalSearch
<1>10. CASE \E j \in Jobs : Worker(j)
  BY <1>1, <1>10 DEF Worker, WorkerEnds, WorkerFails
<1>11. CASE ChooseLabel(<<>>) \/ \E l \in Labels : ChooseLabel(<<l>>)
  <2>1. <<>> \in {<<>>} \cup {<<l>> : l \in Labels}
        /\ \A l \in Labels : <<l>> \in {<<>>} \cup {<<k>> : k \in Labels}
    OBVIOUS
  <2>2. QED
    BY <1>4, <1>11, <2>1
<1> HIDE DEF Types, OrderTypes
<1>12. QED
  BY <1>3, <1>5, <1>6, <1>7, <1>8, <1>9, <1>10, <1>11 DEF Next, Key

-----------------------------------------------------------------------------
(* Search threads. *)

Spawned(query, restrict) ==
    [worker |-> "running", query |-> query, restrict |-> restrict, cancel |-> FALSE,
     answer |-> <<>>, startedIn |-> ScopeOfNewJob]

(* What a label filter stands for. *)
ScopeOf(filter) == IF filter = <<>> THEN Messages ELSE Labelled[filter[1]]

(* A new search is confined to the label it is started under. *)
InScopeOfNewJob(restrict) == \A filter \in ScopeOfNewJob : restrict \subseteq ScopeOf(filter)

(* What a step does to the threads. *)
JobStep ==
    \/ UNCHANGED jobVars
    \/ search_job' = 0 /\ jobs' = Dropped(jobs)
    \/ \E j \in Jobs, query \in Queries, restrict \in SUBSET Messages :
           /\ InScopeOfNewJob(restrict)
           /\ search_job' = j
           /\ jobs' = [Dropped(jobs) EXCEPT ![j] = Spawned(query, restrict)]
    \/ search_job \in Jobs /\ search_job' = 0 /\ jobs' = [jobs EXCEPT ![search_job] = NoJob]
    \/ UNCHANGED search_job /\ \E j \in Jobs : Worker(j)

LEMMA ExecuteIsAJobStep ==
  ASSUME Types, NEW query \in Queries, ExecuteSearch(query)
  PROVE  JobStep
<1>1. SearchRestrictSet \in SUBSET Messages /\ InScopeOfNewJob(SearchRestrictSet)
  <2>1. SearchRestrictSet \in SUBSET Messages
    BY RestrictIsOfMessages
  <2>2. ScopeOf(active_label_filter) = LabelScope
    BY DEF ScopeOf, LabelScope
  <2>3. QED
    BY <2>1, <2>2 DEF InScopeOfNewJob, ScopeOfNewJob, SearchRestrictSet
<1>2. CASE SpawnSearchJob(query, SearchRestrictSet)
  BY <1>1, <1>2 DEF SpawnSearchJob, JobStep, Spawned
<1>3. CASE search_job' = 0 /\ jobs' = Dropped(jobs)
  BY <1>3 DEF JobStep
<1>4. QED
  BY <1>2, <1>3 DEF ExecuteSearch

LEMMA EveryStepIsAJobStep ==
  ASSUME Types, Next
  PROVE  JobStep
<1>1. ASSUME UNCHANGED jobVars
      PROVE  JobStep
  BY <1>1 DEF JobStep
<1>2. CASE \/ LeaveSearch \/ OpenSearch
           \/ TypeBodyQuery \/ CloseBodyPrompt \/ OpenBodySearch \/ StepMatch
           \/ ToggleWithinResults \/ Quit \/ InputSettles
           \/ CycleSort \/ ReverseSort \/ ToggleThreads
  BY <1>1, <1>2 DEF LeaveSearch, OpenSearch, TypeBodyQuery, CloseBodyPrompt, OpenBodySearch,
                    StepMatch, ToggleWithinResults, Quit, InputSettles, CycleSort, ReverseSort,
                    SortList, ToggleThreads
<1>3. CASE \/ \E query \in Queries : TypeQuery(query)
           \/ \E popup \in Popups : OpenPopup(popup) \/ ClosePopup(popup)
           \/ \E panel \in Panels : MoveFocus(panel)
           \/ ChooseLabel(<<>>) \/ \E l \in Labels : ChooseLabel(<<l>>)
           \/ \E row \in 0 .. N - 1 : MoveTo(row)
           \/ \E delta \in {1, -1} : StepResult(delta)
  BY <1>1, <1>3 DEF TypeQuery, OpenPopup, ClosePopup, MoveFocus, ChooseLabel, MoveTo, StepResult
<1>4. CASE ConfirmSearch \/ \E query \in Queries : ConfirmFilter(query)
  <2>1. search_query \in Queries
    BY DEF Types, SearchTypes
  <2>2. QED
    BY <1>4, <2>1, ExecuteIsAJobStep DEF ConfirmSearch, ConfirmFilter
<1>5. CASE CancelSearch
  BY <1>5 DEF CancelSearch, JobStep
<1>6. CASE Poll
  <2>1. search_job \in {0} \cup Jobs
    BY DEF Types, SearchTypes
  <2>2. QED
    BY <1>1, <1>6, <2>1 DEF Poll, PollSearch, PollIncrementalSearch, JobStep
<1>7. CASE \E j \in Jobs : Worker(j)
  BY <1>7 DEF Worker, WorkerEnds, WorkerFails, JobStep
<1>8. QED
  BY <1>2, <1>3, <1>4, <1>5, <1>6, <1>7 DEF Next, Key

LEMMA DroppedTypes ==
  ASSUME Types
  PROVE  /\ NoJob \in JobRecords
         /\ Dropped(jobs) \in [Jobs -> JobRecords]
<1>1. NoJob \in JobRecords
  <2>1. EmptyQuery \in Queries /\ <<>> \in Answers
    BY AppAssumption DEF Answers
  <2>2. QED
    BY <2>1 DEF NoJob, JobRecords
<1>2. jobs \in [Jobs -> JobRecords] /\ search_job \in {0} \cup Jobs
  BY DEF Types, SearchTypes
<1>3. ASSUME NEW j \in Jobs
      PROVE  /\ [jobs EXCEPT ![j] = NoJob] \in [Jobs -> JobRecords]
             /\ [jobs EXCEPT ![j].cancel = TRUE] \in [Jobs -> JobRecords]
  BY <1>1, <1>2 DEF JobRecords
<1>4. QED
  BY <1>1, <1>2, <1>3 DEF Dropped

LEMMA JobTypesStep ==
  ASSUME Types, JobStep
  PROVE  search_job' \in {0} \cup Jobs /\ jobs' \in [Jobs -> JobRecords]
<1>1. jobs \in [Jobs -> JobRecords] /\ search_job \in {0} \cup Jobs
  BY DEF Types, SearchTypes
<1>2. CASE UNCHANGED jobVars
  BY <1>1, <1>2 DEF jobVars
<1>3. CASE search_job' = 0 /\ jobs' = Dropped(jobs)
  BY <1>3, DroppedTypes
<1>4. ASSUME NEW j \in Jobs, NEW query \in Queries, NEW restrict \in SUBSET Messages,
             search_job' = j, jobs' = [Dropped(jobs) EXCEPT ![j] = Spawned(query, restrict)]
      PROVE  search_job' \in {0} \cup Jobs /\ jobs' \in [Jobs -> JobRecords]
  <2>1. ScopeOfNewJob \in SUBSET Filters
    BY DEF Types, OrderTypes, ScopeOfNewJob, Filters
  <2>2. Spawned(query, restrict) \in JobRecords
    BY <2>1 DEF Spawned, JobRecords, Answers
  <2>3. QED
    BY <1>4, <2>2, DroppedTypes
<1>5. CASE search_job \in Jobs /\ search_job' = 0 /\ jobs' = [jobs EXCEPT ![search_job] = NoJob]
  BY <1>1, <1>5, DroppedTypes
<1>6. ASSUME NEW j \in Jobs, Worker(j), UNCHANGED search_job
      PROVE  search_job' \in {0} \cup Jobs /\ jobs' \in [Jobs -> JobRecords]
  <2>1. [jobs EXCEPT ![j] = NoJob] \in [Jobs -> JobRecords]
    BY <1>1, DroppedTypes
  <2>2. [jobs EXCEPT ![j].worker = "ended"] \in [Jobs -> JobRecords]
    BY <1>1 DEF JobRecords
  <2>3. ASSUME NEW k
        PROVE  [jobs EXCEPT ![j].worker = "ended",
                            ![j].answer = <<Hits[jobs[j].query] \cap 1 .. k>>]
                   \in [Jobs -> JobRecords]
    <3>1. jobs[j].query \in Queries
      BY <1>1 DEF JobRecords
    <3>2. Hits[jobs[j].query] \cap 1 .. k \in SUBSET Messages
      BY <3>1, AppAssumption
    <3> DEFINE found == Hits[jobs[j].query] \cap 1 .. k
    <3> HIDE DEF found
    <3>3. <<found>> \in Answers
      BY <3>2 DEF Answers, found
    <3>4. [jobs EXCEPT ![j].worker = "ended", ![j].answer = <<found>>] \in [Jobs -> JobRecords]
      BY <1>1, <3>3 DEF JobRecords
    <3>5. QED
      BY <3>4 DEF found
  <2>4. CASE WorkerEnds(j)
    <3>1. \/ jobs' = [jobs EXCEPT ![j] = NoJob]
          \/ \E k : jobs' = [jobs EXCEPT ![j].worker = "ended",
                                     ![j].answer = <<Hits[jobs[j].query] \cap 1 .. k>>]
      BY <2>4 DEF WorkerEnds
    <3>2. CASE jobs' = [jobs EXCEPT ![j] = NoJob]
      BY <1>1, <1>6, <2>1, <3>2
    <3>3. CASE jobs' # [jobs EXCEPT ![j] = NoJob]
      <4>1. PICK k : jobs' = [jobs EXCEPT ![j].worker = "ended",
                                          ![j].answer = <<Hits[jobs[j].query] \cap 1 .. k>>]
        BY <3>1, <3>3
      <4>2. jobs' \in [Jobs -> JobRecords]
        BY <2>3, <4>1, Zenon
      <4>3. QED
        BY <1>1, <1>6, <4>2
    <3>4. QED
      BY <3>2, <3>3
  <2>5. CASE WorkerFails(j)
    BY <1>1, <1>6, <2>1, <2>2, <2>5 DEF WorkerFails
  <2>6. QED
    BY <1>6, <2>4, <2>5 DEF Worker
<1>7. QED
  BY <1>2, <1>3, <1>4, <1>5, <1>6 DEF JobStep

-----------------------------------------------------------------------------
LEMMA ShowKeepsResults ==
  ASSUME Types, NEW found, NEW restrict \in SUBSET Messages, ApplySearchResults(found, restrict)
  PROVE  search_results' \in Seq(Messages) /\ search_result_index' \in Nat
<1>1. found \cap restrict \in SUBSET Messages
  OBVIOUS
<1>2. Ascending(found \cap restrict) \in Seq(Messages)
  BY <1>1, AscendingIsAList DEF IsListOf
<1>3. QED
  BY <1>2 DEF ApplySearchResults

(* What is typed, and what was found last. *)
TypingTypes ==
    /\ search_active \in BOOLEAN /\ filter_within_results \in BOOLEAN
    /\ search_query \in Queries
    /\ search_dirty \in {"no", "recent", "settled"}
    /\ search_results \in Seq(Messages) /\ search_result_index \in Nat

LEMMA ResultsAfterSearch ==
  ASSUME Types, NEW query \in Queries, ExecuteSearch(query)
  PROVE  /\ search_results' \in Seq(Messages) /\ search_result_index' \in Nat
         /\ search_dirty' = "no"
<1>1. SearchRestrictSet \in SUBSET Messages
  BY RestrictIsOfMessages
<1>2. search_results \in Seq(Messages) /\ search_result_index \in Nat /\ <<>> \in Seq(Messages)
  BY DEF Types, SearchTypes
<1>3. \/ search_results' = <<>> /\ UNCHANGED search_result_index
      \/ UNCHANGED resultVars
      \/ ApplySearchResults(Hits[query], SearchRestrictSet)
  BY DEF ExecuteSearch
<1>4. search_dirty' = "no"
  BY DEF ExecuteSearch
<1>5. QED
  BY <1>1, <1>2, <1>3, <1>4, ShowKeepsResults DEF resultVars

LEMMA TypingTypesStep ==
  ASSUME Types, Next
  PROVE  TypingTypes'
<1>1. TypingTypes /\ <<>> \in Seq(Messages) /\ EmptyQuery \in Queries
  BY AppAssumption DEF Types, SearchTypes, TypingTypes
<1>2. ASSUME UNCHANGED <<typingVars, resultVars>>
      PROVE  TypingTypes'
  BY <1>1, <1>2 DEF TypingTypes, typingVars, resultVars
<1>3. CASE \/ CancelSearch \/ TypeBodyQuery \/ CloseBodyPrompt \/ OpenBodySearch \/ StepMatch
           \/ Quit \/ CycleSort \/ ReverseSort \/ ToggleThreads
           \/ \E popup \in Popups : OpenPopup(popup) \/ ClosePopup(popup)
           \/ \E panel \in Panels : MoveFocus(panel)
           \/ \E row \in 0 .. N - 1 : MoveTo(row)
           \/ \E j \in Jobs : Worker(j)
  BY <1>2, <1>3 DEF CancelSearch, TypeBodyQuery, CloseBodyPrompt, OpenBodySearch, StepMatch,
                    Quit, CycleSort, ReverseSort, SortList, ToggleThreads, OpenPopup, ClosePopup,
                    MoveFocus, MoveTo, Worker, WorkerEnds, WorkerFails
<1>4. ASSUME NEW query \in Queries, TypeQuery(query)
      PROVE  TypingTypes'
  BY <1>1, <1>4 DEF TypeQuery, TypingTypes, resultVars
<1>5. ASSUME NEW query \in Queries, ConfirmFilter(query)
      PROVE  TypingTypes'
  BY <1>1, <1>5, ResultsAfterSearch DEF ConfirmFilter, TypingTypes
<1>6. CASE ConfirmSearch
  BY <1>1, <1>6, ResultsAfterSearch DEF ConfirmSearch, TypingTypes
<1>7. ASSUME NEW label, ApplyLabelFilter(label), search_active' \in BOOLEAN,
             search_dirty' \in {"no", "recent", "settled"}
      PROVE  TypingTypes'
  BY <1>1, <1>7 DEF ApplyLabelFilter, TypingTypes
<1>8. CASE LeaveSearch
  BY <1>1, <1>7, <1>8 DEF LeaveSearch, TypingTypes
<1>9. ASSUME NEW label, ChooseLabel(label)
      PROVE  TypingTypes'
  BY <1>1, <1>7, <1>9 DEF ChooseLabel, TypingTypes
<1>10. CASE OpenSearch
  BY <1>1, <1>10 DEF OpenSearch, TypingTypes, resultVars
<1>11. CASE ToggleWithinResults
  <2>1. (~filter_within_results) \in BOOLEAN
    OBVIOUS
  <2>2. QED
    BY <1>1, <1>11, <2>1 DEF ToggleWithinResults, TypingTypes, resultVars
<1>12. ASSUME NEW delta \in {1, -1}, StepResult(delta)
       PROVE  TypingTypes'
  <2> DEFINE count == Len(search_results)
  <2>1. count \in Nat /\ count > 0
    BY <1>1, <1>12 DEF StepResult, TypingTypes
  <2>2. search_result_index + delta \in Int
    BY <1>1 DEF TypingTypes
  <2>3. (search_result_index + delta) % count \in Nat
    <3> HIDE DEF count
    <3>1. QED
      BY <2>1, <2>2
  <2>4. QED
    BY <1>1, <1>12, <2>3 DEF StepResult, TypingTypes, typingVars
<1>13. CASE InputSettles
  BY <1>1, <1>13 DEF InputSettles, TypingTypes, resultVars
<1>14. CASE PollSearch
  <2>1. jobs[search_job].restrict \in SUBSET Messages
    BY <1>14 DEF PollSearch, Types, SearchTypes, JobRecords
  <2>2. UNCHANGED resultVars
        \/ ApplySearchResults(jobs[search_job].answer[1], jobs[search_job].restrict)
    BY <1>14 DEF PollSearch
  <2>3. search_results' \in Seq(Messages) /\ search_result_index' \in Nat
    BY <1>1, <2>1, <2>2, ShowKeepsResults DEF TypingTypes, resultVars
  <2>4. QED
    BY <1>1, <1>14, <2>3 DEF PollSearch, TypingTypes, typingVars
<1>15. CASE PollIncrementalSearch
  BY <1>1, <1>15 DEF PollIncrementalSearch, TypingTypes, resultVars
<1>16. QED
  BY <1>3, <1>4, <1>5, <1>6, <1>8, <1>9, <1>10, <1>11, <1>12, <1>13, <1>14, <1>15
     DEF Next, Key, Poll

-----------------------------------------------------------------------------
(* Who has the keyboard. *)

(* KeyboardAlive, without its Cardinality. *)
Alive ==
    /\ search_active <=> focus = "SearchBar"
    /\ popups = {} \/ \E popup \in Popups : popups = {popup}
    /\ search_active => popups = {} /\ ~body_search.active
    /\ body_search.active => popups = {}
    /\ focus = "Sidebar" => Labels # {}

(* Only the keys of the message open the in-body prompt. *)
PromptStaysShut == body_search' = body_search \/ ~body_search'.active

LEMMA ListsOpenNoPrompt ==
  /\ \A list, row : SelectMessage(list, row) => PromptStaysShut
  /\ \A set : Show(set) \/ ShowUnthreaded(set) => PromptStaysShut
  /\ \A label : ApplyLabelFilter(label) => PromptStaysShut
  /\ \A query : ExecuteSearch(query) => PromptStaysShut
<1>1. \A list, row : SelectMessage(list, row) => PromptStaysShut
  BY DEF SelectMessage, PromptStaysShut, NoBodySearch
<1>2. \A set : Show(set) \/ ShowUnthreaded(set) => PromptStaysShut
  BY <1>1 DEF Show, ShowUnthreaded, PromptStaysShut
<1>3. \A label : ApplyLabelFilter(label) => PromptStaysShut
  BY <1>2 DEF ApplyLabelFilter
<1>4. ASSUME UNCHANGED listVars
      PROVE  PromptStaysShut
  BY <1>4 DEF listVars, PromptStaysShut
<1>5. \A query : ExecuteSearch(query) => PromptStaysShut
  BY <1>2, <1>4 DEF ExecuteSearch, ApplySearchResults
<1>6. QED
  BY <1>1, <1>2, <1>3, <1>5

LEMMA AliveStep ==
  ASSUME Types, Alive, Next
  PROVE  UiTypes' /\ Alive'
<1>1. UiTypes /\ search_active \in BOOLEAN /\ body_search.active \in BOOLEAN
  BY DEF Types, ListTypes, SearchTypes, BodySearches
<1>2. ASSUME UNCHANGED <<uiVars, search_active>>, PromptStaysShut
      PROVE  UiTypes' /\ Alive'
  BY <1>1, <1>2 DEF UiTypes, Alive, uiVars, PromptStaysShut
<1>3. ASSUME UNCHANGED listVars
      PROVE  PromptStaysShut
  BY <1>3 DEF listVars, PromptStaysShut
<1>4. ASSUME UNCHANGED <<popups, should_quit>>, PromptStaysShut, search_active' = FALSE,
             focus' = "MailList"
      PROVE  UiTypes' /\ Alive'
  BY <1>1, <1>4 DEF UiTypes, Alive, PromptStaysShut, Panels
<1>5. CASE \/ CancelSearch \/ ToggleWithinResults \/ InputSettles
           \/ \E query \in Queries : TypeQuery(query)
           \/ \E j \in Jobs : Worker(j)
  BY <1>2, <1>3, <1>5 DEF CancelSearch, ToggleWithinResults, InputSettles, TypeQuery, Worker,
                          WorkerEnds, WorkerFails, typingVars
<1>6. CASE ConfirmSearch \/ LeaveSearch
  BY <1>4, <1>6, ListsOpenNoPrompt DEF ConfirmSearch, LeaveSearch
<1>7. ASSUME NEW label, ChooseLabel(label)
      PROVE  UiTypes' /\ Alive'
  <2>1. search_active' = FALSE /\ UNCHANGED <<popups, should_quit>> /\ focus' = "MailList"
    BY <1>1, <1>7 DEF ChooseLabel, InPanel, InPanels
  <2>2. PromptStaysShut
    BY <1>7, ListsOpenNoPrompt DEF ChooseLabel
  <2>3. QED
    BY <1>4, <2>1, <2>2
<1>8. ASSUME NEW query \in Queries, ConfirmFilter(query)
      PROVE  UiTypes' /\ Alive'
  <2>1. PromptStaysShut
    BY <1>8, ListsOpenNoPrompt DEF ConfirmFilter
  <2>2. popups' = {}
    BY <1>8 DEF ConfirmFilter, InPopup, Alive
  <2>3. QED
    BY <1>1, <1>8, <2>1, <2>2 DEF ConfirmFilter, InPopup, UiTypes, Alive, PromptStaysShut
<1>9. CASE TypeBodyQuery \/ CloseBodyPrompt \/ OpenBodySearch \/ StepMatch
  <2>1. UNCHANGED <<uiVars, search_active>> /\ ~search_active
    BY <1>9 DEF TypeBodyQuery, CloseBodyPrompt, OpenBodySearch, StepMatch, typingVars,
                InBodyPrompt, InPanel, InPanels
  <2>2. popups = {}
    BY <1>1, <1>9 DEF TypeBodyQuery, CloseBodyPrompt, OpenBodySearch, StepMatch,
                InBodyPrompt, InPanel, InPanels, Alive
  <2>3. QED
    BY <1>1, <2>1, <2>2 DEF UiTypes, Alive, uiVars
<1>10. ASSUME NEW popup \in Popups, OpenPopup(popup)
       PROVE  UiTypes' /\ Alive'
  BY <1>1, <1>10 DEF OpenPopup, InPanels, UiTypes, Alive, listVars, typingVars
<1>11. ASSUME NEW popup \in Popups, ClosePopup(popup)
       PROVE  UiTypes' /\ Alive'
  <2>1. popups' = {}
    BY <1>11 DEF ClosePopup, InPopup, Alive
  <2>2. QED
    BY <1>1, <1>11, <2>1 DEF ClosePopup, InPopup, UiTypes, Alive, listVars, typingVars
<1>12. ASSUME NEW panel \in Panels, MoveFocus(panel)
       PROVE  UiTypes' /\ Alive'
  <2>1. panel # "SearchBar" /\ (panel = "Sidebar" => Labels # {})
    BY <1>12 DEF MoveFocus
  <2>2. QED
    BY <1>1, <1>12, <2>1 DEF MoveFocus, InPanels, UiTypes, Alive, listVars, typingVars
<1>13. CASE OpenSearch
  BY <1>1, <1>13 DEF OpenSearch, InPanels, UiTypes, Alive, listVars, Panels
<1>14. CASE Quit
  BY <1>1, <1>14 DEF Quit, InPanels, UiTypes, Alive, listVars, typingVars
<1>15. CASE CycleSort \/ ReverseSort
  BY <1>2, <1>15 DEF CycleSort, ReverseSort, SortList, PromptStaysShut, typingVars
<1>16. CASE ToggleThreads \/ \E row \in 0 .. N - 1 : MoveTo(row)
  BY <1>2, <1>16, ListsOpenNoPrompt DEF ToggleThreads, MoveTo, typingVars
<1>17. ASSUME NEW delta \in {1, -1}, StepResult(delta)
       PROVE  UiTypes' /\ Alive'
  <2>1. PromptStaysShut
    BY <1>17, ListsOpenNoPrompt DEF StepResult, PromptStaysShut
  <2>2. QED
    BY <1>2, <1>17, <2>1 DEF StepResult, typingVars
<1>18. CASE Poll
  <2>1. PromptStaysShut
    BY <1>3, <1>18, ListsOpenNoPrompt DEF Poll, PollSearch, PollIncrementalSearch,
                                          ApplySearchResults
  <2>2. QED
    BY <1>2, <1>18, <2>1 DEF Poll, PollSearch, PollIncrementalSearch, typingVars
<1>19. QED
  BY <1>5, <1>6, <1>7, <1>8, <1>9, <1>10, <1>11, <1>12, <1>13, <1>14, <1>15, <1>16, <1>17,
     <1>18 DEF Next, Key

-----------------------------------------------------------------------------
(* The initial state, and the types in every state. *)

LEMMA TypesInit ==
  ASSUME Init
  PROVE  Types /\ Alive
<1> DEFINE list == SortedBy(Ascending(Messages), "date", FALSE)
<1>1. IsListOf(list, Messages)
  BY AscendingIsAList, SortedIsAList DEF Columns
<1>2. list \in Seq(Messages) /\ IsInjective(list) /\ (list # <<>> => list[1] \in Messages)
  BY <1>1, ListedIsEmpty DEF IsListOf
<1> HIDE DEF list
<1>3. visible_indices = list
  BY DEF Init, list
<1>4. current_body \in {<<>>} \cup {<<m>> : m \in Readable}
  BY <1>2, <1>3, BodyTypes DEF Init
<1>5. <<>> \in Seq(Nat) /\ <<>> \in Seq(Messages) /\ EmptyQuery \in Queries
  BY AppAssumption
<1>6. ListTypes
  BY <1>2, <1>3, <1>4, <1>5, NoBodySearchTypes DEF Init, ListTypes
<1>7. OrderTypes
  BY DEF Init, OrderTypes, Columns
<1>8. NoJob \in JobRecords
  BY <1>5 DEF NoJob, JobRecords, Answers
<1>9. SearchTypes
  BY <1>5, <1>8 DEF Init, SearchTypes
<1>10. UiTypes /\ Alive
  BY DEF Init, UiTypes, Alive, Panels, NoBodySearch
<1>11. QED
  BY <1>6, <1>7, <1>9, <1>10 DEF Types

LEMMA TypesStep ==
  ASSUME Types, Alive, [Next]_vars
  PROVE  Types' /\ Alive'
<1>1. CASE Next
  <2>1. ListTypes'
    BY <1>1, EveryStepIsAListStep, ListTypesStep
  <2>2. search_job' \in {0} \cup Jobs /\ jobs' \in [Jobs -> JobRecords]
    BY <1>1, EveryStepIsAJobStep, JobTypesStep
  <2>3. SearchTypes'
    BY <1>1, <2>2, TypingTypesStep DEF TypingTypes, SearchTypes
  <2>4. QED
    BY <1>1, <2>1, <2>3, OrderTypesStep, AliveStep DEF Types
<1>2. CASE UNCHANGED vars
  BY <1>2 DEF vars, listVars, orderVars, typingVars, resultVars, jobVars, uiVars,
              Types, ListTypes, OrderTypes, SearchTypes, UiTypes, Alive, IsInjective
<1>3. QED
  BY <1>1, <1>2

LEMMA TypesHold == Spec => [](Types /\ Alive)
<1>1. Init => Types /\ Alive
  BY TypesInit
<1>2. Types /\ Alive /\ [Next]_vars => (Types /\ Alive)'
  BY TypesStep
<1>3. QED
  BY <1>1, <1>2, PTL DEF Spec

(* The variables of the interface have their types: among others the       *)
(* selection, the depths, the result index and every answer of a thread    *)
(* are within the mailbox.                                                 *)
THEOREM TypeCorrect == Spec => []TypeOK
<1>1. Types => TypeOK
  <2> SUFFICES ASSUME Types
               PROVE  TypeOK
    OBVIOUS
  <2>1. /\ visible_indices \in Seq(Messages) /\ thread_depths \in Seq(Nat) /\ selected \in Nat
        /\ current_body \in {<<>>} \cup {<<m>> : m \in Readable}
    BY DEF Types, ListTypes
  <2>2. /\ body_search.active \in BOOLEAN
        /\ body_search.matches \in Seq(Messages) /\ Len(body_search.matches) <= MaxMatches
        /\ body_search.index \in 0 .. MaxMatches
    BY AppAssumption DEF Types, ListTypes, BodySearches
  <2>3. {threaded_view, sort_ascending, search_active, filter_within_results, should_quit}
            \subseteq BOOLEAN
    BY DEF Types, OrderTypes, SearchTypes, UiTypes
  <2>4. \A j \in Jobs :
            /\ jobs[j].worker \in {"none", "running", "ended"}
            /\ jobs[j].query \in Queries /\ jobs[j].restrict \subseteq Messages
            /\ jobs[j].startedIn \subseteq {<<>>} \cup {<<l>> : l \in Labels}
            /\ jobs[j].cancel \in BOOLEAN
    BY DEF Types, SearchTypes, JobRecords, Filters
  <2>5. QED
    BY <2>1, <2>2, <2>3, <2>4 DEF TypeOK, Types, OrderTypes, SearchTypes, UiTypes
<1>2. QED
  BY <1>1, TypesHold, PTL

(* Whatever the user presses and whenever a thread answers, the keys reach *)
(* something: the search bar has the focus exactly while it takes them,    *)
(* and at most one thing captures them.                                    *)
THEOREM KeyboardStaysAlive == Spec => []KeyboardAlive
<1>1. Alive => KeyboardAlive
  <2> SUFFICES ASSUME Alive
               PROVE  KeyboardAlive
    OBVIOUS
  <2>1. Cardinality({}) = 0 /\ \A popup \in Popups : Cardinality({popup}) = 1
    BY FS_EmptySet, FS_Singleton
  <2>2. Cardinality(popups) <= 1
    BY <2>1 DEF Alive
  <2>3. QED
    BY <2>2 DEF Alive, KeyboardAlive
<1>2. QED
  BY <1>1, TypesHold, PTL

-----------------------------------------------------------------------------
(* Selection, body and matches. *)

SelectionInRange == visible_indices # <<>> => selected < Len(visible_indices)

ViewInv == Types /\ SelectionInRange /\ BodyIsListed /\ MatchesAreOfTheBody

LEMMA BodyOfIsOf ==
  ASSUME NEW m
  PROVE  BodyOf(m) # <<>> => BodyOf(m)[1] = m
BY DEF BodyOf

LEMMA NoMatches ==
  ASSUME body_search' = NoBodySearch
  PROVE  MatchesAreOfTheBody'
<1>1. body_search'.matches = <<>>
  BY NoBodySearchTypes
<1>2. QED
  BY <1>1 DEF MatchesAreOfTheBody

LEMMA ViewInit ==
  ASSUME Init
  PROVE  SelectionInRange /\ BodyIsListed /\ MatchesAreOfTheBody
<1>1. visible_indices \in Seq(Messages) /\ IsListOf(visible_indices, Visible)
  BY TypesInit DEF Types, ListTypes, IsListOf, Visible
<1>2. visible_indices # <<>> => Len(visible_indices) > 0 /\ visible_indices[1] \in Visible
  BY <1>1, ListedIsEmpty
<1>3. SelectionInRange
  BY <1>2 DEF Init, SelectionInRange
<1>4. BodyIsListed
  BY <1>2, BodyOfIsOf DEF Init, BodyIsListed
<1>5. body_search.matches = <<>>
  BY NoBodySearchTypes DEF Init
<1>6. QED
  BY <1>3, <1>4, <1>5 DEF MatchesAreOfTheBody

LEMMA ViewStep ==
  ASSUME ViewInv, Types', ListStep
  PROVE  SelectionInRange' /\ BodyIsListed' /\ MatchesAreOfTheBody'
<1>1. /\ visible_indices \in Seq(Messages) /\ selected \in Nat
      /\ visible_indices' \in Seq(Messages)
      /\ IsListOf(visible_indices, Visible)
      /\ body_search \in BodySearches /\ body_search' \in BodySearches
  BY DEF ViewInv, Types, ListTypes, IsListOf, Visible
<1>2. CASE Moved
  <2>1. CASE UNCHANGED <<selected, current_body, body_search>>
    BY <1>2, <2>1 DEF Moved, ViewInv, SelectionInRange, BodyIsListed, MatchesAreOfTheBody,
                      Visible, Range
  <2>2. CASE ~UNCHANGED <<selected, current_body, body_search>>
    <3>1. /\ UNCHANGED visible_indices
          /\ selected' \in Nat /\ selected' < Len(visible_indices)
          /\ current_body' = BodyOf(visible_indices[selected' + 1])
          /\ body_search' = NoBodySearch
      BY <1>2, <2>2 DEF Moved
    <3>2. visible_indices[selected' + 1] \in Visible
      BY <1>1, <3>1 DEF Visible, Range
    <3>3. Visible' = Visible
      BY <3>1 DEF Visible
    <3>4. BodyIsListed'
      BY <3>1, <3>2, <3>3, BodyOfIsOf DEF BodyIsListed
    <3>5. SelectionInRange'
      BY <3>1 DEF SelectionInRange
    <3>6. QED
      BY <3>1, <3>4, <3>5, NoMatches
  <2>3. QED
    BY <2>1, <2>2
<1>3. CASE SearchedBody
  <2>1. UNCHANGED <<visible_indices, selected, current_body>>
    BY <1>3 DEF SearchedBody
  <2>2. SelectionInRange' /\ BodyIsListed'
    BY <2>1 DEF ViewInv, SelectionInRange, BodyIsListed, Visible
  <2>3. Len(body_search'.matches) \in Nat
        /\ (body_search'.matches # <<>> => 0 < Len(body_search'.matches))
    BY <1>1 DEF BodySearches
  <2> SUFFICES MatchesAreOfTheBody'
    BY <2>2
  <2> DEFINE old == body_search.matches
             new == body_search'.matches
  <2>4. /\ current_body # <<>> => \A i \in DOMAIN old : old[i] = current_body[1]
        /\ old # <<>> => body_search.index < Len(old)
    BY DEF ViewInv, MatchesAreOfTheBody
  <2>5. \/ new = old /\ body_search'.index = body_search.index
        \/ new = old /\ body_search'.index < Len(old)
        \/ new = <<>>
        \/ /\ \A i \in DOMAIN new : new[i] = current_body[1]
           /\ body_search'.index = 0
    BY <1>3 DEF SearchedBody
  <2> HIDE DEF old, new
  <2>6. /\ current_body # <<>> => \A i \in DOMAIN new : new[i] = current_body[1]
        /\ new # <<>> => body_search'.index < Len(new)
    <3>1. new = <<>> => DOMAIN new = {}
      OBVIOUS
    <3>2. new # <<>> => Len(new) \in Nat /\ 0 < Len(new)
      BY <2>3 DEF new
    <3>3. current_body # <<>> => \A i \in DOMAIN new : new[i] = current_body[1]
      BY <2>4, <2>5, <3>1
    <3>4. new # <<>> => body_search'.index < Len(new)
      BY <2>4, <2>5, <3>2
    <3>5. QED
      BY <3>3, <3>4
  <2>7. QED
    BY <2>1, <2>6 DEF MatchesAreOfTheBody, new
<1>4. CASE Reordered
  <2>1. Visible' = Visible /\ Len(visible_indices') = Len(visible_indices)
        /\ UNCHANGED <<selected, current_body, body_search>>
    BY <1>4 DEF Reordered, Visible
  <2>2. visible_indices' # <<>> => visible_indices # <<>>
    BY <1>1, <2>1
  <2>3. QED
    BY <2>1, <2>2 DEF ViewInv, SelectionInRange, BodyIsListed, MatchesAreOfTheBody
<1>5. ASSUME NEW set \in SUBSET Messages, Replaced(set)
      PROVE  SelectionInRange' /\ BodyIsListed' /\ MatchesAreOfTheBody'
  <2>1. IsListOf(visible_indices', set) /\ Visible' = set
    BY <1>5 DEF Replaced, IsListOf, Visible
  <2>2. CASE set = {}
    <3>1. visible_indices' = <<>>
      BY <2>1, <2>2, ListedIsEmpty
    <3>2. current_body' = <<>>
      BY <1>5, <2>2 DEF Replaced, ViewInv, BodyIsListed
    <3>3. UNCHANGED body_search
      BY <1>5, <2>2 DEF Replaced
    <3>4. QED
      BY <3>1, <3>2, <3>3 DEF ViewInv, SelectionInRange, BodyIsListed, MatchesAreOfTheBody
  <2>3. CASE set # {}
    <3>1. /\ Len(visible_indices') > 0 /\ selected' = 0
          /\ current_body' = BodyOf(visible_indices'[1])
          /\ body_search' = NoBodySearch
      BY <1>5, <2>3 DEF Replaced
    <3>2. visible_indices'[1] \in Visible'
      BY <2>1, <2>3, ListedIsEmpty
    <3>3. BodyIsListed'
      BY <3>1, <3>2, BodyOfIsOf DEF BodyIsListed
    <3>4. SelectionInRange'
      BY <3>1 DEF SelectionInRange
    <3>5. QED
      BY <3>1, <3>3, <3>4, NoMatches
  <2>4. QED
    BY <2>2, <2>3
<1>6. QED
  BY <1>2, <1>3, <1>4, <1>5 DEF ListStep

LEMMA ViewInvHolds == Spec => []ViewInv
<1>1. Init => ViewInv
  BY TypesInit, ViewInit DEF ViewInv
<1>2. ViewInv /\ Alive /\ [Next]_vars => ViewInv'
  <2> SUFFICES ASSUME ViewInv, Alive, [Next]_vars
               PROVE  ViewInv'
    OBVIOUS
  <2>1. Types'
    BY TypesStep DEF ViewInv
  <2>2. CASE Next
    BY <2>1, <2>2, EveryStepIsAListStep, ViewStep DEF ViewInv
  <2>3. CASE UNCHANGED vars
    <3>1. UNCHANGED listVars
      BY <2>3 DEF vars
    <3>2. QED
      BY <2>1, <3>1 DEF listVars, ViewInv, SelectionInRange, BodyIsListed, MatchesAreOfTheBody,
                        Visible
  <2>4. QED
    BY <2>2, <2>3
<1>3. QED
  BY <1>1, <1>2, TypesHold, PTL DEF Spec

(* Whatever replaced the list last, it repeats no message and there is a   *)
(* message on the selected row.                                            *)
THEOREM SelectionStaysARow == Spec => []SelectionIsARow
<1>1. ViewInv => SelectionIsARow
  BY DEF ViewInv, Types, ListTypes, SelectionInRange, SelectionIsARow
<1>2. QED
  BY <1>1, ViewInvHolds, PTL

(* No list leaves a body on the screen that it does not contain.           *)
THEOREM BodyStaysListed == Spec => []BodyIsListed
<1>1. ViewInv => BodyIsListed
  BY DEF ViewInv
<1>2. QED
  BY <1>1, ViewInvHolds, PTL

(* What the in-body search found is in the body that is loaded, also when  *)
(* the answer of a search thread replaces the message meanwhile.           *)
THEOREM MatchesStayOfTheBody == Spec => []MatchesAreOfTheBody
<1>1. ViewInv => MatchesAreOfTheBody
  BY DEF ViewInv
<1>2. QED
  BY <1>1, ViewInvHolds, PTL

-----------------------------------------------------------------------------
(* What a step may do to the list. *)

LEMMA LoadsTheSelected ==
  ASSUME ViewInv, Types', ListStep,
         visible_indices' # visible_indices \/ selected' # selected,
         UNCHANGED <<sort_column, sort_ascending>>
  PROVE  current_body' = (IF visible_indices' = <<>> THEN <<>>
                          ELSE BodyOf(visible_indices'[selected' + 1]))
<1>1. CASE Moved
  <2>1. /\ UNCHANGED visible_indices
        /\ selected' \in Nat /\ selected' < Len(visible_indices)
        /\ current_body' = BodyOf(visible_indices[selected' + 1])
    BY <1>1 DEF Moved
  <2>2. visible_indices # <<>>
    BY <2>1, EmptyIsShort
  <2>3. QED
    BY <2>1, <2>2
<1>2. ASSUME NEW set \in SUBSET Messages, Replaced(set)
      PROVE  current_body' = (IF visible_indices' = <<>> THEN <<>>
                              ELSE BodyOf(visible_indices'[selected' + 1]))
  <2>1. IsListOf(visible_indices', set)
    BY <1>2 DEF Replaced
  <2>2. CASE set = {}
    <3>1. visible_indices' = <<>>
      BY <2>1, <2>2, ListedIsEmpty
    <3>2. current_body' = <<>>
      BY <1>2, <2>2 DEF Replaced, ViewInv, BodyIsListed
    <3>3. QED
      BY <3>1, <3>2
  <2>3. CASE set # {}
    <3>1. visible_indices' # <<>> /\ selected' + 1 = 1
          /\ current_body' = BodyOf(visible_indices'[1])
      BY <1>2, <2>1, <2>3, ListedIsEmpty DEF Replaced
    <3>2. QED
      BY <3>1
  <2>4. QED
    BY <2>2, <2>3
<1>3. QED
  BY <1>1, <1>2 DEF ListStep, SearchedBody, Reordered

(* The threads that were started under a label look only at its messages.  *)
JobsInLabel ==
    \A j \in Jobs : \A filter \in jobs[j].startedIn : jobs[j].restrict \subseteq ScopeOf(filter)

LEMMA JobsInLabelInit ==
  ASSUME Init
  PROVE  JobsInLabel
BY DEF Init, NoJob, JobsInLabel

(* A thread is new, forgotten, or looks where it did. *)
LEMMA JobsInLabelStep ==
  ASSUME Types, JobsInLabel, JobStep
  PROVE  JobsInLabel'
<1> DEFINE Same(table, j) == /\ table[j].restrict = jobs[j].restrict
                             /\ table[j].startedIn = jobs[j].startedIn
           Keeps(table) == \A j \in Jobs : Same(table, j) \/ table[j].startedIn = {}
<1>1. /\ jobs \in [Jobs -> JobRecords] /\ search_job \in {0} \cup Jobs
      /\ Dropped(jobs) \in [Jobs -> JobRecords] /\ NoJob.startedIn = {}
  BY DroppedTypes DEF Types, SearchTypes, NoJob
<1>2. ASSUME Keeps(jobs')
      PROVE  JobsInLabel'
  BY <1>2 DEF JobsInLabel, ScopeOf
<1>3. ASSUME NEW j \in Jobs
      PROVE  /\ Keeps([jobs EXCEPT ![j] = NoJob])
             /\ Keeps([jobs EXCEPT ![j].cancel = TRUE])
             /\ Keeps([jobs EXCEPT ![j].worker = "ended"])
             /\ \A found : Keeps([jobs EXCEPT ![j].worker = "ended", ![j].answer = found])
  BY <1>1 DEF JobRecords
<1>4. Keeps(jobs)
  OBVIOUS
<1>5. Keeps(Dropped(jobs))
  BY <1>1, <1>3, <1>4 DEF Dropped
<1> HIDE DEF Keeps
<1>6. CASE UNCHANGED jobVars \/ (search_job' = 0 /\ jobs' = Dropped(jobs))
  BY <1>2, <1>4, <1>5, <1>6 DEF jobVars
<1>7. ASSUME NEW j \in Jobs, NEW query \in Queries, NEW restrict \in SUBSET Messages,
             InScopeOfNewJob(restrict),
             jobs' = [Dropped(jobs) EXCEPT ![j] = Spawned(query, restrict)]
      PROVE  JobsInLabel'
  <2> SUFFICES ASSUME NEW k \in Jobs, NEW filter \in jobs'[k].startedIn
               PROVE  jobs'[k].restrict \subseteq ScopeOf(filter)
    BY DEF JobsInLabel, ScopeOf
  <2>1. CASE k = j
    <3>1. jobs'[k] = Spawned(query, restrict)
      BY <1>1, <1>7, <2>1
    <3>2. QED
      BY <1>7, <3>1 DEF Spawned, InScopeOfNewJob
  <2>2. CASE k # j
    <3>1. jobs'[k] = Dropped(jobs)[k]
      BY <1>1, <1>7, <2>2
    <3>2. QED
      BY <1>5, <3>1 DEF Keeps, JobsInLabel
  <2>3. QED
    BY <2>1, <2>2
<1>8. CASE search_job \in Jobs /\ jobs' = [jobs EXCEPT ![search_job] = NoJob]
  BY <1>2, <1>3, <1>8
<1>9. ASSUME NEW j \in Jobs, Worker(j)
      PROVE  JobsInLabel'
  <2>1. \/ jobs' = [jobs EXCEPT ![j] = NoJob]
        \/ jobs' = [jobs EXCEPT ![j].worker = "ended"]
        \/ \E found : jobs' = [jobs EXCEPT ![j].worker = "ended", ![j].answer = found]
    BY <1>9 DEF Worker, WorkerEnds, WorkerFails
  <2>2. QED
    BY <1>2, <1>3, <2>1
<1>10. QED
  BY <1>6, <1>7, <1>8, <1>9 DEF JobStep

THEOREM JobsInLabelHolds == Spec => []JobsInLabel
<1>1. Init => JobsInLabel
  BY JobsInLabelInit
<1>2. Types /\ Alive /\ JobsInLabel /\ [Next]_vars => JobsInLabel'
  <2> SUFFICES ASSUME Types, JobsInLabel, [Next]_vars
               PROVE  JobsInLabel'
    OBVIOUS
  <2>1. CASE Next
    BY <2>1, EveryStepIsAJobStep, JobsInLabelStep
  <2>2. CASE UNCHANGED vars
    BY <2>2 DEF vars, jobVars, JobsInLabel, ScopeOf
  <2>3. QED
    BY <2>1, <2>2
<1>3. QED
  BY <1>1, <1>2, TypesHold, PTL DEF Spec

LEMMA StaysInScope ==
  ASSUME Types, JobsInLabel, ListStep, Visible \subseteq LabelScope,
         PollSearch => active_label_filter \in jobs[search_job].startedIn
  PROVE  Visible' \subseteq LabelScope'
<1>1. CASE UNCHANGED active_label_filter /\ (Moved \/ SearchedBody \/ Reordered)
  <2>1. Visible' = Visible
    BY <1>1 DEF Moved, SearchedBody, Reordered, Visible
  <2>2. LabelScope' = LabelScope
    BY <1>1 DEF LabelScope
  <2>3. QED
    BY <2>1, <2>2
<1>2. ASSUME NEW set \in SUBSET Messages, Replaced(set), WithinScope(set) \/ Answered(set)
      PROVE  Visible' \subseteq LabelScope'
  <2>1. Visible' = set
    BY <1>2 DEF Replaced, IsListOf, Visible
  <2>2. CASE WithinScope(set)
    BY <2>1, <2>2 DEF WithinScope, LabelScope
  <2>3. CASE Answered(set)
    <3>1. search_job \in Jobs /\ active_label_filter \in jobs[search_job].startedIn
      BY <2>3 DEF Answered, PollSearch, Types, SearchTypes
    <3>2. set \subseteq ScopeOf(active_label_filter)
      BY <2>3, <3>1 DEF Answered, JobsInLabel
    <3>3. ScopeOf(active_label_filter) = LabelScope'
      BY <2>3 DEF Answered, ScopeOf, LabelScope
    <3>4. QED
      BY <2>1, <3>2, <3>3
  <2>4. QED
    BY <1>2, <2>2, <2>3
<1>3. QED
  BY <1>1, <1>2 DEF ListStep

(* Whatever replaces the list or moves the selection loads the body of the *)
(* message that is selected then; only the sort keys do not.               *)
THEOREM SelectionLoadsItsBody == Spec => BodyFollowsSelection
<1> DEFINE Loads ==
      (visible_indices' # visible_indices \/ selected' # selected)
          /\ UNCHANGED <<sort_column, sort_ascending>>
      => current_body' = (IF visible_indices' = <<>> THEN <<>>
                          ELSE BodyOf(visible_indices'[selected' + 1]))
<1>1. ViewInv /\ Alive /\ [Next]_vars => [Loads]_vars
  <2> SUFFICES ASSUME ViewInv, Alive, Next
               PROVE  Loads
    OBVIOUS
  <2>1. Types' /\ ListStep
    BY TypesStep, EveryStepIsAListStep DEF ViewInv
  <2>2. QED
    BY <2>1, LoadsTheSelected
<1>2. QED
  BY <1>1, TypesHold, ViewInvHolds, PTL DEF Spec, BodyFollowsSelection

(* A list within the label filter stays within it, also when a search      *)
(* thread answers late: only a thread that was started before the label    *)
(* was chosen, or among rows that were not of the label, may answer with   *)
(* messages outside it.                                                    *)
THEOREM ListsKeepTheirLabel == Spec => LabelScopeHolds
<1> DEFINE Stays == /\ Visible \subseteq LabelScope
                    /\ PollSearch => active_label_filter \in jobs[search_job].startedIn
                    => Visible' \subseteq LabelScope'
<1>1. ViewInv /\ Alive /\ JobsInLabel /\ [Next]_vars => [Stays]_vars
  <2> SUFFICES ASSUME ViewInv, JobsInLabel, Next
               PROVE  Stays
    OBVIOUS
  <2>1. QED
    BY EveryStepIsAListStep, StaysInScope DEF ViewInv
<1>2. QED
  BY <1>1, TypesHold, ViewInvHolds, JobsInLabelHolds, PTL DEF Spec, LabelScopeHolds

-----------------------------------------------------------------------------
(* Answers. *)

LEMMA AnswersInit ==
  ASSUME Init
  PROVE  AppliedAnswersAreWhole
BY DEF Init, AppliedAnswersAreWhole

LEMMA AnswersStep ==
  ASSUME Types, AppliedAnswersAreWhole, JobStep
  PROVE  AppliedAnswersAreWhole'
<1>1. jobs \in [Jobs -> JobRecords] /\ search_job \in {0} \cup Jobs
      /\ Dropped(jobs) \in [Jobs -> JobRecords] /\ 0 \notin Jobs
  BY DroppedTypes DEF Types, SearchTypes, Jobs
<1>2. CASE UNCHANGED jobVars
  BY <1>2 DEF jobVars, AppliedAnswersAreWhole
<1>3. CASE search_job' = 0
  BY <1>3 DEF AppliedAnswersAreWhole
<1>4. ASSUME NEW j \in Jobs, NEW query, NEW restrict, search_job' = j,
             jobs' = [Dropped(jobs) EXCEPT ![j] = Spawned(query, restrict)]
      PROVE  AppliedAnswersAreWhole'
  <2>1. jobs'[search_job'] = Spawned(query, restrict)
    BY <1>1, <1>4
  <2>2. QED
    BY <2>1 DEF Spawned, AppliedAnswersAreWhole
<1>5. ASSUME NEW j \in Jobs, Worker(j), UNCHANGED search_job
      PROVE  AppliedAnswersAreWhole'
  <2>1. CASE search_job # j
    <3>1. search_job # 0 => jobs'[search_job] = jobs[search_job]
      BY <1>1, <1>5, <2>1 DEF Worker, WorkerEnds, WorkerFails
    <3>2. QED
      BY <1>5, <3>1 DEF AppliedAnswersAreWhole
  <2>2. CASE search_job = j
    <3>1. ~jobs[j].cancel /\ (jobs[j].answer # <<>> => jobs[j].answer[1] = Hits[jobs[j].query])
      BY <1>1, <2>2 DEF AppliedAnswersAreWhole
    <3>2. CASE WorkerFails(j)
      <4>1. jobs' = [jobs EXCEPT ![j].worker = "ended"]
        BY <2>2, <3>2 DEF WorkerFails
      <4>2. /\ jobs'[j].cancel = jobs[j].cancel /\ jobs'[j].answer = jobs[j].answer
            /\ jobs'[j].query = jobs[j].query
        BY <1>1, <4>1 DEF JobRecords
      <4>3. QED
        BY <1>5, <2>2, <3>1, <4>2 DEF AppliedAnswersAreWhole
    <3>3. CASE WorkerEnds(j)
      <4>1. PICK k \in 0 .. N :
                /\ k < N => jobs[j].cancel
                /\ jobs' = [jobs EXCEPT ![j].worker = "ended",
                       ![j].answer = <<Hits[jobs[j].query] \cap 1 .. k>>]
        BY <2>2, <3>3 DEF WorkerEnds
      <4>2. k = N
        BY <3>1, <4>1, AppAssumption
      <4>3. jobs[j].query \in Queries
        BY <1>1 DEF JobRecords
      <4>4. Hits[jobs[j].query] \cap 1 .. k = Hits[jobs[j].query]
        BY <4>2, <4>3, AppAssumption DEF Messages
      <4>5. /\ jobs'[j].cancel = jobs[j].cancel
            /\ jobs'[j].answer = <<Hits[jobs[j].query]>>
            /\ jobs'[j].query = jobs[j].query
        BY <1>1, <4>1, <4>4 DEF JobRecords
      <4>6. QED
        BY <1>5, <2>2, <3>1, <4>5 DEF AppliedAnswersAreWhole
    <3>4. QED
      BY <1>5, <3>2, <3>3 DEF Worker
  <2>3. QED
    BY <2>1, <2>2
<1>6. QED
  BY <1>2, <1>3, <1>4, <1>5 DEF JobStep

(* The answer of a search thread that is applied is never the part of one  *)
(* that a cancelled scan had found.                                        *)
THEOREM AnswersAreWhole == Spec => []AppliedAnswersAreWhole
<1>1. Init => AppliedAnswersAreWhole
  BY AnswersInit
<1>2. Types /\ Alive /\ AppliedAnswersAreWhole /\ [Next]_vars => AppliedAnswersAreWhole'
  <2> SUFFICES ASSUME Types, AppliedAnswersAreWhole, [Next]_vars
               PROVE  AppliedAnswersAreWhole'
    OBVIOUS
  <2>1. CASE Next
    BY <2>1, EveryStepIsAJobStep, AnswersStep
  <2>2. CASE UNCHANGED vars
    BY <2>2 DEF vars, jobVars, AppliedAnswersAreWhole
  <2>3. QED
    BY <2>1, <2>2
<1>3. QED
  BY <1>1, <1>2, TypesHold, PTL DEF Spec
=============================================================================
