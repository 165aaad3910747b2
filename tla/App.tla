-------------------------------- MODULE App ----------------------------------
(***************************************************************************)
(* The terminal interface: App (tui/app.rs), its key handlers              *)
(* (tui/event.rs) and the event loop (tui/mod.rs), with the threads that   *)
(* run full-text searches.                                                 *)
(*                                                                         *)
(* One iteration of the loop handles at most one key, then polls the       *)
(* search job, then the debounced search.  Here the three are separate     *)
(* actions in any order: a worker may finish, and the debounce window may  *)
(* elapse, at any moment, so every order of effects is an order the loop   *)
(* produces.                                                               *)
(*                                                                         *)
(* A message is its position in the index (Messages = 1 .. N), a row is a  *)
(* position in visible_indices counted from 0 as in the code, and a query  *)
(* is an atom.  Search semantics and threading enter as constants.         *)
(* Left out: scrolling, layout, the view modes, marks, the files an export *)
(* writes, status messages and the search history (recalling a query from  *)
(* it is typing that query).  show_sidebar never changes: it is true iff   *)
(* there are labels.                                                       *)
(***************************************************************************)
EXTENDS Integers, Sequences, FiniteSets, SequencesExt, Ordering

CONSTANTS
    N,               \* messages in the index
    Readable,        \* messages whose body can be loaded
    Labels,          \* all_labels
    Labelled,        \* Labelled[l]: the messages with label l
    Queries,         \* queries the user may enter
    EmptyQuery,
    Hits,            \* Hits[q]: what search::execute finds
    QuickHits,       \* QuickHits[q]: what search_metadata finds
    NeedsBodyScan,   \* the queries search::needs_body_scan is true of
    NeedsFulltext,   \* the queries with needs_fulltext
    SortKey,         \* SortKey[column][m]: the rank of what the column shows of m
    Conversations,   \* flatten_threads_to_indices: <<message, depth>> of every message
    MaxMatches,      \* bound on the matches of an in-body search
    MaxJobs,         \* bound on the search threads that exist at one time
    Keys             \* the keys the user presses: all of them, in the program

Messages == 1 .. N
Columns == {"date", "from", "subject", "size"}

ASSUME AppAssumption ==
    /\ N \in Nat /\ MaxMatches \in Nat /\ MaxJobs \in Nat \ {0}
    /\ Readable \subseteq Messages
    /\ Labelled \in [Labels -> (SUBSET Messages) \ {{}}]
    /\ EmptyQuery \in Queries
    /\ Hits \in [Queries -> SUBSET Messages]
    /\ QuickHits \in [Queries -> SUBSET Messages]
    /\ NeedsFulltext \subseteq NeedsBodyScan
    /\ NeedsBodyScan \subseteq Queries \ {EmptyQuery}
    /\ SortKey \in [Columns -> [Messages -> Int]]
    /\ Conversations \in Seq(Messages \X Nat)
    /\ {Conversations[i][1] : i \in DOMAIN Conversations} = Messages
    /\ \A i, j \in DOMAIN Conversations : Conversations[i][1] = Conversations[j][1] => i = j

VARIABLES
    visible_indices,     \* the messages of the list, in order
    thread_depths,       \* the depth of each row
    selected,            \* the selected row
    current_body,        \* whose body is loaded: <<message>> or <<>>
    body_search,         \* the in-body search: [active, matches, index]
    threaded_view,
    sort_column, sort_ascending,
    active_label_filter, \* <<label>> or <<>>
    search_active,       \* the search bar takes the keys
    search_query,
    search_dirty,        \* search_dirty_since: "no", "recent" or "settled"
    filter_within_results,
    search_results, search_result_index,
    search_job,          \* the job whose receiver the App holds, or 0
    jobs,                \* jobs[j]: a search thread and its channel
    focus,
    popups,              \* the popups that are shown
    should_quit

listVars == <<visible_indices, thread_depths, selected, current_body, body_search>>
orderVars == <<threaded_view, sort_column, sort_ascending>>
typingVars == <<search_active, search_query, search_dirty, filter_within_results>>
resultVars == <<search_results, search_result_index>>
jobVars == <<search_job, jobs>>
uiVars == <<focus, popups, should_quit>>
vars == <<listVars, orderVars, active_label_filter, typingVars, resultVars, jobVars, uiVars>>

Panels == {"Sidebar", "MailList", "MailView", "SearchBar"}
Popups == {"help", "attachments", "export", "filter"}
Jobs == 1 .. MaxJobs

(* A match is the message whose body it was found in. *)
NoBodySearch == [active |-> FALSE, matches |-> <<>>, index |-> 0]

(* worker: "none", "running", or "ended" with its answer in the channel,   *)
(* which is empty if the thread died.  startedIn is history, which nothing *)
(* but LabelScopeHolds reads: the label filter the thread was started      *)
(* under, and none if it was started among the rows of a list that was not *)
(* within that label.                                                      *)
NoJob == [worker |-> "none", query |-> EmptyQuery, restrict |-> {}, cancel |-> FALSE,
          answer |-> <<>>, startedIn |-> {}]

TypeOK ==
    /\ visible_indices \in Seq(Messages)
    /\ thread_depths \in Seq(Nat)
    /\ selected \in Nat
    /\ current_body \in {<<>>} \cup {<<m>> : m \in Readable}
    /\ body_search.active \in BOOLEAN
    /\ body_search.matches \in Seq(Messages) /\ Len(body_search.matches) <= MaxMatches
    /\ body_search.index \in 0 .. MaxMatches
    /\ {threaded_view, sort_ascending, search_active, filter_within_results, should_quit}
           \subseteq BOOLEAN
    /\ sort_column \in Columns
    /\ active_label_filter \in {<<>>} \cup {<<l>> : l \in Labels}
    /\ search_query \in Queries
    /\ search_dirty \in {"no", "recent", "settled"}
    /\ search_results \in Seq(Messages) /\ search_result_index \in Nat
    /\ search_job \in {0} \cup Jobs
    /\ \A j \in Jobs :
           /\ jobs[j].worker \in {"none", "running", "ended"}
           /\ jobs[j].query \in Queries /\ jobs[j].restrict \subseteq Messages
           /\ jobs[j].cancel \in BOOLEAN
           /\ jobs[j].startedIn \subseteq {<<>>} \cup {<<l>> : l \in Labels}
    /\ focus \in Panels
    /\ popups \subseteq Popups

-----------------------------------------------------------------------------
(* The list. *)

Visible == Range(visible_indices)

(* The messages of the label filter, or all of them. *)
LabelScope == IF active_label_filter = <<>> THEN Messages ELSE Labelled[active_label_filter[1]]

Before(column, ascending, a, b) ==
    IF ascending THEN SortKey[column][a] < SortKey[column][b]
                 ELSE SortKey[column][b] < SortKey[column][a]

(* apply_sort: by one column, the rest as it was. *)
SortedBy(list, column, ascending) ==
    StableSort(list, LAMBDA a, b : Before(column, ascending, a, b))

Sorted(list) == SortedBy(list, sort_column, sort_ascending)

(* rebuild_threaded_view: the conversations, less what the list leaves out. *)
Threaded(set) ==
    LET kept == Ascending({i \in DOMAIN Conversations : Conversations[i][1] \in set})
    IN  [n \in DOMAIN kept |-> Conversations[kept[n]]]

MessagesOf(rows) == [i \in DOMAIN rows |-> rows[i][1]]
DepthsOf(rows) == [i \in DOMAIN rows |-> rows[i][2]]

MutBodyOf(m) == <<m>>

BodyOf(m) == IF m \in Readable THEN <<m>> ELSE <<>>

MutSelectKeepsMatches(list, row) ==
    IF row < Len(list)
    THEN /\ selected' = row
         /\ current_body' = BodyOf(list[row + 1])
         /\ UNCHANGED body_search
    ELSE UNCHANGED <<selected, current_body, body_search>>

(* select_message: out of range it does nothing. *)
SelectMessage(list, row) ==
    IF row < Len(list)
    THEN /\ selected' = row
         /\ current_body' = BodyOf(list[row + 1])
         /\ body_search' = NoBodySearch
    ELSE UNCHANGED <<selected, current_body, body_search>>

MutShowKeepsBody(set) ==
    /\ IF threaded_view
       THEN /\ visible_indices' = MessagesOf(Threaded(set))
            /\ thread_depths' = DepthsOf(Threaded(set))
       ELSE /\ visible_indices' = Sorted(Ascending(set))
            /\ UNCHANGED thread_depths
    /\ SelectMessage(visible_indices', 0)

MutShowKeepsRow(set) ==
    /\ IF threaded_view
       THEN /\ visible_indices' = MessagesOf(Threaded(set))
            /\ thread_depths' = DepthsOf(Threaded(set))
       ELSE /\ visible_indices' = Sorted(Ascending(set))
            /\ UNCHANGED thread_depths
    /\ SelectMessage(visible_indices', selected)

(* How apply_search_results, apply_label_filter and a non-empty            *)
(* incremental search end: sort, thread, select the first row.             *)
Show(set) ==
    /\ IF threaded_view
       THEN /\ visible_indices' = MessagesOf(Threaded(set))
            /\ thread_depths' = DepthsOf(Threaded(set))
       ELSE /\ visible_indices' = Sorted(Ascending(set))
            /\ UNCHANGED thread_depths
    /\ IF set # {} THEN SelectMessage(visible_indices', 0)
                   ELSE current_body' = <<>> /\ UNCHANGED <<selected, body_search>>

(* How a search for nothing ends, and an Esc without a label: no threads,  *)
(* and an empty list leaves the body alone.                                *)
ShowUnthreaded(set) ==
    /\ visible_indices' = Sorted(Ascending(set))
    /\ SelectMessage(visible_indices', 0)
    /\ UNCHANGED thread_depths

Init ==
    /\ visible_indices = SortedBy(Ascending(Messages), "date", FALSE)
    /\ thread_depths = <<>>
    /\ selected = 0
    /\ current_body = IF visible_indices # <<>> THEN BodyOf(visible_indices[1]) ELSE <<>>
    /\ body_search = NoBodySearch
    /\ threaded_view = FALSE
    /\ sort_column = "date" /\ sort_ascending = FALSE
    /\ active_label_filter = <<>>
    /\ search_active = FALSE /\ search_query = EmptyQuery /\ search_dirty = "no"
    /\ filter_within_results = FALSE
    /\ search_results = <<>> /\ search_result_index = 0
    /\ search_job = 0 /\ jobs = [j \in Jobs |-> NoJob]
    /\ focus = "MailList" /\ popups = {} /\ should_quit = FALSE

-----------------------------------------------------------------------------
(* Searches. *)

(* cancel_search: the App drops its receiver and raises the cancel flag;   *)
(* a thread that has already answered is forgotten with its channel.       *)
Dropped(table) ==
    IF search_job = 0 THEN table
    ELSE IF table[search_job].worker = "ended"
    THEN [table EXCEPT ![search_job] = NoJob]
    ELSE [table EXCEPT ![search_job].cancel = TRUE]

MutForgetsLabel == IF filter_within_results THEN Visible ELSE Messages

(* The messages a new search is confined to. *)
SearchRestrictSet == IF filter_within_results THEN Visible ELSE LabelScope

ApplySearchResults(found, restrict) ==
    /\ search_results' = Ascending(found \cap restrict)
    /\ search_result_index' = 0
    /\ Show(found \cap restrict)

(* History: see NoJob. *)
ScopeOfNewJob ==
    IF filter_within_results /\ ~(Visible \subseteq LabelScope) THEN {} ELSE {active_label_filter}

SpawnSearchJob(query, restrict) ==
    \E j \in Jobs :
        /\ Dropped(jobs)[j] = NoJob
        /\ search_job' = j
        /\ jobs' = [Dropped(jobs) EXCEPT ![j] =
               [worker |-> "running", query |-> query, restrict |-> restrict,
                cancel |-> FALSE, answer |-> <<>>, startedIn |-> ScopeOfNewJob]]

(* execute_search, with the query that was just confirmed. *)
ExecuteSearch(query) ==
    LET restrict == SearchRestrictSet
    IN  /\ search_dirty' = "no"
        /\ \/ /\ query = EmptyQuery
              /\ search_job' = 0 /\ jobs' = Dropped(jobs)
              /\ search_results' = <<>> /\ UNCHANGED search_result_index
              /\ ShowUnthreaded(restrict)
           \/ /\ query \in NeedsBodyScan
              /\ SpawnSearchJob(query, restrict)
              /\ UNCHANGED <<listVars, resultVars>>
           \/ /\ query \notin NeedsBodyScan \cup {EmptyQuery}
              /\ search_job' = 0 /\ jobs' = Dropped(jobs)
              /\ ApplySearchResults(Hits[query], restrict)

(* The thread scans the candidates in order and stops where it finds the   *)
(* cancel flag raised; nobody receives what it finds then.                 *)
WorkerEnds(j) ==
    /\ jobs[j].worker = "running"
    /\ IF search_job # j
       THEN jobs' = [jobs EXCEPT ![j] = NoJob]
       ELSE \E k \in 0 .. N :
                /\ k < N => jobs[j].cancel
                /\ jobs' = [jobs EXCEPT ![j].worker = "ended",
                       ![j].answer = <<Hits[jobs[j].query] \cap 1 .. k>>]
    /\ UNCHANGED <<listVars, orderVars, active_label_filter, typingVars, resultVars,
                   search_job, uiVars>>

(* The mailbox cannot be read, or the thread panics. *)
WorkerFails(j) ==
    /\ jobs[j].worker = "running"
    /\ jobs' = IF search_job # j THEN [jobs EXCEPT ![j] = NoJob]
                                 ELSE [jobs EXCEPT ![j].worker = "ended"]
    /\ UNCHANGED <<listVars, orderVars, active_label_filter, typingVars, resultVars,
                   search_job, uiVars>>

MutPollForgetsRestriction ==
    /\ search_job # 0
    /\ jobs[search_job].worker = "ended"
    /\ search_job' = 0
    /\ jobs' = [jobs EXCEPT ![search_job] = NoJob]
    /\ IF jobs[search_job].answer # <<>>
       THEN ApplySearchResults(jobs[search_job].answer[1], Messages)
       ELSE UNCHANGED <<listVars, resultVars>>
    /\ UNCHANGED <<orderVars, active_label_filter, typingVars, uiVars>>

MutPollIgnoresDisconnect ==
    /\ search_job # 0
    /\ jobs[search_job].answer # <<>>
    /\ search_job' = 0
    /\ jobs' = [jobs EXCEPT ![search_job] = NoJob]
    /\ ApplySearchResults(jobs[search_job].answer[1], jobs[search_job].restrict)
    /\ UNCHANGED <<orderVars, active_label_filter, typingVars, uiVars>>

(* poll_search: the result is applied whatever the user does meanwhile. *)
PollSearch ==
    /\ search_job # 0
    /\ jobs[search_job].worker = "ended"
    /\ search_job' = 0
    /\ jobs' = [jobs EXCEPT ![search_job] = NoJob]
    /\ IF jobs[search_job].answer # <<>>
       THEN ApplySearchResults(jobs[search_job].answer[1], jobs[search_job].restrict)
       ELSE UNCHANGED <<listVars, resultVars>>
    /\ UNCHANGED <<orderVars, active_label_filter, typingVars, uiVars>>

(* SEARCH_DEBOUNCE passes without a keystroke. *)
InputSettles ==
    /\ search_dirty = "recent"
    /\ search_dirty' = "settled"
    /\ UNCHANGED <<listVars, orderVars, active_label_filter, search_active, search_query,
                   filter_within_results, resultVars, jobVars, uiVars>>

MutFulltextKeepsTimer ==
    /\ search_dirty = "settled"
    /\ search_query \notin NeedsFulltext
    /\ search_dirty' = "no"
    /\ \/ /\ search_query = EmptyQuery
          /\ ShowUnthreaded(LabelScope)
       \/ /\ search_query # EmptyQuery
          /\ Show(QuickHits[search_query] \cap LabelScope)
    /\ UNCHANGED <<orderVars, active_label_filter, search_active, search_query,
                   filter_within_results, resultVars, jobVars, uiVars>>

(* poll_incremental_search, with execute_incremental_search: only the      *)
(* list changes, neither search_results nor the job.                       *)
PollIncrementalSearch ==
    /\ search_dirty = "settled"
    /\ search_dirty' = "no"
    /\ \/ /\ search_query = EmptyQuery
          /\ ShowUnthreaded(LabelScope)
       \/ /\ search_query \in NeedsFulltext
          /\ UNCHANGED listVars
       \/ /\ search_query \notin NeedsFulltext \cup {EmptyQuery}
          /\ Show(QuickHits[search_query] \cap LabelScope)
    /\ UNCHANGED <<orderVars, active_label_filter, search_active, search_query,
                   filter_within_results, resultVars, jobVars, uiVars>>

(* apply_label_filter.  A running search is not cancelled. *)
ApplyLabelFilter(label) ==
    /\ active_label_filter' = label
    /\ search_query' = EmptyQuery
    /\ search_results' = <<>> /\ UNCHANGED search_result_index
    /\ filter_within_results' = FALSE
    /\ Show(IF label = <<>> THEN Messages ELSE Labelled[label[1]])

-----------------------------------------------------------------------------
(* Keys, by who takes them: the search bar, the in-body prompt, a popup,   *)
(* and only then the panels.                                               *)

Press(key) == key \in Keys /\ ~should_quit

InSearchBar(key) == Press(key) /\ search_active
InBodyPrompt(key) == Press(key) /\ ~search_active /\ body_search.active
InPopup(key, popup) ==
    /\ Press(key) /\ ~search_active /\ ~body_search.active
    /\ popup \in popups
InPanels(key) == Press(key) /\ ~search_active /\ ~body_search.active /\ popups = {}
InPanel(key, panel) == InPanels(key) /\ focus = panel

(* A character, Backspace, or a query recalled from the history. *)
TypeQuery(query) ==
    /\ InSearchBar("type")
    /\ search_query' = query
    /\ search_dirty' = "recent"
    /\ UNCHANGED <<listVars, orderVars, active_label_filter, search_active,
                   filter_within_results, resultVars, jobVars, uiVars>>

ConfirmSearch ==
    /\ InSearchBar("enter")
    /\ ExecuteSearch(search_query)
    /\ search_active' = FALSE
    /\ focus' = "MailList"
    /\ UNCHANGED <<orderVars, active_label_filter, search_query, filter_within_results,
                   popups, should_quit>>

(* Esc in the search bar.  A running search is not cancelled. *)
LeaveSearch ==
    /\ InSearchBar("leave")
    /\ search_active' = FALSE
    /\ focus' = "MailList"
    /\ search_dirty' = "no"
    /\ filter_within_results' = FALSE
    /\ \/ active_label_filter # <<>> /\ ApplyLabelFilter(active_label_filter)
       \/ /\ active_label_filter = <<>>
          /\ search_results' = <<>>
          /\ ShowUnthreaded(Messages)
          /\ UNCHANGED <<active_label_filter, search_query, search_result_index>>
    /\ UNCHANGED <<orderVars, jobVars, popups, should_quit>>

(* recompute_body_matches: what the loaded body yields for the new query. *)
TypeBodyQuery ==
    /\ InBodyPrompt("bodysearch")
    /\ \E n \in IF current_body = <<>> THEN {0} ELSE 0 .. MaxMatches :
           body_search' = [active |-> TRUE, matches |-> [i \in 1 .. n |-> current_body[1]],
                           index |-> 0]
    /\ UNCHANGED <<visible_indices, thread_depths, selected, current_body, orderVars,
                   active_label_filter, typingVars, resultVars, jobVars, uiVars>>

(* Enter keeps the matches, Esc clears them. *)
CloseBodyPrompt ==
    /\ InBodyPrompt("bodysearch")
    /\ body_search' \in {NoBodySearch, [body_search EXCEPT !.active = FALSE]}
    /\ UNCHANGED <<visible_indices, thread_depths, selected, current_body, orderVars,
                   active_label_filter, typingVars, resultVars, jobVars, uiVars>>

ClosePopup(popup) ==
    /\ InPopup("popup", popup)
    /\ popups' = popups \ {popup}
    /\ UNCHANGED <<listVars, orderVars, active_label_filter, typingVars, resultVars, jobVars,
                   focus, should_quit>>

ToggleWithinResults ==
    /\ InPopup("within", "filter")
    /\ filter_within_results' = ~filter_within_results
    /\ UNCHANGED <<listVars, orderVars, active_label_filter, search_active, search_query,
                   search_dirty, resultVars, jobVars, uiVars>>

ConfirmFilter(query) ==
    /\ InPopup("filter", "filter")
    /\ search_query' = query
    /\ popups' = popups \ {"filter"}
    /\ ExecuteSearch(query)
    /\ UNCHANGED <<orderVars, active_label_filter, search_active, filter_within_results,
                   focus, should_quit>>

MutCancelKeepsListening ==
    /\ InPanels("cancel")
    /\ search_job # 0
    /\ jobs' = [jobs EXCEPT ![search_job].cancel = TRUE]
    /\ UNCHANGED <<listVars, orderVars, active_label_filter, typingVars, resultVars,
                   search_job, uiVars>>

(* Esc while a search is running, from any panel. *)
CancelSearch ==
    /\ InPanels("cancel")
    /\ search_job # 0
    /\ search_job' = 0
    /\ jobs' = Dropped(jobs)
    /\ UNCHANGED <<listVars, orderVars, active_label_filter, typingVars, resultVars, uiVars>>

Quit ==
    /\ InPanels("quit")
    /\ should_quit' = TRUE
    /\ UNCHANGED <<listVars, orderVars, active_label_filter, typingVars, resultVars, jobVars,
                   focus, popups>>

OpenPopup(popup) ==
    /\ InPanels("popup") \/ (popup = "filter" /\ InPanels("filter"))
    /\ popup = "filter" => focus = "MailList"
    /\ popup \in {"attachments", "export"} => focus \in {"MailList", "MailView"}
    /\ popups' = {popup}
    /\ UNCHANGED <<listVars, orderVars, active_label_filter, typingVars, resultVars, jobVars,
                   focus, should_quit>>

(* Tab and Shift-Tab (next_focus), l (handle_sidebar_toggle), Enter in the *)
(* list, Esc in the sidebar or, without matches, in the message.  The      *)
(* cases for a focused search bar are dead code (see KeyboardAlive).       *)
MoveFocus(panel) ==
    /\ InPanels("focus")
    /\ \/ focus = "Sidebar" /\ panel \in {"MailList", "MailView"}
       \/ focus = "MailList" /\ panel = "MailView"
       \/ focus = "MailView" /\ panel = "MailList"
       \/ focus # "Sidebar" /\ panel = "Sidebar" /\ Labels # {}
    /\ focus' = panel
    /\ UNCHANGED <<listVars, orderVars, active_label_filter, typingVars, resultVars, jobVars,
                   popups, should_quit>>

MutSlashKeepsFocus ==
    /\ InPanels("slash")
    /\ focus \notin {"Sidebar", "MailView"}
    /\ search_active' = TRUE
    /\ search_query' = EmptyQuery
    /\ UNCHANGED <<listVars, orderVars, active_label_filter, search_dirty,
                   filter_within_results, resultVars, jobVars, uiVars>>

(* "/" outside the sidebar and the message. *)
OpenSearch ==
    /\ InPanels("slash")
    /\ focus \notin {"Sidebar", "MailView"}
    /\ search_active' = TRUE
    /\ search_query' = EmptyQuery
    /\ focus' = "SearchBar"
    /\ UNCHANGED <<listVars, orderVars, active_label_filter, search_dirty,
                   filter_within_results, resultVars, jobVars, popups, should_quit>>

(* Enter in the sidebar, on any of its rows. *)
ChooseLabel(label) ==
    /\ InPanel("label", "Sidebar")
    /\ ApplyLabelFilter(label)
    /\ focus' = "MailList"
    /\ UNCHANGED <<orderVars, search_active, search_dirty, jobVars, popups, should_quit>>

(* The navigation keys of the list reach any of its rows. *)
MoveTo(row) ==
    /\ InPanel("move", "MailList")
    /\ SelectMessage(visible_indices, row)
    /\ UNCHANGED <<visible_indices, thread_depths, orderVars, active_label_filter, typingVars,
                   resultVars, jobVars, uiVars>>

NextColumn == [date |-> "from", from |-> "subject", subject |-> "size", size |-> "date"]

(* s and S: the rows move, and the selection stays on its row. *)
SortList(column, ascending) ==
    /\ sort_column' = column
    /\ sort_ascending' = ascending
    /\ visible_indices' = SortedBy(visible_indices, column, ascending)
    /\ UNCHANGED <<thread_depths, selected, current_body, body_search, threaded_view,
                   active_label_filter, typingVars, resultVars, jobVars, uiVars>>

CycleSort ==
    /\ InPanel("sort", "MailList")
    /\ SortList(NextColumn[sort_column], NextColumn[sort_column] # "date")

ReverseSort ==
    /\ InPanel("reverse", "MailList")
    /\ SortList(sort_column, ~sort_ascending)

MutToggleKeepsSelection ==
    /\ InPanel("threads", "MailList")
    /\ threaded_view' = ~threaded_view
    /\ IF threaded_view'
       THEN /\ visible_indices' = MessagesOf(Threaded(Visible))
            /\ thread_depths' = DepthsOf(Threaded(Visible))
       ELSE /\ visible_indices' = Sorted(visible_indices)
            /\ thread_depths' = <<>>
    /\ UNCHANGED <<selected, current_body, body_search, sort_column, sort_ascending,
                   active_label_filter, typingVars, resultVars, jobVars, uiVars>>

ToggleThreads ==
    /\ InPanel("threads", "MailList")
    /\ threaded_view' = ~threaded_view
    /\ IF threaded_view'
       THEN /\ visible_indices' = MessagesOf(Threaded(Visible))
            /\ thread_depths' = DepthsOf(Threaded(Visible))
       ELSE /\ visible_indices' = Sorted(visible_indices)
            /\ thread_depths' = <<>>
    /\ SelectMessage(visible_indices', 0)
    /\ UNCHANGED <<sort_column, sort_ascending, active_label_filter, typingVars, resultVars,
                   jobVars, uiVars>>

(* n and N in the list: the next or previous result, if the list has it. *)
StepResult(delta) ==
    /\ InPanel("results", "MailList")
    /\ search_results # <<>>
    /\ search_result_index' = (search_result_index + delta) % Len(search_results)
    /\ LET m == search_results[search_result_index' + 1]
       IN  IF m \in Visible
           THEN SelectMessage(visible_indices,
                    (CHOOSE i \in DOMAIN visible_indices : visible_indices[i] = m) - 1)
           ELSE UNCHANGED <<selected, current_body, body_search>>
    /\ UNCHANGED <<visible_indices, thread_depths, orderVars, active_label_filter, typingVars,
                   search_results, jobVars, uiVars>>

OpenBodySearch ==
    /\ InPanel("bodysearch", "MailView")
    /\ body_search' = [NoBodySearch EXCEPT !.active = TRUE]
    /\ UNCHANGED <<visible_indices, thread_depths, selected, current_body, orderVars,
                   active_label_filter, typingVars, resultVars, jobVars, uiVars>>

(* n and N in the message, or Esc, which clears the matches. *)
StepMatch ==
    /\ InPanel("bodysearch", "MailView")
    /\ body_search.matches # <<>>
    /\ LET count == Len(body_search.matches)
       IN  body_search' \in
               {[body_search EXCEPT !.index = (@ + 1) % count],
                [body_search EXCEPT !.index = (@ + count - 1) % count],
                NoBodySearch}
    /\ UNCHANGED <<visible_indices, thread_depths, selected, current_body, orderVars,
                   active_label_filter, typingVars, resultVars, jobVars, uiVars>>

-----------------------------------------------------------------------------
Key ==
    \/ \E query \in Queries : TypeQuery(query) \/ ConfirmFilter(query)
    \/ ConfirmSearch \/ LeaveSearch \/ OpenSearch \/ CancelSearch
    \/ TypeBodyQuery \/ CloseBodyPrompt \/ OpenBodySearch \/ StepMatch
    \/ \E popup \in Popups : OpenPopup(popup) \/ ClosePopup(popup)
    \/ ToggleWithinResults
    \/ \E panel \in Panels : MoveFocus(panel)
    \/ ChooseLabel(<<>>) \/ \E l \in Labels : ChooseLabel(<<l>>)
    \/ \E row \in 0 .. N - 1 : MoveTo(row)
    \/ CycleSort \/ ReverseSort \/ ToggleThreads
    \/ \E delta \in {1, -1} : StepResult(delta)
    \/ Quit

Poll == ~should_quit /\ (PollSearch \/ PollIncrementalSearch)

Worker(j) == WorkerEnds(j) \/ WorkerFails(j)

Next ==
    \/ Key
    \/ Poll
    \/ InputSettles
    \/ \E j \in Jobs : Worker(j)

Spec == Init /\ [][Next]_vars

(* The loop polls between any two keys and at least every tick_rate, so    *)
(* what it finds ready again and again it handles, even if keys keep       *)
(* undoing and redoing it: strong fairness.  A thread runs until it ends,  *)
(* and the user pauses now and then for longer than the debounce window,   *)
(* but need not press any key.                                             *)
Fairness ==
    /\ SF_vars(~should_quit /\ PollSearch)
    /\ SF_vars(~should_quit /\ PollIncrementalSearch)
    /\ WF_vars(InputSettles)
    /\ \A j \in Jobs : WF_vars(Worker(j))

LiveSpec == Spec /\ Fairness

-----------------------------------------------------------------------------
(* The list never repeats a message, and there is a message on the         *)
(* selected row whenever there is a row at all, whichever of the dozen     *)
(* places that replace the list ran last (tui/app.rs:463-478).             *)
SelectionIsARow ==
    /\ IsInjective(visible_indices)
    /\ visible_indices # <<>> => selected < Len(visible_indices)

(* The body on the screen is that of a message of the list: a list that    *)
(* shrinks, or becomes empty, never leaves a body behind that it does not  *)
(* contain (tui/app.rs:481-495, 910-914, 1004-1008).                       *)
BodyIsListed == current_body # <<>> => current_body[1] \in Visible

(* The matches of the in-body search are matches in the loaded body, and   *)
(* the focused one exists, also when a search thread's result replaces the *)
(* message while the prompt is open (tui/app.rs:470-478, 1137-1186).       *)
MatchesAreOfTheBody ==
    /\ current_body # <<>> =>
           \A i \in DOMAIN body_search.matches : body_search.matches[i] = current_body[1]
    /\ body_search.matches # <<>> => body_search.index < Len(body_search.matches)

(* The keyboard is never dead: the search bar has the focus exactly while  *)
(* it takes the keys, at most one of the things that capture keys is open, *)
(* and a sidebar without labels has no focus (tui/event.rs:19-152).        *)
KeyboardAlive ==
    /\ search_active <=> focus = "SearchBar"
    /\ Cardinality(popups) <= 1
    /\ search_active => popups = {} /\ ~body_search.active
    /\ body_search.active => popups = {}
    /\ focus = "Sidebar" => Labels # {}

(* A job the App still listens to has not been cancelled, so an answer     *)
(* that is applied is never the part of one that a cancelled scan had      *)
(* found (tui/app.rs:833-845, 891-896).                                    *)
AppliedAnswersAreWhole ==
    search_job # 0 =>
        /\ ~jobs[search_job].cancel
        /\ jobs[search_job].answer # <<>> =>
               jobs[search_job].answer[1] = Hits[jobs[search_job].query]

(* Whatever replaces the list or moves the selection loads the body of the *)
(* message that is selected then.  Changes of the sort order are the       *)
(* exception (tui/app.rs:470-495, 498-539).                                *)
BodyFollowsSelection ==
    [][(visible_indices' # visible_indices \/ selected' # selected)
         /\ UNCHANGED <<sort_column, sort_ascending>>
       => current_body' = (IF visible_indices' = <<>> THEN <<>>
                           ELSE BodyOf(visible_indices'[selected' + 1]))]_vars

(* A list within the label filter stays within it, whatever is typed,      *)
(* searched, answered or reordered: "subsequent searches stay within it"   *)
(* (docs/MANUAL.md:238).  A thread that was started within the label       *)
(* answers within it, however long it takes and whatever else happened to  *)
(* the list.  Only the answer of one that was started before the label was *)
(* chosen, or among rows that were not of the label, may lead elsewhere    *)
(* (tui/app.rs:727-739, 829-918, 962-1010).                                *)
LabelScopeHolds ==
    [][/\ Visible \subseteq LabelScope
       /\ PollSearch => active_label_filter \in jobs[search_job].startedIn
       => Visible' \subseteq LabelScope']_vars

(* Every search thread the App listens to is answered, abandoned or        *)
(* replaced, also when it dies without a word (tui/app.rs:833-879).        *)
JobsEnd == \A j \in Jobs : search_job = j ~> (search_job # j \/ should_quit)

(* What was typed is searched for, or the search bar is left.              *)
InputIsSearched == search_dirty # "no" ~> (search_dirty = "no" \/ should_quit)

-----------------------------------------------------------------------------
(* Sentences of the repository that the code does not keep (README,        *)
(* section 3).                                                             *)

(* "Search within previous results" is "a persistent scoping mode honoured *)
(* by every search entry point" (CHANGELOG.md:129): while it is on, no     *)
(* search widens the list.                                                 *)
SearchesStayWithinResults ==
    [][filter_within_results
         /\ (PollIncrementalSearch \/ ConfirmSearch \/ \E query \in Queries : ConfirmFilter(query))
       => Visible' \subseteq Visible]_vars

(* "Decoded body of the currently selected message." (tui/app.rs:304)      *)
BodyIsOfSelected ==
    visible_indices # <<>> => current_body = BodyOf(visible_indices[selected + 1])

(* "Depth info for each visible row when in threaded mode. Index           *)
(* corresponds to `visible_indices`." (tui/app.rs:232-233)                 *)
DepthsAreOfRows ==
    threaded_view =>
        /\ Len(thread_depths) = Len(visible_indices)
        /\ \A i \in DOMAIN visible_indices :
               <<visible_indices[i], thread_depths[i]>> \in Range(Conversations)

(* "Selecting a label scopes the list to that label; subsequent searches   *)
(* stay within it." (docs/MANUAL.md:238)                                   *)
ListStaysInLabel == Visible \subseteq LabelScope
=============================================================================
