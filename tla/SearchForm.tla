------------------------------- MODULE SearchForm ------------------------------
(***************************************************************************)
(* Where queries come from: the search bar with its history, and the       *)
(* filter popup, which writes its fields as one query string               *)
(* (tui/event.rs, build_query_from_filters of tui/app.rs) that the         *)
(* tokenizer of search/query.rs takes apart again.                         *)
(*                                                                         *)
(* Text is a sequence of symbols: Space, Quote, words, and the prefixes    *)
(* and the size and has: filters the popup writes, one symbol each.  A key *)
(* pressed in a text field is taken together with those that follow it:    *)
(* Typed holds the pieces of text that are entered.  What a search does is *)
(* the business of App and Search.                                         *)
(***************************************************************************)
EXTENDS SearchHistory

CONSTANTS
    Typed,          \* the pieces of text that are entered
    LabelLists,     \* the possible lists of labels of a mailbox
    SizeOptions,    \* the sequence of size filters, without "Any"
    MaxChanges      \* bound: changes of the bar or of a field

Space == " "

Quote == "q"

TextFields == {"Text", "From", "To", "Subject", "DateFrom", "DateTo"}

ASSUME SearchFormAssumption ==
    /\ MaxChanges \in Nat
    /\ \A t \in Typed : t \in Seq(STRING) /\ t # <<>>
    /\ \A l \in LabelLists : l \in Seq(Seq(STRING))

VARIABLES
    all_labels,
    draft, show_search_filter, focus,
    filter,         \* the text of each text field
    size_selected, filter_has_attachment, label_selected, filter_within_results,
    changes         \* changes so far

barVars == <<search_active, search_query, history, history_index, draft>>
fieldVars == <<filter, size_selected, filter_has_attachment, label_selected>>
vars == <<all_labels, barVars, show_search_filter, focus, fieldVars, filter_within_results, changes>>

Init ==
    /\ all_labels \in LabelLists
    /\ search_active = FALSE /\ search_query = <<>>
    /\ history = <<>> /\ history_index = <<>> /\ draft = <<>>
    /\ show_search_filter = FALSE /\ focus = "Text"
    /\ filter = [f \in TextFields |-> <<>>]
    /\ size_selected = 0 /\ filter_has_attachment = FALSE /\ label_selected = 0
    /\ filter_within_results = FALSE
    /\ changes = 0

(* A key that changes what the user has entered. *)
Change == changes < MaxChanges /\ changes' = changes + 1

Pop(text) == IF text = <<>> THEN <<>> ELSE Front(text)

-----------------------------------------------------------------------------
(* The search bar. *)

OpenSearch ==
    /\ ~search_active /\ ~show_search_filter
    /\ search_active' = TRUE /\ search_query' = <<>>
    /\ UNCHANGED <<all_labels, history, history_index, draft, show_search_filter, focus,
                   fieldVars, filter_within_results, changes>>

(* A key of the active search bar. *)
BarKey ==
    /\ search_active
    /\ UNCHANGED <<all_labels, show_search_filter, focus, fieldVars>>

MutType ==
    /\ BarKey /\ Change
    /\ \E t \in Typed : search_query' = search_query \o t
    /\ UNCHANGED <<search_active, history, history_index, draft, filter_within_results>>

Type ==
    /\ BarKey /\ Change
    /\ \E t \in Typed : search_query' = search_query \o t
    /\ history_index' = <<>>
    /\ UNCHANGED <<search_active, history, draft, filter_within_results>>

Erase ==
    /\ BarKey /\ Change
    /\ search_query' = Pop(search_query) /\ history_index' = <<>>
    /\ UNCHANGED <<search_active, history, draft, filter_within_results>>

Older ==
    /\ BarKey /\ history # <<>>
    /\ LET next == IF history_index = <<>> THEN 1 ELSE history_index[1] + 1
       IN  /\ next <= Len(history)
           /\ history_index' = <<next>> /\ search_query' = history[next]
           /\ draft' = IF history_index = <<>> THEN search_query ELSE draft
    /\ UNCHANGED <<search_active, history, filter_within_results, changes>>

Newer ==
    /\ BarKey /\ history_index # <<>>
    /\ IF history_index[1] = 1
       THEN history_index' = <<>> /\ search_query' = draft
       ELSE history_index' = <<history_index[1] - 1>> /\ search_query' = history[history_index[1] - 1]
    /\ UNCHANGED <<search_active, history, draft, filter_within_results, changes>>

ConfirmSearch ==
    /\ BarKey
    /\ history' = Pushed(search_query)
    /\ history_index' = <<>> /\ search_active' = FALSE
    /\ UNCHANGED <<search_query, draft, filter_within_results, changes>>

LeaveSearch ==
    /\ BarKey
    /\ search_active' = FALSE /\ history_index' = <<>> /\ filter_within_results' = FALSE
    /\ UNCHANGED <<search_query, history, draft, changes>>

-----------------------------------------------------------------------------
(* The query of the popup. *)

HasSpace(text) == Space \in Range(text)

HasQuote(text) == Quote \in Range(text)

MutQuoteIfNeeded(text) == text

QuoteIfNeeded(text) ==
    IF HasQuote(text) \/ ~HasSpace(text) THEN text ELSE <<Quote>> \o text \o <<Quote>>

(* str::trim *)
Trim(text) ==
    LET words == {i \in DOMAIN text : text[i] # Space}
    IN  IF words = {} THEN <<>>
        ELSE SubSeq(text, CHOOSE i \in words : \A j \in words : i <= j,
                          CHOOSE i \in words : \A j \in words : j <= i)

Part(field, prefix) ==
    IF filter[field] = <<>> THEN <<>> ELSE << <<prefix>> \o QuoteIfNeeded(filter[field]) >>

DatePart ==
    CASE filter.DateFrom # <<>> /\ filter.DateTo # <<>> ->
             << <<"date:">> \o filter.DateFrom \o <<"..">> \o filter.DateTo >>
      [] filter.DateFrom # <<>> /\ filter.DateTo = <<>> -> << <<"after:">> \o filter.DateFrom >>
      [] filter.DateFrom = <<>> /\ filter.DateTo # <<>> -> << <<"before:">> \o filter.DateTo >>
      [] OTHER -> <<>>

Parts ==
    (IF filter.Text = <<>> THEN <<>> ELSE <<Trim(filter.Text)>>)
    \o Part("From", "from:") \o Part("To", "to:") \o Part("Subject", "subject:")
    \o DatePart
    \o (IF size_selected = 0 THEN <<>> ELSE << <<SizeOptions[size_selected]>> >>)
    \o (IF filter_has_attachment THEN << <<"has:attachment">> >> ELSE <<>>)
    \o (IF label_selected \in DOMAIN all_labels
        THEN << <<"label:">> \o QuoteIfNeeded(all_labels[label_selected]) >> ELSE <<>>)

(* build_query_from_filters: the parts, joined by spaces. *)
BuildQuery ==
    IF Parts = <<>> THEN <<>>
    ELSE FoldLeft(LAMBDA query, part : query \o <<Space>> \o part, Parts[1], Tail(Parts))

-----------------------------------------------------------------------------
(* The popup. *)

FieldOrder ==
    <<"Text", "From", "To", "Subject", "DateFrom", "DateTo", "Size", "HasAttachment">>
    \o (IF all_labels = <<>> THEN <<>> ELSE <<"Label">>) \o <<"WithinResults">>

PositionOf(field) == CHOOSE i \in DOMAIN FieldOrder : FieldOrder[i] = field

OpenFilter ==
    /\ ~search_active /\ ~show_search_filter
    /\ show_search_filter' = TRUE /\ focus' = "Text"
    /\ filter' = [f \in TextFields |-> <<>>]
    /\ size_selected' = 0 /\ filter_has_attachment' = FALSE /\ label_selected' = 0
    /\ UNCHANGED <<all_labels, barVars, filter_within_results, changes>>

PopupKey ==
    /\ show_search_filter
    /\ UNCHANGED <<all_labels, search_active, history_index, draft>>

CloseFilter ==
    /\ PopupKey
    /\ show_search_filter' = FALSE
    /\ UNCHANGED <<search_query, history, focus, fieldVars, filter_within_results, changes>>

(* Tab and Down, Shift-Tab and Up, Home, End. *)
MoveFocus ==
    /\ PopupKey
    /\ LET i == PositionOf(focus)
           n == Len(FieldOrder)
       IN  \E j \in {(i % n) + 1, ((i + n - 2) % n) + 1, 1, n} : focus' = FieldOrder[j]
    /\ UNCHANGED <<search_query, history, show_search_filter, fieldVars, filter_within_results, changes>>

TypeInField ==
    /\ PopupKey /\ focus \in TextFields /\ Change
    /\ \E t \in Typed : filter' = [filter EXCEPT ![focus] = @ \o t]
    /\ UNCHANGED <<search_query, history, show_search_filter, focus, size_selected,
                   filter_has_attachment, label_selected, filter_within_results>>

EraseInField ==
    /\ PopupKey /\ focus \in TextFields /\ Change
    /\ filter' = [filter EXCEPT ![focus] = Pop(@)]
    /\ UNCHANGED <<search_query, history, show_search_filter, focus, size_selected,
                   filter_has_attachment, label_selected, filter_within_results>>

(* Space on a check box. *)
Toggle ==
    /\ PopupKey /\ Change
    /\ \/ /\ focus = "HasAttachment"
          /\ filter_has_attachment' = ~filter_has_attachment /\ UNCHANGED filter_within_results
       \/ /\ focus = "WithinResults"
          /\ filter_within_results' = ~filter_within_results /\ UNCHANGED filter_has_attachment
    /\ UNCHANGED <<search_query, history, show_search_filter, focus, filter, size_selected, label_selected>>

(* Left and Right on a selector, whose first value is Any. *)
TurnSelector ==
    /\ PopupKey /\ Change
    /\ \E step \in {-1, 1} :
           \/ /\ focus = "Size" /\ size_selected + step \in 0 .. Len(SizeOptions)
              /\ size_selected' = size_selected + step /\ UNCHANGED label_selected
           \/ /\ focus = "Label" /\ label_selected + step \in 0 .. Len(all_labels)
              /\ label_selected' = label_selected + step /\ UNCHANGED size_selected
    /\ UNCHANGED <<search_query, history, show_search_filter, focus, filter, filter_has_attachment,
                   filter_within_results>>

SubmitFilter ==
    /\ PopupKey
    /\ search_query' = BuildQuery /\ history' = Pushed(BuildQuery)
    /\ show_search_filter' = FALSE
    /\ UNCHANGED <<focus, fieldVars, filter_within_results, changes>>

Next ==
    \/ OpenSearch \/ Type \/ Erase \/ Older \/ Newer \/ ConfirmSearch \/ LeaveSearch
    \/ OpenFilter \/ CloseFilter \/ MoveFocus \/ TypeInField \/ EraseInField
    \/ Toggle \/ TurnSelector \/ SubmitFilter

Spec == Init /\ [][Next]_vars

-----------------------------------------------------------------------------
(* How the engine reads a query. *)

(* tokenize, one symbol at a time. *)
NextSymbol(t, symbol) ==
    CASE symbol = Quote ->
             [t EXCEPT !.in_quotes = ~@, !.current = Append(@, symbol)]
      [] symbol = Space /\ ~t.in_quotes ->
             IF t.current = <<>> THEN t
             ELSE [t EXCEPT !.tokens = Append(@, t.current), !.current = <<>>]
      [] OTHER -> [t EXCEPT !.current = Append(@, symbol)]

Tokenize(text) ==
    LET end == FoldLeft(NextSymbol, [tokens |-> <<>>, current |-> <<>>, in_quotes |-> FALSE], text)
    IN  IF end.current = <<>> THEN end.tokens ELSE Append(end.tokens, end.current)

(* make_operator: the text without the quotes around it. *)
Unquoted(value) ==
    IF Len(value) >= 2 /\ value[1] = Quote /\ Last(value) = Quote
    THEN SubSeq(value, 2, Len(value) - 1) ELSE value

FieldPrefixes == {"from:", "to:", "subject:", "label:"}

Read(token) ==
    CASE token[1] \in FieldPrefixes -> [field |-> token[1], text |-> Unquoted(Tail(token))]
      [] token[1] \in {"date:", "after:", "before:"} -> [field |-> token[1], text |-> Tail(token)]
      [] token[1] \in Range(SizeOptions) \cup {"has:attachment"} -> [field |-> token[1], text |-> <<>>]
      [] OTHER -> [field |-> "All", text |-> Unquoted(token)]

-----------------------------------------------------------------------------
TypeOK ==
    /\ {search_active, show_search_filter, filter_has_attachment, filter_within_results} \subseteq BOOLEAN
    /\ focus \in Range(FieldOrder)
    /\ size_selected \in 0 .. Len(SizeOptions) /\ label_selected \in 0 .. Len(all_labels)

(* What the fields of the popup say. *)
Wanted ==
    {[field |-> "All", text |-> <<word>>] : word \in Range(filter.Text) \ {Space}}
    \cup {[field |-> p[2], text |-> filter[p[1]]] :
              p \in {q \in {<<"From", "from:">>, <<"To", "to:">>, <<"Subject", "subject:">>} :
                         filter[q[1]] # <<>>}}
    \cup (IF filter.DateFrom # <<>> /\ filter.DateTo # <<>>
          THEN {[field |-> "date:", text |-> filter.DateFrom \o <<"..">> \o filter.DateTo]}
          ELSE {[field |-> p[2], text |-> filter[p[1]]] :
                    p \in {q \in {<<"DateFrom", "after:">>, <<"DateTo", "before:">>} :
                               filter[q[1]] # <<>>}})
    \cup {[field |-> SizeOptions[i], text |-> <<>>] : i \in {size_selected} \ {0}}
    \cup (IF filter_has_attachment THEN {[field |-> "has:attachment", text |-> <<>>]} ELSE {})
    \cup {[field |-> "label:", text |-> all_labels[i]] : i \in {label_selected} \ {0}}

(* Where the round trip through a string is safe: words alone in Text, no  *)
(* quote anywhere and no space in a date.                                  *)
PlainFields ==
    /\ \A f \in TextFields : ~HasQuote(filter[f])
    /\ ~HasSpace(filter.DateFrom) /\ ~HasSpace(filter.DateTo)
    /\ \A i \in DOMAIN filter.Text : i > 1 => Space \in {filter.Text[i - 1], filter.Text[i]}
    /\ label_selected # 0 => ~HasQuote(all_labels[label_selected])

(* What Enter in the popup searches for is exactly its fields: values with *)
(* spaces stay one phrase, the words of the free text do not, and no field *)
(* leaks into its neighbours (tui/app.rs:1013-1073, search/query.rs:307).  *)
FormMeansItsFields ==
    show_search_filter /\ PlainFields =>
        {Read(t) : t \in Range(Tokenize(BuildQuery))} = Wanted
=============================================================================
