-------------------------------- MODULE Search -------------------------------
(***************************************************************************)
(* The search engine: the token loop of parse_query (search/query.rs), the *)
(* metadata pass (search/metadata.rs), the body pass (search/fulltext.rs)  *)
(* and execute (search/mod.rs), which puts them together.                  *)
(*                                                                         *)
(* A token is what its prefix makes of it: an OR, a term, or a has:, date  *)
(* or size filter, on which a leading minus has no effect unless it is     *)
(* has:.  Text is abstract: a needle is an atom, and the constants say     *)
(* which needles occur in which field of which message.  Dates are tuples  *)
(* <<year>>, <<year, month>> or <<year, month, day>>.                      *)
(***************************************************************************)
EXTENDS Integers, Sequences, SequencesExt

CONSTANTS
    N,              \* messages in the index
    Needles,
    Has,            \* Has[m][field]: the needles in that field of message m
    BodyHas,        \* BodyHas[m]: the needles in its text
    Attachments,    \* Attachments[m]: [has, is]: the needles in a file name, and those it equals
    HasAttachments, \* the messages with has_attachments
    Readable,       \* the messages whose body can be read
    DateOf,         \* DateOf[m]: the day of its date
    LengthOf,       \* LengthOf[m]: its size
    MaxBytes,       \* the largest number of a u64
    Queries         \* the sequences of tokens that are entered

Messages == 1 .. N

MetadataFields == {"From", "To", "Cc", "Subject", "Label", "MessageId"}

Fields == MetadataFields \cup {"All", "Body", "Filename"}

Term == [kind : {"term"}, field : Fields, needle : Needles, exact : BOOLEAN, negated : BOOLEAN]

When == {when \in Seq(Nat) : Len(when) \in 1 .. 3}

Token ==
    Term
    \cup [kind : {"or"}]
    \cup [kind : {"has"}, value : {"attachment", "no-attachment", "other"}, negated : BOOLEAN]
    \cup [kind : {"date"}, op : {"date", "before", "after"}, when : When]
    \cup [kind : {"date"}, op : {"range"}, when : When, to : When]
    \cup [kind : {"size"}, greater : BOOLEAN, number : Nat, unit : Nat \ {0}]

DaysIn(year, month) ==
    CASE month = 2 -> IF year % 4 = 0 /\ (year % 100 # 0 \/ year % 400 = 0) THEN 29 ELSE 28
      [] month \in {4, 6, 9, 11} -> 30
      [] OTHER -> 31

IsDate(date) == date[2] \in 1 .. 12 /\ date[3] \in 1 .. DaysIn(date[1], date[2])

ASSUME SearchAssumption ==
    /\ N \in Nat /\ MaxBytes \in Nat
    /\ Has \in [Messages -> [MetadataFields -> SUBSET Needles]]
    /\ BodyHas \in [Messages -> SUBSET Needles]
    /\ \A m \in Messages : \A file \in Attachments[m] :
           file.is \subseteq file.has /\ file.has \subseteq Needles
    /\ HasAttachments \subseteq Messages /\ Readable \subseteq Messages
    /\ DateOf \in [Messages -> {date \in When : Len(date) = 3 /\ IsDate(date)}]
    /\ LengthOf \in [Messages -> Nat]
    /\ Queries \subseteq Seq(Token)

VARIABLES
    tokens,          \* what was typed
    pos,             \* tokens parsed so far
    join_previous,   \* an OR has just been read
    groups, date_filters, size_filters, has_attachment, needs_fulltext,
    pc,              \* "parse", "scan" or "done"
    cancel,          \* the user has cancelled
    candidates,      \* what the metadata pass left to the body pass
    scanned,         \* candidates the body pass has read
    results

queryVars == <<groups, date_filters, size_filters, has_attachment, needs_fulltext>>
vars == <<tokens, pos, join_previous, queryVars, pc, cancel, candidates, scanned, results>>

TypeOK ==
    /\ pos \in 0 .. Len(tokens) /\ scanned \in 0 .. Len(candidates)
    /\ groups \in Seq(Seq(Term)) /\ \A g \in Range(groups) : g # <<>>
    /\ has_attachment \in {<<>>, <<TRUE>>, <<FALSE>>}
    /\ {join_previous, needs_fulltext, cancel} \subseteq BOOLEAN
    /\ pc \in {"parse", "scan", "done"}
    /\ candidates \in Seq(Messages) /\ results \in Seq(Messages)

Init ==
    /\ tokens \in Queries
    /\ pos = 0 /\ join_previous = FALSE
    /\ groups = <<>> /\ date_filters = <<>> /\ size_filters = <<>>
    /\ has_attachment = <<>> /\ needs_fulltext = FALSE
    /\ pc = "parse" /\ cancel = FALSE
    /\ candidates = <<>> /\ scanned = 0 /\ results = <<>>

-----------------------------------------------------------------------------
(* Filters. *)

(* An optional date: from_ymd_opt, parse_naive_date. *)
DateOpt(date) == IF IsDate(date) THEN <<date>> ELSE <<>>

(* parse_flexible_date_start *)
FirstDay(when) ==
    CASE Len(when) = 3 -> DateOpt(when)
      [] Len(when) = 2 -> DateOpt(<<when[1], when[2], 1>>)
      [] Len(when) = 1 -> DateOpt(<<when[1], 1, 1>>)

(* parse_flexible_date_end: the day before the first of the next month. *)
LastDay(when) ==
    LET next == IF when[2] = 12 THEN <<when[1] + 1, 1, 1>> ELSE <<when[1], when[2] + 1, 1>>
    IN  CASE Len(when) = 3 -> DateOpt(when)
          [] Len(when) = 2 ->
                 IF ~IsDate(next) THEN <<>>
                 ELSE IF next[2] = 1 THEN << <<next[1] - 1, 12, 31>> >>
                 ELSE << <<next[1], next[2] - 1, DaysIn(next[1], next[2] - 1)>> >>
          [] Len(when) = 1 -> DateOpt(<<when[1], 12, 31>>)

(* parse_date_filter and the arms for before: and after:; <<>> is nothing. *)
DateFilter(token) ==
    CASE token.op = "range" ->
             IF FirstDay(token.when) = <<>> \/ LastDay(token.to) = <<>> THEN <<>>
             ELSE << <<"Range", FirstDay(token.when)[1], LastDay(token.to)[1]>> >>
      [] token.op = "before" /\ Len(token.when) = 3 ->
             IF IsDate(token.when) THEN << <<"Before", token.when>> >> ELSE <<>>
      [] token.op = "after" /\ Len(token.when) = 3 ->
             IF IsDate(token.when) THEN << <<"After", token.when>> >> ELSE <<>>
      [] token.op = "date" /\ Len(token.when) = 3 /\ IsDate(token.when) ->
             << <<"Exact", token.when>> >>
      [] token.op = "date" /\ Len(token.when) = 2 /\ token.when[2] \in 1 .. 12 ->
             << <<"Month", token.when>> >>
      [] token.op = "date" /\ Len(token.when) = 1 /\ token.when[1] \in 1970 .. 2100 ->
             << <<"Year", token.when>> >>
      [] OTHER -> <<>>

(* Days in their order. *)
DayNumber(date) == 400 * date[1] + 32 * date[2] + date[3]

MatchesDate(m, filter) ==
    LET date == DateOf[m]
        day  == DayNumber(date)
    IN  CASE filter[1] = "Exact"  -> date = filter[2]
          [] filter[1] = "Range"  -> day >= DayNumber(filter[2]) /\ day <= DayNumber(filter[3])
          [] filter[1] = "Before" -> day < DayNumber(filter[2])
          [] filter[1] = "After"  -> day >= DayNumber(filter[2])
          [] filter[1] = "Month"  -> <<date[1], date[2]>> = filter[2]
          [] filter[1] = "Year"   -> <<date[1]>> = filter[2]

(* parse_size_filter: a number, or a product, that a u64 cannot hold makes *)
(* no filter.                                                              *)
SizeFilter(token) ==
    IF token.number > MaxBytes \/ token.number * token.unit > MaxBytes THEN <<>>
    ELSE << [greater |-> token.greater, bytes |-> token.number * token.unit] >>

MatchesSize(m, filter) ==
    IF filter.greater THEN LengthOf[m] > filter.bytes ELSE LengthOf[m] < filter.bytes

-----------------------------------------------------------------------------
(* parse_query, one token at a time. *)

ReadToken(kind) ==
    /\ pc = "parse" /\ pos < Len(tokens)
    /\ tokens[pos + 1].kind = kind
    /\ pos' = pos + 1
    /\ UNCHANGED <<tokens, pc, cancel, candidates, scanned, results>>

OrToken ==
    /\ ReadToken("or")
    /\ join_previous' = TRUE
    /\ UNCHANGED queryVars

(* push_term!: the group before it right after an OR, else one of its own. *)
PushTerm(term) ==
    IF join_previous /\ groups # <<>>
    THEN [groups EXCEPT ![Len(groups)] = Append(@, term)]
    ELSE Append(groups, <<term>>)

WantsFulltext(term) == term.field \in {"Body", "Filename"}

MutTermToken ==
    /\ ReadToken("term")
    /\ groups' = PushTerm(tokens[pos + 1]) /\ needs_fulltext' = WantsFulltext(tokens[pos + 1])
    /\ join_previous' = FALSE
    /\ UNCHANGED <<date_filters, size_filters, has_attachment>>

TermToken ==
    /\ ReadToken("term")
    /\ groups' = PushTerm(tokens[pos + 1])
    /\ needs_fulltext' = (needs_fulltext \/ WantsFulltext(tokens[pos + 1]))
    /\ join_previous' = FALSE
    /\ UNCHANGED <<date_filters, size_filters, has_attachment>>

(* has: with any other value is dropped. *)
HasToken ==
    /\ ReadToken("has")
    /\ has_attachment' = CASE tokens[pos + 1].value = "attachment" -> <<~tokens[pos + 1].negated>>
                           [] tokens[pos + 1].value = "no-attachment" -> <<tokens[pos + 1].negated>>
                           [] OTHER -> has_attachment
    /\ join_previous' = FALSE
    /\ UNCHANGED <<groups, date_filters, size_filters, needs_fulltext>>

DateToken ==
    /\ ReadToken("date")
    /\ date_filters' = date_filters \o DateFilter(tokens[pos + 1])
    /\ join_previous' = FALSE
    /\ UNCHANGED <<groups, size_filters, has_attachment, needs_fulltext>>

SizeToken ==
    /\ ReadToken("size")
    /\ size_filters' = size_filters \o SizeFilter(tokens[pos + 1])
    /\ join_previous' = FALSE
    /\ UNCHANGED <<groups, date_filters, has_attachment, needs_fulltext>>

-----------------------------------------------------------------------------
(* The metadata pass. *)

MutAllMatchesMetadata(m, term) == \E field \in MetadataFields : term.needle \in Has[m][field]

AllMatchesMetadata(m, term) ==
    \E field \in {"Subject", "From", "To"} : term.needle \in Has[m][field]

(* term_matches_entry: body and filename terms count as a match, before    *)
(* the negation.                                                           *)
TermMatchesEntry(m, term) ==
    term.negated # CASE term.field = "All" -> AllMatchesMetadata(m, term)
                     [] term.field \in MetadataFields -> term.needle \in Has[m][term.field]
                     [] OTHER -> TRUE

NeedsBody(group) == \E i \in DOMAIN group : group[i].field \in {"Body", "Filename", "All"}

NeedsBodyScan == \E g \in DOMAIN groups : NeedsBody(groups[g])

MutGroupMatches(m, group, defer_body) == \E i \in DOMAIN group : TermMatchesEntry(m, group[i])

GroupMatches(m, group, defer_body) ==
    \/ defer_body /\ NeedsBody(group)
    \/ \E i \in DOMAIN group : TermMatchesEntry(m, group[i])

EntryMatches(m, defer_body) ==
    /\ \A i \in DOMAIN date_filters : MatchesDate(m, date_filters[i])
    /\ \A i \in DOMAIN size_filters : MatchesSize(m, size_filters[i])
    /\ has_attachment # <<>> => (m \in HasAttachments) = has_attachment[1]
    /\ \A g \in DOMAIN groups : GroupMatches(m, groups[g], defer_body)

AllMessages == [m \in Messages |-> m]

(* The messages of a set, in the order of the index. *)
InOrder(set) ==
    LET upTo[m \in 0 .. N] ==
            IF m = 0 THEN <<>>
            ELSE IF m \in set THEN Append(upTo[m - 1], m) ELSE upTo[m - 1]
    IN  upTo[N]

SearchMetadata == InOrder({m \in Messages : EntryMatches(m, FALSE)})

SearchMetadataCandidates == InOrder({m \in Messages : EntryMatches(m, TRUE)})

IsEmptyQuery == groups = <<>> /\ date_filters = <<>> /\ size_filters = <<>> /\ has_attachment = <<>>

(* execute, up to the body pass. *)
Execute ==
    /\ pc = "parse" /\ pos = Len(tokens)
    /\ \/ /\ IsEmptyQuery
          /\ results' = AllMessages /\ pc' = "done" /\ UNCHANGED candidates
       \/ /\ ~IsEmptyQuery /\ ~NeedsBodyScan
          /\ results' = SearchMetadata /\ pc' = "done" /\ UNCHANGED candidates
       \/ /\ NeedsBodyScan
          /\ candidates' = SearchMetadataCandidates /\ pc' = "scan" /\ UNCHANGED results
    /\ UNCHANGED <<tokens, pos, join_previous, queryVars, cancel, scanned>>

-----------------------------------------------------------------------------
(* The body pass. *)

(* check_term *)
TermMatchesBody(m, term) ==
    CASE term.field = "Body" -> term.negated # (term.needle \in BodyHas[m])
      [] term.field = "Filename" ->
             term.negated # \E file \in Attachments[m] :
                                term.needle \in IF term.exact THEN file.is ELSE file.has
      [] term.field = "All" ->
             term.negated # (AllMatchesMetadata(m, term) \/ term.needle \in BodyHas[m])
      [] OTHER -> TermMatchesEntry(m, term)

(* check_body_match; a message that cannot be read is skipped. *)
CheckBodyMatch(m) ==
    /\ m \in Readable
    /\ \A g \in DOMAIN groups :
           NeedsBody(groups[g]) => \E i \in DOMAIN groups[g] : TermMatchesBody(m, groups[g][i])

(* One message; the progress callback has just asked to go on. *)
ScanMessage ==
    /\ pc = "scan" /\ ~cancel /\ scanned < Len(candidates)
    /\ scanned' = scanned + 1
    /\ results' = IF CheckBodyMatch(candidates[scanned + 1])
                  THEN Append(results, candidates[scanned + 1]) ELSE results
    /\ UNCHANGED <<tokens, pos, join_previous, queryVars, pc, cancel, candidates>>

MutEndsOnlyAtTheEnd ==
    /\ pc = "scan" /\ scanned = Len(candidates)
    /\ pc' = "done"
    /\ UNCHANGED <<tokens, pos, join_previous, queryVars, cancel, candidates, scanned, results>>

(* The end of the candidates, or a cancel: what was found is returned. *)
EndScan ==
    /\ pc = "scan"
    /\ cancel \/ scanned = Len(candidates)
    /\ pc' = "done"
    /\ UNCHANGED <<tokens, pos, join_previous, queryVars, cancel, candidates, scanned, results>>

(* The user cancels: progress() returns false from now on. *)
Cancel ==
    /\ pc = "scan" /\ ~cancel
    /\ cancel' = TRUE
    /\ UNCHANGED <<tokens, pos, join_previous, queryVars, pc, candidates, scanned, results>>

Next ==
    \/ OrToken \/ TermToken \/ HasToken \/ DateToken \/ SizeToken
    \/ Execute \/ ScanMessage \/ EndScan \/ Cancel

(* A search is a loop on one thread that nothing blocks. *)
Spec == Init /\ [][Next]_vars /\ WF_vars(Next)

-----------------------------------------------------------------------------
(* What a query means, from its tokens. *)

IsTerm(i) == tokens[i].kind = "term"

(* A term that an OR precedes is an alternative to the term before it. *)
Alternatives(i, j) ==
    \A k \in (IF i < j THEN i + 1 .. j ELSE j + 1 .. i) : IsTerm(k) => tokens[k - 1].kind = "or"

Holds(m, term) ==
    LET text == CASE term.field = "All" ->
                         BodyHas[m] \cup UNION {Has[m][f] : f \in {"Subject", "From", "To"}}
                  [] term.field = "Body" -> BodyHas[m]
                  [] term.field = "Filename" ->
                         UNION {IF term.exact THEN f.is ELSE f.has : f \in Attachments[m]}
                  [] OTHER -> Has[m][term.field]
    IN  term.negated <=> term.needle \notin text

Upto(a, b) == \A i \in DOMAIN a : a[i] > b[i] => \E j \in 1 .. i - 1 : a[j] < b[j]

(* The day, cut to the precision of "when". *)
Cut(m, when) == SubSeq(DateOf[m], 1, Len(when))

DateHolds(m, token) ==
    CASE token.op = "date"   -> Cut(m, token.when) = token.when
      [] token.op = "range"  -> Upto(token.when, Cut(m, token.when)) /\ Upto(Cut(m, token.to), token.to)
      [] token.op = "before" -> ~Upto(token.when, DateOf[m])
      [] token.op = "after"  -> Upto(token.when, DateOf[m])

FilterHolds(m, token) ==
    CASE token.kind = "date" -> DateFilter(token) # <<>> => DateHolds(m, token)
      [] token.kind = "size" ->
             token.number * token.unit <= MaxBytes =>
                 IF token.greater THEN LengthOf[m] > token.number * token.unit
                                  ELSE LengthOf[m] < token.number * token.unit
      [] OTHER -> TRUE

(* Only the last has: counts. *)
AttachmentHolds(m) ==
    \A i \in DOMAIN tokens :
        /\ tokens[i].kind = "has" /\ tokens[i].value # "other"
        /\ \A j \in i + 1 .. Len(tokens) : tokens[j].kind = "has" => tokens[j].value = "other"
        => ((m \in HasAttachments) <=> ((tokens[i].value = "attachment") # tokens[i].negated))

Means(m) ==
    /\ \A i \in DOMAIN tokens :
           IF IsTerm(i)
           THEN \E j \in DOMAIN tokens : IsTerm(j) /\ Alternatives(i, j) /\ Holds(m, tokens[j])
           ELSE FilterHolds(m, tokens[i])
    /\ AttachmentHolds(m)

(* Whether the query has to read bodies, which only some messages allow. *)
ReadsBodies ==
    \E i \in DOMAIN tokens : IsTerm(i) /\ tokens[i].field \in {"All", "Body", "Filename"}

Found(m) == Means(m) /\ (ReadsBodies => m \in Readable)

-----------------------------------------------------------------------------
(* Two passes find exactly what the query means, negations, alternatives   *)
(* of different fields and partial dates included, in the order of the     *)
(* index; a message is missing only if its body was needed and could not   *)
(* be read, or the search was cancelled before it was reached              *)
(* (search/mod.rs:27-62, search/fulltext.rs:24-71).                        *)
FindsTheMeaning ==
    /\ pc = "done" /\ ~cancel => results = InOrder({m \in Messages : Found(m)})
    /\ pc = "scan" \/ cancel =>
           \A m \in Messages :
               (m \in Range(results)) <=> (Found(m) /\ m \in Range(SubSeq(candidates, 1, scanned)))

(* A pass that reads metadata only never judges a body: or filename: term, *)
(* which would count as a match and, negated, reject every message: such   *)
(* groups are deferred, and a query with such a term never reaches the     *)
(* search that runs while it is typed, which nothing defers               *)
(* (search/metadata.rs:93-121, tui/app.rs:985-1001).                       *)
BodyTermsNeedTheBody ==
    pc # "parse" /\ (~NeedsBodyScan \/ ~needs_fulltext) =>
        \A g \in DOMAIN groups : \A i \in DOMAIN groups[g] :
            groups[g][i].field \notin {"Body", "Filename"}

(* What the list shows while a query is typed is part of what confirming   *)
(* it finds, but for messages that cannot be read, unless free text is     *)
(* negated (tui/app.rs:985-1001).                                          *)
TypingShowsNoStrangers ==
    pc # "parse" /\ ~needs_fulltext
    /\ (\A i \in DOMAIN tokens : IsTerm(i) => ~(tokens[i].negated /\ tokens[i].field = "All"))
    => \A m \in Range(SearchMetadata) : Means(m)

(* Liveness: a search ends, cancelled or not (search/fulltext.rs:46-70). *)
SearchEnds == <>(pc = "done")

(* "A dangling `OR` - leading, trailing, or next to a filter rather than a *)
(* term - has nothing to join and is ignored." (search/query.rs:192-193)   *)
DanglingOrJoinsNothing ==
    \A i \in DOMAIN tokens :
        /\ pos = Len(tokens)
        /\ {j \in DOMAIN tokens : tokens[j].kind = "or"} = {i}
        /\ i > 1 /\ tokens[i - 1].kind # "term"
        => \A g \in DOMAIN groups : Len(groups[g]) = 1
=============================================================================
