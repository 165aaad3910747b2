# A TLA+ verification of mboxShell

mboxShell is a terminal program that opens very large mbox files: it scans a
mailbox once, keeps a binary index of it, lists, searches, threads and exports
the messages. This directory holds TLA+ modules of its core logic, the TLC
configurations that check them on small instances, and proofs that hold for
every instance. Paths such as `parser/mbox.rs` are relative to the crate's
source directory; `docs/`, `README.md` and `CHANGELOG.md` in a citation are the
repository's.

## 1. The system

| Component | State it keeps | Operations |
|---|---|---|
| mbox scans (`parser/mbox.rs`) | one pass: position, offset, git-patch flag, header buffer, the message being read | `parse_headers_only`, `parse`, `read_message_at`; stopped by their callback |
| persistent index (`index/`) | a file beside the mailbox and one in the cache: header (fingerprint) and entries | `build_index(_cancelable)`, `load_index`, `write_index`; cancelled through a callback |
| conversation threading (`tui/threading.rs`) | a map from message id to container (message, parent, children), local to one call | `build_threads`, `flatten_threads_to_indices` |
| terminal interface (`tui/app.rs`, `tui/event.rs`, `tui/mod.rs`) | list, selection, loaded body, sort, threads, labels, search bar, popups, in-body search, search job | one handler per key, `poll_search`, `poll_incremental_search` |
| search engine (`search/`) | groups and filters of the query being parsed; candidates and results of a search | `parse_query`, `search_metadata`, `search_metadata_candidates`, `search_fulltext`, `execute` |
| search bar and filter popup (`tui/app.rs`, `tui/event.rs`) | bar text, history, draft; the fields of the popup | one handler per key, `build_query_from_filters` |
| message store (`store/reader.rs`) | open file, LRU of 50 decoded bodies | `get_message`, `get_raw_message`, `get_attachment` |
| mailbox writers (`export/mbox.rs`) | set of seen ids, statistics, temporary file | `merge_mbox_files`, `export_mbox` |
| other exports (`export/*.rs`, popups of `tui/event.rs`) | marks; the export under way | one file per message or attachment, free name by `unique_path` |
| eml writing (`export/eml.rs`) | none | `unescape_mboxrd`, `reencode_message_as_qp` |
| naming (`mailbox_naming.rs`) | none | `unique_display_names` |
| decoding (`parser/header.rs`, `mime.rs`, `eml.rs`) | none | bytes to headers, parts and text |
| command line, widgets, configuration, languages, errors | none of interest | printing and rendering |

How they interact. The index build calls the header scan, which calls it back
once per message; the callback polls the cancel flag. Every later access to a
message seeks to the offset and length the scan reported, so the scan, the
index and the mailbox must agree. `App` loads the index once and then works on
positions in it. It starts a thread for every search that must read bodies; the
thread and the App share a cancel flag, progress counters and a channel that
carries one answer. The event loop handles at most one key, polls the channel,
polls the debounce timer, and repeats, at least every 100 ms. The popup writes
its fields as a query string, which the engine takes apart again. Exports read
messages through the store, which caches decoded bodies but not raw messages,
and name their files after what is in the directory at that moment. A merge
builds or loads the index of every input. Two processes share nothing but the
files: the mailbox, its index, and what they write.

What is hard here, and hard to test:

- a message is reported only when the *next* one begins, and its header block
  is by then in one of two places, with limits on both lines and blocks; a line
  above its limit is cut before one of the scans asks what it is;
- the index is written in place, in two calls, by any number of processes,
  beside a mailbox that other programs rewrite, and it is trusted afterwards on
  the strength of a fingerprint that is taken at another moment;
- a search thread answers late: after a label was chosen, the search bar left,
  another search confirmed, or not at all;
- a dozen places replace the list, and each must keep selection, loaded body,
  in-body matches, depths and result index in step with it;
- messages claim anything about each other: loops, repeated ids, contradicting
  parents, ancestors that are missing from the mailbox;
- one query is judged by two passes, each of which skips what the other does,
  and a third time, differently, while it is being typed;
- a merge glues files together whose ends and beginnings may be anything, and
  may die in the middle of it; the next run finds what it left;
- names clash: mailboxes in a merge, messages of one second, parts of one name,
  files that other programs wrote;
- the re-encoder rewrites a tree of parts without parsing it.

`PROJECT.json` lists these hazards one by one, at their lines, with the
properties that cover them.

What makes each component correct:

- scans: reports tile the file, each with its own headers; both scans cut the
  file alike; a scan ends;
- index: a call returns the mailbox as it was during the call, whole; an index
  that a load would accept is right; a cancelled build leaves nothing;
- threading: links form a forest whatever the messages say; every message is
  listed once, at a depth equal to the number of messages above it;
- interface: the selection is a row, the body and the matches are of the
  selection, the list stays in its label, keys always reach something, every
  search and every typed query is settled;
- search: both passes together find exactly what the query means; the fast one
  alone shows nothing that Enter would not find; a cancelled one, a part of it;
- bar and popup: Enter searches for what the fields say; browsing the history
  shows the entry its index names;
- writers: a reader finds in what was written the wanted messages, once each,
  under their labels; whatever fails, a file is the old one or the whole of what
  the process that replaced it was asked for;
- naming: names lead back to their mailbox;
- exports: each chosen message or part gets a file of its own with its content,
  and no file is replaced;
- eml: the file is the message that was archived; re-encoding changes the
  encoding and nothing else.

## 2. Modules

| Module | Models | Kind |
|---|---|---|
| `MboxLines` | line classes and what a mailbox means (`Starts`) | constant module |
| `MessageStream` | what any scan promises | abstract specification |
| `HeaderScan` | `parse_headers_only`, refining `MessageStream` | component |
| `FullScan` | `parse` | component |
| `BothScans` | both scans of one file, one after the other | composition |
| `ScanProofs` | theorems about `HeaderScan`, `FullScan` and both | proofs |
| `IndexBuild` | `index/builder.rs` with processes, crashes and a changing mailbox | component |
| `MCIndexBuild` | its instances | for TLC |
| `IndexBuildProofs` | theorems about `IndexBuild` | proofs |
| `Ordering` | the orders of lists: numbers ascending, the stable sort of Rust's `sort_by` | constant module |
| `Threading` | `build_threads`, `flatten_threads_to_indices` | component |
| `MCThreading` | its instances | for TLC |
| `ThreadingProofs` | theorems about `Threading` | proofs |
| `App` | interface, event loop and search threads | component |
| `MCApp` | its instances | for TLC |
| `AppProofs` | theorems about `App` | proofs |
| `Search` | `parse_query`, the metadata and body passes, `execute` | component |
| `MCSearch` | its instance | for TLC |
| `SearchProofs` | theorems about `Search` and the history of `SearchForm` | proofs |
| `SearchHistory` | the history of the search bar, its limit and what is kept of it | operators and variables |
| `SearchForm` | search bar over `SearchHistory`, filter popup, the query it builds, the tokenizer | component |
| `MCSearchForm` | its instance | for TLC |
| `MailboxNaming` | `mailbox_naming.rs` | constant module |
| `Delivery` | what the mailbox writers promise about their outputs | abstract specification |
| `MailboxWriter` | `export/mbox.rs` over `MboxLines` and `MailboxNaming`, refining `Delivery` | component |
| `MCMailboxWriter` | its instances | for TLC |
| `MailboxWriterProofs` | theorems about `MailboxWriter`: labels, numbers, and that it implements `Delivery` | proofs |
| `Exports` | marks, popups, the message store and the writers of single files | component |
| `MCExports` | its instance | for TLC |
| `ExportsProofs` | theorems about `Exports` | proofs |
| `EmlExport` | what `export_eml_opts` does to the lines of a message | component |
| `MCEmlExport` | its instance | for TLC |
| `CountingProofs` | lemmas about numbers and sequences that several proofs need: induction and recursion up to a number, the least number of a set, sums in any order, places in an order, lists that are joined | proofs |

Names of variables and operators are the code's where TLA+ allows it. Operators
that begin with `Mut` are not part of any specification: each is a plausible
bug in the definition it stands next to, and a property listed in
`PROJECT.json` is violated when it takes that definition's place. An optional
value is `<<>>` or `<<x>>`.

### MboxLines, HeaderScan, FullScan, MessageStream, BothScans

A line is its class (separator, git-patch marker, malformed `From ` line,
blank, text) and its size in bytes; the scans look at nothing else. It has a
class for each scan: `parse` classifies the line as it is (`whole`), the header
scan what is left of it when it is cut at `MAX_LINE_RETAIN` (`kind`).
`CutAssumption` says in which cases the two may differ (`HidesItsEnd`): the line is
longer than the limit, and only the shape behind the "From " or the end of a
blank beginning can hide behind the cut. One loop
iteration is one action; which action is decided by what the line is and where
the scan stands:

| Action (`HeaderScan`) | Code |
|---|---|
| `StartMessage` | a From line: report the message before it, start a new one |
| `RefuseMessage` | the callback returned `false` there: return at once |
| `EndHeaders` | the blank line that hands `header_buf` over to `prev_headers` |
| `HeaderLine` | a header line, kept while the block is below `MAX_HEADER_RETAIN` |
| `SkipLine` | a body line, or one before the first From line |
| `Finish` | end of file: the last report, accepted or not |

`FullScan` has `StartMessage`, `RefuseMessage`, `ContentLine` and `Finish`, with
the size cap of `parse` in `ContentLine`. Header blocks and raw messages are
sequences of line indices, so that a property can say *which* lines a report
carries. `prev_line_was_empty` feeds only a warning in both scans (a From line
starts a message either way) and is left out.

`MessageStream` knows no buffers: it delivers the byte ranges of the messages,
one after the other, and may stop anywhere. `HeaderScan` maps its reports to
those ranges (`SpansOf`); `DeliversTheMessages` says that the header scan
implements it.

`BothScans` runs the full scan after the header scan, over the same file, which it
reads whole (`Whole(mbox)`).
`ScansAgree` compares what the full scan delivers with two things: with the
messages that the file has when its lines are taken whole (`IsNthMessage`), and
message by message with the reports of the header scan (`IsAsReported`). The
second comparison is made where no cut changes which lines start a message
(`SameStarts`); where one does, the code is wrong (`OffsetsStayExact`, section 3).
The other properties of the header scan are about the file as it classifies it. Lines before the first From line are one more message of the
full scan, unless each of them exceeds the size cap: then none is kept and the
buffer is still empty when the first From line comes (`HasPreamble`). Which lines
of a message are dropped depends on the lengths of those before; where the
messages begin does not.

### IndexBuild

Every call of `build_index_cancelable` is a process that goes through the steps
of the code, one file-system access per action: `Locate`, `LocateInCache`, `ReadIndex`,
`StatMailbox`, `HashMailbox` (load), `Parse`, `CheckCancel`, `StatForHeader`,
`HashForHeader`, `Create`, `WriteHeader`, `WriteEntries` (build). Between any
two of them another process may step, `MailboxChanges` may replace the
mailbox's content, `RequestCancel` may raise the flag, a write may fail (the
code then tries the cache), and `Crash` may kill the process and leave what it
wrote. A content is an atom with a size, a first-4-KB value and a message
count, so contents that the fingerprint cannot tell apart except by time are
part of every instance. The modification time is the number of versions so far:
every change gets a time of its own, which is what the nanosecond stamps of the
code are for. `Stamp` keeps the code's fallback to 0. `QuietBuild` says whether
the mailbox may change between the parse and the last write of a build; with
`FALSE` the code is wrong (see the findings), so the passing run uses `TRUE`,
which still lets the mailbox change during loads and between calls.

### Threading

`Claim` is the head of the loop over the messages (container, synthetic or
duplicate id, the chain of references), `Link` one window of the chain,
`Gather` one root joining its group in any order (the code iterates a
`HashMap`), `Finish` the sort inside and of the groups. `WouldCreateCycle` is
stated as "no set of at most `MaxChain` ids that contains the parent, is closed
under parents and lacks the child": the walk of the code, without recursion,
which also makes it usable in proofs. `Rows` is `flatten`. Ids are what
`normalize_id` leaves; a message's topic is its conversation id, else its
normalized subject. The ids that the code makes up, for a message without id and
for the second message of one id, are numbers, which no message names
(`ThreadingAssumption`). In the code they are strings such as `__dup_2__`, which a
message could have as its own; what happens then is a finding.

### App

State is the fields of `App` that the properties tell apart. One action per key
and panel, guarded as `handle_key_event` dispatches: search bar first, then the
in-body prompt, then popups, then `Esc` for a running search, then the panels
(`InSearchBar`, `InBodyPrompt`, `InPopup`, `InPanels`, `InPanel`). Handlers are
whole: `LeaveSearch` includes the label filter it re-applies, `ConfirmSearch`
the `execute_search` with its cancel, restriction, spawn or immediate result.
`Show` and `ShowUnthreaded` are the two ways the code ends a replacement of the
list. A search thread is a row of `jobs`: it runs, ends with a whole answer or,
if cancelled, with a prefix, or fails without a word; a dropped job keeps
running until it notices. Its field `startedIn` is history, read by no guard: the
label within which the thread was started. The loop's three parts (key, `poll_search`,
`poll_incremental_search`) are separate actions in any order, since a thread
may end and the debounce window elapse at any moment.

Searches enter as the constants `Hits` and `QuickHits`, threads as the constant
`Conversations`, in whose order the code's `HashMap` may vary between calls
only for conversations with the same newest date. `AppAssumption` says of them
what the rest of the code provides: a sort key is a rank, a label that is shown
is on some message, a thread list has every message once (which is what
`ThreadsShowEveryMessage` proves of `Threading`).

The abstract relation between the modules: `IndexBuild.Parse` stands for a run
of `HeaderScan`; `App.Conversations` for a run of `Threading`; `App.Hits` and
`App.QuickHits` for `Search` with and without its body pass; a query of `App`
for a string that `SearchForm` built. `MailboxWriter` reads mailboxes by the
`Starts` of `MboxLines`, which is what `HeaderScan` is shown to deliver.
`Exports.EmlBytes` stands for a run of `EmlExport`.

### Search

A token is what its prefix makes of it: an OR, a term (field, needle, exact,
negated), or a has:, date or size filter. One action per kind of token does
what that arm of `parse_query` does (`OrToken`, `TermToken`, `HasToken`,
`DateToken`, `SizeToken`); `PushTerm` is the macro that joins a term to the group
before it. Dates are tuples of one to three numbers, with the calendar the code
relies on (`FirstDay`, `LastDay`, `DateFilter`); a size that a u64 cannot hold is
no filter. `Execute` is `execute` up to the body pass: empty query, metadata
alone, or the candidates that `SearchMetadataCandidates` leaves by deferring the
groups that need a body. `ScanMessage` judges one candidate, `Cancel` may raise
the flag before any of them, `EndScan` returns. Both passes list what they find in
the order of the index (`InOrder`, a recursive function over the positions).
`Token` is every token there is; `SearchAssumption` asks that queries are
sequences of them and that the date of a message is a day of the calendar, which
the code's `DateTime` guarantees. Text is an atom: the constants
`Has`, `BodyHas` and `Attachments` say which needles occur where; case folding
and word boundaries are data.

`Means` is written from the tokens, not from groups and passes: every term has
an alternative that holds, every filter holds, the last has: holds.
`FindsTheMeaning` compares the two.

### SearchForm

Text is a sequence of symbols (words, space, quotation mark, the prefixes the
popup writes). The bar has `OpenSearch`, `Type`, `Erase`, `Older`, `Newer`,
`ConfirmSearch`, `LeaveSearch`; the popup `OpenFilter`, `MoveFocus`,
`TypeInField`, `EraseInField`, `Toggle`, `TurnSelector`, `SubmitFilter`,
`CloseFilter`. Both write the same history. `BuildQuery` is
`build_query_from_filters`, `Tokenize` the tokenizer, `Read` what `parse_query`
makes of a token.

### MailboxNaming, Delivery, MailboxWriter

A line is what `MboxLines` says of it with its byte order mark, final newline,
Message-ID and label; a file is a sequence of such pieces, and whoever reads it
sees pieces without newline joined to the next (`Joined`, `WithPiece`, `Glued`). Files are
inodes and names inodes, so that a rename can take a file away from a process
that still writes to it. A process is given a task (`Start`, which creates or
empties the temporary file), opens an input (`OpenInput`), writes its messages
one by one (`MergeMessage`, with dedup, label and final newline; `ExportMessage`,
with synthesized envelope and From-quoting) or copies it whole (`CopyInput`),
and renames (`Commit`). `Fail` stands for an unreadable input, a full disk and a
kill, at any moment; the temporary file stays for the next run to empty.

A label is the name of its mailbox after `sanitize_header_value`
(`SanitizeHeaderValue`): what that removes from a component of a name, control
characters and outer white space, is given by the constants `Printable`,
`TrimStart` and `TrimEnd`, and different components may become one.

In `Delivery` each writer is given a task (`Ask`) and then delivers this task, by
replacing the file it names, in one step, with all that it asks for, or abandons
it, which changes no file. `DeliversWhole` is that refinement: `task` is mapped to
the task of the process itself, and its progress to asked, done or failed
(`Stage`), so that what one process delivers cannot be excused by what another was
asked for. What a task asks for (`Wanted`, `Fulfils`) is stated by reading the
output again with `MessagesIn`. The promise is made for inputs that can stand in one file
(`CanBeAnswered`, here `IsSound` of the task at hand), and
these preconditions are named after what they exclude, each of which is a
finding:

- `Alike`: no git patch series next to ordinary mailboxes (its magic date
  changes which lines are separators);
- `CanBeConcatenated`, for a plain merge: a final newline before the next
  mailbox, no lines before a first From line;
- `HasEnvelopes`: for labels, envelope lines that end; for exports, no byte
  order mark before the envelope.

`Levels` is the loop of `unique_display_names`, one value for each round: how
many components of each path are shown. `PathsAssumption` says that a path has
at least a file name.

`DisksAssumption` says that only the last line of a file may lack its newline,
and that no file has a label to begin with: in the model a label is a line that is
written here, and one from an earlier merge is a line like any other.
`InputsAssumption` keeps inputs, outputs and temporary files apart. The instance
contains mailboxes on both sides of every one of these conditions.

### Exports

The list, the loaded body and the marks are those of `App`, reduced to what
exports read; `Show` is any change of the list. An export is a job that walks its
messages: `NextEml`, `NextPage`, `NextCsv`, `NextMessage` and `NextPart` read
what they need from the store (`GetMessage` with its LRU, `CanGet`) or fail,
`ChoosePath` is `unique_path`, `Store` the write, which may leave an incomplete
file. Only a bulk extraction skips what fails. Between any two steps the mailbox
may be cut short (`Truncate`) and another program may save a file
(`OtherSaves`), except between the `exists()` of `unique_path` and the write,
where the code has no protection.

### EmlExport

A message is a sequence of lines (blank, Content-Type, transfer encoding, text,
From lines with their ">", delimiters), each with its line end. The stages are
those of `export_eml_opts`: raw, stripped, unescaped, written. `Reencode` is the
recursive walk; `HeadersEnd`, `Delimits`, `Closes` and `TooDeep` keep the code's
ways of finding things, which differ from how a mail program finds them (`Parse`).
`QpKeepsTheContent` compares the two trees. It assumes `UniformLineEnds` and
`PartsHaveHeaders`, and `QpIsSevenBit` also `EveryMultipartCloses`; the code is
wrong without them (findings), and the instance has messages of both sorts.

## 3. Runs

| Run | Question | Bounds |
|---|---|---|
| `scans` | Do both scans deliver exactly the messages, with their own headers, and end? | every file of at most 5 lines over 6 kinds of line, and of at most 4 over these and 2 that are From lines only when cut, or only when whole; limits 4, 6 and 5 bytes, lines of up to 7; 315,776 states |
| `index` | Does a call ever return, or leave, an index that is not the mailbox? | 2 processes, 3 contents, 2 versions, 1 fault; 2.6 million states |
| `threads` | Do links stay a forest, and is every message listed once at its depth? | every mailbox of 3 messages over 2 ids, of 2 over 3 ids with chains of 4, and of 3 with all topics and 2 dates |
| `app_scope` | Do list, selection, body, results and label stay in step under searches and labels? | 3 messages, 1 label, 4 queries, 1 job; 229,356 states |
| `app_views` | The same under in-body search, popups, focus, threads and sorting; can the keyboard die? | 3 messages, 2 matches, 1 job; 1.5 million states |
| `app_jobs` | Is every job and every typed query settled? | 3 messages, 2 jobs; 8,450 states |
| `search` | Do two passes, cancelled anywhere, find exactly what the query means? | every query of at most 3 of 12 tokens; every pair of 88 filters, and of a filter and a term; 4 messages; 72,599 states |
| `form` | Does the popup search for what its fields say, and does the history index name what is shown? | 3 changes, a history of 2; 6.2 million states |
| `writers` | Is an output ever anything but the old file or the whole new one? Are numbers and labels right? | every pair of 10 mailboxes, 4 merges and 2 exports, 7 merges of up to 13 names, 2 runs; 48,727 states |
| `exports` | Does each chosen message get its own file, and is any file replaced? | 3 messages whose names all clash, 3 views, cache of 1, 2 numbers, 2 exports; 2.9 million states |
| `eml` | Is the file the message, and does re-encoding only re-encode? | leaves, multiparts of 2 parts, nesting to 3 with a cap of 3, LF, CRLF and mixed; 6,110 states |

Why the bounds are enough:

- scans: a header block interacts with its neighbours only through the
  hand-over of two buffers. Five lines hold a message with headers and blank
  line, a second without a blank line and a third; they also hold a preamble, a
  git-patch file, and both retention limits inside one block. Lines whose class
  changes with the cut matter by the messages they start or do not start: four
  lines hold two of them between two others. The proofs remove the bounds for
  both scans.
- index: a fault needs one writer and one reader; the third content shows an
  append, the first two a rewrite that keeps size and first 4 KB. Two versions
  give one change, at any point of two overlapping calls. Calls repeat without
  bound, so what a crash left is found by later calls.
- threads: cycles, moves to another parent, repeated ids and missing ancestors
  all happen with three ids. Chains do not reach `MaxChain = 100`; the forest
  theorem covers every value.
- app: the constants contain a query of each kind (empty, metadata only, free
  text with differing quick and full results, body), a label that leaves out a
  message, a message whose body cannot be read, equal sort keys, and a
  conversation of two. The keys are split over the runs by the state they
  touch, which keeps each run short; together they press every key.
  `MaxJobs` bounds the threads that exist at one time, dropped ones included.
- search: an OR needs two terms, a dangling one a third token; a negation, each
  kind of field and each place a needle may be found are in the twelve tokens.
  Filters do not look at terms, so pairs suffice; the dates of the messages lie
  on both sides of the ends of months, of a leap February and of a year. One
  message cannot be read.
- form: two words in a field are what quoting is for; a third change reaches a
  second field or an eraser. A history of two is full after two searches, and
  the third drops the oldest.
- writers: what goes wrong at the join of two mailboxes does not depend on a
  third. Between them the ten have every first and last line that matters,
  repeated and missing ids, preambles, malformed separators and patches. The
  second run finds whatever the first left. The named mailboxes have paths that
  differ in their last, second, third and no shown component, or only in what
  `sanitize_header_value` removes.
- exports: two exports of clashing names, of which one may be the user's own
  numbered name, another program's, or an incomplete file; a cache of one
  evicts at every step; two numbers are soon used up, which shows the fallback.
- eml: a cap of 3 has levels above, at and below it; boundaries of which one
  begins the other; a part whose text looks like headers.

`TypeOK` of `Search`, `SearchForm`, `Exports` and `MailboxWriter` holds on these
same instances; the runs leave it out, since the properties that are listed read
the same variables. That of `Search` is proved (section 4).

Deadlock is checked in the `index`, `form` and `exports` runs. A scan, a
threading call, a search, a merge and an eml export end, and the App ends with
`q` or may wait for a key that is not among a run's `Keys`, so those runs do not
check it.

Properties worth a second look: `DeliversTheMessages` (refinement),
`HeadersAreOwn`, `ScansAgree`; `ServesCurrent` and `IndexSound`, which relate
what a call returns or leaves to the history of the mailbox;
`EveryMessageOnce`, `DepthCountsMessagesAbove`, `ChainIsOneTree`;
`BodyFollowsSelection` and `LabelScopeHolds` (action properties over all
handlers at once; the second one excepts only the answer of a search thread that
was started before the label was chosen, or among rows outside it), `MatchesAreOfTheBody`, `AppliedAnswersAreWhole`,
`JobsEnd`, `InputIsSearched`; `FindsTheMeaning` and `FormMeansItsFields`, which
compare a computation with a meaning stated apart from it; `DeliversWhole`
(refinement); `EachChosenItsFile` and `NothingOverwritten`; `QpKeepsTheContent`.

### Fairness

- `BothScans`: weak fairness of either scan's step. A scan is a loop on one
  thread that nothing blocks.
- `App`: strong fairness of the two polls, because the loop reaches them after
  every key and at least every 100 ms, so a poll that is ready again and again
  is taken even if keys keep undoing its condition; weak fairness of the worker
  threads, which scan a finite list, end or fail; weak fairness of
  `InputSettles`: the user at some point pauses for longer than the debounce
  window. No fairness of keys: the user need not press any.
- `Search`: weak fairness of its next step. A search is a loop on one thread
  that nothing blocks; the user's cancel is one of its steps and ends it too.
- All other modules are checked for safety only: a call of theirs is a loop over
  a finite list, or waits for the user.

### What the code does otherwise than it says

`PROJECT.json` lists every disagreement under `findings`, with the lines. One has
a run that is expected to fail, `index_torn`: load_index "Returns `None` if the
index is missing or invalid", but after a crash between the two writes of the
index every later call returns an error.

The others are formulas or conditions of the modules that no run lists. Four
have a configuration of their own, with one property, which TLC finds violated:

| Sentence | What happens | Configuration |
|---|---|---|
| the within-results option is "honoured by every search entry point" (`CHANGELOG.md`) | typing in the search bar looks at the whole label, and the list gets wider | `MCApp_within.cfg`, `SearchesStayWithinResults` |
| "never leaves a half-written or corrupt output in place" | a merge and an export with one temporary name: one reports success over what the other wrote | `MCMailboxWriter_race.cfg`, `DoneIsWhole` |
| "stays traceable back to which mailbox each email came from" | names that differ in a control character become one label | `MCMailboxWriter_labels.cfg`, `LabelsAreTraceable` |
| "message offsets stay exact" (`CHANGELOG.md`) | a line that is a From line only when it is cut starts a message in the index | `MCScans_cut.cfg`, `OffsetsStayExact` |

The following show themselves when a configuration is changed as the last column
says and the named property checked alone:

| Sentence | What happens | How to see it |
|---|---|---|
| "If the MBOX changes, the index is rebuilt automatically" | a change between parse and stat gets an index of the old content under the new fingerprint | `MCIndexBuild.cfg`, `ServesCurrent`: `Procs = {p1}`, no symmetry, `MaxFaults = 0`, `QuietBuild = FALSE` |
| "fall back to `0` - the index is then simply rebuilt" | 0 equals 0 | the same with `QuietBuild = TRUE`, `MaxStamp = 0` |
| "Decoded body of the currently selected message" | sorting changes the selected message and keeps the body | `MCApp.cfg`, `BodyIsOfSelected`: `Keys = {"reverse"}`, `MaxMatches = 0` |
| thread_depths "Index corresponds to `visible_indices`" | leaving the search bar in the threaded view keeps the depths of other rows | `DepthsAreOfRows`: `Keys = {"slash", "leave", "threads"}` |
| "subsequent searches stay within it" | a thread started before the label was chosen answers after it | `ListStaysInLabel`: `Keys = {"filter", "focus", "label"}` |
| messages are grouped by "the mailbox's own conversation id when it has one" | a message below two missing ancestors is grouped by the empty subject | `MCThreading.cfg`, `ConversationIsOneThread`: `Mailboxes <- ConversationCases` |
| "A dangling `OR` [...] has nothing to join and is ignored" | behind a filter it joins the next term to the group before the filter | `MCSearch.cfg`, `DanglingOrJoinsNothing`: `MaxTerms = 4` |
| "re-encoded [...] in place" (`export/eml.rs`) | text of a part without headers, or of a message with mixed line ends, is taken for headers | `MCEmlExport.cfg`, `QpKeepsTheContent` without `PartsHaveHeaders`, or without `UniformLineEnds` |

## 4. Proofs

`tlapm M.tla` checks each of `ScanProofs`, `IndexBuildProofs`,
`ThreadingProofs`, `AppProofs`, `SearchProofs`, `MailboxWriterProofs`,
`ExportsProofs` and `CountingProofs`. No theorem bounds a constant: mailboxes,
queries, sessions and limits are any that the assumptions named in the
component's module allow. Two theorems, `ReportedCountsAddUp` and
`OneWriterDeliversWhole`, are about a single process, and say so.

`ScanProofs`, assuming that mailboxes are sequences of lines of positive size,
that the limits are positive and that a line is classified differently when it is
cut only as `CutAssumption` says:

- `TypeCorrect`: `Spec => []TypeOK`. Not inductive alone: a report's length is
  a difference, and that it is a natural number needs `OffsetInv` (the message
  being read started at or before the current byte). `FlagInv` ties the flag
  of the scan to the first line of the file.
- `ReportsTile`: `Spec => []Tiling`. The strengthening adds that once anything
  was reported a message is being read, so that the next report can be joined
  to the last.
- `ReportsCarryTheirHeaders`: `Spec => []HeadersAreOwn`. `OwnInv` describes
  where the header block of the message being read is, in `header_buf` or in
  `prev_headers`, that it is a block of that message as far as the scan has
  read, and that it follows the last report without a message in between. There
  is one lemma per action; `ReportIsOwn` is the step that reports.
- `ImplementsTheStream`: `Spec => DeliversTheMessages`, the refinement of
  `MessageStream`. `StreamInv` adds to `OwnInv` that the scan's running offset is
  the sum of the lengths of the lines read, that the message being read began at
  the sum of those before it, and that as many messages start before it as have
  been reported. A report is then exactly the next delivery (`ReportDelivers`),
  and every other step stutters. `BytesAreASum` shows that the fold in
  `MessageStream`, which takes the lines in an order it leaves open, is a sum that
  a line can be added to at the end (`SumExists` of `CountingProofs`).
- `ScansHaveTheirTypes` and `ScansCutAlike`: `BothSpec => []ScanTypes` and
  `BothSpec => []ScansAgree`. `FullInv` says which message is in the buffer of the
  full scan: the lines before the first From line (`BeforeMessages`), or the
  message that starts at a line already read (`ReadsMessage`), with as many
  delivered as start before it, one more if the file `HasPreamble`. The buffer has
  lines of that message only, in their order, and all its bytes as long as they
  are within the cap; a line is dropped only when the message with it exceeds the
  cap (`CopyIfFitsFacts`). `BufferIsNext` is the delivery. All this is about the
  file whose lines are whole (`WholeIsAFile`); the reports of the header scan are
  the messages of the file as that scan sees it (`ReportsStaySpans`). Where the cuts
  change no start, a message begins at the same byte in both files and has the same
  length (`SpanOfWhole`), since a cut shortens what is kept of a line and not what
  is counted; so the two can be compared message by message (`AgreementFollows`).
  The cap may be any positive number. That a file whose first lines all exceed
  it has no message before the first From line was found by this proof: the
  property once said otherwise, and held in a run whose longest line was shorter
  than its cap. The run's cap is smaller now.

`IndexBuildProofs`, assuming that contents have a size, a hash of their
beginning and a number of messages (`IndexAssumption`):

- `TypeCorrect`: `Spec => []TypeOK`, and `HalfIndexIsBeingWritten`:
  `Spec => []HalfIndexHasAWriter`. Both come from `TypeInv`, which adds
  `Progress`: what a process has in hand by the time it is at a step (a process
  that writes has entries, whole ones unless it has been cancelled). The half
  index is the reason for it: a file with a header and no entries has been
  written by a process that now stands before `WriteEntries` to the same file.
- `ServedEntriesAreCurrent` and `AcceptedIndexIsSound`: `Spec => []ServesCurrent`
  and `Spec => []IndexSound` under the hypotheses `QuietBuild` (the mailbox does
  not change between the parse and the last write of a build) and
  `MaxVersions <= MaxStamp` (no change falls back to the time 0). Without either
  of them the code is wrong (section 3), so these are the hypotheses, and states
  that meet them are what the `index` run checks. `QuietInv` follows
  a fingerprint through the processes. `FilesAgree`: each index file, half
  or whole, is of *one* version of the mailbox, although two processes may have
  written its two parts, and of the current one while someone writes to it.
  `BuildsAgree`: what a build holds is of the current version. `LoadsAgree`: what a
  load has read is of one version, and after the `stat` of the version that the
  `stat` saw. Two versions never share a time, so a load that accepts has read
  the current version.

`ThreadingProofs`, assuming that message ids and indices are different things,
that a mailbox names finitely many ids and is a sequence of messages:

- `LinkingStaysAForest`: `Spec => []Forest`, for every depth limit;
- `LinksAlwaysAgree`: `Spec => []LinksAgree`;
- `ChainsStayTogether`: `Spec => []ChainIsOneTree`;
- `ThreadingTypes`: `Spec => []TypeOK`;
- `ThreadsShowEveryMessage`: `Spec => []EveryMessageOnce`;
- `ThreadsIndentByMessages`: `Spec => []DepthCountsMessagesAbove`.

The first two rest on `LinkInv == LinkTypes /\ LinksAgree /\ Forest`. `LinksAgree` needs
the types to know that a moved child was in its old parent's list exactly once,
so that `retain` removes it (`RemoveFirstFacts`, `AdoptedFacts`). `Forest` says
that no non-empty set of containers has all its parents inside. For a new link
the argument (`LinkKeepsForest`) is: the refusal test leaves a set of ids, the
walk, that is closed under parents and lacks the child. A set without a root
after the link must contain the child, or it had no root before, and hence the
child's new parent. Its part on the walk is then not empty and had, before the
link, a member without a parent in that part; that member keeps its parent, and
the walk is closed, so the set had a root after all.

`Above(id)` is the least set with `id` that is closed under parents. In a forest
it is what the recursion of `Ancestors` gives (`AncestorsAreAbove`), it is a line
(`AboveIsALine`), and every container is in the `Tree` of exactly one root
(`RootFacts`). `ChainInv` adds to `LinkInv` that what a message has joined so far
has one root: a link keeps the root of its parent (`LinkKeepsRoot`), and a link is
refused only below the child itself (`RefusedIsAbove`), unless the walk was too
long.

The other three follow from `RowsInv == LinkInv /\ ClaimInv /\ ResultInv`.
`ClaimInv`: every message that was taken is in exactly one container. `ResultInv`:
the groups list the rows of the roots gathered so far, each in one group, and the
result those of all roots. What rows these are is said without recursion:
`RowsBelow(id)` has a row for each message at or below `id`, indented by the
messages between (`RowOf`). That `flatten` lists exactly these, each once, is
`RowsListTheTree`; it needs that the recursion of `Rows` has a solution
(`RowsAreRecursive`, which builds it level by level with `RecursionUpTo`), that one
level down adds one message or none to every row (`RowsOneLevelDown`), and what
`FlattenSeq` and the stable sort do to lists (`FlattenLists`, `SortByPlace`). The
step to the result (`FinishResultInv`) must see that sorted groups that are not
empty are all different, since the set of them is what is put in order.

`AppProofs`, assuming what section 2 says of the constants:

- `TypeCorrect`: `Spec => []TypeOK`, and `KeyboardStaysAlive`:
  `Spec => []KeyboardAlive`. `Types` adds to `TypeOK` that the list repeats no
  message; otherwise sorting it and threading it would not show the same
  messages. `Alive` says which parts of the interface may be open together.
- `SelectionStaysARow`, `BodyStaysListed`, `MatchesStayOfTheBody`: the invariants
  `SelectionIsARow`, `BodyIsListed` and `MatchesAreOfTheBody`. Thirty actions could
  disturb them in a dozen ways; the proof first shows that every step is one of
  four changes of the list (`ListStep`): it moves the selection, searches the
  body, reorders the rows, or replaces the list as a whole. The inductive
  invariant `ViewInv` is then preserved by four cases.
- `SelectionLoadsItsBody`: `Spec => BodyFollowsSelection`, and
  `ListsKeepTheirLabel`: `Spec => LabelScopeHolds`, the action properties, from the
  same four cases; for the second one a replacement also knows where its
  messages come from (`WithinScope`): from the rows, from the label, or from the
  answer of a search thread. What such an answer may contain was settled when the
  thread was started, so it needs an invariant of the threads, `JobsInLabelHolds`:
  `Spec => []JobsInLabel`, a thread that was started within a label is restricted to
  the messages of that label for as long as it runs, whatever happens to the list
  and the label in the meantime.
- `AnswersAreWhole`: `Spec => []AppliedAnswersAreWhole`, for any number of search
  threads, by the five changes of the threads that there are (`JobStep`).

That sorting keeps every message (`SortingMovesRows`, `SortedIsAList`) and that
flattening threads keeps those of the list (`ThreadedIsAList`) are lemmas about
the operators of `App` and `Ordering`.

`SearchProofs`, assuming what section 2 says of the constants:

- `TypeCorrect`: `Spec => []TypeOK`;
- `TheMeaningIsFound`: `Spec => []FindsTheMeaning`. For every mailbox and every
  query of any length the two passes together find, in the order of the index,
  the messages the query means, and a cancelled search those among the
  messages it has reached.
- `BodyTermsReadTheBody`: `Spec => []BodyTermsNeedTheBody`, and
  `TypingIsPartOfTheMeaning`: `Spec => []TypingShowsNoStrangers`.

They rest on `SearchInv == ParseInv /\ ScanInv`. `ParseInv` is the invariant of the
token loop. Its core is `Grouped`: there is a map from the terms read so far to
the groups (`IsGrouping`) such that two terms share a group exactly when the
meaning calls them alternatives, and the last group is the one that an OR would
reopen. `FiltersKept` and `AttachmentKept` say which tokens the filters come from.
`ScanInv` gives the results of each pass: `InOrder` of the messages that were
reached and matched, the candidates of the body pass being those that the
metadata pass leaves. What joins the two is a chain of lemmas about the
operators: groups mean what the terms mean (`GroupsMean`, `MeansInGroups`), date
filters compare days (`DayOrder`, `LastDayMeans`, with the lengths of months and
leap years, `DateFilterMeans`), sizes that overflow are no filter
(`SizeFilterMeans`), the deferred groups are those with a body term
(`MetadataFinds`, `BodyPassFinds`). `InOrder` is a recursive function; that it
exists, and that it lists a set in ascending order without repetition, is shown
with `RecursionUpTo` and `InductionUpTo` of `CountingProofs`.

The same module proves of `SearchForm`, as the instance `Form` over the variables of
`SearchHistory`, assuming only that the limit of the history is positive
(`HistoryAssumption`):

- `HistoryStaysBrowsable`: `Form!Spec => []HistoryIsBrowsable`, whatever is
  typed. `BarInv` adds that the bar and the popup are never open together:
  otherwise submitting the popup would change the history under the index. That
  moving a query to the front leaves a list without repetitions is `PushedFacts`.

`MailboxWriterProofs`, assuming that tasks are tasks, paths are not empty,
`MAX_LEVELS` is positive, that a label keeps at least one component (`LabelsAssumption`), and, for
the second and third theorem, that files are
sequences of lines of which only the last may lack its newline (`DisksAssumption`)
and that no input is an output or a temporary file, and no output a temporary file
(`InputsAssumption`):

- `NamesLeadBack`: `Spec => []NamesTellApart`, for any number of mailboxes at any
  depth and every `MAX_LEVELS`. Three facts hold after every round of the loop of
  levels: no name is longer than its path (`Bounded`), a directory is shown only
  because of another mailbox that looked the same without it (`Needed`), and two
  names that are still the same have grown in every round, or are whole paths
  (`TwinsGrew`). After the last round the third one says that mailboxes whose
  names are the same have paths that are the same as far as they are
  shown. `TaskInv` says that a running task is one of `Tasks`.
- `ReportedCountsAddUp`: `Spec => []CountsAddUp` where one process writes at a
  time (`Writers = {w}`), for any mailboxes, inputs, tasks and failures. Two
  processes with one temporary file do miscount (section 3), and the numbers of
  a process say nothing of an output that another has replaced since. The property
  reads the finished file again as a reader would; what holds on the way is
  `CountInv`: no two names are one file and inputs remain mailboxes
  (`FileInv`), the process writes at the end of its own file (`OwnFile`), what it
  has read and not yet written are messages of the input at hand (`Works`), and
  the file so far has as many lines that may start a message as messages were
  counted (`Counts`, `Holding`). A reader sees a message start at each of these lines
  only in a file of one kind: patches, or mail without a patch's date. So
  `Holding` says of what kind the file is, and that its lines are whole wherever more
  is to come. That every writer keeps this is `WrittenIsARecord` (a merged or
  exported message is one message in whole lines), `CopiedIs` (a mailbox copied
  as it is) and `MoreIsHeld` (one after the other); that reading such a file
  again finds a message at each start is `WholeLinesAreRead`, `MessagesAre` and
  `StartsAreMarks`. `CountSources` adds the messages of the inputs, for the
  duplicates.
- `OneWriterDeliversWhole`: `Spec => DeliversWhole`, the refinement of `Delivery`,
  where one process writes at a time. Two processes with one temporary file
  violate it (section 3). A step of `Delivery` that delivers replaces the output of
  the process's own task by all that this task asks for; in the code only the rename
  is such a step (`CommitDelivers`). The start of a process is `Ask` (`StartAsks`), a
  failure at any moment is `Abandon` (`FailAbandons`), and every other step leaves
  inputs, outputs and tasks alone (`WorkIsUnseen`). That the file that is renamed is complete is `DeliverInv`,
  which adds to `CountInv` what a reader would find in the temporary file at this
  point (`IsUnderWay`): the first of the wanted messages, one by one, each itself but
  for what the writers add (`IsFound`). For a merge the wanted ones found are those
  among the sources passed so far, the sources that come next are the queue, and
  `seen_ids` are the ids of those passed (`IsPassed`): so the next message is
  a duplicate exactly when an earlier source has its id (`NextIsPassed`). For an
  export those that are left are the queue (`IsTaken`). At the end nothing is left
  (`UnderWayEnds`). Each kind of step keeps it: `OpenedIsUnderWay`,
  `DuplicateIsUnderWay`, `MergedIsUnderWay`, `ExportedIsUnderWay`, and
  `CopiedIsUnderWay` for a mailbox copied as it is, whose last line must be whole
  where another mailbox follows. Several processes that share no temporary file are
  covered neither by this theorem nor by the run.

`ExportsProofs`, assuming that a message's parts are listed, that a page kind has
its names (`ExportsAssumption`) and that no name is empty (`NamesAssumption`, for
`sanitize_filename_part`):

- `ExportsReplaceNothing`: `Spec => NothingOverwritten`. The name of a file is
  chosen in one step and written in a later one, so the action property needs
  an invariant of the time between: `StoreInv` says that the name of a pending
  write is no file, or is the last resort of a base whose numbers are all taken.
  It stays true because the other steps enabled then write no file: other
  programs save between exports or between files, not between `exists()` and
  the write (section 5). That `unique_path` does answer a free name when there is
  one (`UniquePathIsFree`) rests on the least free number, from `WFMin`
  (`HasLeast`). `KeepsFiles` is the property with its last disjunct named.
- `EveryExportIsWhole`: `Spec => []EachChosenItsFile`. The property speaks of
  an export that has ended; what holds while it runs is `Progress`: the files
  written so far are the first of what was asked for, each with its content, and
  what the job has still to do (`Rest`: the message and the parts at hand, and the
  messages behind it) makes the files that follow. A bulk extraction may leave
  things out, so its files are a subsequence. `ProgressKept` covers the steps that
  write nothing, `ProgressMade` those that write the next file or leave it out;
  `PartAhead` and `PageAhead` say which one that is. `ExportInv` joins it with
  `StoreInv`, `ViewInv` (the loaded body is that of the row) and `AtHand` (what
  a job holds at each step; parts are parts of the message it stands at).
  What is asked for is a list of lists of parts that is joined and taken
  apart at its head: `FlattenHead`, `FlattenPrefixes` and `TailIs` of
  `CountingProofs`.

Only model-checked:

- liveness under fairness and deadlock, which need ENABLED (`ScansEnd`, `JobsEnd`,
  `InputIsSearched`, `SearchEnds`);
- what is computed by recursion over data: `EmlExport`, written with `RECURSIVE`
  operators; the tokenizer of `SearchForm`, a fold over the text of the query, and
  with it `FormMeansItsFields`.

## 5. Not modelled, and why

- Decoding of headers, MIME parts, dates, charsets: conversions of bytes
  without state or order, covered by the unit tests.
- Which bytes make a valid asctime date: data; the classes are what matters.
- Rendering, themes, languages, configuration, command line: no behaviour.
- In the App: scrolling, layouts, the mouse, the external HTML viewer; the
  render of the mail view, which is cached by message offset and view options.
- In the index: mailboxes that vanish, an implausibly large index, unparseable
  messages, other versions; the folds of `index/reader.rs`.
- In the search: text matching (case folding, substrings), relative to which
  everything else is stated; the width of years.
- In the store: a mailbox rewritten in place while it is open. Every byte that
  is not cached would be arbitrary, and the code makes no promise about it.
- In the exports: what pages, csv rows and file names look like; the HTML
  sanitizer; the moment between `exists()` and the write of a new file.
- On the command line: argument parsing, progress bars, statistics, printing.

## 6. Plan

In this order, the most important first:

1. Done: all modules of section 2 with their runs; theorems about both
   scans and the refinement of `MessageStream`,
   `IndexBuild`, `Threading`, `App`, `Search`, `MailboxWriter` with the
   refinement of `Delivery`, and `Exports`.
2. The mail view: scrolling and the match that is centred, with the cached
   render, composed with `App`.
3. The exports of `App` itself, that is `Exports` over the list of `App` after a
   sort, where header and body part company.
