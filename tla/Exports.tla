-------------------------------- MODULE Exports --------------------------------
(***************************************************************************)
(* Messages and attachments become files: the export and attachment        *)
(* popups, the marks and the command that extracts attachments             *)
(* (tui/event.rs, tui/app.rs, main.rs), the writers of eml, text, html,    *)
(* csv and attachment files (export/), and the message store with its      *)
(* cache of decoded bodies (store/reader.rs).                              *)
(*                                                                         *)
(* A file is <<folder, words of its name>>; what unique_path appends is    *)
(* one more word.  The content of a file is what it was made from.  The    *)
(* list and the loaded body are those of App, whose current body is taken  *)
(* to be that of the current entry.                                        *)
(***************************************************************************)
EXTENDS Integers, Sequences, FiniteSets, SequencesExt, Ordering

CONSTANTS
    N,              \* entries of the open mailbox
    BaseName,       \* BaseName[format][m]: the name made of date, sender and subject
    FolderName,     \* FolderName[m]: the folder of a bulk export
    Attachments,    \* Attachments[m]: the names of its attachments, <<>> for an unnamed one
    Undecodable,    \* the parts <<m, i>> that extract_attachment refuses
    Views,          \* the sets of entries that searches and filters show
    Cuts,           \* what may be left of the mailbox: its first n entries
    Kinds,          \* the exports that are made
    CacheSize,      \* DEFAULT_CACHE_SIZE
    MaxTries,       \* the numbers unique_path tries
    MaxExports      \* bound: exports of a session

Entries == 1 .. N

PageFormats == {"txt", "html"}

Formats == {"eml"} \cup PageFormats

ASSUME ExportsAssumption ==
    /\ N \in Nat \ {0} /\ {CacheSize, MaxTries, MaxExports} \subseteq Nat \ {0}
    /\ DOMAIN BaseName = Formats /\ Views \subseteq SUBSET Entries /\ Cuts \subseteq Nat
    /\ Kinds \subseteq Formats \cup {"csv", "attachments", "one", "bulk"}
    /\ \A m \in Entries : DOMAIN Attachments[m] = 1 .. Len(Attachments[m])

(* The words of a name. *)
IsName(words) == Len(words) \in Nat /\ words = [i \in 1 .. Len(words) |-> words[i]]

(* sanitize_filename_part leaves no name empty. *)
ASSUME NamesAssumption ==
    \A m \in Entries :
        /\ \A format \in Formats : IsName(BaseName[format][m]) /\ BaseName[format][m] # <<>>
        /\ IsName(Attachments[m]) /\ \A i \in DOMAIN Attachments[m] : IsName(Attachments[m][i])

Downloads == "downloads"

CsvPath == <<Downloads, <<"mboxshell_export.csv">>>>

VARIABLES
    files,          \* path -> content
    present,        \* the entries whose bytes the mailbox still has
    cache,          \* entries with a decoded body, the latest first
    visible, row, current_body, marked,
    job,            \* the export under way, or the last one
    exports         \* exports so far

viewVars == <<visible, row, current_body, marked>>
vars == <<files, present, cache, viewVars, job, exports>>

AllEntries == [m \in Entries |-> m]

-----------------------------------------------------------------------------
(* The message store. *)

(* get_message: a cached body, or one read from the mailbox. *)
CanGet(m) == m \in Range(cache) \cup present

(* The cache after get_message: the entry is the latest used, the one used *)
(* longest ago goes.                                                       *)
GetMessage(m) ==
    IF ~CanGet(m) THEN cache
    ELSE <<m>> \o SubSeq(SelectSeq(cache, LAMBDA e : e # m), 1,
                         IF m \in Range(cache) THEN Len(cache) - 1
                         ELSE IF Len(cache) < CacheSize THEN Len(cache) ELSE CacheSize - 1)

-----------------------------------------------------------------------------
Idle == [pc |-> "idle", kind |-> "eml", asked |-> {}, todo |-> <<>>, parts |-> <<>>,
         path |-> <<>>, content |-> <<>>, saved |-> <<>>, skipped |-> 0, outcome |-> "none"]

Init ==
    /\ files = << >> /\ present = Entries
    /\ visible = AllEntries /\ row = 1 /\ current_body = <<1>> /\ cache = <<1>> /\ marked = {}
    /\ job = Idle /\ exports = 0

CurrentEntry == IF row \in DOMAIN visible THEN <<visible[row]>> ELSE <<>>

(* A key in the list, between exports. *)
ListKey == job.pc = "idle" /\ UNCHANGED <<files, present, job, exports>>

(* select_message *)
SelectRow(list, r) ==
    /\ row' = r
    /\ cache' = GetMessage(list[r])
    /\ current_body' = IF CanGet(list[r]) THEN <<list[r]>> ELSE <<>>

Select ==
    /\ ListKey
    /\ \E r \in DOMAIN visible : SelectRow(visible, r)
    /\ UNCHANGED <<visible, marked>>

(* A search or a filter shows other rows, and selects the first, if any. *)
Show ==
    /\ ListKey
    /\ \E shown \in Views :
           /\ visible' = Ascending(shown)
           /\ IF shown = {} THEN current_body' = <<>> /\ UNCHANGED <<row, cache>>
              ELSE SelectRow(visible', 1)
    /\ UNCHANGED marked

ToggleMark ==
    /\ ListKey /\ CurrentEntry # <<>>
    /\ marked' = IF CurrentEntry[1] \in marked THEN marked \ Range(CurrentEntry)
                                               ELSE marked \cup Range(CurrentEntry)
    /\ UNCHANGED <<visible, row, current_body, cache>>

(* The key "*": all visible rows, or none when all of them are marked. *)
ToggleVisible ==
    /\ ListKey
    /\ marked' = IF Range(visible) \subseteq marked THEN marked \ Range(visible)
                                                    ELSE marked \cup Range(visible)
    /\ UNCHANGED <<visible, row, current_body, cache>>

(* The mailbox loses its last messages, once. *)
Truncate ==
    /\ present = Entries
    /\ \E n \in Cuts : present' = 1 .. n
    /\ UNCHANGED <<files, cache, viewVars, job, exports>>

(* Another program saves a file, once, and not between the exists() of     *)
(* unique_path and the write.                                              *)
OtherSaves ==
    /\ job.pc # "store" /\ <<"other">> \notin Range(files)
    /\ \E m \in Entries :
           LET path == <<Downloads, BaseName["eml"][m]>>
           IN  path \notin DOMAIN files
               /\ files' = [f \in DOMAIN files \cup {path} |-> IF f = path THEN <<"other">> ELSE files[f]]
    /\ UNCHANGED <<present, cache, viewVars, job, exports>>

-----------------------------------------------------------------------------
(* An export begins. *)

Begin(kind, asked, todo, parts) ==
    /\ job.pc = "idle" /\ exports < MaxExports /\ kind \in Kinds
    /\ job' = [Idle EXCEPT !.pc = IF parts = <<>> THEN "message" ELSE "part", !.kind = kind,
                           !.asked = asked, !.todo = todo, !.parts = parts, !.outcome = "running"]
    /\ exports' = exports + 1
    /\ UNCHANGED <<files, present, cache, viewVars>>

MutSelection == IF marked # {} THEN SelectSeq(visible, LAMBDA m : m \in marked) ELSE CurrentEntry

(* The marked messages, shown or not, else the current one. *)
Selection == IF marked # {} THEN Ascending(marked) ELSE CurrentEntry

(* Enter in the export popup; a single page needs the body on the screen. *)
ExportSelection ==
    \E kind \in Formats \cup {"csv"} :
        /\ marked # {} \/ CurrentEntry # <<>>
        /\ kind \in PageFormats /\ marked = {} => current_body # <<>>
        /\ Begin(kind, IF marked # {} THEN marked ELSE Range(CurrentEntry), Selection, <<>>)

(* save_all_attachments: the list of parts is read from the store. *)
SaveAllAttachments == Begin("attachments", Range(CurrentEntry), CurrentEntry, <<>>)

(* save_single_attachment: a part of the loaded body, by its index. *)
SaveSingleAttachment(i) ==
    /\ i \in DOMAIN Attachments[current_body[1]]
    /\ Begin("one", Range(CurrentEntry), CurrentEntry, <<i>>)

(* All attachments of the current message, from either popup. *)
SaveAttachments ==
    /\ current_body # <<>> /\ Attachments[current_body[1]] # <<>>
    /\ SaveAllAttachments

(* Enter in the attachment popup. *)
SaveOne ==
    /\ current_body # <<>>
    /\ \E i \in DOMAIN Attachments[current_body[1]] : SaveSingleAttachment(i)

(* The attachments command. *)
ExtractAll ==
    LET with_attachments == {m \in Entries : Attachments[m] # <<>>}
    IN  /\ with_attachments # {}
        /\ Begin("bulk", with_attachments, Ascending(with_attachments), <<>>)

-----------------------------------------------------------------------------
(* The message at hand. *)

JobStep == UNCHANGED <<present, viewVars, exports>>

NextOne(pc, kinds) == job.pc = pc /\ job.kind \in kinds /\ job.todo # <<>> /\ JobStep

Failed == [job EXCEPT !.pc = "idle", !.outcome = "failed"]

(* The contents of files. *)
EmlBytes(m) == <<"eml", m>>

TextPage(m) == <<"txt", m>>

HtmlPage(m) == <<"html", m>>

CsvRows(list) == <<"csv">> \o list

Prepared(folder, name, content) ==
    [job EXCEPT !.pc = "path", !.path = <<folder, name>>, !.content = content]

(* export_eml_opts reads the raw message, which is not cached. *)
NextEml ==
    /\ NextOne("message", {"eml"})
    /\ LET m == Head(job.todo)
       IN  job' = IF m \in present THEN Prepared(Downloads, BaseName["eml"][m], EmlBytes(m)) ELSE Failed
    /\ UNCHANGED <<files, cache>>

(* export_text and export_html: of a body of the store for marked          *)
(* messages, of the loaded body for the current one.                       *)
NextPage ==
    /\ NextOne("message", PageFormats)
    /\ LET m == Head(job.todo)
           body == IF marked # {} THEN m ELSE current_body[1]
       IN  /\ cache' = IF marked # {} THEN GetMessage(m) ELSE cache
           /\ job' = IF marked # {} /\ ~CanGet(m) THEN Failed
                     ELSE Prepared(Downloads, BaseName[job.kind][m],
                                   IF job.kind = "txt" THEN TextPage(body) ELSE HtmlPage(body))
    /\ UNCHANGED files

(* export_csv: the file is created anew; the write may fail. *)
NextCsv ==
    /\ NextOne("message", {"csv"})
    /\ \E content \in {CsvRows(job.todo), <<"incomplete">>} :
           /\ files' = [f \in DOMAIN files \cup {CsvPath} |-> IF f = CsvPath THEN content ELSE files[f]]
           /\ job' = IF content = <<"incomplete">> THEN Failed
                     ELSE [job EXCEPT !.todo = <<>>, !.saved = <<CsvPath>>]
    /\ UNCHANGED cache

(* export_all_attachments and export_bulk_attachments list the parts. *)
NextMessage ==
    /\ NextOne("message", {"attachments", "bulk"})
    /\ LET m == Head(job.todo)
       IN  /\ cache' = GetMessage(m)
           /\ job' = IF ~CanGet(m) THEN Failed
                     ELSE [job EXCEPT !.pc = "part", !.parts = [i \in DOMAIN Attachments[m] |-> i]]
    /\ UNCHANGED files

(* A bulk export goes on after a failure. *)
Skipped == [job EXCEPT !.pc = "part", !.parts = Tail(@), !.skipped = @ + 1]

AttachmentName(m, i) ==
    IF Attachments[m][i] = <<>> THEN <<"attachment", i - 1>> ELSE Attachments[m][i]

(* extract_attachment reads the message again and takes the part by its    *)
(* number.                                                                 *)
NextPart ==
    /\ NextOne("part", {"attachments", "bulk", "one"}) /\ job.parts # <<>>
    /\ LET m == Head(job.todo)
           i == Head(job.parts)
           folder == IF job.kind = "bulk" THEN FolderName[m] ELSE Downloads
       IN  job' = IF m \in present /\ <<m, i>> \notin Undecodable
                  THEN Prepared(folder, AttachmentName(m, i), <<m, i>>)
                  ELSE IF job.kind = "bulk" THEN Skipped ELSE Failed
    /\ UNCHANGED <<files, cache>>

EndParts ==
    /\ NextOne("part", {"attachments", "bulk", "one"}) /\ job.parts = <<>>
    /\ job' = [job EXCEPT !.pc = "message", !.todo = Tail(@)]
    /\ UNCHANGED <<files, cache>>

EndExport ==
    /\ job.pc = "message" /\ job.todo = <<>> /\ JobStep
    /\ job' = [job EXCEPT !.pc = "idle", !.outcome = "done"]
    /\ UNCHANGED <<files, cache>>

-----------------------------------------------------------------------------
(* The file at hand. *)

Candidate(path, i) == IF i = 0 THEN path ELSE <<path[1], Append(path[2], i)>>

(* The word "dup". *)
Dup == -1

Fallback(path) == <<path[1], Append(path[2], Dup)>>

MutUniquePath(path) ==
    IF path \in DOMAIN files THEN Candidate(path, Len(job.saved) + 1) ELSE path

UniquePath(path) ==
    LET free == {i \in 0 .. MaxTries : Candidate(path, i) \notin DOMAIN files}
    IN  IF free = {} THEN Fallback(path)
        ELSE Candidate(path, CHOOSE i \in free : \A j \in free : i <= j)

ChoosePath ==
    /\ job.pc = "path" /\ JobStep
    /\ job' = [job EXCEPT !.pc = "store", !.path = UniquePath(@)]
    /\ UNCHANGED <<files, cache>>

(* fs::write: a failure leaves an incomplete file. *)
Store ==
    /\ job.pc = "store" /\ JobStep
    /\ \E content \in {job.content, <<"incomplete">>} :
           /\ files' = [f \in DOMAIN files \cup {job.path} |-> IF f = job.path THEN content ELSE files[f]]
           /\ job' = CASE content = job.content /\ job.kind \in Formats ->
                              [job EXCEPT !.pc = "message", !.todo = Tail(@), !.saved = Append(@, job.path)]
                       [] content = job.content /\ job.kind \notin Formats ->
                              [job EXCEPT !.pc = "part", !.parts = Tail(@), !.saved = Append(@, job.path)]
                       [] content # job.content /\ job.kind = "bulk" -> Skipped
                       [] OTHER -> Failed
    /\ UNCHANGED cache

Next ==
    \/ Select \/ Show \/ ToggleMark \/ ToggleVisible \/ Truncate \/ OtherSaves
    \/ ExportSelection \/ SaveAttachments \/ SaveOne \/ ExtractAll
    \/ NextEml \/ NextPage \/ NextCsv \/ NextMessage \/ NextPart \/ EndParts \/ EndExport
    \/ ChoosePath \/ Store

Spec == Init /\ [][Next]_vars

-----------------------------------------------------------------------------
TypeOK ==
    /\ cache \in Seq(Entries) /\ Len(cache) <= CacheSize /\ Cardinality(Range(cache)) = Len(cache)
    /\ marked \subseteq Entries /\ visible \in Seq(Entries)
    /\ job.pc \in {"idle", "message", "part", "path", "store"}
    /\ \A f \in Range(job.saved) : f \in DOMAIN files

(* No export replaces a file: not one of an earlier export, nor one made   *)
(* a moment ago for an equal name or for a name that looks numbered, nor   *)
(* another program's.  Exceptions are the csv file, and the last resort of *)
(* unique_path when all its numbers are taken                              *)
(* (export/attachment.rs:87-118).                                          *)
NothingOverwritten ==
    [][\A f \in DOMAIN files :
           \/ f \in DOMAIN files' /\ files'[f] = files[f]
           \/ f = CsvPath
           \/ \E base \in DOMAIN files :
                  f = Fallback(base) /\ \A i \in 0 .. MaxTries : Candidate(base, i) \in DOMAIN files]_vars

Made(format, m) ==
    CASE format = "eml" -> EmlBytes(m) [] format = "txt" -> TextPage(m) [] OTHER -> HtmlPage(m)

PartsOf(m) == [i \in DOMAIN Attachments[m] |-> <<m, i>>]

WantedOf(kind, list) ==
    CASE kind \in Formats -> [k \in DOMAIN list |-> Made(kind, list[k])]
      [] kind = "csv" -> <<CsvRows(list)>>
      [] OTHER -> FlattenSeq([k \in DOMAIN list |-> PartsOf(list[k])])

(* What an export was asked for: the marked messages in the order of the   *)
(* mailbox, whatever the list shows.                                       *)
Wanted == WantedOf(job.kind, Ascending(job.asked))

(* The elements of the whole in their order, some left out. *)
IsSubsequence(part, whole) ==
    \E place \in [DOMAIN part -> DOMAIN whole] :
        /\ \A i, j \in DOMAIN part : i < j => place[i] < place[j]
        /\ \A i \in DOMAIN part : part[i] = whole[place[i]]

SavedContents == [k \in DOMAIN job.saved |-> files[job.saved[k]]]

UsesFallback == \E f \in Range(job.saved) : Len(f[2]) > 1 /\ Last(f[2]) = Dup

(* An export that succeeds has a file of its own for everything it was     *)
(* asked for, in order, with the right content; one that fails has an      *)
(* initial part of it; only a bulk extraction leaves parts out, those it   *)
(* warned about (tui/event.rs:615-800, export/eml.rs:57-78,                *)
(* export/attachment.rs:29-86).                                            *)
EachChosenItsFile ==
    job.pc = "idle" /\ job.outcome # "none" /\ ~UsesFallback =>
        /\ Cardinality(Range(job.saved)) = Len(job.saved)
        /\ CASE job.kind = "one" -> job.outcome = "done" =>
                      \E i \in DOMAIN Attachments[CHOOSE m \in job.asked : TRUE] :
                          SavedContents = << <<CHOOSE m \in job.asked : TRUE, i>> >>
             [] job.kind = "bulk" ->
                    /\ IsSubsequence(SavedContents, Wanted)
                    /\ job.outcome = "done" => Len(job.saved) + job.skipped = Len(Wanted)
             [] OTHER ->
                    /\ SavedContents = SubSeq(Wanted, 1, Len(job.saved))
                    /\ job.outcome = "done" => Len(job.saved) = Len(Wanted)
=============================================================================
