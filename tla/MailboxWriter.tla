---------------------------- MODULE MailboxWriter ----------------------------
(***************************************************************************)
(* merge_mbox_files and export_mbox (export/mbox.rs): mailboxes are read,  *)
(* message by message or as a whole, and written to a temporary sibling of *)
(* the output, which a rename then puts in its place.                      *)
(*                                                                         *)
(* A line is what MboxLines says of it, with a byte order mark, a final    *)
(* newline, the Message-ID or the X-Mbox-Source label it may carry.  A     *)
(* file is a sequence of pieces, each a line or the part of one that is    *)
(* left when a mailbox ends without a newline; whoever reads the file sees *)
(* pieces joined.  An input is read at once, when it is opened, and the    *)
(* messages in it are those the header scan delivers (MessageStream).      *)
(***************************************************************************)
EXTENDS MboxLines, MailboxNaming, Ordering, SequencesExt

CONSTANTS
    Writers,   \* processes
    Names,     \* the names of files
    PathOf,    \* PathOf[name]: the directories above it and its own
    TempOf,    \* TempOf[name]: the name with the extension mbox.tmp
    Printable, \* Printable[component]: without its control characters
    TrimStart, TrimEnd,  \* of a component: without white space at that end
    Disks,     \* what the names may hold at first: functions from some of the names
    Tasks,     \* what a process may be asked to do
    MaxRuns    \* tasks given to one process, one after the other

(* op is "merge" or "export"; chosen, the messages an export is to write   *)
(* of its one mailbox.                                                     *)
Task ==
    {t \in [op : {"merge", "export"}, inputs : Seq(Names), output : Names,
            dedup : BOOLEAN, label : BOOLEAN, chosen : SUBSET Nat] :
         t.op = "export" => Len(t.inputs) = 1 /\ ~t.dedup /\ ~t.label}

ASSUME TasksAssumption == Tasks \subseteq Task

(* "" is no Message-ID, <<>> no label. *)
Piece == [kind : Kinds, bom : BOOLEAN, nl : BOOLEAN, id : {""} \cup STRING, label : Seq(STRING)]

(* A file of whole lines but perhaps the last.                             *)
IsMailbox(content) ==
    content \in Seq(Piece) /\ \A i \in 1 .. Len(content) - 1 : content[i].nl

HasNoLabels(content) == \A i \in 1 .. Len(content) : content[i].label = <<>>

(* A label is one that is written here; an older one is a line like others. *)
ASSUME DisksAssumption ==
    \A disk \in Disks : \A n \in DOMAIN disk :
        n \in Names /\ IsMailbox(disk[n]) /\ HasNoLabels(disk[n])

(* A path to a file has at least the file's own name. *)
ASSUME PathsAssumption == \A n \in Names : PathOf[n] \in Seq(STRING) \ {<<>>}

(* The inputs are neither outputs nor temporary files, and no output has a *)
(* temporary file's name: nothing in the code sees to that.                *)
ASSUME InputsAssumption ==
    \A t, u \in Tasks :
        /\ t.output # TempOf[u.output]
        /\ \A i \in DOMAIN t.inputs : t.inputs[i] \notin {u.output, TempOf[u.output]}

(* What the user calls the inputs of a task. *)
DisplayNames(t) == UniqueDisplayNames([k \in DOMAIN t.inputs |-> PathOf[t.inputs[k]]])

(* sanitize_header_value: control characters go, wherever they are, and    *)
(* then the white space at both ends.  Only white space may be left of a   *)
(* component, but a name keeps as many as it has.                          *)
SanitizeHeaderValue(name) ==
    LET printable == [i \in DOMAIN name |-> Printable[name[i]]]
        trimmed   == [printable EXCEPT ![1] = TrimStart[@]]
    IN  [trimmed EXCEPT ![Len(name)] = TrimEnd[@]]

(* The value of X-Mbox-Source for each input. *)
SourceLabels(t) == [k \in DOMAIN t.inputs |-> SanitizeHeaderValue(DisplayNames(t)[k])]

ASSUME LabelsAssumption ==
    \A t \in Tasks : \A k \in DOMAIN t.inputs : SourceLabels(t)[k] \in Seq(STRING) \ {<<>>}

VARIABLES
    dir,      \* the directory: names to inodes
    data,     \* inodes to contents; a name that is gone leaves its inode to its writers
    task, pc, \* what a process does: "idle", "reading", "copying", "done" or "failed"
    handle,   \* the inode it writes to
    at,       \* its position there
    opened,   \* inputs it has opened
    queue,    \* messages of the input at hand that it has not written
    seen_ids,
    stats,    \* [total, duplicates, tagged]
    runs      \* tasks it has been given

vars == <<dir, data, task, pc, handle, at, opened, queue, seen_ids, stats, runs>>

LineRecord(kind) ==
    [kind |-> kind, bom |-> FALSE, nl |-> TRUE, id |-> "", label |-> <<>>]

-----------------------------------------------------------------------------
(* Reading a mailbox. *)

(* The line made of a piece without newline and the piece after it: a date *)
(* with something after it is no separator.                                *)
Glued(first, second) ==
    [first EXCEPT !.nl = second.nl,
                  !.kind = CASE second.kind = "blank" -> first.kind
                             [] StartsWithFrom(first) -> "malformed"
                             [] OTHER -> "text"]

WithPiece(lines, piece) ==
    IF lines # <<>> /\ ~Last(lines).nl
    THEN Append(Front(lines), Glued(Last(lines), piece))
    ELSE Append(lines, piece)

Joined(content) ==
    LET upTo[n \in 0 .. Len(content)] ==
            IF n = 0 THEN <<>> ELSE WithPiece(upTo[n - 1], content[n])
    IN  upTo[Len(content)]

(* The indices of a sequence that are in the set, in their order. *)
Picked(seq, set) == Ascending(DOMAIN seq \cap set)

(* The messages of a mailbox, each a sequence of lines. *)
MessagesIn(content) ==
    LET lines  == Joined(content)
        starts == Picked(lines, Starts(lines))
    IN  [k \in DOMAIN starts |->
            SubSeq(lines, starts[k], IF k = Len(starts) THEN Len(lines) ELSE starts[k + 1] - 1)]

HeadersOf(message) ==
    {i \in DOMAIN message : \A j \in 1 .. i : ~IsBlank(message[j])}

MessageId(message) ==
    LET named == {i \in HeadersOf(message) : message[i].id # ""}
    IN  IF named = {} THEN "" ELSE message[Min(named)].id

Holds(name) == IF name \in DOMAIN dir THEN data[dir[name]] ELSE <<>>

-----------------------------------------------------------------------------
(* Writing. *)

MutEndLine(lines) == lines

EndLine(lines) == [lines EXCEPT ![Len(lines)].nl = TRUE]

LabelLine(name) == [LineRecord("text") EXCEPT !.label = name]

MutLabelOnTop(raw, name) ==
    <<[LabelLine(name) EXCEPT !.bom = raw[1].bom]>> \o [raw EXCEPT ![1].bom = FALSE]

(* inject_source_header: below the envelope line, or, without one that     *)
(* ends, at the top, after a byte order mark.                              *)
InjectSourceHeader(raw, name) ==
    IF StartsWithFrom(raw[1]) /\ raw[1].nl
    THEN <<raw[1], LabelLine(name)>> \o Tail(raw)
    ELSE <<[LabelLine(name) EXCEPT !.bom = raw[1].bom]>> \o [raw EXCEPT ![1].bom = FALSE]

(* The byte order mark is not skipped here. *)
BeginsWithFrom(line) == StartsWithFrom(line) /\ ~line.bom

(* append_from_quoted *)
FromQuoted(raw) ==
    [i \in DOMAIN raw |-> IF BeginsWithFrom(raw[i]) THEN [raw[i] EXCEPT !.kind = "text"] ELSE raw[i]]

(* mbox_record *)
MboxRecord(raw) ==
    EndLine(IF BeginsWithFrom(raw[1]) THEN raw ELSE <<LineRecord("separator")>> \o FromQuoted(raw))

(* The bytes of a hole that a write beyond the end of a file leaves. *)
Hole == [LineRecord("text") EXCEPT !.nl = FALSE]

(* write_all at the process's position in its file. *)
Write(w, lines) ==
    LET old == data[handle[w]]
        end == at[w] + Len(lines)
    IN  /\ data' = [data EXCEPT ![handle[w]] =
                        [i \in 1 .. Max({Len(old), end}) |->
                            IF i \in at[w] + 1 .. end THEN lines[i - at[w]]
                            ELSE IF i <= Len(old) THEN old[i] ELSE Hole]]
        /\ at' = [at EXCEPT ![w] = end]

NoStats == [total |-> 0, duplicates |-> 0, tagged |-> 0]

TypeOK ==
    /\ dir \in [DOMAIN dir -> DOMAIN data] /\ DOMAIN dir \subseteq Names
    /\ IsInjective(dir)
    /\ \A i \in DOMAIN data : data[i] \in Seq(Piece)
    /\ task \in [Writers -> Tasks] /\ pc \in [Writers -> {"idle", "reading", "copying", "done", "failed"}]
    /\ handle \in [Writers -> DOMAIN data] /\ at \in [Writers -> Nat]
    /\ \A w \in Writers : opened[w] \in 0 .. Len(task[w].inputs)
    /\ stats \in [Writers -> [total : Nat, duplicates : Nat, tagged : Nat]]
    /\ runs \in [Writers -> 0 .. MaxRuns]

(* An inode is numbered by the name or by the process it was made for.     *)
Init ==
    /\ \E disk \in Disks :
           /\ dir = [n \in DOMAIN disk |-> <<n, 0>>]
           /\ data = [i \in (DOMAIN disk) \X {0} |-> disk[i[1]]]
    /\ task \in [Writers -> {CHOOSE t \in Tasks : TRUE}]
    /\ pc = [w \in Writers |-> "idle"]
    /\ handle \in [Writers -> {CHOOSE i \in DOMAIN data : TRUE}]
    /\ at = [w \in Writers |-> 0] /\ opened = [w \in Writers |-> 0]
    /\ queue = [w \in Writers |-> <<>>] /\ seen_ids = [w \in Writers |-> {}]
    /\ stats = [w \in Writers |-> NoStats] /\ runs = [w \in Writers |-> 0]

(* File::create of the temporary file: a file of that name is emptied.     *)
CreateTemp(w, name) ==
    IF name \in DOMAIN dir
    THEN /\ handle' = [handle EXCEPT ![w] = dir[name]]
         /\ data' = [data EXCEPT ![dir[name]] = <<>>]
         /\ dir' = dir
    ELSE LET inode == <<w, runs[w] + 1>>
         IN  /\ handle' = [handle EXCEPT ![w] = inode]
             /\ data' = [i \in DOMAIN data \cup {inode} |-> IF i = inode THEN <<>> ELSE data[i]]
             /\ dir' = [n \in DOMAIN dir \cup {name} |-> IF n = name THEN inode ELSE dir[n]]

MutTempName(t) == t.output

TempName(t) == TempOf[t.output]

(* The command line refuses an input that does not exist. *)
Start(w, t) ==
    /\ pc[w] \in {"idle", "done", "failed"} /\ runs[w] < MaxRuns
    /\ Range(t.inputs) \subseteq DOMAIN dir
    /\ task' = [task EXCEPT ![w] = t]
    /\ CreateTemp(w, TempName(t))
    /\ pc' = [pc EXCEPT ![w] = "reading"]
    /\ at' = [at EXCEPT ![w] = 0] /\ opened' = [opened EXCEPT ![w] = 0]
    /\ queue' = [queue EXCEPT ![w] = <<>>] /\ seen_ids' = [seen_ids EXCEPT ![w] = {}]
    /\ stats' = [stats EXCEPT ![w] = NoStats] /\ runs' = [runs EXCEPT ![w] = @ + 1]

NextInput(w) == task[w].inputs[opened[w] + 1]

(* build_index and open, for all but a plain merge; the entries of an      *)
(* export have been picked from the index already.                         *)
OpenInput(w) ==
    /\ pc[w] = "reading" /\ opened[w] < Len(task[w].inputs)
    /\ task[w].op = "export" \/ task[w].dedup \/ task[w].label
    /\ LET messages == MessagesIn(Holds(NextInput(w)))
           chosen   == Picked(messages, task[w].chosen)
       IN  queue' = [queue EXCEPT ![w] =
                        IF task[w].op = "merge" THEN messages
                        ELSE [k \in DOMAIN chosen |-> messages[chosen[k]]]]
    /\ opened' = [opened EXCEPT ![w] = @ + 1]
    /\ pc' = [pc EXCEPT ![w] = "copying"]
    /\ UNCHANGED <<dir, data, task, handle, at, seen_ids, stats, runs>>

MutNoIdIsAnId(w, message) == task[w].dedup /\ MessageId(message) \in seen_ids[w]

IsDuplicate(w, message) ==
    task[w].dedup /\ MessageId(message) # "" /\ MessageId(message) \in seen_ids[w]

MergeRecord(w, raw) ==
    EndLine(IF task[w].label THEN InjectSourceHeader(raw, SourceLabels(task[w])[opened[w]]) ELSE raw)

MergeMessage(w) ==
    /\ pc[w] = "copying" /\ task[w].op = "merge" /\ queue[w] # <<>>
    /\ queue' = [queue EXCEPT ![w] = Tail(@)]
    /\ LET raw == Head(queue[w])
       IN  IF IsDuplicate(w, raw)
           THEN /\ stats' = [stats EXCEPT ![w].duplicates = @ + 1]
                /\ UNCHANGED <<data, at, seen_ids>>
           ELSE /\ Write(w, MergeRecord(w, raw))
                /\ seen_ids' = [seen_ids EXCEPT ![w] =
                                    IF task[w].dedup THEN @ \cup {MessageId(raw)} ELSE @]
                /\ stats' = [stats EXCEPT ![w].total = @ + 1,
                                          ![w].tagged = @ + IF task[w].label THEN 1 ELSE 0]
    /\ UNCHANGED <<dir, task, pc, handle, opened, runs>>

ExportMessage(w) ==
    /\ pc[w] = "copying" /\ task[w].op = "export" /\ queue[w] # <<>>
    /\ queue' = [queue EXCEPT ![w] = Tail(@)]
    /\ Write(w, MboxRecord(Head(queue[w])))
    /\ stats' = [stats EXCEPT ![w].total = @ + 1]
    /\ UNCHANGED <<dir, task, pc, handle, opened, seen_ids, runs>>

InputCopied(w) ==
    /\ pc[w] = "copying" /\ queue[w] = <<>>
    /\ pc' = [pc EXCEPT ![w] = "reading"]
    /\ UNCHANGED <<dir, data, task, handle, at, opened, queue, seen_ids, stats, runs>>

(* A plain merge copies the input as it is, and counts the lines that      *)
(* begin with From.                                                        *)
CopyInput(w) ==
    /\ pc[w] = "reading" /\ opened[w] < Len(task[w].inputs)
    /\ task[w].op = "merge" /\ ~task[w].dedup /\ ~task[w].label
    /\ LET bytes == Holds(NextInput(w))
       IN  /\ Write(w, bytes)
           /\ stats' = [stats EXCEPT ![w].total =
                           @ + Cardinality({i \in DOMAIN bytes : BeginsWithFrom(bytes[i])})]
    /\ opened' = [opened EXCEPT ![w] = @ + 1]
    /\ UNCHANGED <<dir, task, pc, handle, queue, seen_ids, runs>>

Renamed(from, to) ==
    [n \in (DOMAIN dir \ {from}) \cup {to} |-> IF n = to THEN dir[from] ELSE dir[n]]

(* The rename, which fails when the temporary name is gone. *)
Commit(w) ==
    LET temp == TempName(task[w])
    IN  /\ pc[w] = "reading" /\ opened[w] = Len(task[w].inputs)
        /\ IF temp \in DOMAIN dir
           THEN /\ dir' = Renamed(temp, task[w].output)
                /\ pc' = [pc EXCEPT ![w] = "done"]
           ELSE pc' = [pc EXCEPT ![w] = "failed"] /\ UNCHANGED dir
        /\ UNCHANGED <<data, task, handle, at, opened, queue, seen_ids, stats, runs>>

(* An input cannot be read, the disk is full, or the process is killed:    *)
(* the temporary file stays.                                               *)
Fail(w) ==
    /\ pc[w] \in {"reading", "copying"}
    /\ pc' = [pc EXCEPT ![w] = "failed"]
    /\ UNCHANGED <<dir, data, task, handle, at, opened, queue, seen_ids, stats, runs>>

Next ==
    \E w \in Writers :
        \/ \E t \in Tasks : Start(w, t)
        \/ OpenInput(w)
        \/ MergeMessage(w)
        \/ ExportMessage(w)
        \/ InputCopied(w)
        \/ CopyInput(w)
        \/ Commit(w)
        \/ Fail(w)

Spec == Init /\ [][Next]_vars

-----------------------------------------------------------------------------
(* What a task asks for. *)

IsPlain(t) == t.op = "merge" /\ ~t.dedup /\ ~t.label

(* "files" is what the names hold. *)
InputsOf(t, files) == [k \in DOMAIN t.inputs |-> files[t.inputs[k]]]

(* The messages the task is about, with the label of their mailbox. *)
Sources(t, files) ==
    LET labels == SourceLabels(t)
        of(k)  == LET messages == MessagesIn(files[t.inputs[k]])
                  IN  [n \in DOMAIN messages |->
                          [message |-> messages[n], name |-> labels[k], number |-> n]]
    IN  FlattenSeq([k \in DOMAIN t.inputs |-> of(k)])

(* Of several messages with one id only the first is wanted. *)
IsWanted(t, all, k) ==
    /\ t.op = "export" => all[k].number \in t.chosen
    /\ t.dedup /\ MessageId(all[k].message) # "" =>
           \A j \in 1 .. k - 1 : MessageId(all[j].message) # MessageId(all[k].message)

Wanted(t, files) ==
    LET all    == Sources(t, files)
        wanted == Picked(all, {k \in DOMAIN all : IsWanted(t, all, k)})
    IN  [i \in DOMAIN wanted |-> all[wanted[i]]]

(* A message without what the writers add or complete. *)
Bare(message) ==
    LET own == Picked(message, {i \in DOMAIN message : message[i].label = <<>>})
    IN  [i \in DOMAIN own |-> [message[own[i]] EXCEPT !.nl = TRUE]]

IsLabelled(message, name) ==
    \A i \in DOMAIN message : message[i].label # <<>> <=> (i = 2 /\ message[i].label = name)

Matches(t, message, source) ==
    /\ Bare(message) = Bare(source.message)
    /\ t.label => Len(message) > 1 /\ IsLabelled(message, source.name)

Fulfils(t, files, content) ==
    LET found == MessagesIn(content)
        wanted == Wanted(t, files)
    IN  /\ Len(found) = Len(wanted)
        /\ \A k \in DOMAIN wanted : Matches(t, found[k], wanted[k])

(* Mailboxes that can stand one after the other in one file: either all of *)
(* them consist of patches, or none has a line with the patches' date, and *)
(* no message starts at a first line that would not do further down.       *)
Alike(t, files) ==
    LET all == FlattenSeq(InputsOf(t, files))
        first == {source.message[1].kind : source \in Range(Sources(t, files))}
    IN  \/ first \subseteq {"gitpatch"}
        \/ first \subseteq {"separator"} /\ \A i \in DOMAIN all : all[i].kind # "gitpatch"

(* What a plain merge, which does not look, needs besides: a newline       *)
(* before the next mailbox and no lines before a first message.            *)
CanBeConcatenated(t, files) ==
    \A k \in DOMAIN t.inputs :
        LET content == files[t.inputs[k]]
        IN  content # <<>> =>
                /\ StartsWithFrom(content[1])
                /\ k < Len(t.inputs) => Last(content).nl

(* An envelope line that is the end of its file has no place for a label   *)
(* below it, and one behind a byte order mark is not seen by an export.    *)
HasEnvelopes(t, files) ==
    \A source \in Range(Sources(t, files)) :
        LET envelope == source.message[1]
        IN  (t.label => envelope.nl) /\ (t.op = "export" => ~envelope.bom)

IsSound(t, files) ==
    Alike(t, files) /\ HasEnvelopes(t, files) /\ (IsPlain(t) => CanBeConcatenated(t, files))

-----------------------------------------------------------------------------
Outputs == {t.output : t \in Tasks}

Inputs == UNION {Range(t.inputs) : t \in Tasks}

Files == [n \in Inputs |-> Holds(n)]

Results == [n \in Outputs |-> Holds(n)]

Stage == [w \in Writers |-> IF pc[w] \in {"reading", "copying"} THEN "asked" ELSE pc[w]]

Abstract ==
    INSTANCE Delivery WITH
        mailboxes <- Files,
        outputs <- Results,
        state <- Stage,
        CanBeAnswered <- IsSound

(* Refinement: whatever fails and whenever, the file a process was asked   *)
(* for is the one that was there before until this process puts another in *)
(* its place, and then a reader finds in it exactly the messages the task  *)
(* of this process wants, once, in order, each under its label             *)
(* (export/mbox.rs:46-50, 128-133, 83-104, 188-200).                       *)
DeliversWhole == Abstract!Spec

(* The numbers that are reported are those of the mailbox that was         *)
(* written: messages, labels, and duplicates left out                      *)
(* (export/mbox.rs:83-106, 112-123).                                       *)
CountsAddUp ==
    \A w \in Writers :
        LET t     == task[w]
            all   == FlattenSeq(InputsOf(t, Files))
            counted == IsPlain(t) => \A i \in DOMAIN all : all[i].kind # "malformed" /\ ~all[i].bom
        IN  pc[w] = "done" /\ IsSound(t, Files) /\ counted =>
                /\ stats[w].total = Len(MessagesIn(Holds(t.output)))
                /\ t.op = "merge" /\ ~IsPlain(t) =>
                       stats[w].total + stats[w].duplicates = Len(Sources(t, Files))
                /\ stats[w].tagged = IF t.label THEN stats[w].total ELSE 0

(* The name of a mailbox, of which the label of its messages is made,      *)
(* leads back to it: two inputs that appear as different paths have        *)
(* different names unless their last MAX_LEVELS components are the same,   *)
(* and a name shows a directory only to tell the mailbox from another one  *)
(* that would look alike without (mailbox_naming.rs:89-125,                *)
(* export/mbox.rs:56-58).                                                  *)
NamesTellApart ==
    \A w \in Writers :
        LET inputs   == task[w].inputs
            names    == DisplayNames(task[w])
            shown(k) == PresentationPath(PathOf[inputs[k]])
        IN  pc[w] = "reading" /\ opened[w] = 0 => \A k \in DOMAIN inputs :
                /\ \A j \in DOMAIN inputs \ {k} :
                       names[j] = names[k] =>
                           NameAtLevel(shown(j), MaxLevels) = NameAtLevel(shown(k), MaxLevels)
                /\ Len(names[k]) > 1 =>
                       \E j \in DOMAIN inputs \ {k} :
                           NameAtLevel(shown(j), Len(names[k]) - 1) = Tail(names[k])

-----------------------------------------------------------------------------
(* Sentences of the repository that the code does not keep (README,        *)
(* section 3).                                                             *)

(* "a mid-merge error never leaves a half-written or corrupt output in     *)
(* place" (export/mbox.rs:46-47): the output of a process that reports     *)
(* success is what it was asked for.                                       *)
DoneIsWhole ==
    \A w \in Writers :
        pc[w] = "done" /\ IsSound(task[w], Files) => Fulfils(task[w], Files, Holds(task[w].output))

(* "so the merged archive stays traceable back to which mailbox each email *)
(* came from" (export/mbox.rs:29-30): mailboxes with different names have  *)
(* different labels.                                                       *)
LabelsAreTraceable ==
    \A w \in Writers :
        LET names == DisplayNames(task[w])
        IN  pc[w] = "reading" /\ task[w].label =>
                \A j, k \in DOMAIN names :
                    SourceLabels(task[w])[j] = SourceLabels(task[w])[k] => names[j] = names[k]
=============================================================================
