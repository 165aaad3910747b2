----------------------------- MODULE ExportsProofs -----------------------------
(***************************************************************************)
(* Theorems about the files of exports, for every mailbox, every way its   *)
(* names clash, every cache and every number of exports.                   *)
(***************************************************************************)
EXTENDS Exports, CountingProofs

(* A record that describes an export. *)
IsJob == DOMAIN job = DOMAIN Idle

(* unique_path gives up on the base: its numbers are all taken. *)
AllTaken(base) == \A i \in 0 .. MaxTries : Candidate(base, i) \in DOMAIN files

(* What unique_path may answer. *)
IsFreeName(path) ==
    \/ path \notin DOMAIN files
    \/ \E base \in DOMAIN files : path = Fallback(base) /\ AllTaken(base)

(* Between the choice of a name and the write nothing makes the name less  *)
(* free than it was.                                                       *)
StoreInv == IsJob /\ (job.pc = "store" => IsFreeName(job.path))

(* A step that leaves every file alone, but for the exceptions. *)
KeepsFiles ==
    \A f \in DOMAIN files :
        \/ f \in DOMAIN files' /\ files'[f] = files[f]
        \/ f = CsvPath
        \/ \E base \in DOMAIN files : f = Fallback(base) /\ AllTaken(base)

-----------------------------------------------------------------------------
(* unique_path: the least free number, or the last resort. *)
LEMMA UniquePathIsFree ==
  ASSUME NEW path
  PROVE  IsFreeName(UniquePath(path))
<1> DEFINE free == {i \in 0 .. MaxTries : Candidate(path, i) \notin DOMAIN files}
<1>1. MaxTries \in Nat
  BY ExportsAssumption
<1>2. CASE free = {}
  <2>1. AllTaken(path)
    BY <1>2 DEF AllTaken
  <2>2. Candidate(path, 0) = path
    BY DEF Candidate
  <2>3. path \in DOMAIN files
    BY <1>1, <2>1, <2>2 DEF AllTaken
  <2>4. UniquePath(path) = Fallback(path)
    BY <1>2 DEF UniquePath
  <2>5. QED
    BY <2>1, <2>3, <2>4 DEF IsFreeName
<1>3. CASE free # {}
  <2>1. free \subseteq Nat
    BY <1>1
  <2>2. \E i \in free : \A j \in free : i <= j
    <3> HIDE DEF free
    <3>1. QED
      BY <1>3, <2>1, HasLeast
  <2>3. (CHOOSE i \in free : \A j \in free : i <= j) \in free
    <3> HIDE DEF free
    <3>1. QED
      BY <2>2
  <2>4. UniquePath(path) = Candidate(path, CHOOSE i \in free : \A j \in free : i <= j)
    BY <1>3 DEF UniquePath
  <2>5. UniquePath(path) \notin DOMAIN files
    BY <2>3, <2>4
  <2>6. QED
    BY <2>5 DEF IsFreeName
<1>4. QED
  BY <1>2, <1>3

(* A step that writes no file and does not choose a name. *)
LEMMA QuietStep ==
  ASSUME StoreInv, files' = files, DOMAIN job' = DOMAIN Idle, job' = job \/ job'.pc # "store"
  PROVE  StoreInv' /\ KeepsFiles
<1>1. KeepsFiles
  BY DEF KeepsFiles
<1>2. IsFreeName(job.path) /\ job' = job => IsFreeName(job.path)'
  BY DEF IsFreeName, AllTaken, Candidate, Fallback
<1>3. QED
  BY <1>1, <1>2 DEF StoreInv, IsJob

-----------------------------------------------------------------------------
LEMMA StoreInvInitially == Init => StoreInv
  BY DEF Init, StoreInv, IsJob, Idle

(* The beginning of an export. *)
LEMMA BeginIsQuiet ==
  ASSUME NEW kind, NEW asked, NEW todo, NEW parts, Begin(kind, asked, todo, parts)
  PROVE  files' = files /\ DOMAIN job' = DOMAIN Idle /\ job'.pc # "store"
  BY DEF Begin, Idle

LEMMA ChoosePathStep ==
  ASSUME StoreInv, ChoosePath
  PROVE  StoreInv' /\ KeepsFiles
<1>1. files' = files
  BY DEF ChoosePath
<1>2. job' = [job EXCEPT !.pc = "store", !.path = UniquePath(job.path)]
  BY DEF ChoosePath
<1>3. DOMAIN job' = DOMAIN Idle
  BY <1>2 DEF StoreInv, IsJob
<1>4. job'.path = UniquePath(job.path)
  BY <1>2 DEF StoreInv, IsJob, Idle
<1>5. IsFreeName(job'.path)
  BY <1>4, UniquePathIsFree
<1>6. IsFreeName(job.path)'
  BY <1>1, <1>5 DEF IsFreeName, AllTaken, Candidate, Fallback
<1>7. KeepsFiles
  BY <1>1 DEF KeepsFiles
<1>8. QED
  BY <1>3, <1>6, <1>7 DEF StoreInv, IsJob

(* The write: the name was free, or it was the last resort. *)
LEMMA StoreStep ==
  ASSUME StoreInv, Store
  PROVE  StoreInv' /\ KeepsFiles
<1>1. IsFreeName(job.path)
  BY DEF StoreInv, Store
<1>2. PICK content : files' = [f \in DOMAIN files \cup {job.path} |-> IF f = job.path THEN content ELSE files[f]]
  BY DEF Store
<1>3. KeepsFiles
  BY <1>1, <1>2 DEF KeepsFiles, IsFreeName
<1>4. DOMAIN job' = DOMAIN Idle /\ job'.pc # "store"
  BY DEF Store, StoreInv, IsJob, Idle, Skipped, Failed, Formats, PageFormats
<1>5. QED
  BY <1>3, <1>4 DEF StoreInv, IsJob

LEMMA OtherSavesStep ==
  ASSUME StoreInv, OtherSaves
  PROVE  StoreInv' /\ KeepsFiles
<1>1. job.pc # "store" /\ job' = job
  BY DEF OtherSaves
<1>2. KeepsFiles
  BY DEF OtherSaves, KeepsFiles
<1>3. QED
  BY <1>1, <1>2 DEF StoreInv, IsJob

LEMMA NextCsvStep ==
  ASSUME StoreInv, NextCsv
  PROVE  StoreInv' /\ KeepsFiles
<1>1. KeepsFiles
  BY DEF NextCsv, KeepsFiles
<1>2. DOMAIN job' = DOMAIN Idle /\ job'.pc # "store"
  BY DEF NextCsv, NextOne, StoreInv, IsJob, Idle, Failed
<1>3. QED
  BY <1>1, <1>2 DEF StoreInv, IsJob

(* The steps between two files of an export. *)
LEMMA ReadingStep ==
  ASSUME StoreInv, NextEml \/ NextPage \/ NextMessage \/ NextPart \/ EndParts \/ EndExport
  PROVE  StoreInv' /\ KeepsFiles
<1>1. files' = files
  BY DEF NextEml, NextPage, NextMessage, NextPart, EndParts, EndExport
<1>2. DOMAIN job = {"pc", "kind", "asked", "todo", "parts", "path", "content", "saved", "skipped", "outcome"}
  BY DEF StoreInv, IsJob, Idle
<1>3. DOMAIN job' = DOMAIN job /\ job'.pc # "store"
  <2>1. CASE NextEml
    BY <1>2, <2>1 DEF NextEml, NextOne, Prepared, Failed
  <2>2. CASE NextPage
    BY <1>2, <2>2 DEF NextPage, NextOne, Prepared, Failed
  <2>3. CASE NextMessage
    BY <1>2, <2>3 DEF NextMessage, NextOne, Failed
  <2>4. CASE NextPart
    BY <1>2, <2>4 DEF NextPart, NextOne, Prepared, Skipped, Failed
  <2>5. CASE EndParts
    BY <1>2, <2>5 DEF EndParts, NextOne
  <2>6. CASE EndExport
    BY <1>2, <2>6 DEF EndExport
  <2>7. QED
    BY <2>1, <2>2, <2>3, <2>4, <2>5, <2>6
<1>4. QED
  BY <1>1, <1>3, QuietStep DEF StoreInv, IsJob

LEMMA EveryStep ==
  ASSUME StoreInv, [Next]_vars
  PROVE  StoreInv' /\ KeepsFiles
<1>1. DOMAIN job = DOMAIN Idle
  BY DEF StoreInv, IsJob
<1>2. CASE Select \/ Show \/ ToggleMark \/ ToggleVisible \/ Truncate \/ UNCHANGED vars
  <2>1. files' = files /\ job' = job
    BY <1>2 DEF Select, Show, ToggleMark, ToggleVisible, ListKey, Truncate, vars
  <2>2. QED
    BY <1>1, <2>1, QuietStep
<1>3. CASE ExportSelection \/ SaveAttachments \/ SaveOne \/ ExtractAll
  <2>1. \E kind, asked, todo, parts : Begin(kind, asked, todo, parts)
    BY <1>3 DEF ExportSelection, SaveAttachments, SaveAllAttachments, SaveOne,
                SaveSingleAttachment, ExtractAll
  <2>2. QED
    BY <2>1, BeginIsQuiet, QuietStep
<1>4. CASE NextEml \/ NextPage \/ NextMessage \/ NextPart \/ EndParts \/ EndExport
  BY <1>4, ReadingStep
<1>5. CASE OtherSaves
  BY <1>5, OtherSavesStep
<1>6. CASE NextCsv
  BY <1>6, NextCsvStep
<1>7. CASE ChoosePath
  BY <1>7, ChoosePathStep
<1>8. CASE Store
  BY <1>8, StoreStep
<1>9. QED
  BY <1>2, <1>3, <1>4, <1>5, <1>6, <1>7, <1>8 DEF Next

(* No export replaces a file, for every mailbox and every session, but for *)
(* the csv file and the last resort of unique_path                         *)
(* (export/attachment.rs:87-118).                                          *)
THEOREM ExportsReplaceNothing == Spec => NothingOverwritten
<1>1. Init => StoreInv
  BY StoreInvInitially
<1>2. StoreInv /\ [Next]_vars => StoreInv'
  BY EveryStep
<1>3. StoreInv /\ [Next]_vars => [KeepsFiles]_vars
  BY EveryStep
<1>4. [KeepsFiles]_vars =>
        [\A f \in DOMAIN files :
           \/ f \in DOMAIN files' /\ files'[f] = files[f]
           \/ f = CsvPath
           \/ \E base \in DOMAIN files :
                  f = Fallback(base) /\ \A i \in 0 .. MaxTries : Candidate(base, i) \in DOMAIN files]_vars
  BY DEF KeepsFiles, AllTaken
<1>5. QED
  BY <1>1, <1>2, <1>3, <1>4, PTL DEF Spec, NothingOverwritten

-----------------------------------------------------------------------------
(* What every export has of what it was asked for.                         *)

AttachmentKinds == {"attachments", "bulk", "one"}

Items ==
    {Made(format, m) : format \in Formats, m \in Entries}
    \cup {CsvRows(list) : list \in Seq(Entries)}
    \cup (Entries \X Nat)

Words ==
    (UNION {Range(BaseName[format][m]) : format \in Formats, m \in Entries})
    \cup (UNION {UNION {Range(Attachments[m][i]) : i \in DOMAIN Attachments[m]} : m \in Entries})
    \cup Int \cup {"attachment", "mboxshell_export.csv"}

Paths == ({Downloads} \cup {FolderName[m] : m \in Entries}) \X (Seq(Words) \ {<<>>})

(* The body on the screen is that of the row.                              *)
ViewInv ==
    /\ visible \in Seq(Entries) /\ marked \in SUBSET Entries /\ row \in Nat
    /\ current_body # <<>> => row \in DOMAIN visible /\ current_body = <<visible[row]>>

JobTypes ==
    /\ IsJob
    /\ job.kind \in Formats \cup AttachmentKinds \cup {"csv"}
    /\ job.asked \in SUBSET Entries /\ job.todo \in Seq(Entries) /\ job.parts \in Seq(Nat)
    /\ job.saved \in Seq(Paths) /\ Range(job.saved) \subseteq DOMAIN files /\ job.skipped \in Nat
    /\ job.pc \in {"idle", "message", "part", "path", "store"}
    /\ job.outcome \in {"none", "running", "failed", "done"}
    /\ job.pc # "idle" <=> job.outcome = "running"
    /\ DOMAIN files \subseteq Paths

(* What is at hand at each step.                                           *)
AtHand ==
    /\ job.pc = "part" => job.kind \in AttachmentKinds /\ job.todo # <<>>
    /\ job.pc \in {"path", "store"} =>
           /\ job.path \in Paths /\ job.kind # "csv" /\ job.todo # <<>>
           /\ job.kind \in AttachmentKinds => job.parts # <<>>
    /\ job.pc \notin {"idle", "message"} /\ job.kind \in AttachmentKinds =>
           \A k \in DOMAIN job.parts : job.parts[k] \in DOMAIN Attachments[Head(job.todo)]
    /\ job.kind = "one" => \E m \in Entries : job.asked = {m}
    /\ job.kind = "csv" /\ job.pc # "idle" => Len(job.saved) = IF job.todo = <<>> THEN 1 ELSE 0
    /\ job.kind \in PageFormats /\ job.pc # "idle" /\ marked = {} => job.todo \in {<<>>, current_body}

(* The items of the parts of a message. *)
ItemsOf(m, parts) == [i \in DOMAIN parts |-> <<m, parts[i]>>]

(* What the export still has to write.                                     *)
RestOf(kind, pc, todo, parts) ==
    CASE kind \in Formats -> WantedOf(kind, todo)
      [] kind = "csv" -> IF todo = <<>> THEN <<>> ELSE WantedOf("csv", todo)
      [] OTHER -> IF pc = "message" THEN WantedOf(kind, todo)
                  ELSE ItemsOf(Head(todo), parts) \o WantedOf(kind, Tail(todo))

Rest == RestOf(job.kind, job.pc, job.todo, job.parts)

(* What it may have been asked for: a single attachment is chosen by its   *)
(* number when the export begins.                                          *)
Targets ==
    IF job.kind = "one"
    THEN {<< <<m, i>> >> : m \in job.asked, i \in UNION {DOMAIN Attachments[m] : m \in job.asked}}
    ELSE {Wanted}

(* The files of the export hold the first items, in their order.           *)
Keeps(target, n) ==
    ~UsesFallback =>
        /\ \A i, j \in DOMAIN job.saved : job.saved[i] = job.saved[j] => i = j
        /\ IF job.kind = "bulk"
           THEN /\ IsSubsequence(SavedContents, SubSeq(target, 1, n))
                /\ Len(job.saved) + job.skipped = n
           ELSE SavedContents = SubSeq(target, 1, n)

IsProgress(target, n) ==
    /\ Keeps(target, n)
    /\ job.pc # "idle" => Rest = SubSeq(target, n + 1, Len(target))
    /\ job.pc \in {"path", "store"} => n < Len(target) /\ job.content = target[n + 1]
    /\ job.outcome = "done" => n = Len(target)

Progress ==
    job.outcome # "none" =>
        \E target \in Targets : \E n \in 0 .. Len(target) : IsProgress(target, n)

-----------------------------------------------------------------------------
(* Names and paths. *)

LEMMA NameIsSeq ==
  ASSUME NEW name, IsName(name), NEW W, Range(name) \subseteq W
  PROVE  name \in Seq(W)
<1>1. name \in [1 .. Len(name) -> W] /\ Len(name) \in Nat
  BY DEF IsName, Range
<1>2. QED
  BY <1>1

LEMMA BaseNames ==
  ASSUME NEW format \in Formats, NEW m \in Entries
  PROVE  <<Downloads, BaseName[format][m]>> \in Paths
<1>1. IsName(BaseName[format][m]) /\ BaseName[format][m] # <<>>
  BY NamesAssumption
<1>2. Range(BaseName[format][m]) \subseteq Words
  BY DEF Words
<1>3. BaseName[format][m] \in Seq(Words)
  BY <1>1, <1>2, NameIsSeq
<1>4. QED
  BY <1>1, <1>3 DEF Paths

LEMMA AttachmentFacts ==
  ASSUME NEW m \in Entries
  PROVE  /\ Len(Attachments[m]) \in Nat /\ DOMAIN Attachments[m] = 1 .. Len(Attachments[m])
         /\ \A i \in DOMAIN Attachments[m] :
                /\ <<Downloads, AttachmentName(m, i)>> \in Paths
                /\ <<FolderName[m], AttachmentName(m, i)>> \in Paths
<1>1. Len(Attachments[m]) \in Nat /\ DOMAIN Attachments[m] = 1 .. Len(Attachments[m])
  BY ExportsAssumption, NamesAssumption DEF IsName
<1>2. ASSUME NEW i \in DOMAIN Attachments[m]
      PROVE  AttachmentName(m, i) \in Seq(Words) /\ AttachmentName(m, i) # <<>>
  <2>1. CASE Attachments[m][i] = <<>>
    <3>1. "attachment" \in Words /\ i - 1 \in Words
      BY <1>1 DEF Words
    <3>2. AttachmentName(m, i) = <<"attachment", i - 1>>
      BY <2>1 DEF AttachmentName
    <3> HIDE DEF Words
    <3>3. QED
      BY <3>1, <3>2
  <2>2. CASE Attachments[m][i] # <<>>
    <3>1. IsName(Attachments[m][i])
      BY NamesAssumption
    <3>2. Range(Attachments[m][i]) \subseteq Words
      BY DEF Words
    <3>3. Attachments[m][i] \in Seq(Words)
      BY <3>1, <3>2, NameIsSeq
    <3>4. QED
      BY <2>2, <3>3 DEF AttachmentName
  <2>3. QED
    BY <2>1, <2>2
<1>3. QED
  BY <1>1, <1>2 DEF Paths

LEMMA NumberedPaths ==
  ASSUME NEW path \in Paths
  PROVE  /\ \A i \in Nat : Candidate(path, i) \in Paths
         /\ Fallback(path) \in Paths
         /\ Len(Fallback(path)[2]) > 1 /\ Last(Fallback(path)[2]) = Dup
         /\ UniquePath(path) \in Paths
<1> DEFINE Folders == {Downloads} \cup {FolderName[m] : m \in Entries}
<1>1. /\ path = <<path[1], path[2]>> /\ path[1] \in Folders
      /\ path[2] \in Seq(Words) /\ path[2] # <<>>
  BY DEF Paths
<1>2. Dup \in Words /\ Nat \subseteq Words
  BY DEF Words, Dup
<1> HIDE DEF Words, Folders
<1>3. Len(path[2]) \in Nat /\ Len(path[2]) > 0
  BY <1>1
<1>4. \A i \in Words : Append(path[2], i) \in Seq(Words) \ {<<>>}
  BY <1>1
<1>5. \A i \in Nat : Candidate(path, i) \in Paths
  BY <1>1, <1>2, <1>4 DEF Candidate, Paths, Folders
<1>6. Fallback(path) \in Paths
  BY <1>1, <1>2, <1>4 DEF Fallback, Paths, Folders
<1>7. /\ Len(Append(path[2], Dup)) = Len(path[2]) + 1
      /\ Append(path[2], Dup)[Len(path[2]) + 1] = Dup
  BY <1>1, <1>2
<1>8. Fallback(path)[2] = Append(path[2], Dup)
  BY DEF Fallback
<1>9. Len(Fallback(path)[2]) > 1 /\ Last(Fallback(path)[2]) = Dup
  BY <1>3, <1>7, <1>8 DEF Last
<1>10. UniquePath(path) \in Paths
  <2> DEFINE free == {i \in 0 .. MaxTries : Candidate(path, i) \notin DOMAIN files}
  <2>1. MaxTries \in Nat /\ free \subseteq Nat
    BY ExportsAssumption
  <2>2. CASE free = {}
    BY <1>6, <2>2 DEF UniquePath
  <2>3. CASE free # {}
    <3>1. UniquePath(path) = Candidate(path, CHOOSE i \in free : \A j \in free : i <= j)
      BY <2>3 DEF UniquePath
    <3> HIDE DEF free
    <3>2. \E i \in free : \A j \in free : i <= j
      BY <2>1, <2>3, HasLeast
    <3>3. (CHOOSE i \in free : \A j \in free : i <= j) \in free
      BY <3>2
    <3>4. QED
      BY <1>5, <2>1, <3>1, <3>3
  <2>4. QED
    BY <2>2, <2>3
<1>11. QED
  BY <1>5, <1>6, <1>9, <1>10

-----------------------------------------------------------------------------
(* What is wanted. *)

LEMMA EntriesAreNumbers ==
  /\ Entries \in SUBSET Nat /\ IsFiniteSet(Entries)
  /\ \A set \in SUBSET Entries : set \in SUBSET Nat /\ IsFiniteSet(set)
<1>1. N \in Nat
  BY ExportsAssumption
<1>2. IsFiniteSet(Entries) /\ Entries \in SUBSET Nat
  BY <1>1, FS_Interval DEF Entries
<1>3. QED
  BY <1>2, FS_Subset

LEMMA AscendingEntries ==
  ASSUME NEW set \in SUBSET Entries
  PROVE  /\ Ascending(set) \in Seq(Entries)
         /\ set # {} => Ascending(set) # <<>>
<1>1. set \in SUBSET Nat /\ IsFiniteSet(set)
  BY EntriesAreNumbers
<1>2. Ascending(set) \in Seq(set) /\ (set # {} => Ascending(set) # <<>>)
  BY <1>1, AscendingIsSeq
<1>3. QED
  BY <1>2

LEMMA MadeIsItem ==
  ASSUME NEW format \in Formats, NEW m \in Entries
  PROVE  Made(format, m) \in Items
  BY DEF Items

LEMMA WantedPages ==
  ASSUME NEW kind \in Formats, NEW list \in Seq(Entries)
  PROVE  /\ WantedOf(kind, list) \in Seq(Items)
         /\ Len(WantedOf(kind, list)) = Len(list)
         /\ \A k \in 1 .. Len(list) : WantedOf(kind, list)[k] = Made(kind, list[k])
         /\ list # <<>> => WantedOf(kind, Tail(list)) = Tail(WantedOf(kind, list))
<1> DEFINE Pages(l) == [k \in 1 .. Len(l) |-> Made(kind, l[k])]
<1>1. \A l \in Seq(Entries) : WantedOf(kind, l) = Pages(l)
  <2>1. ASSUME NEW l \in Seq(Entries)
        PROVE  WantedOf(kind, l) = Pages(l)
    <3>0. kind # "csv"
      BY DEF Formats, PageFormats
    <3>1. DOMAIN l = 1 .. Len(l)
      OBVIOUS
    <3>2. WantedOf(kind, l) = [k \in DOMAIN l |-> Made(kind, l[k])]
      BY <3>0 DEF WantedOf
    <3>3. QED
      BY <3>1, <3>2
  <2>2. QED
    BY <2>1
<1>2. \A l \in Seq(Entries) : \A k \in 1 .. Len(l) : l[k] \in Entries
  OBVIOUS
<1>3. \A m \in Entries : Made(kind, m) \in Items
  BY MadeIsItem
<1>4. \A l \in Seq(Entries) : Len(l) \in Nat
  OBVIOUS
<1>5. \A l \in Seq(Entries) : Pages(l) \in Seq(Items) /\ Len(Pages(l)) = Len(l)
  BY <1>2, <1>3, <1>4
<1>6. ASSUME list # <<>>
      PROVE  WantedOf(kind, Tail(list)) = Tail(WantedOf(kind, list))
  <2>1. /\ Tail(list) \in Seq(Entries) /\ Len(Tail(list)) = Len(list) - 1
        /\ \A k \in 1 .. Len(list) - 1 : Tail(list)[k] = list[k + 1]
    BY <1>6
  <2>2. Len(list) \in Nat /\ Len(list) > 0
    BY <1>6
  <2>3. Pages(Tail(list)) = [k \in 1 .. Len(list) - 1 |-> Made(kind, list[k + 1])]
    BY <2>1
  <2>4. Tail(Pages(list)) = [k \in 1 .. Len(list) - 1 |-> Pages(list)[k + 1]]
    <3> DEFINE pages == Pages(list)
    <3>1. pages \in Seq(Items) /\ Len(pages) = Len(list)
      BY <1>5
    <3> HIDE DEF pages
    <3>2. Tail(pages) = [k \in 1 .. Len(pages) - 1 |-> pages[k + 1]]
      BY <2>2, <3>1, TailIs
    <3>3. QED
      BY <3>1, <3>2 DEF pages
  <2>5. \A k \in 1 .. Len(list) - 1 : Pages(list)[k + 1] = Made(kind, list[k + 1])
    BY <2>2
  <2>6. QED
    BY <1>1, <2>1, <2>3, <2>4, <2>5
<1>7. QED
  BY <1>1, <1>5, <1>6

LEMMA PartsFacts ==
  ASSUME NEW m \in Entries
  PROVE  /\ PartsOf(m) \in Seq(Items) /\ Len(PartsOf(m)) = Len(Attachments[m])
         /\ \A i \in DOMAIN Attachments[m] : PartsOf(m)[i] = <<m, i>>
<1>1. Len(Attachments[m]) \in Nat /\ DOMAIN Attachments[m] = 1 .. Len(Attachments[m])
  BY AttachmentFacts
<1>2. \A i \in DOMAIN Attachments[m] : <<m, i>> \in Items
  BY <1>1 DEF Items
<1>3. QED
  BY <1>1, <1>2 DEF PartsOf

LEMMA WantedParts ==
  ASSUME NEW kind \in AttachmentKinds, NEW list \in Seq(Entries)
  PROVE  /\ WantedOf(kind, list) \in Seq(Items)
         /\ list = <<>> => WantedOf(kind, list) = <<>>
         /\ list # <<>> => WantedOf(kind, list) = PartsOf(Head(list)) \o WantedOf(kind, Tail(list))
<1> DEFINE Parts(l) == [k \in 1 .. Len(l) |-> PartsOf(l[k])]
<1>1. kind \notin Formats /\ kind # "csv"
  BY DEF AttachmentKinds, Formats, PageFormats
<1>2. \A l \in Seq(Entries) : WantedOf(kind, l) = FlattenSeq(Parts(l))
  BY <1>1 DEF WantedOf
<1>3. \A m \in Entries : PartsOf(m) \in Seq(Items)
  BY PartsFacts
<1>4. \A l \in Seq(Entries) : Parts(l) \in Seq(Seq(Items)) /\ Len(Parts(l)) = Len(l)
  <2>1. ASSUME NEW l \in Seq(Entries)
        PROVE  Parts(l) \in Seq(Seq(Items)) /\ Len(Parts(l)) = Len(l)
    <3>1. Len(l) \in Nat /\ \A k \in 1 .. Len(l) : l[k] \in Entries
      OBVIOUS
    <3> DEFINE Lists == Seq(Items)
    <3>2. \A k \in 1 .. Len(l) : PartsOf(l[k]) \in Lists
      BY <1>3, <3>1
    <3> HIDE DEF Lists
    <3>3. Parts(l) \in Seq(Lists) /\ Len(Parts(l)) = Len(l)
      BY <3>1, <3>2
    <3>4. QED
      BY <3>3 DEF Lists
  <2>2. QED
    BY <2>1
<1>5. WantedOf(kind, list) \in Seq(Items)
  <2> HIDE DEF Parts
  <2>1. QED
    BY <1>2, <1>4, FlattenType
<1>6. list = <<>> => WantedOf(kind, list) = <<>>
  <2>1. list = <<>> => Parts(list) = <<>>
    OBVIOUS
  <2>2. QED
    BY <1>2, <2>1, FlattenNothing
<1>7. ASSUME list # <<>>
      PROVE  WantedOf(kind, list) = PartsOf(Head(list)) \o WantedOf(kind, Tail(list))
  <2>1. /\ Tail(list) \in Seq(Entries) /\ Len(Tail(list)) = Len(list) - 1 /\ Len(list) \in Nat
        /\ \A k \in 1 .. Len(list) - 1 : Tail(list)[k] = list[k + 1]
        /\ Len(list) > 0 /\ Head(list) = list[1]
    BY <1>7
  <2>2. Parts(Tail(list)) = [k \in 1 .. Len(list) - 1 |-> PartsOf(list[k + 1])]
    BY <2>1
  <2> DEFINE parts == Parts(list)
  <2>3. /\ parts \in Seq(Seq(Items)) /\ Len(parts) = Len(list)
        /\ \A k \in 1 .. Len(list) : parts[k] = PartsOf(list[k])
    BY <1>4
  <2> HIDE DEF parts
  <2>4. parts # <<>> /\ Head(parts) = PartsOf(Head(list))
    BY <2>1, <2>3
  <2>5. Tail(parts) = [k \in 1 .. Len(list) - 1 |-> parts[k + 1]]
    BY <2>1, <2>3, <2>4, TailIs
  <2>6. Tail(parts) = Parts(Tail(list))
    BY <2>1, <2>2, <2>3, <2>5
  <2>7. FlattenSeq(parts) = Head(parts) \o FlattenSeq(Tail(parts))
    BY <2>3, <2>4, FlattenHead
  <2>8. WantedOf(kind, list) = FlattenSeq(parts)
    BY <1>2 DEF parts
  <2>9. WantedOf(kind, Tail(list)) = FlattenSeq(Tail(parts))
    BY <1>2, <2>1, <2>6
  <2>10. QED
    BY <2>4, <2>7, <2>8, <2>9
<1>8. QED
  BY <1>5, <1>6, <1>7

LEMMA WantedRows ==
  ASSUME NEW list \in Seq(Entries)
  PROVE  WantedOf("csv", list) = <<CsvRows(list)>> /\ CsvRows(list) \in Items
  BY DEF WantedOf, Formats, PageFormats, Items

-----------------------------------------------------------------------------
(* One item after the other. *)

LEMMA Ahead ==
  ASSUME NEW S, NEW target \in Seq(S), NEW n \in 0 .. Len(target),
         NEW rest, rest = SubSeq(target, n + 1, Len(target))
  PROVE  /\ rest = <<>> <=> n = Len(target)
         /\ n < Len(target) =>
                /\ n + 1 \in 0 .. Len(target)
                /\ rest[1] = target[n + 1] /\ Head(rest) = target[n + 1] /\ target[n + 1] \in S
                /\ Tail(rest) = SubSeq(target, (n + 1) + 1, Len(target))
                /\ SubSeq(target, 1, n + 1) = Append(SubSeq(target, 1, n), target[n + 1])
                /\ Len(SubSeq(target, 1, n)) = n
<1>1. Len(target) \in Nat /\ n \in Nat
  OBVIOUS
<1>2. rest \in Seq(S) /\ Len(rest) = Len(target) - n
      /\ \A i \in 1 .. Len(target) - n : rest[i] = target[n + i]
  <2> DEFINE sub == SubSeq(target, n + 1, Len(target))
  <2>1. \A i \in n + 1 .. Len(target) : target[i] \in S
    BY <1>1
  <2>2. /\ sub \in Seq(S)
        /\ Len(sub) = IF n + 1 <= Len(target) THEN Len(target) - (n + 1) + 1 ELSE 0
        /\ \A i \in 1 .. Len(target) - (n + 1) + 1 : sub[i] = target[(n + 1) + i - 1]
    <3>1. n + 1 \in Int /\ Len(target) \in Int
      BY <1>1
    <3>2. QED
      BY <2>1, <3>1, SubSeqProperties
  <2>0. rest = sub
    OBVIOUS
  <2> HIDE DEF sub
  <2>3. Len(target) - (n + 1) + 1 = Len(target) - n
        /\ \A i \in 1 .. Len(target) - n : (n + 1) + i - 1 = n + i
    BY <1>1
  <2>4. Len(sub) = Len(target) - n
    BY <1>1, <2>2
  <2>5. ASSUME NEW i \in 1 .. Len(target) - n
        PROVE  sub[i] = target[n + i]
    <3>1. i \in 1 .. Len(target) - (n + 1) + 1 /\ (n + 1) + i - 1 = n + i
      BY <2>3
    <3>2. sub[i] = target[(n + 1) + i - 1]
      BY <2>2, <3>1
    <3>3. QED
      BY <3>1, <3>2
  <2>6. QED
    BY <2>0, <2>2, <2>4, <2>5
<1>3. rest = <<>> <=> n = Len(target)
  <2>1. rest = <<>> <=> Len(rest) = 0
    BY <1>2, EmptySeq
  <2>2. Len(rest) = 0 <=> n = Len(target)
    BY <1>1, <1>2
  <2>3. QED
    BY <2>1, <2>2
<1>4. ASSUME n < Len(target)
      PROVE  /\ n + 1 \in 0 .. Len(target)
             /\ rest[1] = target[n + 1] /\ Head(rest) = target[n + 1] /\ target[n + 1] \in S
             /\ Tail(rest) = SubSeq(target, (n + 1) + 1, Len(target))
             /\ SubSeq(target, 1, n + 1) = Append(SubSeq(target, 1, n), target[n + 1])
             /\ Len(SubSeq(target, 1, n)) = n
  <2>1. rest # <<>> /\ n + 1 \in 1 .. Len(target)
    BY <1>1, <1>3, <1>4
  <2>2. rest[1] = target[n + 1] /\ Head(rest) = rest[1]
    BY <1>1, <1>2, <1>4
  <2>3. Tail(rest) = [i \in 1 .. Len(rest) - 1 |-> rest[i + 1]]
    BY <1>2, <2>1, TailIs
  <2>4. SubSeq(target, (n + 1) + 1, Len(target))
        = [i \in 1 .. Len(target) - (n + 1) |-> target[(n + 1) + i]]
    <3> DEFINE sub == SubSeq(target, (n + 1) + 1, Len(target))
    <3>1. sub \in Seq(S) /\ Len(sub) = Len(target) - (n + 1)
          /\ \A i \in 1 .. Len(target) - (n + 1) : sub[i] = target[(n + 1) + i]
      BY <1>1, <1>4
    <3> HIDE DEF sub
    <3>2. sub = [i \in 1 .. Len(sub) |-> sub[i]]
      BY <3>1
    <3>3. QED
      BY <3>1, <3>2 DEF sub
  <2>5. \A i \in 1 .. Len(rest) - 1 : rest[i + 1] = target[(n + 1) + i]
    BY <1>1, <1>2, <1>4
  <2>6. Len(rest) - 1 = Len(target) - (n + 1)
    BY <1>1, <1>2
  <2>7. Tail(rest) = SubSeq(target, (n + 1) + 1, Len(target))
    BY <2>3, <2>4, <2>5, <2>6
  <2>8. SubSeq(target, 1, n + 1) = Append(SubSeq(target, 1, n), target[n + 1])
    <3> DEFINE more == SubSeq(target, 1, n + 1)
               less == SubSeq(target, 1, n)
               both == Append(less, target[n + 1])
    <3>1. more \in Seq(S) /\ Len(more) = n + 1 /\ \A i \in 1 .. n + 1 : more[i] = target[i]
      BY <1>1, <1>4
    <3>2. less \in Seq(S) /\ Len(less) = n /\ \A i \in 1 .. n : less[i] = target[i]
      BY <1>1, <1>4
    <3>3. target[n + 1] \in S
      BY <2>1
    <3> HIDE DEF less, more
    <3>4. both \in Seq(S) /\ Len(both) = n + 1 /\ both[n + 1] = target[n + 1]
          /\ \A i \in 1 .. n : both[i] = less[i]
      BY <3>2, <3>3
    <3>5. \A i \in 1 .. n + 1 : both[i] = more[i]
      BY <1>1, <3>1, <3>2, <3>4
    <3> HIDE DEF both
    <3>6. both = [i \in 1 .. n + 1 |-> both[i]] /\ more = [i \in 1 .. n + 1 |-> more[i]]
      BY <3>1, <3>4
    <3>7. both = more
      BY <3>5, <3>6
    <3>8. QED
      BY <3>7 DEF both, less, more
  <2>9. n + 1 \in 0 .. Len(target) /\ target[n + 1] \in S /\ Len(SubSeq(target, 1, n)) = n
    BY <1>1, <1>4, <2>1
  <2>10. QED
    BY <2>2, <2>7, <2>8, <2>9
<1>5. QED
  BY <1>3, <1>4

(* A subsequence of an initial part is one of the whole and stays one when *)
(* the part grows, and it can be extended by what the part grows by.       *)
LEMMA SubsequenceGrows ==
  ASSUME NEW S, NEW target \in Seq(S), NEW n \in 0 .. Len(target),
         NEW part \in Seq(S), IsSubsequence(part, SubSeq(target, 1, n))
  PROVE  /\ IsSubsequence(part, target)
         /\ n < Len(target) =>
                /\ IsSubsequence(part, SubSeq(target, 1, n + 1))
                /\ IsSubsequence(Append(part, target[n + 1]), SubSeq(target, 1, n + 1))
<1>1. Len(target) \in Nat /\ n \in Nat /\ Len(part) \in Nat /\ DOMAIN part = 1 .. Len(part)
      /\ DOMAIN target = 1 .. Len(target)
  OBVIOUS
<1>2. \A k \in 0 .. Len(target) :
          /\ DOMAIN SubSeq(target, 1, k) = 1 .. k
          /\ \A i \in 1 .. k : SubSeq(target, 1, k)[i] = target[i]
  <2>1. ASSUME NEW k \in 0 .. Len(target)
        PROVE  /\ DOMAIN SubSeq(target, 1, k) = 1 .. k
               /\ \A i \in 1 .. k : SubSeq(target, 1, k)[i] = target[i]
    BY <1>1
  <2>2. QED
    BY <2>1
<1>3. PICK place \in [1 .. Len(part) -> 1 .. n] :
          /\ \A i, j \in 1 .. Len(part) : i < j => place[i] < place[j]
          /\ \A i \in 1 .. Len(part) : part[i] = SubSeq(target, 1, n)[place[i]]
  BY <1>1, <1>2 DEF IsSubsequence
<1>4. \A i \in 1 .. Len(part) : place[i] \in 1 .. n /\ part[i] = target[place[i]]
  BY <1>2, <1>3
<1>5. IsSubsequence(part, target)
  <2>1. place \in [DOMAIN part -> DOMAIN target]
    BY <1>1, <1>3
  <2>2. QED
    BY <1>1, <1>3, <1>4, <2>1 DEF IsSubsequence
<1>6. ASSUME n < Len(target)
      PROVE  IsSubsequence(part, SubSeq(target, 1, n + 1))
  <2>1. n + 1 \in 0 .. Len(target)
    BY <1>1, <1>6
  <2>2. place \in [DOMAIN part -> DOMAIN SubSeq(target, 1, n + 1)]
    BY <1>1, <1>2, <1>3, <2>1
  <2>3. \A i \in 1 .. Len(part) : part[i] = SubSeq(target, 1, n + 1)[place[i]]
    BY <1>1, <1>2, <1>4, <2>1
  <2>4. QED
    BY <1>1, <1>3, <2>2, <2>3 DEF IsSubsequence
<1>7. ASSUME n < Len(target)
      PROVE  IsSubsequence(Append(part, target[n + 1]), SubSeq(target, 1, n + 1))
  <2> DEFINE last == Len(part) + 1
             more == Append(part, target[n + 1])
             to == [i \in 1 .. last |-> IF i = last THEN n + 1 ELSE place[i]]
  <2>1. n + 1 \in 0 .. Len(target) /\ target[n + 1] \in S
    BY <1>1, <1>6, <1>7
  <2>2. /\ DOMAIN more = 1 .. last /\ more[last] = target[n + 1]
        /\ \A i \in 1 .. Len(part) : more[i] = part[i]
    BY <1>1, <2>1
  <2>3. \A i \in 1 .. last : i = last \/ i \in 1 .. Len(part)
    BY <1>1
  <2>4. to \in [1 .. last -> 1 .. n + 1]
    BY <1>1, <1>4, <2>3
  <2>5. \A i, j \in 1 .. last : i < j => to[i] < to[j]
    BY <1>1, <1>3, <1>4, <2>3
  <2>6. \A i \in 1 .. last : more[i] = SubSeq(target, 1, n + 1)[to[i]]
    <3>1. ASSUME NEW i \in 1 .. last
          PROVE  more[i] = SubSeq(target, 1, n + 1)[to[i]]
      <4>1. SubSeq(target, 1, n + 1)[to[i]] = target[to[i]]
        BY <1>2, <2>1, <2>4
      <4>2. CASE i = last
        BY <2>2, <4>1, <4>2
      <4>3. CASE i \in 1 .. Len(part)
        BY <1>1, <1>4, <2>2, <4>1, <4>3
      <4>4. QED
        BY <2>3, <4>2, <4>3
    <3>2. QED
      BY <3>1
  <2> HIDE DEF more, to, last
  <2>7. to \in [DOMAIN more -> DOMAIN SubSeq(target, 1, n + 1)]
    BY <1>2, <2>1, <2>2, <2>4
  <2>8. IsSubsequence(more, SubSeq(target, 1, n + 1))
    BY <2>2, <2>5, <2>6, <2>7 DEF IsSubsequence
  <2>9. QED
    BY <2>8 DEF more
<1>8. QED
  BY <1>5, <1>6, <1>7

(* The job and its files, as the proofs see them. *)
LEMMA JobFacts ==
  ASSUME JobTypes
  PROVE  /\ DOMAIN job = {"pc", "kind", "asked", "todo", "parts", "path", "content", "saved",
                          "skipped", "outcome"}
         /\ Len(job.saved) \in Nat /\ DOMAIN job.saved = 1 .. Len(job.saved)
         /\ \A k \in 1 .. Len(job.saved) :
                job.saved[k] \in Paths /\ job.saved[k] \in DOMAIN files
<1>1. IsJob /\ job.saved \in Seq(Paths) /\ Range(job.saved) \subseteq DOMAIN files
  BY DEF JobTypes
<1>2. Len(job.saved) \in Nat /\ DOMAIN job.saved = 1 .. Len(job.saved)
      /\ \A k \in 1 .. Len(job.saved) : job.saved[k] \in Paths
  BY <1>1
<1>3. \A k \in 1 .. Len(job.saved) : job.saved[k] \in DOMAIN files
  BY <1>1, <1>2 DEF Range
<1>4. QED
  BY <1>1, <1>2, <1>3 DEF IsJob, Idle

LEMMA TargetFacts ==
  ASSUME JobTypes, NEW target \in Targets
  PROVE  target \in Seq(Items) /\ (job.kind # "one" => target = Wanted)
<1>1. job.kind \in Formats \cup AttachmentKinds \cup {"csv"} /\ job.asked \in SUBSET Entries
  BY DEF JobTypes
<1>2. CASE job.kind = "one"
  <2>1. PICK m \in job.asked : \E i \in UNION {DOMAIN Attachments[e] : e \in job.asked} :
            target = << <<m, i>> >>
    BY <1>2 DEF Targets
  <2>2. PICK e \in job.asked : \E i \in DOMAIN Attachments[e] : target = << <<m, i>> >>
    BY <2>1
  <2>3. PICK i \in DOMAIN Attachments[e] : target = << <<m, i>> >>
    BY <2>2
  <2>4. i \in Nat
    BY <1>1, AttachmentFacts
  <2>5. <<m, i>> \in Items
    BY <1>1, <2>4 DEF Items
  <2>6. QED
    BY <1>2, <2>3, <2>5
<1>3. CASE job.kind # "one"
  <2>1. target = WantedOf(job.kind, Ascending(job.asked))
    BY <1>3 DEF Targets, Wanted
  <2>2. Ascending(job.asked) \in Seq(Entries)
    BY <1>1, AscendingEntries
  <2>3. WantedOf(job.kind, Ascending(job.asked)) \in Seq(Items)
    <3>1. CASE job.kind \in Formats
      BY <2>2, <3>1, WantedPages
    <3>2. CASE job.kind \in AttachmentKinds
      BY <2>2, <3>2, WantedParts
    <3>3. CASE job.kind = "csv"
      <4>1. WantedOf("csv", Ascending(job.asked)) = <<CsvRows(Ascending(job.asked))>>
            /\ CsvRows(Ascending(job.asked)) \in Items
        BY <2>2, WantedRows
      <4> DEFINE rows == CsvRows(Ascending(job.asked))
      <4> HIDE DEF rows
      <4>2. <<rows>> \in Seq(Items)
        BY <4>1 DEF rows
      <4>3. QED
        BY <3>3, <4>1, <4>2 DEF rows
    <3>4. QED
      BY <1>1, <3>1, <3>2, <3>3
  <2>4. QED
    BY <1>3, <2>1, <2>3 DEF Targets
<1>4. QED
  BY <1>2, <1>3

(* The files of an export are left alone. *)
SavedKept == \A f \in Range(job.saved) : f \in DOMAIN files' /\ files'[f] = files[f]

LEMMA ContentsKept ==
  ASSUME JobTypes, SavedKept \/ UsesFallback', NEW target, NEW n, Keeps(target, n),
         job'.saved = job.saved, job'.kind = job.kind, job'.skipped = job.skipped
  PROVE  Keeps(target, n)'
<1>1. SavedKept => SavedContents' = SavedContents
  BY JobFacts DEF SavedContents, SavedKept, Range
<1>2. UsesFallback' = UsesFallback
  BY DEF UsesFallback
<1>3. QED
  BY <1>1, <1>2 DEF Keeps

LEMMA SameTargets ==
  ASSUME job'.kind = job.kind, job'.asked = job.asked
  PROVE  Targets' = Targets
  BY DEF Targets, Wanted

(* A step that writes nothing for the export. *)
LEMMA ProgressKept ==
  ASSUME JobTypes, Progress, SavedKept \/ UsesFallback',
         job.outcome # "none",
         job'.saved = job.saved, job'.kind = job.kind, job'.skipped = job.skipped,
         job'.asked = job.asked,
         job'.pc # "idle" => job.pc # "idle" /\ Rest' = Rest,
         job'.pc \in {"path", "store"} =>
             \/ job.pc \in {"path", "store"} /\ job'.content = job.content
             \/ Rest # <<>> /\ job'.content = Head(Rest),
         job'.outcome = "done" => job.outcome = "done" \/ (job.pc # "idle" /\ Rest = <<>>)
  PROVE  Progress'
<1>1. PICK target \in Targets : \E n \in 0 .. Len(target) : IsProgress(target, n)
  BY DEF Progress
<1>2. PICK n \in 0 .. Len(target) : IsProgress(target, n)
  BY <1>1
<1>3. target \in Seq(Items)
  BY TargetFacts
<1>4. Len(target) \in Nat /\ n \in Nat
  BY <1>3
<1>5. Keeps(target, n)'
  <2>1. Keeps(target, n)
    BY <1>2 DEF IsProgress
  <2>2. QED
    BY <2>1, ContentsKept
<1>6. job.pc # "idle" => Rest = SubSeq(target, n + 1, Len(target))
  BY <1>2 DEF IsProgress
<1>7. ASSUME job.pc # "idle"
      PROVE  /\ Rest = <<>> => n = Len(target)
             /\ Rest # <<>> => n < Len(target) /\ Head(Rest) = target[n + 1]
  <2>1. Rest = <<>> <=> n = Len(target)
    BY <1>3, <1>6, <1>7, Ahead
  <2>2. Rest # <<>> => n < Len(target)
    BY <1>4, <2>1
  <2>3. n < Len(target) => Head(Rest) = target[n + 1]
    BY <1>3, <1>6, <1>7, Ahead
  <2>4. QED
    BY <2>1, <2>2, <2>3
<1>8. job'.pc # "idle" => Rest' = SubSeq(target, n + 1, Len(target))
  BY <1>6
<1>9. job'.pc \in {"path", "store"} => n < Len(target) /\ job'.content = target[n + 1]
  BY <1>2, <1>7 DEF IsProgress
<1>10. job'.outcome = "done" => n = Len(target)
  BY <1>2, <1>7 DEF IsProgress
<1>11. IsProgress(target, n)'
  BY <1>5, <1>8, <1>9, <1>10 DEF IsProgress
<1>12. target \in Targets'
  BY SameTargets
<1>13. QED
  BY <1>11, <1>12 DEF Progress

LEMMA BulkContents ==
  ASSUME JobTypes, NEW target \in Seq(Items), NEW n \in 0 .. Len(target),
         IsSubsequence(SavedContents, SubSeq(target, 1, n))
  PROVE  SavedContents \in Seq(Items)
<1>1. DOMAIN SubSeq(target, 1, n) = 1 .. n
      /\ \A i \in 1 .. n : SubSeq(target, 1, n)[i] \in Items
  BY SubSeqProperties
<1>2. \A k \in DOMAIN SavedContents : SavedContents[k] \in Items
  BY <1>1 DEF IsSubsequence
<1>3. DOMAIN SavedContents = 1 .. Len(job.saved)
      /\ SavedContents = [k \in 1 .. Len(job.saved) |-> SavedContents[k]]
  BY JobFacts DEF SavedContents
<1>4. QED
  BY <1>2, <1>3, JobFacts

(* A step that writes the next item, or leaves it out. *)
LEMMA ProgressMade ==
  ASSUME JobTypes, Progress,
         job.outcome = "running", job.pc # "idle", Rest # <<>>,
         job'.kind = job.kind, job'.asked = job.asked, Rest' = Tail(Rest),
         job'.pc \notin {"path", "store"}, job'.outcome = "running",
         \/ UsesFallback'
         \/ /\ SavedKept /\ job'.saved = job.saved
            /\ job.kind = "bulk" /\ job'.skipped = job.skipped + 1
         \/ /\ SavedKept /\ job'.skipped = job.skipped
            /\ \E path : /\ job'.saved = Append(job.saved, path)
                         /\ path \notin Range(job.saved) /\ path \in Paths
                         /\ files'[path] = Head(Rest)
  PROVE  Progress'
<1>1. PICK target \in Targets : \E n \in 0 .. Len(target) : IsProgress(target, n)
  BY DEF Progress
<1>2. PICK n \in 0 .. Len(target) : IsProgress(target, n)
  BY <1>1
<1>3. target \in Seq(Items)
  BY TargetFacts
<1>4. Len(target) \in Nat /\ n \in Nat
  BY <1>3
<1>5. Rest = SubSeq(target, n + 1, Len(target))
  BY <1>2 DEF IsProgress
<1>6. n < Len(target)
  <2>1. n # Len(target)
    BY <1>3, <1>5, Ahead
  <2>2. QED
    BY <1>4, <2>1
<1>7. /\ n + 1 \in 0 .. Len(target) /\ Head(Rest) = target[n + 1] /\ target[n + 1] \in Items
      /\ Rest' = SubSeq(target, (n + 1) + 1, Len(target))
      /\ SubSeq(target, 1, n + 1) = Append(SubSeq(target, 1, n), target[n + 1])
      /\ Len(SubSeq(target, 1, n)) = n
  BY <1>3, <1>5, <1>6, Ahead
<1>8. ASSUME ~UsesFallback'
      PROVE  Keeps(target, n + 1)'
  <2>1. Range(job.saved) \subseteq Range(job'.saved)
    <3>1. CASE job'.saved = job.saved
      BY <3>1
    <3>2. CASE \E path : path \in Paths /\ job'.saved = Append(job.saved, path)
      <4>1. PICK path \in Paths : job'.saved = Append(job.saved, path)
        BY <3>2
      <4>2. job.saved \in Seq(Paths)
        BY DEF JobTypes
      <4>3. DOMAIN job.saved \subseteq DOMAIN job'.saved
            /\ \A k \in DOMAIN job.saved : job'.saved[k] = job.saved[k]
        BY <4>1, <4>2
      <4>4. QED
        BY <4>3 DEF Range
    <3>3. QED
      BY <1>8, <3>1, <3>2
  <2>2. ~UsesFallback
    BY <1>8, <2>1 DEF UsesFallback
  <2>3. /\ \A i, j \in DOMAIN job.saved : job.saved[i] = job.saved[j] => i = j
        /\ IF job.kind = "bulk"
           THEN /\ IsSubsequence(SavedContents, SubSeq(target, 1, n))
                /\ Len(job.saved) + job.skipped = n
           ELSE SavedContents = SubSeq(target, 1, n)
    BY <1>2, <2>2 DEF IsProgress, Keeps
  <2>4. job.skipped \in Nat
    BY DEF JobTypes
  <2>5. job.kind = "bulk" => SavedContents \in Seq(Items)
    BY <1>3, <2>3, BulkContents
  <2>6. CASE /\ SavedKept /\ job'.saved = job.saved
             /\ job.kind = "bulk" /\ job'.skipped = job.skipped + 1
    <3>1. SavedContents' = SavedContents
      BY <2>6, JobFacts DEF SavedContents, SavedKept, Range
    <3>2. IsSubsequence(SavedContents, SubSeq(target, 1, n + 1))
      BY <1>3, <1>6, <2>3, <2>5, <2>6, SubsequenceGrows
    <3>3. Len(job'.saved) + job'.skipped = n + 1
      <4>1. Len(job.saved) \in Nat
        BY JobFacts
      <4>2. Len(job.saved) + job.skipped = n
        BY <2>3, <2>6
      <4>3. QED
        BY <2>4, <2>6, <4>1, <4>2
    <3>4. QED
      BY <2>3, <2>6, <3>1, <3>2, <3>3 DEF Keeps
  <2>7. CASE /\ SavedKept /\ job'.skipped = job.skipped
             /\ \E path : /\ job'.saved = Append(job.saved, path)
                          /\ path \notin Range(job.saved) /\ path \in Paths
                          /\ files'[path] = Head(Rest)
    <3>1. PICK path \in Paths : /\ job'.saved = Append(job.saved, path)
                                /\ path \notin Range(job.saved)
                                /\ files'[path] = target[n + 1]
      BY <1>7, <2>7
    <3> DEFINE last == Len(job.saved)
    <3>2. /\ last \in Nat /\ DOMAIN job.saved = 1 .. last /\ Len(job'.saved) = last + 1
          /\ DOMAIN job'.saved = 1 .. last + 1
          /\ \A k \in 1 .. last : job'.saved[k] = job.saved[k]
          /\ job'.saved[last + 1] = path
      <4>1. job.saved \in Seq(Paths)
        BY DEF JobTypes
      <4>2. QED
        BY <3>1, <4>1
    <3>3. \A k \in 1 .. last : job.saved[k] # path
      BY <3>1, <3>2 DEF Range
    <3>4. \A i \in 1 .. last + 1 : i = last + 1 \/ i \in 1 .. last
      BY <3>2
    <3>5. \A i, j \in DOMAIN job'.saved : job'.saved[i] = job'.saved[j] => i = j
      <4> HIDE DEF last
      <4>1. \A i, j \in 1 .. last : job.saved[i] = job.saved[j] => i = j
        BY <2>3, <3>2
      <4>2. QED
        BY <3>2, <3>3, <3>4, <4>1
    <3>6. SavedContents' = Append(SavedContents, target[n + 1])
      <4> DEFINE more == Append(SavedContents, target[n + 1])
      <4>1. SavedContents = [k \in 1 .. last |-> files[job.saved[k]]]
        BY <3>2 DEF SavedContents
      <4>2. SavedContents' = [k \in 1 .. last + 1 |-> files'[job'.saved[k]]]
        BY <3>2 DEF SavedContents
      <4>3. \A k \in 1 .. last : files'[job'.saved[k]] = files[job.saved[k]]
        BY <2>7, <3>2 DEF SavedKept, Range
      <4>4. more = [k \in 1 .. last + 1 |-> IF k = last + 1 THEN target[n + 1] ELSE SavedContents[k]]
        <5>1. Len(SavedContents) = last
          BY <3>2, <4>1
        <5>2. QED
          BY <5>1 DEF Append
      <4>5. \A k \in 1 .. last + 1 :
                files'[job'.saved[k]] = IF k = last + 1 THEN target[n + 1] ELSE SavedContents[k]
        <5> HIDE DEF last
        <5>1. QED
          BY <3>1, <3>2, <3>4, <4>1, <4>3
      <4>6. QED
        BY <4>2, <4>4, <4>5
    <3>7. CASE job.kind = "bulk"
      <4>1. IsSubsequence(SavedContents', SubSeq(target, 1, n + 1))
        BY <1>3, <1>6, <2>3, <2>5, <3>6, <3>7, SubsequenceGrows
      <4>2. Len(job'.saved) + job'.skipped = n + 1
        BY <2>3, <2>4, <2>7, <3>2, <3>7
      <4>3. QED
        BY <3>5, <3>7, <4>1, <4>2 DEF Keeps
    <3>8. CASE job.kind # "bulk"
      <4>1. SavedContents' = SubSeq(target, 1, n + 1)
        BY <1>7, <2>3, <3>6, <3>8
      <4>2. QED
        BY <3>5, <3>8, <4>1 DEF Keeps
    <3>9. QED
      BY <3>7, <3>8
  <2>8. QED
    BY <1>8, <2>6, <2>7
<1>9. Keeps(target, n + 1)'
  BY <1>8 DEF Keeps
<1>10. IsProgress(target, n + 1)'
  BY <1>7, <1>9 DEF IsProgress
<1>11. target \in Targets'
  BY SameTargets
<1>12. QED
  BY <1>7, <1>10, <1>11 DEF Progress

-----------------------------------------------------------------------------
(* What is left to write at each step. *)

LEMMA ConcatHeadTail ==
  ASSUME NEW S, NEW x \in Seq(S), x # <<>>, NEW y \in Seq(S)
  PROVE  x \o y # <<>> /\ Head(x \o y) = Head(x) /\ Tail(x \o y) = Tail(x) \o y
<1> DEFINE z == x \o y
           t == Tail(x)
           u == t \o y
<1>1. /\ z \in Seq(S) /\ Len(z) = Len(x) + Len(y) /\ Len(x) \in Nat /\ Len(y) \in Nat
      /\ Len(x) > 0
      /\ \A i \in 1 .. Len(x) : z[i] = x[i]
      /\ \A i \in 1 .. Len(y) : z[Len(x) + i] = y[i]
  OBVIOUS
<1>2. t \in Seq(S) /\ Len(t) = Len(x) - 1 /\ \A i \in 1 .. Len(x) - 1 : t[i] = x[i + 1]
  OBVIOUS
<1> HIDE DEF t, z
<1>3. /\ u \in Seq(S) /\ Len(u) = Len(t) + Len(y)
      /\ \A i \in 1 .. Len(t) : u[i] = t[i]
      /\ \A i \in 1 .. Len(y) : u[Len(t) + i] = y[i]
  <2>1. t \in Seq(S) /\ Len(t) \in Nat /\ Len(y) \in Nat
    BY <1>1, <1>2
  <2>2. /\ t \o y \in Seq(S) /\ Len(t \o y) = Len(t) + Len(y)
        /\ \A i \in 1 .. Len(t) + Len(y) :
               (t \o y)[i] = IF i <= Len(t) THEN t[i] ELSE y[i - Len(t)]
    BY <2>1, ConcatProperties
  <2>3. \A i \in 1 .. Len(t) : i \in 1 .. Len(t) + Len(y) /\ i <= Len(t)
    BY <2>1
  <2>4. \A i \in 1 .. Len(y) :
            Len(t) + i \in 1 .. Len(t) + Len(y) /\ ~(Len(t) + i <= Len(t)) /\ (Len(t) + i) - Len(t) = i
    BY <2>1
  <2> HIDE DEF u
  <2>5. u = t \o y
    BY DEF u
  <2>6. QED
    BY <2>2, <2>3, <2>4, <2>5
<1> HIDE DEF u
<1>4. z # <<>> /\ Head(z) = z[1] /\ Head(x) = x[1]
  BY <1>1
<1>5. Tail(z) = [k \in 1 .. Len(z) - 1 |-> z[k + 1]]
  BY <1>1, <1>4, TailIs
<1>6. u = [k \in 1 .. Len(u) |-> u[k]]
  BY <1>3
<1>7. Len(u) = Len(z) - 1
  BY <1>1, <1>2, <1>3
<1>8. ASSUME NEW k \in 1 .. Len(u)
      PROVE  u[k] = z[k + 1]
  <2>1. CASE k \in 1 .. Len(t)
    <3>1. k \in 1 .. Len(x) - 1 /\ k + 1 \in 1 .. Len(x)
      BY <1>1, <1>2, <2>1
    <3>2. QED
      BY <1>1, <1>2, <1>3, <2>1, <3>1
  <2>2. CASE k \notin 1 .. Len(t)
    <3> DEFINE i == k - Len(t)
    <3>1. i \in 1 .. Len(y) /\ k = Len(t) + i /\ k + 1 = Len(x) + i
      BY <1>1, <1>2, <1>3, <2>2
    <3>2. u[Len(t) + i] = y[i] /\ z[Len(x) + i] = y[i]
      BY <1>1, <1>3, <3>1
    <3>3. QED
      BY <3>1, <3>2
  <2>3. QED
    BY <2>1, <2>2
<1>9. Tail(z) = u
  BY <1>5, <1>6, <1>7, <1>8
<1>10. Head(z) = Head(x)
  BY <1>1, <1>4
<1>11. QED
  BY <1>4, <1>9, <1>10 DEF z, u, t

LEMMA ItemsOfParts ==
  ASSUME NEW m \in Entries, NEW parts \in Seq(Nat)
  PROVE  /\ ItemsOf(m, parts) \in Seq(Items)
         /\ parts = <<>> => ItemsOf(m, parts) = <<>>
         /\ parts # <<>> => /\ ItemsOf(m, parts) # <<>>
                            /\ Head(ItemsOf(m, parts)) = <<m, Head(parts)>>
                            /\ Tail(ItemsOf(m, parts)) = ItemsOf(m, Tail(parts))
<1> DEFINE items == ItemsOf(m, parts)
<1>1. Len(parts) \in Nat /\ DOMAIN parts = 1 .. Len(parts) /\ \A i \in 1 .. Len(parts) : parts[i] \in Nat
  OBVIOUS
<1>2. \A i \in 1 .. Len(parts) : <<m, parts[i]>> \in Items
  BY <1>1 DEF Items
<1>3. items = [i \in 1 .. Len(parts) |-> <<m, parts[i]>>]
  BY <1>1 DEF ItemsOf
<1>4. items \in Seq(Items) /\ Len(items) = Len(parts)
      /\ \A i \in 1 .. Len(parts) : items[i] = <<m, parts[i]>>
  <2> HIDE DEF items
  <2>1. QED
    BY <1>1, <1>2, <1>3
<1> HIDE DEF items
<1>5. parts = <<>> => items = <<>>
  BY <1>1, <1>4
<1>6. ASSUME parts # <<>>
      PROVE  /\ items # <<>> /\ Head(items) = <<m, Head(parts)>>
             /\ Tail(items) = ItemsOf(m, Tail(parts))
  <2>1. Len(parts) > 0 /\ Head(parts) = parts[1]
    BY <1>6
  <2>2. items # <<>> /\ Head(items) = items[1]
    BY <1>1, <1>4, <2>1
  <2>3. Tail(items) = [k \in 1 .. Len(parts) - 1 |-> items[k + 1]]
    BY <1>4, <2>2, TailIs
  <2>4. Tail(parts) = [k \in 1 .. Len(parts) - 1 |-> parts[k + 1]]
    BY <1>6, TailIs
  <2>5. ItemsOf(m, Tail(parts)) = [k \in 1 .. Len(parts) - 1 |-> <<m, parts[k + 1]>>]
    BY <2>4 DEF ItemsOf
  <2>6. \A k \in 1 .. Len(parts) - 1 : items[k + 1] = <<m, parts[k + 1]>>
    BY <1>1, <1>4
  <2>7. Tail(items) = ItemsOf(m, Tail(parts))
    BY <2>3, <2>5, <2>6
  <2>8. Head(items) = <<m, Head(parts)>>
    BY <1>1, <1>4, <2>1, <2>2
  <2>9. QED
    BY <2>2, <2>7, <2>8
<1>7. QED
  BY <1>4, <1>5, <1>6 DEF items

(* The next item of an export, and what is left after it. *)
LEMMA PartAhead ==
  ASSUME JobTypes, job.kind \in AttachmentKinds, job.pc # "message",
         job.todo # <<>>, job.parts # <<>>
  PROVE  /\ Rest # <<>> /\ Head(Rest) = <<Head(job.todo), Head(job.parts)>>
         /\ Tail(Rest) = RestOf(job.kind, "part", job.todo, Tail(job.parts))
<1> DEFINE later == WantedOf(job.kind, Tail(job.todo))
           now == ItemsOf(Head(job.todo), job.parts)
<1>1. job.todo \in Seq(Entries) /\ job.parts \in Seq(Nat)
  BY DEF JobTypes
<1>2. Head(job.todo) \in Entries /\ Tail(job.todo) \in Seq(Entries)
  BY <1>1
<1>3. later \in Seq(Items)
  BY <1>2, WantedParts
<1>4. /\ now \in Seq(Items) /\ now # <<>> /\ Head(now) = <<Head(job.todo), Head(job.parts)>>
      /\ Tail(now) = ItemsOf(Head(job.todo), Tail(job.parts))
  BY <1>1, <1>2, ItemsOfParts
<1>5. job.kind \notin Formats /\ job.kind # "csv"
  BY DEF AttachmentKinds, Formats, PageFormats
<1>6. /\ Rest = now \o later
      /\ RestOf(job.kind, "part", job.todo, Tail(job.parts))
             = ItemsOf(Head(job.todo), Tail(job.parts)) \o later
  BY <1>5 DEF Rest, RestOf
<1> HIDE DEF now, later
<1>7. now \o later # <<>> /\ Head(now \o later) = Head(now) /\ Tail(now \o later) = Tail(now) \o later
  BY <1>3, <1>4, ConcatHeadTail
<1>8. QED
  BY <1>4, <1>6, <1>7

LEMMA PageAhead ==
  ASSUME JobTypes, job.kind \in Formats, job.todo # <<>>
  PROVE  /\ Rest # <<>> /\ Head(Rest) = Made(job.kind, Head(job.todo))
         /\ \A pc, parts : Tail(Rest) = RestOf(job.kind, pc, Tail(job.todo), parts)
<1> DEFINE wanted == WantedOf(job.kind, job.todo)
<1>1. job.todo \in Seq(Entries)
  BY DEF JobTypes
<1>2. /\ Rest = wanted
      /\ \A pc, parts :
             RestOf(job.kind, pc, Tail(job.todo), parts) = WantedOf(job.kind, Tail(job.todo))
  BY DEF Rest, RestOf, Formats, PageFormats
<1>3. /\ wanted \in Seq(Items) /\ Len(wanted) = Len(job.todo)
      /\ \A k \in 1 .. Len(job.todo) : wanted[k] = Made(job.kind, job.todo[k])
      /\ WantedOf(job.kind, Tail(job.todo)) = Tail(wanted)
  BY <1>1, WantedPages
<1> HIDE DEF wanted
<1>4. wanted # <<>> /\ Head(wanted) = Made(job.kind, Head(job.todo))
  BY <1>1, <1>3
<1>5. QED
  BY <1>2, <1>3, <1>4

(* All that is wanted is left when an export begins. *)
LEMMA AllAtFirst ==
  ASSUME NEW kind \in Formats \cup AttachmentKinds \cup {"csv"}, NEW todo \in Seq(Entries),
         kind = "csv" => todo # <<>>, NEW parts
  PROVE  /\ RestOf(kind, "message", todo, parts) = WantedOf(kind, todo)
         /\ WantedOf(kind, todo) \in Seq(Items)
<1>1. RestOf(kind, "message", todo, parts) = WantedOf(kind, todo)
  BY DEF RestOf, Formats, PageFormats, AttachmentKinds
<1>2. CASE kind \in Formats
  BY <1>1, <1>2, WantedPages
<1>3. CASE kind \in AttachmentKinds
  BY <1>1, <1>3, WantedParts
<1>4. CASE kind = "csv"
  <2> DEFINE rows == CsvRows(todo)
  <2>1. WantedOf("csv", todo) = <<rows>> /\ rows \in Items
    BY WantedRows
  <2> HIDE DEF rows
  <2>2. <<rows>> \in Seq(Items)
    BY <2>1
  <2>3. QED
    BY <1>1, <1>4, <2>1, <2>2
<1>5. QED
  BY <1>2, <1>3, <1>4

LEMMA OneAtFirst ==
  ASSUME NEW m \in Entries, NEW i \in Nat
  PROVE  /\ RestOf("one", "part", <<m>>, <<i>>) = << <<m, i>> >>
         /\ << <<m, i>> >> \in Seq(Items)
<1> DEFINE item == <<m, i>>
           todo == <<m>>
           parts == <<i>>
<1>1. item \in Items /\ "one" \in AttachmentKinds
  BY DEF Items, AttachmentKinds
<1>2. todo \in Seq(Entries) /\ todo # <<>> /\ Head(todo) = m /\ Tail(todo) = <<>>
  OBVIOUS
<1>3. parts \in Seq(Nat) /\ ItemsOf(m, parts) = <<item>>
  BY DEF ItemsOf
<1>4. WantedOf("one", <<>>) = <<>>
  <2>1. <<>> \in Seq(Entries)
    OBVIOUS
  <2>2. QED
    BY <1>1, <2>1, WantedParts
<1> HIDE DEF item, todo, parts
<1>5. RestOf("one", "part", todo, parts) = ItemsOf(Head(todo), parts) \o WantedOf("one", Tail(todo))
  BY DEF RestOf, AttachmentKinds, Formats, PageFormats
<1>6. RestOf("one", "part", todo, parts) = <<item>> \o <<>>
  BY <1>2, <1>3, <1>4, <1>5
<1>7. <<item>> \o <<>> = <<item>> /\ <<item>> \in Seq(Items)
  BY <1>1
<1>8. QED
  BY <1>6, <1>7 DEF item, todo, parts

-----------------------------------------------------------------------------
(* The inductive invariant, action by action.                              *)

JobInv == JobTypes /\ AtHand /\ Progress

ExportInv == StoreInv /\ ViewInv /\ JobInv

LEMMA ExportInitially == Init => ExportInv
<1>1. ASSUME Init
      PROVE  ExportInv
  <2>1. N \in Nat \ {0} /\ 1 \in Entries
    BY ExportsAssumption DEF Entries
  <2>2. visible \in Seq(Entries) /\ visible[1] = 1 /\ 1 \in DOMAIN visible
    BY <1>1, <2>1 DEF Init, AllEntries, Entries
  <2>3. ViewInv
    BY <1>1, <2>2 DEF Init, ViewInv
  <2>4. job = Idle /\ files = << >>
    BY <1>1 DEF Init
  <2>5. JobTypes
    BY <2>4 DEF JobTypes, IsJob, Idle, Range, Formats
  <2>6. AtHand /\ Progress
    BY <2>4 DEF AtHand, Progress, Idle, AttachmentKinds, PageFormats
  <2>7. QED
    BY <1>1, <2>3, <2>5, <2>6, StoreInvInitially DEF ExportInv, JobInv
<1>2. QED
  BY <1>1

(* A step that leaves the export alone. *)
LEMMA JobLeft ==
  ASSUME JobInv, job' = job,
         \A f \in DOMAIN files : f \in DOMAIN files' /\ files'[f] = files[f],
         DOMAIN files' \subseteq Paths,
         job.pc = "idle" \/ (marked' = marked /\ current_body' = current_body)
  PROVE  JobInv'
<1>1. JobTypes /\ AtHand /\ Progress
  BY DEF JobInv
<1>2. SavedKept
  BY <1>1 DEF SavedKept, JobTypes
<1>3. JobTypes'
  BY <1>1 DEF JobTypes, IsJob
<1>4. AtHand'
  BY <1>1 DEF AtHand, JobTypes
<1>5. Rest' = Rest
  BY DEF Rest
<1>6. Progress'
  <2>1. CASE job.outcome = "none"
    BY <2>1 DEF Progress
  <2>2. CASE job.outcome # "none"
    <3>1. /\ job'.saved = job.saved /\ job'.kind = job.kind /\ job'.skipped = job.skipped
          /\ job'.asked = job.asked /\ job'.content = job.content
          /\ job'.pc = job.pc /\ job'.outcome = job.outcome
      OBVIOUS
    <3>2. QED
      BY <1>1, <1>2, <1>5, <2>2, <3>1, ProgressKept
  <2>3. QED
    BY <2>1, <2>2
<1>7. QED
  BY <1>3, <1>4, <1>6 DEF JobInv

LEMMA SelectRowView ==
  ASSUME NEW list, NEW r \in Nat, visible' = list, list \in Seq(Entries), r \in DOMAIN list,
         SelectRow(list, r), marked' \in SUBSET Entries
  PROVE  ViewInv'
  BY DEF SelectRow, ViewInv

LEMMA ListSteps ==
  ASSUME ExportInv, Select \/ Show \/ ToggleMark \/ ToggleVisible
  PROVE  ViewInv' /\ JobInv'
<1>1. /\ visible \in Seq(Entries) /\ marked \in SUBSET Entries /\ row \in Nat
      /\ current_body # <<>> => row \in DOMAIN visible /\ current_body = <<visible[row]>>
  BY DEF ExportInv, ViewInv
<1>2. job.pc = "idle" /\ job' = job /\ files' = files
  BY DEF Select, Show, ToggleMark, ToggleVisible, ListKey
<1>3. JobInv'
  <2>1. DOMAIN files \subseteq Paths /\ JobInv
    BY DEF ExportInv, JobInv, JobTypes
  <2>2. /\ \A f \in DOMAIN files : f \in DOMAIN files' /\ files'[f] = files[f]
        /\ DOMAIN files' \subseteq Paths
    BY <1>2, <2>1
  <2>3. QED
    BY <1>2, <2>1, <2>2, JobLeft
<1>4. Range(visible) \in SUBSET Entries
  BY <1>1 DEF Range
<1>5. CASE Select
  <2>1. PICK r \in DOMAIN visible : SelectRow(visible, r)
    BY <1>5 DEF Select
  <2>2. visible' = visible /\ marked' = marked
    BY <1>5 DEF Select
  <2>3. r \in Nat
    BY <1>1
  <2>4. ViewInv'
    BY <1>1, <2>1, <2>2, <2>3, SelectRowView
  <2>5. QED
    BY <1>3, <2>4
<1>6. CASE Show
  <2>1. PICK shown \in Views :
            /\ visible' = Ascending(shown)
            /\ IF shown = {} THEN current_body' = <<>> /\ UNCHANGED <<row, cache>>
               ELSE SelectRow(visible', 1)
    BY <1>6 DEF Show
  <2>2. shown \in SUBSET Entries /\ marked' = marked
    BY <1>6, ExportsAssumption DEF Show
  <2>3. visible' \in Seq(Entries) /\ (shown # {} => visible' # <<>>)
    BY <2>1, <2>2, AscendingEntries
  <2>4. CASE shown = {}
    BY <1>1, <1>3, <2>1, <2>2, <2>3, <2>4 DEF ViewInv
  <2>5. CASE shown # {}
    <3>1. 1 \in DOMAIN visible' /\ SelectRow(visible', 1)
      BY <2>1, <2>3, <2>5
    <3>2. ViewInv'
      BY <1>1, <2>2, <2>3, <3>1, SelectRowView
    <3>3. QED
      BY <1>3, <3>2
  <2>6. QED
    BY <2>4, <2>5
<1>7. CASE ToggleMark \/ ToggleVisible
  <2>1. CurrentEntry # <<>> => CurrentEntry = <<visible[row]>> /\ visible[row] \in Entries
    BY <1>1 DEF CurrentEntry
  <2>2. CurrentEntry # <<>> => Range(CurrentEntry) = {visible[row]}
    BY <2>1 DEF Range
  <2>3. visible' = visible /\ row' = row /\ current_body' = current_body
    BY <1>7 DEF ToggleMark, ToggleVisible
  <2>4. marked' \in SUBSET Entries
    BY <1>1, <1>4, <1>7, <2>1, <2>2 DEF ToggleMark, ToggleVisible
  <2>5. QED
    BY <1>1, <1>3, <2>3, <2>4 DEF ViewInv
<1>8. QED
  BY <1>5, <1>6, <1>7

(* The mailbox shrinks, or another program saves a file. *)
LEMMA OutsideSteps ==
  ASSUME ExportInv, Truncate \/ OtherSaves
  PROVE  ViewInv' /\ JobInv'
<1>1. visible' = visible /\ row' = row /\ current_body' = current_body /\ marked' = marked
      /\ job' = job
  BY DEF Truncate, OtherSaves, viewVars
<1>2. ViewInv'
  BY <1>1 DEF ExportInv, ViewInv
<1>3. DOMAIN files \subseteq Paths /\ JobInv
  BY DEF ExportInv, JobInv, JobTypes
<1>4. /\ \A f \in DOMAIN files : f \in DOMAIN files' /\ files'[f] = files[f]
      /\ DOMAIN files' \subseteq Paths
  <2>1. CASE Truncate
    BY <1>3, <2>1 DEF Truncate
  <2>2. CASE OtherSaves
    <3>1. PICK m \in Entries :
              LET path == <<Downloads, BaseName["eml"][m]>>
              IN  /\ path \notin DOMAIN files
                  /\ files' = [f \in DOMAIN files \cup {path} |->
                                  IF f = path THEN <<"other">> ELSE files[f]]
      BY <2>2 DEF OtherSaves
    <3>2. <<Downloads, BaseName["eml"][m]>> \in Paths
      BY BaseNames DEF Formats
    <3>3. QED
      BY <1>3, <3>1, <3>2
  <2>3. QED
    BY <2>1, <2>2
<1>5. QED
  BY <1>1, <1>2, <1>3, <1>4, JobLeft

(* The beginning of an export. *)
LEMMA BeginStep ==
  ASSUME ExportInv, NEW kind, NEW asked \in SUBSET Entries, NEW todo \in Seq(Entries),
         NEW parts \in Seq(Nat), Begin(kind, asked, todo, parts),
         kind \in Formats \cup AttachmentKinds \cup {"csv"},
         kind # "one" => todo = Ascending(asked) /\ parts = <<>>,
         kind = "one" => \E m \in Entries : \E i \in DOMAIN Attachments[m] :
                             asked = {m} /\ todo = <<m>> /\ parts = <<i>>,
         kind = "csv" => todo # <<>>,
         kind \in PageFormats /\ marked = {} => todo = current_body
  PROVE  ViewInv' /\ JobInv'
<1>1. /\ job'.kind = kind /\ job'.asked = asked /\ job'.todo = todo /\ job'.parts = parts
      /\ job'.pc = (IF parts = <<>> THEN "message" ELSE "part")
      /\ job'.saved = <<>> /\ job'.skipped = 0 /\ job'.outcome = "running"
      /\ DOMAIN job' = DOMAIN Idle
  BY DEF Begin, Idle
<1>2. visible' = visible /\ row' = row /\ current_body' = current_body /\ marked' = marked
      /\ files' = files
  BY DEF Begin, viewVars
<1>3. ViewInv'
  BY <1>2 DEF ExportInv, ViewInv
<1>4. JobTypes'
  <2>1. DOMAIN files' \subseteq Paths
    BY <1>2 DEF ExportInv, JobInv, JobTypes
  <2>2. Range(job'.saved) = {} /\ job'.saved \in Seq(Paths)
    BY <1>1 DEF Range
  <2>3. QED
    BY <1>1, <2>1, <2>2 DEF JobTypes, IsJob
<1>5. AtHand'
  <2>1. parts # <<>> => kind = "one" /\ todo # <<>>
    BY DEF AttachmentKinds
  <2>2. Len(job'.saved) = 0
    BY <1>1
  <2>3. QED
    BY <1>1, <1>2, <2>1, <2>2 DEF AtHand, AttachmentKinds
<1>6. PICK target \in Targets' : target = Rest' /\ target \in Seq(Items)
  <2>1. CASE kind # "one"
    <3>1. Targets' = {WantedOf(kind, todo)}
      BY <1>1, <2>1 DEF Targets, Wanted
    <3>2. Rest' = RestOf(kind, "message", todo, parts)
      BY <1>1, <2>1 DEF Rest
    <3>3. RestOf(kind, "message", todo, parts) = WantedOf(kind, todo)
          /\ WantedOf(kind, todo) \in Seq(Items)
      BY AllAtFirst
    <3>4. QED
      BY <3>1, <3>2, <3>3
  <2>2. CASE kind = "one"
    <3>1. PICK m \in Entries : \E i \in DOMAIN Attachments[m] :
              asked = {m} /\ todo = <<m>> /\ parts = <<i>>
      BY <2>2
    <3>2. PICK i \in DOMAIN Attachments[m] : asked = {m} /\ todo = <<m>> /\ parts = <<i>>
      BY <3>1
    <3>3. i \in UNION {DOMAIN Attachments[e] : e \in {m}} /\ i \in Nat
      BY AttachmentFacts
    <3>4. << <<m, i>> >> \in Targets'
      BY <1>1, <2>2, <3>2, <3>3 DEF Targets
    <3>5. RestOf(kind, "part", todo, parts) = << <<m, i>> >> /\ << <<m, i>> >> \in Seq(Items)
      BY <2>2, <3>2, <3>3, OneAtFirst
    <3>6. Rest' = RestOf(kind, "part", todo, parts)
      BY <1>1, <3>2 DEF Rest
    <3>7. QED
      BY <3>4, <3>5, <3>6
  <2>3. QED
    BY <2>1, <2>2
<1>7. Len(target) \in Nat
  BY <1>6
<1>8. Keeps(target, 0)'
  <2>1. SavedContents' = <<>> /\ DOMAIN job'.saved = {}
    BY <1>1 DEF SavedContents
  <2>2. SubSeq(target, 1, 0) = <<>>
    BY SubSeqEmpty
  <2>3. IsSubsequence(<<>>, <<>>)
    <3> DEFINE place == [i \in {} |-> i]
    <3>1. DOMAIN <<>> = {}
      OBVIOUS
    <3>2. place \in [{} -> {}]
      OBVIOUS
    <3>3. QED
      BY <3>1, <3>2 DEF IsSubsequence
  <2>4. Len(job'.saved) + job'.skipped = 0
    BY <1>1
  <2>5. QED
    BY <2>1, <2>2, <2>3, <2>4 DEF Keeps
<1>9. SubSeq(target, 0 + 1, Len(target)) = target
  BY <1>6, SubSeqFull
<1>10. job'.pc \notin {"idle", "path", "store"}
  BY <1>1
<1>11. IsProgress(target, 0)'
  BY <1>1, <1>6, <1>8, <1>9, <1>10 DEF IsProgress
<1>12. Progress'
  <2>1. 0 \in 0 .. Len(target)
    BY <1>7
  <2>2. QED
    BY <1>6, <1>11, <2>1 DEF Progress
<1>13. QED
  BY <1>3, <1>4, <1>5, <1>12 DEF JobInv

LEMMA CurrentFacts ==
  ASSUME ViewInv
  PROVE  /\ CurrentEntry # <<>> =>
                \E m \in Entries : /\ CurrentEntry = <<m>> /\ Range(CurrentEntry) = {m}
                                   /\ Ascending({m}) = <<m>> /\ <<m>> \in Seq(Entries)
         /\ current_body # <<>> => CurrentEntry # <<>> /\ current_body = CurrentEntry
<1>1. visible \in Seq(Entries)
      /\ (current_body # <<>> => row \in DOMAIN visible /\ current_body = <<visible[row]>>)
  BY DEF ViewInv
<1>2. current_body # <<>> => CurrentEntry # <<>> /\ current_body = CurrentEntry
  BY <1>1 DEF CurrentEntry
<1>3. ASSUME CurrentEntry # <<>>
      PROVE  \E m \in Entries : /\ CurrentEntry = <<m>> /\ Range(CurrentEntry) = {m}
                                /\ Ascending({m}) = <<m>> /\ <<m>> \in Seq(Entries)
  <2> DEFINE m == visible[row]
  <2>1. m \in Entries /\ CurrentEntry = <<m>>
    BY <1>1, <1>3 DEF CurrentEntry
  <2> HIDE DEF m
  <2>2. Range(CurrentEntry) = {m} /\ <<m>> \in Seq(Entries)
    BY <2>1 DEF Range
  <2>3. m \in Nat
    BY <2>1, EntriesAreNumbers
  <2>4. Ascending({m}) = <<m>>
    BY <2>3, AscendingOne
  <2>5. QED
    BY <2>1, <2>2, <2>4
<1>4. QED
  BY <1>2, <1>3

LEMMA BeginSteps ==
  ASSUME ExportInv, ExportSelection \/ SaveAttachments \/ SaveOne \/ ExtractAll
  PROVE  ViewInv' /\ JobInv'
<1>1. ViewInv /\ marked \in SUBSET Entries
  BY DEF ExportInv, ViewInv
<1>2. <<>> \in Seq(Nat)
  OBVIOUS
<1>3. CASE ExportSelection
  <2>1. PICK kind \in Formats \cup {"csv"} :
            /\ marked # {} \/ CurrentEntry # <<>>
            /\ kind \in PageFormats /\ marked = {} => current_body # <<>>
            /\ Begin(kind, IF marked # {} THEN marked ELSE Range(CurrentEntry), Selection, <<>>)
    BY <1>3 DEF ExportSelection
  <2>2. kind # "one" /\ kind \in Formats \cup AttachmentKinds \cup {"csv"}
    BY DEF Formats, PageFormats
  <2>3. CASE marked # {}
    <3>1. Begin(kind, marked, Ascending(marked), <<>>)
      BY <2>1, <2>3 DEF Selection
    <3>2. Ascending(marked) \in Seq(Entries) /\ Ascending(marked) # <<>>
      BY <1>1, <2>3, AscendingEntries
    <3>3. QED
      BY <1>1, <1>2, <2>2, <2>3, <3>1, <3>2, BeginStep
  <2>4. CASE marked = {}
    <3>1. PICK m \in Entries : /\ CurrentEntry = <<m>> /\ Range(CurrentEntry) = {m}
                               /\ Ascending({m}) = <<m>> /\ <<m>> \in Seq(Entries)
      BY <1>1, <2>1, <2>4, CurrentFacts
    <3>2. Begin(kind, {m}, <<m>>, <<>>)
      BY <2>1, <2>4, <3>1 DEF Selection
    <3>3. kind \in PageFormats => current_body = <<m>>
      BY <1>1, <2>1, <2>4, <3>1, CurrentFacts
    <3>4. {m} \in SUBSET Entries /\ <<m>> # <<>>
      OBVIOUS
    <3>5. QED
      BY <1>2, <2>2, <3>1, <3>2, <3>3, <3>4, BeginStep
  <2>5. QED
    BY <2>3, <2>4
<1>4. CASE SaveAttachments
  <2>1. current_body # <<>> /\ Begin("attachments", Range(CurrentEntry), CurrentEntry, <<>>)
    BY <1>4 DEF SaveAttachments, SaveAllAttachments
  <2>2. PICK m \in Entries : /\ CurrentEntry = <<m>> /\ Range(CurrentEntry) = {m}
                             /\ Ascending({m}) = <<m>> /\ <<m>> \in Seq(Entries)
    BY <1>1, <2>1, CurrentFacts
  <2>3. Begin("attachments", {m}, <<m>>, <<>>)
    BY <2>1, <2>2
  <2>4. "attachments" \in AttachmentKinds /\ "attachments" \notin PageFormats
        /\ "attachments" # "one" /\ "attachments" # "csv"
    BY DEF AttachmentKinds, PageFormats
  <2>5. {m} \in SUBSET Entries
    OBVIOUS
  <2>6. QED
    BY <1>2, <2>2, <2>3, <2>4, <2>5, BeginStep
<1>5. CASE SaveOne
  <2>1. PICK i \in DOMAIN Attachments[current_body[1]] :
            Begin("one", Range(CurrentEntry), CurrentEntry, <<i>>)
    BY <1>5 DEF SaveOne, SaveSingleAttachment
  <2>2. current_body # <<>>
    BY <1>5 DEF SaveOne
  <2>3. PICK m \in Entries : /\ CurrentEntry = <<m>> /\ Range(CurrentEntry) = {m}
                             /\ Ascending({m}) = <<m>> /\ <<m>> \in Seq(Entries)
    BY <1>1, <2>2, CurrentFacts
  <2>4. i \in DOMAIN Attachments[m]
    <3>1. current_body = <<m>>
      BY <1>1, <2>2, <2>3, CurrentFacts
    <3>2. QED
      BY <2>1, <3>1
  <2>5. i \in Nat /\ <<i>> \in Seq(Nat)
    BY <2>4, AttachmentFacts
  <2>6. Begin("one", {m}, <<m>>, <<i>>)
    BY <2>1, <2>3
  <2>7. "one" \in AttachmentKinds /\ "one" \notin PageFormats /\ "one" # "csv"
    BY DEF AttachmentKinds, PageFormats
  <2>8. {m} \in SUBSET Entries
    OBVIOUS
  <2>9. QED
    BY <2>3, <2>4, <2>5, <2>6, <2>7, <2>8, BeginStep
<1>6. CASE ExtractAll
  <2> DEFINE with_attachments == {m \in Entries : Attachments[m] # <<>>}
  <2>1. Begin("bulk", with_attachments, Ascending(with_attachments), <<>>)
    BY <1>6 DEF ExtractAll
  <2>2. with_attachments \in SUBSET Entries
    OBVIOUS
  <2>3. Ascending(with_attachments) \in Seq(Entries)
    BY <2>2, AscendingEntries
  <2>4. "bulk" \in AttachmentKinds /\ "bulk" \notin PageFormats /\ "bulk" # "one" /\ "bulk" # "csv"
    BY DEF AttachmentKinds, PageFormats
  <2> HIDE DEF with_attachments
  <2>5. QED
    BY <1>2, <2>1, <2>2, <2>3, <2>4, BeginStep
<1>7. QED
  BY <1>3, <1>4, <1>5, <1>6

(* An export that stops. *)
LEMMA FailedStep ==
  ASSUME JobInv, job.pc # "idle", job' = Failed, SavedKept \/ UsesFallback',
         DOMAIN files \subseteq DOMAIN files', DOMAIN files' \subseteq Paths
  PROVE  JobInv'
<1>1. JobTypes /\ AtHand /\ Progress
  BY DEF JobInv
<1>2. /\ job'.kind = job.kind /\ job'.asked = job.asked /\ job'.todo = job.todo
      /\ job'.parts = job.parts /\ job'.saved = job.saved /\ job'.skipped = job.skipped
      /\ job'.pc = "idle" /\ job'.outcome = "failed" /\ DOMAIN job' = DOMAIN job
  BY <1>1, JobFacts DEF Failed
<1>3. JobTypes'
  BY <1>1, <1>2 DEF JobTypes, IsJob
<1>4. AtHand'
  BY <1>1, <1>2 DEF AtHand
<1>5. job.outcome # "none"
  BY <1>1 DEF JobTypes
<1>6. Progress'
  BY <1>1, <1>2, <1>5, ProgressKept
<1>7. QED
  BY <1>3, <1>4, <1>6 DEF JobInv

(* A step towards the file for the next item. *)
LEMMA PreparedStep ==
  ASSUME JobInv, files' = files, marked' = marked, current_body' = current_body,
         NEW path \in Paths, NEW content, NEW pc \in {"path", "store"},
         job' = [job EXCEPT !.pc = pc, !.path = path, !.content = content],
         job.pc # "idle", job.todo # <<>>, job.kind # "csv",
         job.kind \in AttachmentKinds => job.pc # "message" /\ job.parts # <<>>,
         \/ job.pc \in {"path", "store"} /\ content = job.content
         \/ Rest # <<>> /\ content = Head(Rest)
  PROVE  JobInv'
<1>1. JobTypes /\ AtHand /\ Progress
  BY DEF JobInv
<1>2. /\ job'.kind = job.kind /\ job'.asked = job.asked /\ job'.todo = job.todo
      /\ job'.parts = job.parts /\ job'.saved = job.saved /\ job'.skipped = job.skipped
      /\ job'.pc = pc /\ job'.outcome = job.outcome /\ job'.path = path
      /\ job'.content = content /\ DOMAIN job' = DOMAIN job
  BY <1>1, JobFacts
<1>3. JobTypes'
  BY <1>1, <1>2 DEF JobTypes, IsJob
<1>4. AtHand'
  BY <1>1, <1>2 DEF AtHand
<1>5. job.outcome # "none" /\ job'.outcome # "done"
  BY <1>1, <1>2 DEF JobTypes
<1>6. Rest' = Rest
  <2>1. job.todo \in Seq(Entries) /\ job.parts \in Seq(Nat)
        /\ job.kind \in Formats \cup AttachmentKinds \cup {"csv"}
    BY <1>1 DEF JobTypes
  <2>2. Rest' = RestOf(job.kind, pc, job.todo, job.parts)
    BY <1>2 DEF Rest
  <2>3. job.kind \in Formats \/ (job.kind \in AttachmentKinds /\ pc # "message" /\ job.pc # "message")
    BY <2>1
  <2>4. QED
    BY <2>2, <2>3 DEF Rest, RestOf, AttachmentKinds, Formats, PageFormats
<1>7. SavedKept
  BY <1>1 DEF SavedKept, JobTypes
<1>8. Progress'
  BY <1>1, <1>2, <1>5, <1>6, <1>7, ProgressKept
<1>9. QED
  BY <1>3, <1>4, <1>8 DEF JobInv

(* A bulk export that leaves a part out. *)
LEMMA SkippedStep ==
  ASSUME JobInv, job.pc \in {"part", "path", "store"}, job.kind = "bulk", job.todo # <<>>, job.parts # <<>>,
         job' = Skipped, SavedKept \/ UsesFallback',
         DOMAIN files \subseteq DOMAIN files', DOMAIN files' \subseteq Paths
  PROVE  JobInv'
<1>1. JobTypes /\ AtHand /\ Progress
  BY DEF JobInv
<1>2. /\ job'.kind = job.kind /\ job'.asked = job.asked /\ job'.todo = job.todo
      /\ job'.parts = Tail(job.parts) /\ job'.saved = job.saved
      /\ job'.skipped = job.skipped + 1
      /\ job'.pc = "part" /\ job'.outcome = job.outcome /\ DOMAIN job' = DOMAIN job
  BY <1>1, JobFacts DEF Skipped
<1>3. job.todo \in Seq(Entries) /\ job.parts \in Seq(Nat) /\ "bulk" \in AttachmentKinds
      /\ job.skipped \in Nat /\ job.outcome = "running"
  BY <1>1 DEF JobTypes, AttachmentKinds
<1>4. Tail(job.parts) \in Seq(Nat)
  BY <1>3
<1>5. JobTypes'
  <2>1. job.skipped + 1 \in Nat
    BY <1>3
  <2>2. QED
    BY <1>1, <1>2, <1>4, <2>1 DEF JobTypes, IsJob
<1>6. AtHand'
  BY <1>1, <1>2, <1>3 DEF AtHand, PageFormats
<1>7. Rest # <<>> /\ Rest' = Tail(Rest)
  <2>1. job.pc # "message" /\ job.kind \in AttachmentKinds
    BY <1>3
  <2>2. Rest # <<>> /\ Tail(Rest) = RestOf(job.kind, "part", job.todo, Tail(job.parts))
    BY <1>1, <2>1, PartAhead
  <2>3. QED
    BY <1>2, <2>2 DEF Rest
<1>8. Progress'
  BY <1>1, <1>2, <1>3, <1>7, ProgressMade
<1>9. QED
  BY <1>5, <1>6, <1>8 DEF JobInv

(* The steps that read, between two files. *)
LEMMA NextEmlJob ==
  ASSUME ExportInv, NextEml
  PROVE  JobInv'
<1>1. JobInv /\ JobTypes /\ ViewInv
  BY DEF ExportInv, JobInv
<1>2. /\ job.pc = "message" /\ job.kind = "eml" /\ job.todo # <<>> /\ files' = files
      /\ marked' = marked /\ current_body' = current_body
  BY DEF NextEml, NextOne, JobStep, viewVars
<1> DEFINE m == Head(job.todo)
<1>3. m \in Entries /\ DOMAIN files \subseteq Paths /\ SavedKept
  BY <1>1, <1>2 DEF JobTypes, SavedKept
<1>4. job.kind \in Formats /\ job.kind # "csv" /\ job.kind \notin AttachmentKinds
  BY <1>2 DEF Formats, PageFormats, AttachmentKinds
<1>5. CASE m \in present
  <2> DEFINE path == <<Downloads, BaseName["eml"][m]>>
             content == EmlBytes(m)
  <2>1. path \in Paths
    BY <1>3, BaseNames DEF Formats
  <2>2. job' = [job EXCEPT !.pc = "path", !.path = path, !.content = content]
    BY <1>5 DEF NextEml, Prepared
  <2>3. Rest # <<>> /\ content = Head(Rest)
    <3>1. Rest # <<>> /\ Head(Rest) = Made(job.kind, m)
      BY <1>1, <1>2, <1>4, PageAhead
    <3>2. QED
      BY <1>2, <3>1 DEF Made
  <2> HIDE DEF path, content
  <2>4. QED
    BY <1>1, <1>2, <1>4, <2>1, <2>2, <2>3, PreparedStep
<1>6. CASE m \notin present
  <2>1. job' = Failed
    BY <1>6 DEF NextEml
  <2>2. QED
    BY <1>1, <1>2, <1>3, <2>1, FailedStep
<1>7. QED
  BY <1>5, <1>6

LEMMA NextPageJob ==
  ASSUME ExportInv, NextPage
  PROVE  JobInv'
<1>1. JobInv /\ JobTypes /\ ViewInv
  BY DEF ExportInv, JobInv
<1>2. /\ job.pc = "message" /\ job.kind \in PageFormats /\ job.todo # <<>> /\ files' = files
      /\ marked' = marked /\ current_body' = current_body
  BY DEF NextPage, NextOne, JobStep, viewVars
<1> DEFINE m == Head(job.todo)
           body == IF marked # {} THEN m ELSE current_body[1]
<1>3. m \in Entries /\ DOMAIN files \subseteq Paths /\ SavedKept
  BY <1>1, <1>2 DEF JobTypes, SavedKept
<1>4. job.kind \in Formats /\ job.kind # "csv" /\ job.kind \notin AttachmentKinds
      /\ job.kind \in {"txt", "html"}
  BY <1>2 DEF Formats, PageFormats, AttachmentKinds
<1>5. body = m
  <2>1. marked = {} => job.todo = current_body
    BY <1>1, <1>2 DEF JobInv, AtHand
  <2>2. m = job.todo[1]
    OBVIOUS
  <2>3. QED
    BY <2>1, <2>2
<1>6. CASE marked # {} /\ ~CanGet(m)
  <2>1. job' = Failed
    BY <1>6 DEF NextPage
  <2>2. QED
    BY <1>1, <1>2, <1>3, <2>1, FailedStep
<1>7. CASE ~(marked # {} /\ ~CanGet(m))
  <2> DEFINE path == <<Downloads, BaseName[job.kind][m]>>
             content == IF job.kind = "txt" THEN TextPage(body) ELSE HtmlPage(body)
  <2>1. path \in Paths
    BY <1>3, <1>4, BaseNames
  <2>2. job' = [job EXCEPT !.pc = "path", !.path = path, !.content = content]
    BY <1>7 DEF NextPage, Prepared
  <2>3. Rest # <<>> /\ content = Head(Rest)
    <3>1. Rest # <<>> /\ Head(Rest) = Made(job.kind, m)
      BY <1>1, <1>2, <1>4, PageAhead
    <3>2. Made(job.kind, m) = content
      BY <1>4, <1>5 DEF Made
    <3>3. QED
      BY <3>1, <3>2
  <2> HIDE DEF path, content
  <2>4. QED
    BY <1>1, <1>2, <1>4, <2>1, <2>2, <2>3, PreparedStep
<1>8. QED
  BY <1>6, <1>7

LEMMA NextPartJob ==
  ASSUME ExportInv, NextPart
  PROVE  JobInv'
<1>1. JobInv /\ JobTypes /\ ViewInv
  BY DEF ExportInv, JobInv
<1>2. /\ job.pc = "part" /\ job.kind \in AttachmentKinds /\ job.todo # <<>> /\ job.parts # <<>>
      /\ files' = files /\ marked' = marked /\ current_body' = current_body
  BY DEF NextPart, NextOne, JobStep, viewVars, AttachmentKinds
<1> DEFINE m == Head(job.todo)
           i == Head(job.parts)
           folder == IF job.kind = "bulk" THEN FolderName[m] ELSE Downloads
<1>3. m \in Entries /\ DOMAIN files \subseteq Paths /\ SavedKept
  BY <1>1, <1>2 DEF JobTypes, SavedKept
<1>4. job.kind # "csv"
  BY <1>2 DEF AttachmentKinds
<1>5. Rest # <<>> /\ Head(Rest) = <<m, i>>
  BY <1>1, <1>2, PartAhead
<1>6. CASE m \in present /\ <<m, i>> \notin Undecodable
  <2> DEFINE path == <<folder, AttachmentName(m, i)>>
             content == <<m, i>>
  <2>1. path \in Paths
    <3>1. i \in DOMAIN Attachments[m]
      <4>1. \A k \in DOMAIN job.parts : job.parts[k] \in DOMAIN Attachments[Head(job.todo)]
        BY <1>1, <1>2 DEF JobInv, AtHand
      <4>2. 1 \in DOMAIN job.parts /\ i = job.parts[1]
        BY <1>1, <1>2 DEF JobTypes
      <4>3. QED
        BY <4>1, <4>2
    <3>2. QED
      BY <1>3, <3>1, AttachmentFacts
  <2>2. job' = [job EXCEPT !.pc = "path", !.path = path, !.content = content]
    BY <1>6 DEF NextPart, Prepared
  <2>3. content = Head(Rest) /\ job.pc # "message"
    BY <1>2, <1>5
  <2> HIDE DEF path, content
  <2>4. QED
    BY <1>1, <1>2, <1>4, <1>5, <2>1, <2>2, <2>3, PreparedStep
<1>7. CASE ~(m \in present /\ <<m, i>> \notin Undecodable)
  <2>1. CASE job.kind = "bulk"
    <3>1. job' = Skipped
      BY <1>7, <2>1 DEF NextPart
    <3>2. QED
      BY <1>1, <1>2, <1>3, <2>1, <3>1, SkippedStep
  <2>2. CASE job.kind # "bulk"
    <3>1. job' = Failed
      BY <1>7, <2>2 DEF NextPart
    <3>2. QED
      BY <1>1, <1>2, <1>3, <3>1, FailedStep
  <2>3. QED
    BY <2>1, <2>2
<1>8. QED
  BY <1>6, <1>7

(* The steps between messages. *)
LEMMA NextMessageJob ==
  ASSUME ExportInv, NextMessage
  PROVE  JobInv'
<1>1. JobInv /\ JobTypes /\ AtHand /\ Progress
  BY DEF ExportInv, JobInv
<1>2. /\ job.pc = "message" /\ job.kind \in {"attachments", "bulk"} /\ job.todo # <<>>
      /\ files' = files /\ marked' = marked /\ current_body' = current_body
  BY DEF NextMessage, NextOne, JobStep, viewVars
<1> DEFINE m == Head(job.todo)
           parts == [i \in DOMAIN Attachments[m] |-> i]
<1>3. m \in Entries /\ DOMAIN files \subseteq Paths /\ SavedKept
  BY <1>1, <1>2 DEF JobTypes, SavedKept
<1>4. job.kind \in AttachmentKinds /\ job.kind \notin Formats /\ job.kind # "csv"
      /\ job.kind \notin PageFormats /\ job.kind # "one"
  BY <1>2 DEF AttachmentKinds, Formats, PageFormats
<1>5. CASE ~CanGet(m)
  <2>1. job' = Failed
    BY <1>5 DEF NextMessage
  <2>2. QED
    BY <1>1, <1>2, <1>3, <2>1, FailedStep
<1>6. CASE CanGet(m)
  <2>1. job' = [job EXCEPT !.pc = "part", !.parts = parts]
    BY <1>6 DEF NextMessage
  <2>2. /\ job'.kind = job.kind /\ job'.asked = job.asked /\ job'.todo = job.todo
        /\ job'.parts = parts /\ job'.saved = job.saved /\ job'.skipped = job.skipped
        /\ job'.pc = "part" /\ job'.outcome = job.outcome /\ DOMAIN job' = DOMAIN job
    BY <1>1, <2>1, JobFacts
  <2>3. Len(Attachments[m]) \in Nat /\ DOMAIN Attachments[m] = 1 .. Len(Attachments[m])
    BY <1>3, AttachmentFacts
  <2>4. parts \in Seq(Nat) /\ ItemsOf(m, parts) = PartsOf(m)
        /\ \A k \in DOMAIN parts : parts[k] \in DOMAIN Attachments[m]
    BY <2>3 DEF ItemsOf, PartsOf
  <2> HIDE DEF parts
  <2>5. JobTypes'
    BY <1>1, <1>2, <2>2, <2>4 DEF JobTypes, IsJob
  <2>6. AtHand'
    BY <1>1, <1>2, <1>4, <2>2, <2>4 DEF AtHand
  <2>7. Rest' = Rest
    <3>1. Rest' = ItemsOf(m, parts) \o WantedOf(job.kind, Tail(job.todo))
      BY <1>4, <2>2 DEF Rest, RestOf
    <3>2. Rest = WantedOf(job.kind, job.todo)
      BY <1>2, <1>4 DEF Rest, RestOf
    <3>3. job.todo \in Seq(Entries)
      BY <1>1 DEF JobTypes
    <3>4. WantedOf(job.kind, job.todo) = PartsOf(m) \o WantedOf(job.kind, Tail(job.todo))
      BY <1>2, <1>4, <3>3, WantedParts
    <3>5. QED
      BY <2>4, <3>1, <3>2, <3>4
  <2>8. job.outcome = "running"
    BY <1>1, <1>2 DEF JobTypes
  <2>9. Progress'
    BY <1>1, <1>2, <1>3, <2>2, <2>7, <2>8, ProgressKept
  <2>10. QED
    BY <2>5, <2>6, <2>9 DEF JobInv
<1>7. QED
  BY <1>5, <1>6

LEMMA EndPartsJob ==
  ASSUME ExportInv, EndParts
  PROVE  JobInv'
<1>1. JobInv /\ JobTypes /\ AtHand /\ Progress
  BY DEF ExportInv, JobInv
<1>2. /\ job.pc = "part" /\ job.kind \in AttachmentKinds /\ job.todo # <<>> /\ job.parts = <<>>
      /\ files' = files /\ marked' = marked /\ current_body' = current_body
  BY DEF EndParts, NextOne, JobStep, viewVars, AttachmentKinds
<1>3. DOMAIN files \subseteq Paths /\ SavedKept /\ job.outcome = "running"
      /\ job.todo \in Seq(Entries)
  BY <1>1, <1>2 DEF JobTypes, SavedKept
<1>4. job.kind \notin Formats /\ job.kind # "csv" /\ job.kind \notin PageFormats
  BY <1>2 DEF AttachmentKinds, Formats, PageFormats
<1>5. job' = [job EXCEPT !.pc = "message", !.todo = Tail(job.todo)]
  BY DEF EndParts
<1>6. /\ job'.kind = job.kind /\ job'.asked = job.asked /\ job'.todo = Tail(job.todo)
      /\ job'.parts = job.parts /\ job'.saved = job.saved /\ job'.skipped = job.skipped
      /\ job'.pc = "message" /\ job'.outcome = job.outcome /\ DOMAIN job' = DOMAIN job
  BY <1>1, <1>5, JobFacts
<1>7. Tail(job.todo) \in Seq(Entries) /\ Head(job.todo) \in Entries
  BY <1>2, <1>3
<1>8. JobTypes'
  BY <1>1, <1>2, <1>6, <1>7 DEF JobTypes, IsJob
<1>9. AtHand'
  BY <1>1, <1>2, <1>4, <1>6 DEF AtHand
<1>10. Rest' = Rest
  <2>1. Rest' = WantedOf(job.kind, Tail(job.todo))
    BY <1>4, <1>6 DEF Rest, RestOf
  <2>2. Rest = ItemsOf(Head(job.todo), <<>>) \o WantedOf(job.kind, Tail(job.todo))
    BY <1>2, <1>4 DEF Rest, RestOf
  <2>3. ItemsOf(Head(job.todo), <<>>) = <<>>
    BY DEF ItemsOf
  <2> DEFINE later == WantedOf(job.kind, Tail(job.todo))
  <2>4. later \in Seq(Items)
    BY <1>2, <1>7, WantedParts
  <2> HIDE DEF later
  <2>5. <<>> \o later = later
    BY <2>4
  <2>6. QED
    BY <2>1, <2>2, <2>3, <2>5 DEF later
<1>11. Progress'
  BY <1>1, <1>2, <1>3, <1>6, <1>10, ProgressKept
<1>12. QED
  BY <1>8, <1>9, <1>11 DEF JobInv

LEMMA EndExportJob ==
  ASSUME ExportInv, EndExport
  PROVE  JobInv'
<1>1. JobInv /\ JobTypes /\ AtHand /\ Progress
  BY DEF ExportInv, JobInv
<1>2. /\ job.pc = "message" /\ job.todo = <<>>
      /\ files' = files /\ marked' = marked /\ current_body' = current_body
  BY DEF EndExport, JobStep, viewVars
<1>3. DOMAIN files \subseteq Paths /\ SavedKept /\ job.outcome = "running"
  BY <1>1, <1>2 DEF JobTypes, SavedKept
<1>4. job' = [job EXCEPT !.pc = "idle", !.outcome = "done"]
  BY DEF EndExport
<1>5. /\ job'.kind = job.kind /\ job'.asked = job.asked /\ job'.todo = job.todo
      /\ job'.parts = job.parts /\ job'.saved = job.saved /\ job'.skipped = job.skipped
      /\ job'.pc = "idle" /\ job'.outcome = "done" /\ DOMAIN job' = DOMAIN job
  BY <1>1, <1>4, JobFacts
<1>6. JobTypes'
  BY <1>1, <1>2, <1>5 DEF JobTypes, IsJob
<1>7. AtHand'
  BY <1>1, <1>5 DEF AtHand
<1>8. Rest = <<>>
  <2>1. job.kind \in Formats \cup AttachmentKinds \cup {"csv"} /\ <<>> \in Seq(Entries)
    BY <1>1 DEF JobTypes
  <2>2. CASE job.kind = "csv"
    BY <1>2, <2>2 DEF Rest, RestOf, Formats, PageFormats
  <2>3. CASE job.kind \in Formats
    <3>1. Rest = WantedOf(job.kind, <<>>)
      BY <1>2, <2>3 DEF Rest, RestOf, Formats, PageFormats
    <3> DEFINE wanted == WantedOf(job.kind, <<>>)
    <3>2. wanted \in Seq(Items) /\ Len(wanted) = Len(<<>>)
      BY <2>1, <2>3, WantedPages
    <3> HIDE DEF wanted
    <3>3. wanted = <<>>
      BY <3>2
    <3>4. QED
      BY <3>1, <3>3 DEF wanted
  <2>4. CASE job.kind \in AttachmentKinds
    <3>1. Rest = WantedOf(job.kind, <<>>)
      BY <1>2, <2>4 DEF Rest, RestOf, Formats, PageFormats, AttachmentKinds
    <3>2. QED
      BY <2>1, <2>4, <3>1, WantedParts
  <2>5. QED
    BY <2>1, <2>2, <2>3, <2>4
<1>9. Progress'
  BY <1>1, <1>2, <1>3, <1>5, <1>8, ProgressKept
<1>10. QED
  BY <1>6, <1>7, <1>9 DEF JobInv

LEMMA CsvIsPath == CsvPath \in Paths
<1>1. "mboxshell_export.csv" \in Words
  BY DEF Words
<1> HIDE DEF Words
<1>2. <<"mboxshell_export.csv">> \in Seq(Words) /\ <<"mboxshell_export.csv">> # <<>>
  BY <1>1
<1>3. QED
  BY <1>2 DEF CsvPath, Paths

LEMMA NextCsvJob ==
  ASSUME ExportInv, NextCsv
  PROVE  JobInv'
<1>1. JobInv /\ JobTypes /\ AtHand /\ Progress
  BY DEF ExportInv, JobInv
<1>2. /\ job.pc = "message" /\ job.kind = "csv" /\ job.todo # <<>>
      /\ marked' = marked /\ current_body' = current_body
  BY DEF NextCsv, NextOne, JobStep, viewVars
<1>3. PICK content :
          /\ content \in {CsvRows(job.todo), <<"incomplete">>}
          /\ files' = [f \in DOMAIN files \cup {CsvPath} |-> IF f = CsvPath THEN content ELSE files[f]]
          /\ job' = IF content = <<"incomplete">> THEN Failed
                    ELSE [job EXCEPT !.todo = <<>>, !.saved = <<CsvPath>>]
  BY DEF NextCsv
<1>4. job.saved = <<>> /\ Range(job.saved) = {}
  <2>1. Len(job.saved) = 0 /\ job.saved \in Seq(Paths)
    BY <1>1, <1>2 DEF AtHand, JobTypes
  <2>2. job.saved = <<>>
    BY <2>1
  <2>3. QED
    BY <2>2 DEF Range
<1>5. SavedKept
  BY <1>4 DEF SavedKept
<1>6. DOMAIN files \subseteq DOMAIN files' /\ DOMAIN files' \subseteq Paths
      /\ CsvPath \in DOMAIN files' /\ files'[CsvPath] = content
  BY <1>1, <1>3, CsvIsPath DEF JobTypes
<1>7. CASE content = <<"incomplete">>
  <2>1. job' = Failed
    BY <1>3, <1>7
  <2>2. QED
    BY <1>1, <1>2, <1>5, <1>6, <2>1, FailedStep
<1>8. CASE content # <<"incomplete">>
  <2>1. job' = [job EXCEPT !.todo = <<>>, !.saved = <<CsvPath>>] /\ content = CsvRows(job.todo)
    BY <1>3, <1>8
  <2>2. /\ job'.kind = job.kind /\ job'.asked = job.asked /\ job'.todo = <<>>
        /\ job'.parts = job.parts /\ job'.saved = <<CsvPath>> /\ job'.skipped = job.skipped
        /\ job'.pc = job.pc /\ job'.outcome = job.outcome /\ DOMAIN job' = DOMAIN job
    BY <1>1, <2>1, JobFacts
  <2>3. job.outcome = "running" /\ job.todo \in Seq(Entries)
    BY <1>1, <1>2 DEF JobTypes
  <2>4. JobTypes'
    <3>1. Range(job'.saved) = {CsvPath} /\ job'.saved \in Seq(Paths)
      BY <2>2, CsvIsPath DEF Range
    <3>2. QED
      BY <1>1, <1>6, <2>2, <3>1 DEF JobTypes, IsJob
  <2>5. AtHand'
    <3>1. Len(job'.saved) = 1
      BY <2>2
    <3>2. QED
      BY <1>1, <1>2, <2>2, <3>1 DEF AtHand, PageFormats, AttachmentKinds
  <2> DEFINE rows == CsvRows(job.todo)
  <2>6. Rest = <<rows>> /\ Rest' = <<>>
    <3>1. WantedOf("csv", job.todo) = <<rows>>
      BY <2>3, WantedRows
    <3>2. QED
      BY <1>2, <2>2, <3>1 DEF Rest, RestOf, Formats, PageFormats
  <2>7. files'[CsvPath] = rows
    BY <1>6, <2>1
  <2> HIDE DEF rows
  <2>8. Rest # <<>> /\ Head(Rest) = rows /\ Rest' = Tail(Rest)
    BY <2>6
  <2>9. job'.saved = Append(job.saved, CsvPath) /\ CsvPath \notin Range(job.saved)
    BY <1>4, <2>2
  <2>10. Progress'
    <3>1. \E path : /\ job'.saved = Append(job.saved, path)
                    /\ path \notin Range(job.saved) /\ path \in Paths
                    /\ files'[path] = Head(Rest)
      BY <2>7, <2>8, <2>9, CsvIsPath
    <3>2. job.pc # "idle" /\ job'.pc \notin {"path", "store"} /\ job'.outcome = "running"
      BY <1>2, <2>2, <2>3
    <3>3. QED
      BY <1>1, <1>5, <2>2, <2>3, <2>8, <3>1, <3>2, ProgressMade
  <2>11. QED
    BY <2>4, <2>5, <2>10 DEF JobInv
<1>9. QED
  BY <1>7, <1>8

(* The file at hand. *)
LEMMA ChoosePathJob ==
  ASSUME ExportInv, ChoosePath
  PROVE  JobInv'
<1>1. JobInv /\ JobTypes /\ AtHand
  BY DEF ExportInv, JobInv
<1>2. job.pc = "path" /\ files' = files /\ marked' = marked /\ current_body' = current_body
  BY DEF ChoosePath, JobStep, viewVars
<1> DEFINE path == UniquePath(job.path)
           content == job.content
<1>3. job' = [job EXCEPT !.pc = "store", !.path = path, !.content = content]
  <2>1. job' = [job EXCEPT !.pc = "store", !.path = path]
    BY DEF ChoosePath
  <2>2. DOMAIN job = {"pc", "kind", "asked", "todo", "parts", "path", "content", "saved",
                      "skipped", "outcome"}
    BY <1>1, JobFacts
  <2> HIDE DEF path
  <2>3. QED
    BY <2>1, <2>2
<1>4. /\ job.path \in Paths /\ job.kind # "csv" /\ job.todo # <<>>
      /\ job.kind \in AttachmentKinds => job.parts # <<>>
  BY <1>1, <1>2 DEF AtHand
<1>5. path \in Paths
  BY <1>4, NumberedPaths
<1> HIDE DEF path, content
<1>6. content = job.content
  BY DEF content
<1>7. job.pc # "idle" /\ job.pc # "message" /\ job.pc \in {"path", "store"}
  BY <1>2
<1>8. QED
  BY <1>1, <1>2, <1>3, <1>4, <1>5, <1>6, <1>7, PreparedStep

(* A file is written whole. *)
LEMMA StoredStep ==
  ASSUME ExportInv, job.pc = "store", marked' = marked, current_body' = current_body,
         files' = [f \in DOMAIN files \cup {job.path} |->
                      IF f = job.path THEN job.content ELSE files[f]],
         job' = IF job.kind \in Formats
                THEN [job EXCEPT !.pc = "message", !.todo = Tail(job.todo),
                                 !.saved = Append(job.saved, job.path)]
                ELSE [job EXCEPT !.pc = "part", !.parts = Tail(job.parts),
                                 !.saved = Append(job.saved, job.path)]
  PROVE  JobInv'
<1>1. JobInv /\ JobTypes /\ AtHand /\ Progress /\ ViewInv /\ IsFreeName(job.path)
  BY DEF ExportInv, JobInv, StoreInv
<1>2. /\ job.path \in Paths /\ job.kind # "csv" /\ job.todo # <<>>
      /\ job.kind \in AttachmentKinds => job.parts # <<>>
  BY <1>1 DEF AtHand
<1>3. /\ job.outcome = "running" /\ job.todo \in Seq(Entries) /\ job.parts \in Seq(Nat)
      /\ job.kind \in Formats \cup AttachmentKinds /\ job.saved \in Seq(Paths)
      /\ Range(job.saved) \subseteq DOMAIN files /\ DOMAIN files \subseteq Paths
  BY <1>1, <1>2 DEF JobTypes
<1>4. Tail(job.todo) \in Seq(Entries)
  BY <1>2, <1>3
<1>5. job.kind \in AttachmentKinds => job.kind \notin Formats
  BY DEF AttachmentKinds, Formats, PageFormats
<1>6. /\ job'.kind = job.kind /\ job'.asked = job.asked /\ job'.skipped = job.skipped
      /\ job'.saved = Append(job.saved, job.path) /\ job'.outcome = "running"
      /\ DOMAIN job' = DOMAIN job
      /\ job.kind \in Formats => /\ job'.pc = "message" /\ job'.todo = Tail(job.todo)
                                 /\ job'.parts = job.parts
      /\ job.kind \in AttachmentKinds => /\ job'.pc = "part" /\ job'.todo = job.todo
                                         /\ job'.parts = Tail(job.parts)
  <2>1. DOMAIN job = {"pc", "kind", "asked", "todo", "parts", "path", "content", "saved",
                      "skipped", "outcome"}
    BY <1>1, JobFacts
  <2>2. CASE job.kind \in Formats
    BY <1>3, <1>5, <2>1, <2>2
  <2>3. CASE job.kind \in AttachmentKinds
    BY <1>3, <1>5, <2>1, <2>3
  <2>4. QED
    BY <1>3, <2>2, <2>3
<1>7. DOMAIN files' = DOMAIN files \cup {job.path} /\ files'[job.path] = job.content
      /\ \A f \in DOMAIN files : f # job.path => files'[f] = files[f]
  OBVIOUS
<1>8. Append(job.saved, job.path) \in Seq(Paths)
      /\ Range(Append(job.saved, job.path)) = Range(job.saved) \cup {job.path}
  <2> DEFINE saved == job.saved
             path == job.path
             more == Append(saved, path)
  <2>1. saved \in Seq(Paths) /\ path \in Paths
    BY <1>2, <1>3
  <2> HIDE DEF saved, path
  <2>2. /\ more \in Seq(Paths) /\ DOMAIN more = 1 .. Len(saved) + 1 /\ Len(saved) \in Nat
        /\ DOMAIN saved = 1 .. Len(saved)
        /\ \A k \in 1 .. Len(saved) : more[k] = saved[k]
        /\ more[Len(saved) + 1] = path
    BY <2>1
  <2>3. \A k \in 1 .. Len(saved) + 1 : k = Len(saved) + 1 \/ k \in 1 .. Len(saved)
    BY <2>2
  <2>4. Len(saved) + 1 \in 1 .. Len(saved) + 1
        /\ \A k \in 1 .. Len(saved) : k \in 1 .. Len(saved) + 1
    BY <2>2
  <2> HIDE DEF more
  <2>5. Range(more) = Range(saved) \cup {path}
    BY <2>2, <2>3, <2>4 DEF Range
  <2>6. QED
    BY <2>2, <2>5 DEF more, saved, path
<1>9. JobTypes'
  <2>1. Range(job'.saved) \subseteq DOMAIN files' /\ DOMAIN files' \subseteq Paths
        /\ job'.saved \in Seq(Paths)
    BY <1>2, <1>3, <1>6, <1>7, <1>8
  <2>2. CASE job.kind \in Formats
    BY <1>1, <1>4, <1>6, <2>1, <2>2 DEF JobTypes, IsJob
  <2>3. CASE job.kind \in AttachmentKinds
    <3>1. Tail(job.parts) \in Seq(Nat)
      BY <1>2, <1>3, <2>3
    <3>2. QED
      BY <1>1, <1>6, <2>1, <2>3, <3>1 DEF JobTypes, IsJob
  <2>4. QED
    BY <1>3, <2>2, <2>3
<1>10. AtHand'
  <2>1. CASE job.kind \in Formats
    <3>1. job.kind \in PageFormats /\ marked = {} => Tail(job.todo) = <<>>
      <4>1. ASSUME job.kind \in PageFormats, marked = {}
            PROVE  Tail(job.todo) = <<>>
        <5>1. job.todo = current_body
          BY <1>1, <1>2, <4>1 DEF AtHand
        <5>2. current_body = <<visible[row]>>
          BY <1>1, <1>2, <5>1 DEF ViewInv
        <5>3. QED
          BY <5>1, <5>2
      <4>2. QED
        BY <4>1
    <3>2. job.kind \notin AttachmentKinds
      BY <2>1 DEF AttachmentKinds, Formats, PageFormats
    <3>3. QED
      BY <1>1, <1>2, <1>6, <2>1, <3>1, <3>2 DEF AtHand, AttachmentKinds
  <2>2. CASE job.kind \in AttachmentKinds
    <3>1. job.kind \notin PageFormats
      BY <2>2 DEF AttachmentKinds, PageFormats
    <3>2. job.parts # <<>> /\ \A k \in DOMAIN job.parts : job.parts[k] \in DOMAIN Attachments[Head(job.todo)]
      BY <1>1, <1>2, <2>2 DEF AtHand
    <3>3. \A k \in DOMAIN Tail(job.parts) : \E j \in DOMAIN job.parts : Tail(job.parts)[k] = job.parts[j]
      <4> DEFINE parts == job.parts
      <4>1. parts \in Seq(Nat) /\ parts # <<>>
        BY <1>3, <3>2
      <4> HIDE DEF parts
      <4>2. Tail(parts) = [k \in 1 .. Len(parts) - 1 |-> parts[k + 1]]
        BY <4>1, TailIs
      <4>3. DOMAIN parts = 1 .. Len(parts) /\ Len(parts) \in Nat
        BY <4>1
      <4>4. \A k \in 1 .. Len(parts) - 1 : k + 1 \in DOMAIN parts
        BY <4>3
      <4>5. \A k \in DOMAIN Tail(parts) : \E j \in DOMAIN parts : Tail(parts)[k] = parts[j]
        BY <4>2, <4>4
      <4>6. QED
        BY <4>5 DEF parts
    <3>4. \A k \in DOMAIN Tail(job.parts) : Tail(job.parts)[k] \in DOMAIN Attachments[Head(job.todo)]
      BY <3>2, <3>3
    <3>5. QED
      BY <1>1, <1>2, <1>6, <2>2, <3>1, <3>4 DEF AtHand
  <2>3. QED
    BY <1>3, <2>1, <2>2
<1>11. Rest # <<>> /\ Rest' = Tail(Rest)
  <2>1. Rest' = RestOf(job'.kind, job'.pc, job'.todo, job'.parts)
    BY DEF Rest
  <2>2. CASE job.kind \in Formats
    <3>1. Rest # <<>> /\ \A pc, parts : Tail(Rest) = RestOf(job.kind, pc, Tail(job.todo), parts)
      BY <1>1, <1>2, <2>2, PageAhead
    <3>2. QED
      BY <1>6, <2>1, <2>2, <3>1
  <2>3. CASE job.kind \in AttachmentKinds
    <3>1. Rest # <<>> /\ Tail(Rest) = RestOf(job.kind, "part", job.todo, Tail(job.parts))
      BY <1>1, <1>2, <2>3, PartAhead
    <3>2. QED
      BY <1>6, <2>1, <2>3, <3>1
  <2>4. QED
    BY <1>3, <2>2, <2>3
<1>12. \/ UsesFallback'
       \/ job.path \notin DOMAIN files
  <2>1. CASE \E base \in DOMAIN files : job.path = Fallback(base)
    <3>1. PICK base \in Paths : job.path = Fallback(base)
      BY <1>3, <2>1
    <3>2. Len(job.path[2]) > 1 /\ Last(job.path[2]) = Dup
      BY <3>1, NumberedPaths
    <3>3. job.path \in Range(job'.saved)
      BY <1>6, <1>8
    <3>4. QED
      BY <3>2, <3>3 DEF UsesFallback
  <2>2. QED
    BY <1>1, <2>1 DEF IsFreeName
<1>13. job.path \notin DOMAIN files =>
           SavedKept /\ job.path \notin Range(job.saved) /\ files'[job.path] = Head(Rest)
  <2>1. job.path \notin DOMAIN files => SavedKept /\ job.path \notin Range(job.saved)
    BY <1>3, <1>7 DEF SavedKept
  <2>2. job.content = Head(Rest)
    <3>1. PICK target \in Targets : \E n \in 0 .. Len(target) : IsProgress(target, n)
      BY <1>1, <1>3 DEF Progress
    <3>2. PICK n \in 0 .. Len(target) : IsProgress(target, n)
      BY <3>1
    <3>3. target \in Seq(Items)
      BY <1>1, TargetFacts
    <3>4. /\ Rest = SubSeq(target, n + 1, Len(target))
          /\ n < Len(target) /\ job.content = target[n + 1]
      BY <3>2 DEF IsProgress
    <3>5. Head(Rest) = target[n + 1]
      BY <3>3, <3>4, Ahead
    <3>6. QED
      BY <3>4, <3>5
  <2>3. QED
    BY <1>7, <2>1, <2>2
<1>14. Progress'
  <2>1. job'.pc \notin {"path", "store"}
    BY <1>3, <1>6
  <2>2. \/ UsesFallback'
        \/ /\ SavedKept /\ job'.skipped = job.skipped
           /\ \E path : /\ job'.saved = Append(job.saved, path)
                        /\ path \notin Range(job.saved) /\ path \in Paths
                        /\ files'[path] = Head(Rest)
    BY <1>2, <1>6, <1>12, <1>13
  <2>3. job.pc # "idle"
    OBVIOUS
  <2>4. QED
    BY <1>1, <1>3, <1>6, <1>11, <2>1, <2>2, <2>3, ProgressMade
<1>15. QED
  BY <1>9, <1>10, <1>14 DEF JobInv

LEMMA StoreJob ==
  ASSUME ExportInv, Store
  PROVE  JobInv'
<1>1. JobInv /\ JobTypes /\ AtHand /\ IsFreeName(job.path)
  BY DEF ExportInv, JobInv, StoreInv, Store
<1>2. job.pc = "store" /\ marked' = marked /\ current_body' = current_body
  BY DEF Store, JobStep, viewVars
<1>3. PICK content :
          /\ content \in {job.content, <<"incomplete">>}
          /\ files' = [f \in DOMAIN files \cup {job.path} |-> IF f = job.path THEN content ELSE files[f]]
          /\ job' = CASE content = job.content /\ job.kind \in Formats ->
                              [job EXCEPT !.pc = "message", !.todo = Tail(@), !.saved = Append(@, job.path)]
                       [] content = job.content /\ job.kind \notin Formats ->
                              [job EXCEPT !.pc = "part", !.parts = Tail(@), !.saved = Append(@, job.path)]
                       [] content # job.content /\ job.kind = "bulk" -> Skipped
                       [] OTHER -> Failed
  BY DEF Store
<1>4. /\ job.path \in Paths /\ job.todo # <<>> /\ DOMAIN files \subseteq Paths
      /\ job.kind \in AttachmentKinds => job.parts # <<>>
  BY <1>1, <1>2 DEF AtHand, JobTypes
<1>5. CASE content = job.content
  <2>1. job' = IF job.kind \in Formats
               THEN [job EXCEPT !.pc = "message", !.todo = Tail(job.todo),
                                !.saved = Append(job.saved, job.path)]
               ELSE [job EXCEPT !.pc = "part", !.parts = Tail(job.parts),
                                !.saved = Append(job.saved, job.path)]
    BY <1>3, <1>5
  <2>2. files' = [f \in DOMAIN files \cup {job.path} |->
                     IF f = job.path THEN job.content ELSE files[f]]
    BY <1>3, <1>5
  <2>3. QED
    BY <1>2, <2>1, <2>2, StoredStep
<1>6. CASE content # job.content
  <2>1. job' = IF job.kind = "bulk" THEN Skipped ELSE Failed
    BY <1>3, <1>6
  <2>2. DOMAIN files \subseteq DOMAIN files' /\ DOMAIN files' \subseteq Paths
        /\ \A f \in DOMAIN files : f # job.path => files'[f] = files[f]
    BY <1>3, <1>4
  <2>3. job'.saved = job.saved
    BY <1>1, <2>1, JobFacts DEF Skipped, Failed
  <2>4. SavedKept \/ UsesFallback'
    <3>1. CASE job.path \notin Range(job.saved)
      BY <1>1, <2>2, <3>1 DEF SavedKept, JobTypes
    <3>2. CASE job.path \in Range(job.saved)
      <4>1. job.path \in DOMAIN files
        BY <1>1, <3>2 DEF JobTypes
      <4>2. PICK base \in Paths : job.path = Fallback(base)
        BY <1>1, <1>4, <4>1 DEF IsFreeName
      <4>3. Len(job.path[2]) > 1 /\ Last(job.path[2]) = Dup
        BY <4>2, NumberedPaths
      <4>4. QED
        BY <2>3, <3>2, <4>3 DEF UsesFallback
    <3>3. QED
      BY <3>1, <3>2
  <2>5. CASE job.kind = "bulk"
    <3>1. job' = Skipped /\ job.parts # <<>> /\ job.pc \in {"part", "path", "store"}
      BY <1>2, <1>4, <2>1, <2>5 DEF AttachmentKinds
    <3>2. QED
      BY <1>1, <1>4, <2>2, <2>4, <2>5, <3>1, SkippedStep
  <2>6. CASE job.kind # "bulk"
    <3>1. job' = Failed /\ job.pc # "idle"
      BY <1>2, <2>1, <2>6
    <3>2. QED
      BY <1>1, <2>2, <2>4, <3>1, FailedStep
  <2>7. QED
    BY <2>5, <2>6
<1>7. QED
  BY <1>5, <1>6

LEMMA ExportInvKept ==
  ASSUME ExportInv, [Next]_vars
  PROVE  ExportInv'
<1>1. StoreInv'
  BY EveryStep DEF ExportInv
<1>2. CASE Select \/ Show \/ ToggleMark \/ ToggleVisible
  BY <1>1, <1>2, ListSteps DEF ExportInv
<1>3. CASE Truncate \/ OtherSaves
  BY <1>1, <1>3, OutsideSteps DEF ExportInv
<1>4. CASE ExportSelection \/ SaveAttachments \/ SaveOne \/ ExtractAll
  BY <1>1, <1>4, BeginSteps DEF ExportInv
<1>5. CASE \/ NextEml \/ NextPage \/ NextCsv \/ NextMessage \/ NextPart \/ EndParts \/ EndExport
           \/ ChoosePath \/ Store
  <2>1. visible' = visible /\ row' = row /\ current_body' = current_body /\ marked' = marked
    BY <1>5 DEF NextEml, NextPage, NextCsv, NextMessage, NextPart, EndParts, EndExport,
                ChoosePath, Store, NextOne, JobStep, viewVars
  <2>2. ViewInv'
    BY <2>1 DEF ExportInv, ViewInv
  <2>3. JobInv'
    BY <1>5, NextEmlJob, NextPageJob, NextCsvJob, NextMessageJob, NextPartJob, EndPartsJob,
       EndExportJob, ChoosePathJob, StoreJob
  <2>4. QED
    BY <1>1, <2>2, <2>3 DEF ExportInv
<1>6. CASE UNCHANGED vars
  <2>1. /\ visible' = visible /\ row' = row /\ current_body' = current_body /\ marked' = marked
        /\ job' = job /\ files' = files
    BY <1>6 DEF vars, viewVars
  <2>2. ViewInv'
    BY <2>1 DEF ExportInv, ViewInv
  <2>3. JobInv /\ DOMAIN files \subseteq Paths
    BY DEF ExportInv, JobInv, JobTypes
  <2>4. /\ \A f \in DOMAIN files : f \in DOMAIN files' /\ files'[f] = files[f]
        /\ DOMAIN files' \subseteq Paths
    BY <2>1, <2>3
  <2>5. JobInv'
    BY <2>1, <2>3, <2>4, JobLeft
  <2>6. QED
    BY <1>1, <2>2, <2>5 DEF ExportInv
<1>7. QED
  BY <1>2, <1>3, <1>4, <1>5, <1>6 DEF Next

(* What the invariant says between two exports. *)
LEMMA ExportsAreWhole ==
  ASSUME ExportInv
  PROVE  EachChosenItsFile
<1>1. SUFFICES ASSUME job.pc = "idle", job.outcome # "none", ~UsesFallback
               PROVE  EachChosenItsFile
  BY DEF EachChosenItsFile
<1>2. JobTypes /\ AtHand /\ Progress
  BY DEF ExportInv, JobInv
<1>3. PICK target \in Targets : \E n \in 0 .. Len(target) : IsProgress(target, n)
  BY <1>1, <1>2 DEF Progress
<1>4. PICK n \in 0 .. Len(target) : IsProgress(target, n)
  BY <1>3
<1>5. target \in Seq(Items) /\ (job.kind # "one" => target = Wanted)
  BY <1>2, TargetFacts
<1>6. /\ \A i, j \in DOMAIN job.saved : job.saved[i] = job.saved[j] => i = j
      /\ IF job.kind = "bulk"
         THEN /\ IsSubsequence(SavedContents, SubSeq(target, 1, n))
              /\ Len(job.saved) + job.skipped = n
         ELSE SavedContents = SubSeq(target, 1, n)
      /\ job.outcome = "done" => n = Len(target)
  BY <1>1, <1>4 DEF IsProgress, Keeps
<1>7. Cardinality(Range(job.saved)) = Len(job.saved)
  <2> DEFINE last == Len(job.saved)
             all == Range(job.saved)
             saved == job.saved
  <2>1. saved \in [1 .. last -> all] /\ last \in Nat /\ DOMAIN saved = 1 .. last
        /\ \A f \in all : \E k \in 1 .. last : saved[k] = f
    BY <1>2, JobFacts DEF Range, JobTypes
  <2>2. \A i, j \in 1 .. last : saved[i] = saved[j] => i = j
    BY <1>6, <2>1
  <2> HIDE DEF last, all, saved
  <2>3. saved \in Bijection(1 .. last, all)
    BY <2>1, <2>2 DEF Bijection, Injection, Surjection, IsInjective
  <2>4. IsFiniteSet(1 .. last) /\ Cardinality(1 .. last) = last
    BY <2>1, FS_Interval
  <2>5. Cardinality(all) = last
    <3>1. ExistsBijection(1 .. last, all)
      BY <2>3 DEF ExistsBijection
    <3>2. QED
      BY <2>4, <3>1, FS_Bijection
  <2>6. QED
    BY <2>5 DEF all, last
<1>8. CASE job.kind = "one"
  <2>1. PICK m \in Entries : job.asked = {m}
    BY <1>2, <1>8 DEF AtHand
  <2>2. (CHOOSE e \in job.asked : TRUE) = m
    BY <2>1
  <2>3. job.outcome = "done" => \E i \in DOMAIN Attachments[m] : SavedContents = << <<m, i>> >>
    <3>1. SUFFICES ASSUME job.outcome = "done"
                   PROVE  \E i \in DOMAIN Attachments[m] : SavedContents = << <<m, i>> >>
      OBVIOUS
    <3>2. PICK i \in DOMAIN Attachments[m] : target = << <<m, i>> >>
      BY <1>8, <2>1 DEF Targets
    <3>3. SavedContents = SubSeq(target, 1, Len(target))
      BY <1>6, <1>8, <3>1
    <3>4. SubSeq(target, 1, Len(target)) = target
      BY <1>5, SubSeqFull
    <3>5. QED
      BY <3>2, <3>3, <3>4
  <2>4. QED
    BY <1>7, <1>8, <2>2, <2>3 DEF EachChosenItsFile
<1>9. CASE job.kind = "bulk"
  <2>1. IsSubsequence(SavedContents, SubSeq(target, 1, n)) /\ Len(job.saved) + job.skipped = n
    BY <1>6, <1>9
  <2>2. SavedContents \in Seq(Items)
    BY <1>2, <1>5, <2>1, BulkContents
  <2>3. IsSubsequence(SavedContents, target)
    BY <1>5, <2>1, <2>2, SubsequenceGrows
  <2>4. target = Wanted
    BY <1>5, <1>9
  <2>5. QED
    BY <1>6, <1>7, <1>9, <2>1, <2>3, <2>4 DEF EachChosenItsFile
<1>10. CASE job.kind # "one" /\ job.kind # "bulk"
  <2>1. SavedContents = SubSeq(target, 1, n) /\ target = Wanted
    BY <1>5, <1>6, <1>10
  <2>2. Len(job.saved) = n
    <3>1. DOMAIN SavedContents = 1 .. Len(job.saved) /\ Len(job.saved) \in Nat
      BY <1>2, JobFacts DEF SavedContents
    <3>2. Len(target) \in Nat /\ n \in Nat
      BY <1>5
    <3>3. Len(SubSeq(target, 1, n)) = n /\ DOMAIN SubSeq(target, 1, n) = 1 .. n
      BY <1>5, <3>2
    <3>4. 1 .. Len(job.saved) = 1 .. n
      BY <2>1, <3>1, <3>3
    <3>5. QED
      BY <3>1, <3>2, <3>4
  <2>3. QED
    BY <1>6, <1>7, <1>10, <2>1, <2>2 DEF EachChosenItsFile
<1>11. QED
  BY <1>8, <1>9, <1>10

(* An export that succeeds has a file of its own for everything it was     *)
(* asked for, in the order of the mailbox and with the right content; one  *)
(* that fails has an initial part of it, and a bulk extraction lacks only  *)
(* the parts it warned about: for every mailbox, every list on the screen, *)
(* every way the names clash and every failure of a read or a write        *)
(* (tui/event.rs:615-800, export/eml.rs:57-78,                             *)
(* export/attachment.rs:29-86).                                            *)
THEOREM EveryExportIsWhole == Spec => []EachChosenItsFile
<1>1. Init => ExportInv
  BY ExportInitially
<1>2. ExportInv /\ [Next]_vars => ExportInv'
  BY ExportInvKept
<1>3. ExportInv => EachChosenItsFile
  BY ExportsAreWhole
<1>4. QED
  BY <1>1, <1>2, <1>3, PTL DEF Spec

=============================================================================
