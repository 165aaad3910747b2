----------------------------- MODULE IndexBuild ------------------------------
(***************************************************************************)
(* The persistent index of a mailbox: build_index_cancelable, load_index   *)
(* and write_index (index/builder.rs) with IndexHeader (index/format.rs).  *)
(* Processes call build_index on the same mailbox; the file system, the    *)
(* user and other programs act between any two of their steps.             *)
(*                                                                         *)
(* A content of the mailbox is an atom of which the code can see the size, *)
(* the first 4 KB and the number of messages.  "versions" is the history   *)
(* of the mailbox: its last element is the content now, its length the     *)
(* modification time now.  An index file has two parts, written by two     *)
(* calls of write_all: the header and the entries.  A part is <<>> until   *)
(* it is written; a file cut inside its header or with a hole of zeros     *)
(* there (no magic) has header <<>>, one cut inside its entries has        *)
(* entries <<>>.                                                           *)
(*                                                                         *)
(* Left out: index_size_acceptable (the index of a mailbox is smaller than *)
(* it), a mailbox that is missing or unreadable, a header with another     *)
(* version (like no header), and messages that fail to parse.              *)
(***************************************************************************)
EXTENDS Naturals, Sequences

CONSTANTS
    Procs,        \* processes that call build_index
    Contents,     \* what the mailbox may contain
    SizeOf,       \* SizeOf[c]: its size in bytes
    HeadOf,       \* HeadOf[c]: its first HASH_PREFIX_LEN bytes
    CountOf,      \* CountOf[c]: its messages
    MaxVersions,  \* bound on the changes of the mailbox
    MaxFaults,    \* bound on crashes and failed writes
    MaxStamp,     \* the last time an i64 of nanoseconds can hold
    QuietBuild    \* whether the mailbox stays as it is during a build

ASSUME IndexAssumption ==
    /\ SizeOf \in [Contents -> Nat]
    /\ HeadOf \in [Contents -> Nat]
    /\ CountOf \in [Contents -> Nat]
    /\ MaxVersions \in Nat \ {0}
    /\ MaxFaults \in Nat
    /\ MaxStamp \in Nat
    /\ QuietBuild \in BOOLEAN

VARIABLES
    versions,  \* the contents the mailbox has had
    index,     \* index[slot]: the index file beside the mailbox, and the one in the cache
    pc,        \* pc[p]: the step process p is at
    cancel,    \* cancel[p]: should_cancel() is true from now on
    target,    \* target[p]: the slot p reads or writes
    data,      \* data[p]: the index file p has read
    stat,      \* stat[p]: when p took the mailbox's metadata (a length of versions)
    entries,   \* entries[p]: what p has parsed: <<>> or <<list>>
    header,    \* header[p]: the fingerprint p is about to write: <<>> or <<fingerprint>>
    outcome,   \* outcome[p]: what its last call returned
    since,     \* since[p]: when that call began (a length of versions)
    faults     \* crashes and failed writes so far

vars == <<versions, index, pc, cancel, target, data, stat, entries, header, outcome,
          since, faults>>

Slots == {"primary", "cache"}

(* The entries of content "of", or only of the messages before a cancel. *)
EntryList == [of : Contents, whole : BOOLEAN]

Fingerprint == [size : Nat, mtime : Nat, head : Nat, count : Nat]

(* A value of S or none: <<x>> or <<>>. *)
Optional(x, S) == x \in Seq(S) /\ Len(x) <= 1

IsIndexFile(file) ==
    /\ file.exists \in BOOLEAN
    /\ Optional(file.header, Fingerprint)
    /\ Optional(file.entries, EntryList)
    /\ ~file.exists => file.header = <<>> /\ file.entries = <<>>

Steps == {"idle", "locate", "locate_cache", "read", "stat", "hash", "parse", "check",
          "wstat", "whash", "create", "header", "entries"}

(* From the parse to the last write. *)
Building(p) == pc[p] \in {"parse", "check", "wstat", "whash", "create", "header", "entries"}

Outcomes == {<<"none">>, <<"error">>, <<"cancelled">>} \cup {<<"entries", e>> : e \in EntryList}

TypeOK ==
    /\ versions \in Seq(Contents) /\ Len(versions) \in 1 .. MaxVersions
    /\ \A s \in Slots : IsIndexFile(index[s])
    /\ \A p \in Procs : IsIndexFile(data[p])
    /\ pc \in [Procs -> Steps]
    /\ cancel \in [Procs -> BOOLEAN]
    /\ target \in [Procs -> Slots]
    /\ stat \in [Procs -> 0 .. MaxVersions]
    /\ \A p \in Procs : Optional(entries[p], EntryList) /\ Optional(header[p], Fingerprint)
    /\ outcome \in [Procs -> Outcomes]
    /\ since \in [Procs -> 1 .. MaxVersions]
    /\ faults \in 0 .. MaxFaults

-----------------------------------------------------------------------------
NoFile == [exists |-> FALSE, header |-> <<>>, entries |-> <<>>]

EmptyFile == [exists |-> TRUE, header |-> <<>>, entries |-> <<>>]

Now == Len(versions)

Mailbox == versions[Now]

(* mtime_nanos: a time it cannot represent is 0. *)
Stamp(t) == IF t <= MaxStamp THEN t ELSE 0

Count(list) == IF list.whole THEN CountOf[list.of] ELSE CountOf[list.of] - 1

(* Whether every entry ends inside a mailbox of n bytes. *)
InBounds(list, n) == SizeOf[list.of] <= n

Init ==
    /\ versions \in {<<c>> : c \in Contents}
    /\ index = [s \in Slots |-> NoFile]
    /\ pc = [p \in Procs |-> "idle"]
    /\ cancel = [p \in Procs |-> FALSE]
    /\ target = [p \in Procs |-> "primary"]
    /\ data = [p \in Procs |-> NoFile]
    /\ stat = [p \in Procs |-> 0]
    /\ entries = [p \in Procs |-> <<>>]
    /\ header = [p \in Procs |-> <<>>]
    /\ outcome = [p \in Procs |-> <<"none">>]
    /\ since = [p \in Procs |-> 1]
    /\ faults = 0

Goto(p, step) == pc' = [pc EXCEPT ![p] = step]

At(p, step) == pc[p] = step

(* The call ends: the process forgets everything but what it returned. *)
Return(p, result) ==
    /\ Goto(p, "idle")
    /\ outcome' = [outcome EXCEPT ![p] = result]
    /\ cancel' = [cancel EXCEPT ![p] = FALSE]
    /\ target' = [target EXCEPT ![p] = "primary"]
    /\ data' = [data EXCEPT ![p] = NoFile]
    /\ stat' = [stat EXCEPT ![p] = 0]
    /\ entries' = [entries EXCEPT ![p] = <<>>]
    /\ header' = [header EXCEPT ![p] = <<>>]

Call(p, force_rebuild) ==
    /\ At(p, "idle")
    /\ Goto(p, IF force_rebuild THEN "parse" ELSE "locate")
    /\ outcome' = [outcome EXCEPT ![p] = <<"none">>]
    /\ since' = [since EXCEPT ![p] = Now]
    /\ UNCHANGED <<versions, index, cancel, target, data, stat, entries, header, faults>>

-----------------------------------------------------------------------------
(* load_index: the cache is looked at only when there was no file beside   *)
(* the mailbox, whatever that file is worth.                               *)
Locate(p) ==
    /\ At(p, "locate")
    /\ \/ /\ index["primary"].exists
          /\ Goto(p, "read") /\ UNCHANGED target
       \/ /\ ~index["primary"].exists
          /\ Goto(p, "locate_cache") /\ target' = [target EXCEPT ![p] = "cache"]
    /\ UNCHANGED <<versions, index, cancel, data, stat, entries, header, outcome, since, faults>>

LocateInCache(p) ==
    /\ At(p, "locate_cache")
    /\ \/ /\ index["cache"].exists
          /\ Goto(p, "read") /\ UNCHANGED target
       \/ /\ ~index["cache"].exists
          /\ Goto(p, "parse") /\ target' = [target EXCEPT ![p] = "primary"]
    /\ UNCHANGED <<versions, index, cancel, data, stat, entries, header, outcome, since, faults>>

(* load_index_from_file reads the whole file; one too short for a header,  *)
(* or with a header that does not validate, is no index.                   *)
ReadIndex(p) ==
    /\ At(p, "read")
    /\ data' = [data EXCEPT ![p] = index[target[p]]]
    /\ Goto(p, IF index[target[p]].header = <<>> THEN "parse" ELSE "stat")
    /\ target' = [target EXCEPT ![p] = "primary"]
    /\ UNCHANGED <<versions, index, cancel, stat, entries, header, outcome, since, faults>>

MutStatComparesSizeOnly(p) ==
    /\ At(p, "stat")
    /\ stat' = [stat EXCEPT ![p] = Now]
    /\ Goto(p, IF data[p].header[1].size = SizeOf[Mailbox] THEN "hash" ELSE "parse")
    /\ UNCHANGED <<versions, index, cancel, target, data, entries, header, outcome, since, faults>>

StatMailbox(p) ==
    LET recorded == data[p].header[1]
    IN  /\ At(p, "stat")
        /\ stat' = [stat EXCEPT ![p] = Now]
        /\ Goto(p, IF recorded.size = SizeOf[Mailbox] /\ recorded.mtime = Stamp(Now)
                   THEN "hash" ELSE "parse")
        /\ UNCHANGED <<versions, index, cancel, target, data, entries, header, outcome,
                       since, faults>>

(* The last checks of a load.  Entries that do not decode are an error,    *)
(* which build_index passes on; anything else it dislikes makes it parse.  *)
HashMailbox(p) ==
    LET recorded == data[p].header[1]
        matches  == recorded.head = HeadOf[Mailbox]
        decodes  == data[p].entries # <<>>
        list     == data[p].entries[1]
        fits     == Count(list) = recorded.count
                    /\ InBounds(list, SizeOf[versions[stat[p]]])
    IN  /\ At(p, "hash")
        /\ \/ /\ matches /\ decodes /\ fits
              /\ Return(p, <<"entries", list>>)
           \/ /\ matches /\ ~decodes
              /\ Return(p, <<"error">>)
           \/ /\ ~matches \/ (decodes /\ ~fits)
              /\ Goto(p, "parse")
              /\ UNCHANGED <<outcome, cancel, target, data, stat, entries, header>>
        /\ UNCHANGED <<versions, index, since, faults>>

-----------------------------------------------------------------------------
(* The parse of the mailbox (module HeaderScan), which stops early only    *)
(* when it finds should_cancel() true.                                     *)
Parse(p) ==
    /\ At(p, "parse")
    /\ \E whole \in {TRUE, ~cancel[p]} :
           entries' = [entries EXCEPT ![p] = <<[of |-> Mailbox, whole |-> whole]>>]
    /\ Goto(p, "check")
    /\ UNCHANGED <<versions, index, cancel, target, data, stat, header, outcome, since, faults>>

MutKeepsPartialParse(p) ==
    /\ At(p, "check")
    /\ Goto(p, "wstat")
    /\ UNCHANGED <<versions, index, cancel, target, data, stat, entries, header, outcome,
                   since, faults>>

(* should_cancel() is asked once more before anything is written. *)
CheckCancel(p) ==
    /\ At(p, "check")
    /\ \/ cancel[p] /\ Return(p, <<"cancelled">>)
       \/ /\ ~cancel[p] /\ Goto(p, "wstat")
          /\ UNCHANGED <<outcome, cancel, target, data, stat, entries, header>>
    /\ UNCHANGED <<versions, index, since, faults>>

(* write_index: the fingerprint is taken from the mailbox as it is by now. *)
StatForHeader(p) ==
    /\ At(p, "wstat")
    /\ stat' = [stat EXCEPT ![p] = Now]
    /\ Goto(p, "whash")
    /\ UNCHANGED <<versions, index, cancel, target, data, entries, header, outcome, since, faults>>

HashForHeader(p) ==
    /\ At(p, "whash")
    /\ header' = [header EXCEPT ![p] =
           <<[size  |-> SizeOf[versions[stat[p]]],
              mtime |-> Stamp(stat[p]),
              head  |-> HeadOf[Mailbox],
              count |-> Count(entries[p][1])]>>]
    /\ Goto(p, "create")
    /\ UNCHANGED <<versions, index, cancel, target, data, stat, entries, outcome, since, faults>>

(* A failed write is tried again in the cache; a failure there is a        *)
(* warning, and the call returns its entries all the same.                 *)
WriteFailed(p) ==
    \/ /\ target[p] = "primary"
       /\ target' = [target EXCEPT ![p] = "cache"]
       /\ Goto(p, "create")
       /\ UNCHANGED <<outcome, cancel, data, stat, entries, header>>
    \/ /\ target[p] = "cache"
       /\ Return(p, <<"entries", entries[p][1]>>)

(* File::create truncates; it fails where the directory is read-only. *)
Create(p) ==
    /\ At(p, "create")
    /\ \/ /\ index' = [index EXCEPT ![target[p]] = EmptyFile]
          /\ Goto(p, "header")
          /\ UNCHANGED <<outcome, cancel, target, data, stat, entries, header>>
       \/ WriteFailed(p) /\ UNCHANGED index
    /\ UNCHANGED <<versions, since, faults>>

Fault == faults < MaxFaults /\ faults' = faults + 1

WriteHeader(p) ==
    /\ At(p, "header")
    /\ \/ /\ index' = [index EXCEPT ![target[p]].header = header[p]]
          /\ Goto(p, "entries")
          /\ UNCHANGED <<outcome, cancel, target, data, stat, entries, header, faults>>
       \/ WriteFailed(p) /\ Fault /\ UNCHANGED index
    /\ UNCHANGED <<versions, since>>

MutCancelsBetweenWrites(p) ==
    /\ At(p, "entries")
    /\ \/ cancel[p] /\ Return(p, <<"cancelled">>) /\ UNCHANGED index
       \/ /\ index' = [index EXCEPT ![target[p]].entries = entries[p]]
          /\ Return(p, <<"entries", entries[p][1]>>)
    /\ UNCHANGED <<versions, since, faults>>

WriteEntries(p) ==
    /\ At(p, "entries")
    /\ \/ /\ index' = [index EXCEPT ![target[p]].entries = entries[p]]
          /\ Return(p, <<"entries", entries[p][1]>>)
          /\ UNCHANGED faults
       \/ WriteFailed(p) /\ Fault /\ UNCHANGED index
    /\ UNCHANGED <<versions, since>>

-----------------------------------------------------------------------------
(* The user cancels the call. *)
RequestCancel(p) ==
    /\ ~At(p, "idle")
    /\ ~cancel[p]
    /\ cancel' = [cancel EXCEPT ![p] = TRUE]
    /\ UNCHANGED <<versions, index, pc, target, data, stat, entries, header, outcome,
                   since, faults>>

(* The process dies; what it has written stays. *)
Crash(p) ==
    /\ ~At(p, "idle")
    /\ Fault
    /\ Return(p, <<"none">>)
    /\ UNCHANGED <<versions, index, since>>

(* Another program rewrites the mailbox, appends to it or touches it. *)
MailboxChanges ==
    /\ Now < MaxVersions
    /\ QuietBuild => \A p \in Procs : ~Building(p)
    /\ \E c \in Contents : versions' = Append(versions, c)
    /\ UNCHANGED <<index, pc, cancel, target, data, stat, entries, header, outcome, since, faults>>

Next ==
    \/ \E p \in Procs, force_rebuild \in BOOLEAN : Call(p, force_rebuild)
    \/ \E p \in Procs :
           \/ Locate(p) \/ LocateInCache(p) \/ ReadIndex(p) \/ StatMailbox(p) \/ HashMailbox(p)
           \/ Parse(p) \/ CheckCancel(p) \/ StatForHeader(p) \/ HashForHeader(p)
           \/ Create(p) \/ WriteHeader(p) \/ WriteEntries(p)
           \/ RequestCancel(p) \/ Crash(p)
    \/ MailboxChanges

Spec == Init /\ [][Next]_vars

-----------------------------------------------------------------------------
(* A call that returns entries returns those of a content the mailbox had  *)
(* while the call ran, all of them: never those of an older version, nor   *)
(* what a cancelled parse had found (index/builder.rs:139-160, 75-77).     *)
ServesCurrent ==
    \A p \in Procs : outcome[p][1] = "entries" =>
        \E n \in since[p] .. Now : outcome[p][2] = [of |-> versions[n], whole |-> TRUE]

(* An index that the checks of a load would accept now describes the       *)
(* mailbox as it is now, whoever wrote its parts and in which order        *)
(* (index/builder.rs:194-249).                                             *)
IndexSound ==
    \A s \in Slots :
        LET file == index[s]
        IN  /\ file.header # <<>> /\ file.entries # <<>>
            /\ file.header[1].size = SizeOf[Mailbox]
            /\ file.header[1].mtime = Stamp(Now)
            /\ file.header[1].head = HeadOf[Mailbox]
            /\ file.header[1].count = Count(file.entries[1])
            => file.entries[1] = [of |-> Mailbox, whole |-> TRUE]

(* An index with a header and no entries, the state in which a load fails, *)
(* exists only while its writer is between the two writes, unless a        *)
(* process died or a write failed there (index/builder.rs:242-249).        *)
HalfIndexHasAWriter ==
    \A s \in Slots :
        index[s].header # <<>> /\ index[s].entries = <<>> =>
            \/ faults > 0
            \/ \E p \in Procs : At(p, "entries") /\ target[p] = s

(* What load_index says: "Returns `None` if the index is missing or        *)
(* invalid" (index/builder.rs:87), and the mailbox is then parsed, so that *)
(* no state of the index makes a call fail.                                *)
InvalidIndexIsRebuilt == \A p \in Procs : outcome[p] # <<"error">>
=============================================================================
