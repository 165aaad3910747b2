--------------------------- MODULE IndexBuildProofs ---------------------------
(***************************************************************************)
(* Theorems about the persistent index, for every set of processes, every  *)
(* set of contents and every number of changes, crashes and failed writes. *)
(***************************************************************************)
EXTENDS IndexBuild, TLAPS

AtMostOne(S) == {<<>>} \cup {<<x>> : x \in S}

IndexFile == [exists : BOOLEAN, header : AtMostOne(Fingerprint), entries : AtMostOne(EntryList)]

Parsed == {"check", "wstat", "whash", "create", "header", "entries"}

(* The types, with the domains of the functions. *)
Types ==
    /\ versions \in Seq(Contents) /\ Len(versions) \in 1 .. MaxVersions
    /\ index \in [Slots -> IndexFile]
    /\ \A s \in Slots : ~index[s].exists => index[s] = NoFile
    /\ pc \in [Procs -> Steps]
    /\ cancel \in [Procs -> BOOLEAN]
    /\ target \in [Procs -> Slots]
    /\ data \in [Procs -> IndexFile]
    /\ \A p \in Procs : ~data[p].exists => data[p] = NoFile
    /\ stat \in [Procs -> 0 .. MaxVersions]
    /\ entries \in [Procs -> AtMostOne(EntryList)]
    /\ header \in [Procs -> AtMostOne(Fingerprint)]
    /\ outcome \in [Procs -> Outcomes]
    /\ since \in [Procs -> 1 .. MaxVersions]
    /\ faults \in 0 .. MaxFaults

(* What a process has got by the time it is at a step. *)
Progress ==
    \A p \in Procs :
        /\ since[p] <= Now
        /\ pc[p] \in {"stat", "hash"} => data[p].header # <<>>
        /\ pc[p] \in {"hash", "whash"} => stat[p] \in 1 .. Now
        /\ pc[p] = "hash" => since[p] <= stat[p]
        /\ pc[p] \in Parsed => entries[p] # <<>>
        /\ pc[p] = "check" => entries[p][1].whole \/ cancel[p]
        /\ pc[p] \in Parsed \ {"check"} => entries[p][1].whole
        /\ pc[p] \in {"create", "header", "entries"} => header[p] # <<>>
        /\ pc[p] \in {"header", "entries"} => index[target[p]].exists

(* A slot in which a process has been between the two writes has entries,  *)
(* unless something failed.                                                *)
TypeInv == Types /\ Progress /\ HalfIndexHasAWriter

-----------------------------------------------------------------------------
LEMMA OptionalIsAtMostOne ==
  ASSUME NEW S, NEW x \in AtMostOne(S)
  PROVE  Optional(x, S)
<1>1. CASE x = <<>>
  BY <1>1 DEF Optional
<1>2. ASSUME NEW y \in S, x = <<y>>
      PROVE  Optional(x, S)
  BY <1>2 DEF Optional
<1>3. QED
  BY <1>1, <1>2 DEF AtMostOne

LEMMA TypesAreTypes == Types => TypeOK
<1> SUFFICES ASSUME Types PROVE TypeOK
  OBVIOUS
<1>1. ASSUME NEW file \in IndexFile, ~file.exists => file = NoFile
      PROVE  IsIndexFile(file)
  <2>1. file.exists \in BOOLEAN /\ file.header \in AtMostOne(Fingerprint)
        /\ file.entries \in AtMostOne(EntryList)
    BY DEF IndexFile
  <2>2. ~file.exists => file.header = <<>> /\ file.entries = <<>>
    BY <1>1 DEF NoFile
  <2>3. QED
    BY <2>1, <2>2, OptionalIsAtMostOne DEF IsIndexFile
<1>2. \A s \in Slots : IsIndexFile(index[s])
  BY <1>1 DEF Types
<1>3. \A p \in Procs : IsIndexFile(data[p])
  BY <1>1 DEF Types
<1>4. \A p \in Procs : Optional(entries[p], EntryList) /\ Optional(header[p], Fingerprint)
  BY OptionalIsAtMostOne DEF Types
<1>5. QED
  BY <1>2, <1>3, <1>4 DEF Types, TypeOK

LEMMA TypeInvInitially == Init => TypeInv
<1> SUFFICES ASSUME Init PROVE TypeInv
  OBVIOUS
<1> USE IndexAssumption
<1>1. NoFile \in IndexFile
  BY DEF NoFile, IndexFile, AtMostOne
<1>2. Types
  <2>1. versions \in Seq(Contents) /\ Len(versions) \in 1 .. MaxVersions
    <3>1. PICK c \in Contents : versions = <<c>>
      BY DEF Init
    <3>2. QED
      BY <3>1
  <2>2. index \in [Slots -> IndexFile] /\ \A s \in Slots : ~index[s].exists => index[s] = NoFile
    BY <1>1 DEF Init, NoFile
  <2>3. data \in [Procs -> IndexFile] /\ \A p \in Procs : ~data[p].exists => data[p] = NoFile
    BY <1>1 DEF Init, NoFile
  <2>4. pc \in [Procs -> Steps] /\ target \in [Procs -> Slots] /\ outcome \in [Procs -> Outcomes]
    BY DEF Init, Steps, Slots, Outcomes
  <2>5. entries \in [Procs -> AtMostOne(EntryList)] /\ header \in [Procs -> AtMostOne(Fingerprint)]
    BY DEF Init, AtMostOne
  <2>6. cancel \in [Procs -> BOOLEAN] /\ stat \in [Procs -> 0 .. MaxVersions]
        /\ since \in [Procs -> 1 .. MaxVersions] /\ faults \in 0 .. MaxFaults
    BY DEF Init
  <2>7. QED
    BY <2>1, <2>2, <2>3, <2>4, <2>5, <2>6 DEF Types
<1>3. Progress
  <2>1. \A p \in Procs : pc[p] = "idle" /\ since[p] = 1
    BY DEF Init
  <2>2. 1 <= Now
    BY <1>2 DEF Types, Now
  <2>3. QED
    BY <2>1, <2>2 DEF Progress, Parsed
<1>4. HalfIndexHasAWriter
  <2>1. \A s \in Slots : index[s] = NoFile
    BY DEF Init
  <2>2. \A s \in Slots : index[s].header = <<>>
    BY <2>1 DEF NoFile
  <2>3. QED
    BY <2>2 DEF HalfIndexHasAWriter
<1>5. QED
  BY <1>2, <1>3, <1>4 DEF TypeInv

-----------------------------------------------------------------------------
(* The end of a call. *)
LEMMA ReturnTypes ==
  ASSUME Types, NEW p \in Procs, NEW result \in Outcomes, Return(p, result),
         UNCHANGED <<versions, index, since>>, faults' \in 0 .. MaxFaults
  PROVE  Types'
<1>1. pc' \in [Procs -> Steps]
  BY DEF Types, Return, Goto, Steps
<1>2. cancel' \in [Procs -> BOOLEAN] /\ stat' \in [Procs -> 0 .. MaxVersions]
      /\ outcome' \in [Procs -> Outcomes]
  BY IndexAssumption DEF Types, Return
<1>3. target' \in [Procs -> Slots]
  BY DEF Types, Return, Slots
<1>4. NoFile \in IndexFile
  BY DEF NoFile, IndexFile, AtMostOne
<1>5. data' \in [Procs -> IndexFile] /\ \A q \in Procs : ~data'[q].exists => data'[q] = NoFile
  BY <1>4 DEF Types, Return
<1>6. entries' \in [Procs -> AtMostOne(EntryList)] /\ header' \in [Procs -> AtMostOne(Fingerprint)]
  <2>1. <<>> \in AtMostOne(EntryList) /\ <<>> \in AtMostOne(Fingerprint)
    BY DEF AtMostOne
  <2>2. QED
    BY <2>1 DEF Types, Return
<1>7. QED
  BY <1>1, <1>2, <1>3, <1>5, <1>6 DEF Types

LEMMA CallTypes ==
  ASSUME Types, NEW p \in Procs, NEW force_rebuild \in BOOLEAN, Call(p, force_rebuild)
  PROVE  Types'
BY IndexAssumption DEF Types, Call, Goto, Steps, Outcomes, Now

LEMMA LocateTypes ==
  ASSUME Types, NEW p \in Procs, Locate(p) \/ LocateInCache(p)
  PROVE  Types'
BY DEF Types, Locate, LocateInCache, Goto, Steps, Slots

LEMMA ReadIndexTypes ==
  ASSUME Types, NEW p \in Procs, ReadIndex(p)
  PROVE  Types'
BY DEF Types, ReadIndex, Goto, Steps, Slots

LEMMA StatTypes ==
  ASSUME Types, NEW p \in Procs, StatMailbox(p) \/ StatForHeader(p)
  PROVE  Types'
<1>1. UNCHANGED <<versions, index, cancel, target, data, entries, header, outcome, since, faults>>
  BY DEF StatMailbox, StatForHeader
<1>2. stat' = [stat EXCEPT ![p] = Now]
  BY DEF StatMailbox, StatForHeader
<1>3. \E step \in Steps : pc' = [pc EXCEPT ![p] = step]
  BY DEF StatMailbox, StatForHeader, Goto, Steps
<1>4. QED
  BY <1>1, <1>2, <1>3 DEF Types, Now

LEMMA HashMailboxTypes ==
  ASSUME Types, Progress, NEW p \in Procs, HashMailbox(p)
  PROVE  Types'
<1>1. UNCHANGED <<versions, index, since, faults>>
  BY DEF HashMailbox
<1>2. data[p].entries \in AtMostOne(EntryList)
  BY DEF Types, IndexFile
<1>3. CASE /\ Goto(p, "parse")
           /\ UNCHANGED <<outcome, cancel, target, data, stat, entries, header>>
  BY <1>1, <1>3 DEF Types, Goto, Steps
<1>4. CASE data[p].entries # <<>> /\ Return(p, <<"entries", data[p].entries[1]>>)
  <2>1. <<"entries", data[p].entries[1]>> \in Outcomes
    BY <1>2, <1>4 DEF Outcomes, AtMostOne
  <2>2. QED
    BY <1>1, <1>4, <2>1, ReturnTypes DEF Types
<1>5. CASE Return(p, <<"error">>)
  BY <1>1, <1>5, ReturnTypes DEF Types, Outcomes
<1>6. QED
  BY <1>3, <1>4, <1>5 DEF HashMailbox

LEMMA ParseTypes ==
  ASSUME Types, NEW p \in Procs, Parse(p)
  PROVE  Types'
<1>1. Mailbox \in Contents
  BY DEF Types, Mailbox, Now
<1>2. PICK whole \in BOOLEAN : entries' = [entries EXCEPT ![p] = <<[of |-> Mailbox, whole |-> whole]>>]
  BY DEF Parse, Types
<1>3. <<[of |-> Mailbox, whole |-> whole]>> \in AtMostOne(EntryList)
  BY <1>1 DEF AtMostOne, EntryList
<1>4. entries' \in [Procs -> AtMostOne(EntryList)]
  BY <1>2, <1>3 DEF Types
<1>5. UNCHANGED <<versions, index, cancel, target, data, stat, header, outcome, since, faults>>
      /\ pc' \in [Procs -> Steps]
  BY DEF Parse, Goto, Types, Steps
<1>6. QED
  BY <1>4, <1>5 DEF Types

LEMMA CheckCancelTypes ==
  ASSUME Types, NEW p \in Procs, CheckCancel(p)
  PROVE  Types'
<1>1. CASE Return(p, <<"cancelled">>)
  BY <1>1, ReturnTypes DEF CheckCancel, Types, Outcomes
<1>2. CASE ~Return(p, <<"cancelled">>)
  BY <1>2 DEF CheckCancel, Types, Goto, Steps
<1>3. QED
  BY <1>1, <1>2

(* The fingerprint that is written is that of a whole parse, so that its   *)
(* count is a number.                                                      *)
LEMMA HashForHeaderTypes ==
  ASSUME Types, Progress, NEW p \in Procs, HashForHeader(p)
  PROVE  Types'
<1> DEFINE print == [size  |-> SizeOf[versions[stat[p]]],
                     mtime |-> Stamp(stat[p]),
                     head  |-> HeadOf[Mailbox],
                     count |-> Count(entries[p][1])]
<1>1. At(p, "whash") /\ header' = [header EXCEPT ![p] = <<print>>]
  BY DEF HashForHeader
<1>2. stat[p] \in 1 .. Now
  BY <1>1 DEF Progress, At
<1>3. versions[stat[p]] \in Contents /\ Mailbox \in Contents
  BY <1>2 DEF Types, Now, Mailbox
<1>4. entries[p][1] \in EntryList /\ entries[p][1].whole
  <2>1. entries[p] # <<>> /\ entries[p][1].whole
    BY <1>1 DEF Progress, At, Parsed
  <2>2. entries[p] \in AtMostOne(EntryList)
    BY DEF Types
  <2>3. QED
    BY <2>1, <2>2 DEF AtMostOne
<1>5. Count(entries[p][1]) \in Nat
  BY <1>4, IndexAssumption DEF Count, EntryList
<1>6. Stamp(stat[p]) \in Nat
  BY <1>2 DEF Stamp, Now, Types
<1>7. print \in Fingerprint
  BY <1>3, <1>5, <1>6, IndexAssumption DEF Fingerprint
<1>8. header' \in [Procs -> AtMostOne(Fingerprint)]
  <2> HIDE DEF print
  <2>1. QED
    BY <1>1, <1>7 DEF Types, AtMostOne
<1>9. UNCHANGED <<versions, index, cancel, target, data, stat, entries, outcome, since, faults>>
      /\ pc' \in [Procs -> Steps]
  BY DEF HashForHeader, Goto, Types, Steps
<1>10. QED
  BY <1>8, <1>9 DEF Types

LEMMA WriteFailedTypes ==
  ASSUME Types, Progress, NEW p \in Procs, WriteFailed(p), pc[p] \in {"create", "header", "entries"},
         UNCHANGED <<versions, index, since>>, faults' \in 0 .. MaxFaults
  PROVE  Types'
<1>1. entries[p] # <<>> /\ entries[p] \in AtMostOne(EntryList)
  BY DEF Progress, Types, Parsed
<1>2. <<"entries", entries[p][1]>> \in Outcomes
  BY <1>1 DEF Outcomes, AtMostOne
<1>3. CASE Return(p, <<"entries", entries[p][1]>>)
  BY <1>2, <1>3, ReturnTypes
<1>4. CASE ~Return(p, <<"entries", entries[p][1]>>)
  BY <1>4 DEF WriteFailed, Types, Goto, Steps, Slots
<1>5. QED
  BY <1>3, <1>4

LEMMA WriteTypes ==
  ASSUME Types, Progress, NEW p \in Procs, Create(p) \/ WriteHeader(p) \/ WriteEntries(p)
  PROVE  Types'
<1>1. pc[p] \in {"create", "header", "entries"}
  BY DEF Create, WriteHeader, WriteEntries, At
<1>2. target[p] \in Slots /\ index[target[p]] \in IndexFile
  BY DEF Types
<1>3. faults' \in 0 .. MaxFaults /\ UNCHANGED <<versions, since>>
  BY IndexAssumption DEF Create, WriteHeader, WriteEntries, Fault, Types
<1>4. CASE WriteFailed(p) /\ UNCHANGED index
  BY <1>1, <1>3, <1>4, WriteFailedTypes
<1>5. CASE Create(p) /\ ~(WriteFailed(p) /\ UNCHANGED index)
  <2>1. index' = [index EXCEPT ![target[p]] = EmptyFile]
    BY <1>5 DEF Create
  <2>2. EmptyFile \in IndexFile /\ EmptyFile.exists
    BY DEF EmptyFile, IndexFile, AtMostOne
  <2>3. QED
    BY <1>2, <1>3, <1>5, <2>1, <2>2 DEF Create, Types, Goto, Steps
<1>6. CASE WriteHeader(p) /\ ~(WriteFailed(p) /\ Fault /\ UNCHANGED index)
  <2>1. index' = [index EXCEPT ![target[p]].header = header[p]]
    BY <1>6 DEF WriteHeader
  <2>2. header[p] \in AtMostOne(Fingerprint)
    BY DEF Types
  <2>3. index[target[p]].exists
    BY <1>6 DEF Progress, WriteHeader, At
  <2>4. index' \in [Slots -> IndexFile]
        /\ \A s \in Slots : ~index'[s].exists => index'[s] = NoFile
    BY <1>2, <2>1, <2>2, <2>3 DEF Types, IndexFile
  <2>5. QED
    BY <1>3, <1>6, <2>4 DEF WriteHeader, Types, Goto, Steps
<1>7. CASE WriteEntries(p) /\ ~(WriteFailed(p) /\ Fault /\ UNCHANGED index)
  <2>1. index' = [index EXCEPT ![target[p]].entries = entries[p]]
        /\ Return(p, <<"entries", entries[p][1]>>)
    BY <1>7 DEF WriteEntries
  <2>2. entries[p] \in AtMostOne(EntryList) /\ entries[p] # <<>>
    BY <1>1 DEF Types, Progress, Parsed
  <2>3. index[target[p]].exists
    BY <1>7 DEF Progress, WriteEntries, At
  <2>4. index' \in [Slots -> IndexFile]
        /\ \A s \in Slots : ~index'[s].exists => index'[s] = NoFile
    BY <1>2, <2>1, <2>2, <2>3 DEF Types, IndexFile
  <2>5. <<"entries", entries[p][1]>> \in Outcomes
    BY <2>2 DEF Outcomes, AtMostOne
  <2>6. pc' \in [Procs -> Steps] /\ target' \in [Procs -> Slots]
    BY <2>1 DEF Return, Goto, Types, Steps, Slots
  <2>7. cancel' \in [Procs -> BOOLEAN] /\ stat' \in [Procs -> 0 .. MaxVersions]
        /\ outcome' \in [Procs -> Outcomes]
    BY <2>1, <2>5, IndexAssumption DEF Return, Types
  <2>8. data' \in [Procs -> IndexFile] /\ \A q \in Procs : ~data'[q].exists => data'[q] = NoFile
    <3>1. NoFile \in IndexFile
      BY DEF NoFile, IndexFile, AtMostOne
    <3>2. QED
      BY <2>1, <3>1 DEF Return, Types
  <2>9. entries' \in [Procs -> AtMostOne(EntryList)] /\ header' \in [Procs -> AtMostOne(Fingerprint)]
    <3>1. <<>> \in AtMostOne(EntryList) /\ <<>> \in AtMostOne(Fingerprint)
      BY DEF AtMostOne
    <3>2. QED
      BY <2>1, <3>1 DEF Return, Types
  <2>10. QED
    BY <1>3, <2>4, <2>6, <2>7, <2>8, <2>9 DEF Types
<1>8. QED
  BY <1>4, <1>5, <1>6, <1>7 DEF Create, WriteHeader, WriteEntries

LEMMA OtherTypes ==
  ASSUME Types, NEW p \in Procs, RequestCancel(p) \/ Crash(p)
  PROVE  Types'
<1>1. CASE RequestCancel(p)
  BY <1>1 DEF RequestCancel, Types
<1>2. CASE Crash(p)
  <2>1. faults' \in 0 .. MaxFaults
    BY <1>2, IndexAssumption DEF Crash, Fault, Types
  <2>2. <<"none">> \in Outcomes
    BY DEF Outcomes
  <2>3. QED
    BY <1>2, <2>1, <2>2, ReturnTypes DEF Crash
<1>3. QED
  BY <1>1, <1>2

LEMMA MailboxChangesTypes ==
  ASSUME Types, MailboxChanges
  PROVE  Types'
<1>1. PICK c \in Contents : versions' = Append(versions, c)
  BY DEF MailboxChanges
<1>2. versions' \in Seq(Contents) /\ Len(versions') \in 1 .. MaxVersions
  BY <1>1, IndexAssumption DEF MailboxChanges, Types, Now
<1>3. QED
  BY <1>2 DEF MailboxChanges, Types

LEMMA TypesStep ==
  ASSUME Types, Progress, [Next]_vars
  PROVE  Types'
<1>1. CASE UNCHANGED vars
  BY <1>1 DEF vars, Types
<1>2. CASE MailboxChanges
  BY <1>2, MailboxChangesTypes
<1>3. ASSUME NEW p \in Procs, NEW force_rebuild \in BOOLEAN, Call(p, force_rebuild)
      PROVE  Types'
  BY <1>3, CallTypes
<1>4. ASSUME NEW p \in Procs,
             \/ Locate(p) \/ LocateInCache(p) \/ ReadIndex(p) \/ StatMailbox(p) \/ HashMailbox(p)
             \/ Parse(p) \/ CheckCancel(p) \/ StatForHeader(p) \/ HashForHeader(p)
             \/ Create(p) \/ WriteHeader(p) \/ WriteEntries(p)
             \/ RequestCancel(p) \/ Crash(p)
      PROVE  Types'
  BY <1>4, LocateTypes, ReadIndexTypes, StatTypes, HashMailboxTypes, ParseTypes, CheckCancelTypes,
     HashForHeaderTypes, WriteTypes, OtherTypes
<1>5. QED
  BY <1>1, <1>2, <1>3, <1>4 DEF Next

-----------------------------------------------------------------------------
(* Progress and HalfIndexHasAWriter, action by action. *)
LEMMA ReturnProgress ==
  ASSUME Types, Progress, NEW p \in Procs, NEW result, Return(p, result),
         UNCHANGED <<versions, since>>, \A s \in Slots : index[s].exists => index'[s].exists
  PROVE  Progress'
BY DEF Types, Progress, Return, Goto, Now, Parsed

LEMMA LoadProgress ==
  ASSUME Types, Progress, NEW p \in Procs,
         Locate(p) \/ LocateInCache(p) \/ ReadIndex(p) \/ StatMailbox(p) \/ HashMailbox(p)
  PROVE  Progress'
<1>1. CASE Locate(p) \/ LocateInCache(p)
  BY <1>1 DEF Locate, LocateInCache, Types, Progress, Goto, Now, At, Parsed
<1>2. CASE ReadIndex(p)
  BY <1>2 DEF ReadIndex, Types, Progress, Goto, Now, At, Parsed
<1>3. CASE StatMailbox(p)
  BY <1>3 DEF StatMailbox, Types, Progress, Goto, Now, At, Parsed
<1>4. CASE HashMailbox(p)
  BY <1>4, ReturnProgress, ZenonT(60) DEF HashMailbox, Types, Progress, Goto, Now, At, Parsed
<1>5. QED
  BY <1>1, <1>2, <1>3, <1>4

LEMMA BuildProgress ==
  ASSUME Types, Progress, NEW p \in Procs,
         Parse(p) \/ CheckCancel(p) \/ StatForHeader(p) \/ HashForHeader(p)
  PROVE  Progress'
<1>1. CASE Parse(p)
  <2>1. PICK whole \in {TRUE, ~cancel[p]} : entries' = [entries EXCEPT ![p] = <<[of |-> Mailbox, whole |-> whole]>>]
    BY <1>1 DEF Parse
  <2>2. entries'[p] # <<>> /\ (entries'[p][1].whole \/ cancel[p])
    BY <2>1 DEF Types
  <2>3. \A q \in Procs \ {p} : entries'[q] = entries[q] /\ pc'[q] = pc[q]
    BY <1>1, <2>1 DEF Parse, Goto, Types
  <2>4. pc'[p] = "check"
    BY <1>1 DEF Parse, Goto, Types
  <2>5. QED
    BY <1>1, <2>2, <2>3, <2>4 DEF Parse, Progress, Now, Parsed
<1>2. CASE CheckCancel(p)
  BY <1>2, ReturnProgress DEF CheckCancel, Types, Progress, Goto, Now, At, Parsed
<1>3. CASE StatForHeader(p)
  BY <1>3 DEF StatForHeader, Types, Progress, Goto, Now, At, Parsed
<1>4. CASE HashForHeader(p)
  BY <1>4 DEF HashForHeader, Types, Progress, Goto, Now, At, Parsed
<1>5. QED
  BY <1>1, <1>2, <1>3, <1>4

LEMMA WriteProgress ==
  ASSUME Types, Progress, NEW p \in Procs, Create(p) \/ WriteHeader(p) \/ WriteEntries(p)
  PROVE  Progress'
<1>1. UNCHANGED <<versions, since>>
  BY DEF Create, WriteHeader, WriteEntries
<1>2. \A s \in Slots : index[s].exists => index'[s].exists
  <2>1. target[p] \in Slots /\ index[target[p]] \in IndexFile
    BY DEF Types
  <2>2. CASE index' = [index EXCEPT ![target[p]] = EmptyFile]
    BY <2>1, <2>2 DEF Types, EmptyFile
  <2>3. CASE index' = [index EXCEPT ![target[p]].header = header[p]]
    BY <2>1, <2>3 DEF Types, IndexFile
  <2>4. CASE index' = [index EXCEPT ![target[p]].entries = entries[p]]
    BY <2>1, <2>4 DEF Types, IndexFile
  <2>5. QED
    BY <2>2, <2>3, <2>4 DEF Create, WriteHeader, WriteEntries
<1>3. CASE WriteFailed(p) /\ UNCHANGED index
  BY <1>1, <1>3 DEF WriteFailed, Return, Create, WriteHeader, WriteEntries, Types, Progress, Goto, Now, At, Parsed
<1>4. CASE Create(p) /\ ~(WriteFailed(p) /\ UNCHANGED index)
  BY <1>1, <1>2, <1>4 DEF Create, Types, Progress, Goto, Now, At, Parsed, EmptyFile
<1>5. CASE WriteHeader(p) /\ ~(WriteFailed(p) /\ Fault /\ UNCHANGED index)
  BY <1>1, <1>2, <1>5 DEF WriteHeader, Types, Progress, Goto, Now, At, Parsed
<1>6. CASE WriteEntries(p) /\ ~(WriteFailed(p) /\ Fault /\ UNCHANGED index)
  BY <1>1, <1>2, <1>6, ReturnProgress DEF WriteEntries
<1>7. QED
  BY <1>3, <1>4, <1>5, <1>6 DEF Create, WriteHeader, WriteEntries

LEMMA ProgressStep ==
  ASSUME Types, Progress, [Next]_vars
  PROVE  Progress'
<1>1. CASE UNCHANGED vars
  BY <1>1 DEF vars, Progress, Now
<1>2. CASE MailboxChanges
  <2>1. Now' = Now + 1 /\ Now \in Nat
    BY <1>2 DEF MailboxChanges, Types, Now
  <2>2. QED
    BY <1>2, <2>1 DEF MailboxChanges, Types, Progress
<1>3. ASSUME NEW p \in Procs, NEW force_rebuild \in BOOLEAN, Call(p, force_rebuild)
      PROVE  Progress'
  BY <1>3 DEF Call, Types, Progress, Goto, Now, At, Parsed
<1>4. ASSUME NEW p \in Procs,
             \/ Locate(p) \/ LocateInCache(p) \/ ReadIndex(p) \/ StatMailbox(p) \/ HashMailbox(p)
             \/ Parse(p) \/ CheckCancel(p) \/ StatForHeader(p) \/ HashForHeader(p)
             \/ Create(p) \/ WriteHeader(p) \/ WriteEntries(p)
      PROVE  Progress'
  BY <1>4, LoadProgress, BuildProgress, WriteProgress
<1>5. ASSUME NEW p \in Procs, RequestCancel(p) \/ Crash(p)
      PROVE  Progress'
  BY <1>5, ReturnProgress DEF RequestCancel, Crash, Types, Progress, Now, Parsed
<1>6. QED
  BY <1>1, <1>2, <1>3, <1>4, <1>5 DEF Next

(* Only a writer between its two writes makes an index without entries,    *)
(* and it leaves that place by writing them or by a fault.                 *)
LEMMA HalfIndexStep ==
  ASSUME Types, Progress, HalfIndexHasAWriter, [Next]_vars
  PROVE  HalfIndexHasAWriter'
<1> SUFFICES ASSUME NEW s \in Slots, index'[s].header # <<>>, index'[s].entries = <<>>, ~(faults' > 0)
             PROVE  \E p \in Procs : At(p, "entries")' /\ target'[p] = s
  BY DEF HalfIndexHasAWriter
<1>1. faults' = faults /\ faults = 0
  <2>1. faults' = faults \/ Fault
    BY DEF Next, vars, MailboxChanges, Call, Locate, LocateInCache, ReadIndex, StatMailbox, HashMailbox, Parse,
           CheckCancel, StatForHeader, HashForHeader, Create, WriteHeader, WriteEntries,
           RequestCancel, Crash
  <2>2. QED
    BY <2>1 DEF Fault, Types
<1>2. ASSUME index'[s] = index[s]
      PROVE  \E p \in Procs : At(p, "entries") /\ target[p] = s
  BY <1>1, <1>2 DEF HalfIndexHasAWriter
<1>3. ASSUME NEW p \in Procs, At(p, "entries"), target[p] = s, pc'[p] = pc[p], target'[p] = target[p]
      PROVE  \E q \in Procs : At(q, "entries")' /\ target'[q] = s
  BY <1>3 DEF At
<1>4. ASSUME NEW q \in Procs, Create(q)
      PROVE  \E p \in Procs : At(p, "entries")' /\ target'[p] = s
  <2>1. index'[s] = index[s]
    BY <1>4 DEF Create, Types, EmptyFile
  <2>2. PICK p \in Procs : At(p, "entries") /\ target[p] = s
    BY <1>2, <2>1
  <2>3. p # q
    BY <1>4, <2>2 DEF Create, At
  <2>4. pc'[p] = pc[p] /\ target'[p] = target[p]
    BY <1>4, <2>3 DEF Create, WriteFailed, Return, Goto, Types
  <2>5. QED
    BY <1>3, <2>2, <2>4
<1>5. ASSUME NEW q \in Procs, WriteHeader(q)
      PROVE  \E p \in Procs : At(p, "entries")' /\ target'[p] = s
  <2>1. /\ index' = [index EXCEPT ![target[q]].header = header[q]]
        /\ Goto(q, "entries") /\ target' = target
    BY <1>1, <1>5 DEF WriteHeader, Fault, Types
  <2>2. CASE target[q] = s
    BY <2>1, <2>2 DEF Goto, At, Types
  <2>3. CASE target[q] # s
    <3>1. PICK p \in Procs : At(p, "entries") /\ target[p] = s
      BY <1>2, <2>1, <2>3 DEF Types
    <3>2. pc'[p] = pc[p] /\ target'[p] = target[p]
      BY <2>1, <2>3, <3>1 DEF Goto, Types
    <3>3. QED
      BY <1>3, <3>1, <3>2
  <2>4. QED
    BY <2>2, <2>3
<1>6. ASSUME NEW q \in Procs, WriteEntries(q)
      PROVE  \E p \in Procs : At(p, "entries")' /\ target'[p] = s
  <2>1. /\ index' = [index EXCEPT ![target[q]].entries = entries[q]]
        /\ Return(q, <<"entries", entries[q][1]>>)
    BY <1>1, <1>6 DEF WriteEntries, Fault, Types
  <2>2. entries[q] # <<>>
    BY <1>6 DEF WriteEntries, At, Progress, Parsed
  <2>3. target[q] # s
    BY <2>1, <2>2 DEF Types, IndexFile
  <2>4. PICK p \in Procs : At(p, "entries") /\ target[p] = s
    BY <1>2, <2>1, <2>3 DEF Types
  <2>5. pc'[p] = pc[p] /\ target'[p] = target[p]
    BY <2>1, <2>3, <2>4 DEF Return, Goto, Types
  <2>6. QED
    BY <1>3, <2>4, <2>5
<1>7. ASSUME index' = index,
             \A p \in Procs : At(p, "entries") => pc'[p] = pc[p] /\ target'[p] = target[p]
      PROVE  \E p \in Procs : At(p, "entries")' /\ target'[p] = s
  <2>1. PICK p \in Procs : At(p, "entries") /\ target[p] = s
    BY <1>2, <1>7
  <2>2. QED
    BY <1>3, <1>7, <2>1
<1>8. ASSUME NEW q \in Procs,
             \/ Locate(q) \/ LocateInCache(q) \/ ReadIndex(q) \/ StatMailbox(q) \/ HashMailbox(q) \/ Parse(q)
             \/ CheckCancel(q) \/ StatForHeader(q) \/ HashForHeader(q) \/ RequestCancel(q)
             \/ \E force_rebuild \in BOOLEAN : Call(q, force_rebuild)
      PROVE  \E p \in Procs : At(p, "entries")' /\ target'[p] = s
  <2>1. index' = index
    BY <1>8 DEF Locate, LocateInCache, ReadIndex, StatMailbox, HashMailbox, Parse, CheckCancel, StatForHeader,
                HashForHeader, RequestCancel, Call
  <2>2. \A p \in Procs : At(p, "entries") => pc'[p] = pc[p] /\ target'[p] = target[p]
    BY <1>8 DEF Locate, LocateInCache, ReadIndex, StatMailbox, HashMailbox, Parse, CheckCancel, StatForHeader,
                HashForHeader, RequestCancel, Call, Goto, At, Return, Types
  <2>3. QED
    BY <1>7, <2>1, <2>2
<1>9. CASE MailboxChanges \/ UNCHANGED vars
  BY <1>7, <1>9 DEF MailboxChanges, vars
<1>10. \A q \in Procs : ~Crash(q)
  BY <1>1 DEF Crash, Fault, Types
<1>11. QED
  BY <1>4, <1>5, <1>6, <1>8, <1>9, <1>10 DEF Next

LEMMA TypeInvHolds == Spec => []TypeInv
<1>1. TypeInv /\ [Next]_vars => TypeInv'
  BY TypesStep, ProgressStep, HalfIndexStep DEF TypeInv
<1>2. QED
  BY <1>1, TypeInvInitially, PTL DEF Spec

(* The variables have their types, for every behaviour of the mailbox, the *)
(* user and the file system (index/builder.rs:139-249).                    *)
THEOREM TypeCorrect == Spec => []TypeOK
<1>1. TypeInv => TypeOK
  BY TypesAreTypes DEF TypeInv
<1>2. QED
  BY <1>1, TypeInvHolds, PTL

(* An index with a header and no entries has a writer between its two      *)
(* writes, or something failed, for any number of processes                *)
(* (index/builder.rs:242-249).                                             *)
THEOREM HalfIndexIsBeingWritten == Spec => []HalfIndexHasAWriter
<1>1. TypeInv => HalfIndexHasAWriter
  BY DEF TypeInv
<1>2. QED
  BY <1>1, TypeInvHolds, PTL

-----------------------------------------------------------------------------
(* What a load and a build rest on when the mailbox does not change under  *)
(* a build.  Each index file is of one version t of the mailbox, whoever   *)
(* wrote its two parts, and that version is the current one as long as a   *)
(* process writes to the file.                                             *)
Whole(t) == [of |-> versions[t], whole |-> TRUE]

PrintOf(t) == [size |-> SizeOf[versions[t]], mtime |-> t, head |-> HeadOf[versions[t]],
               count |-> CountOf[versions[t]]]

IsOf(file, t) == file.header \in {<<>>, <<PrintOf(t)>>} /\ file.entries \in {<<>>, <<Whole(t)>>}

Writes(p, s) == pc[p] \in {"header", "entries"} /\ target[p] = s

FilesAgree ==
    \A s \in Slots : \E t \in 1 .. Now :
        IsOf(index[s], t) /\ ((\E p \in Procs : Writes(p, s)) => t = Now)

BuildsAgree ==
    \A p \in Procs :
        /\ pc[p] = "check" => entries[p][1].of = Mailbox
        /\ pc[p] \in Parsed \ {"check"} => entries[p] = <<Whole(Now)>>
        /\ pc[p] = "whash" => stat[p] = Now
        /\ pc[p] \in {"create", "header", "entries"} => header[p] = <<PrintOf(Now)>>

LoadsAgree ==
    \A p \in Procs : pc[p] \in {"stat", "hash"} =>
        \E t \in 1 .. Now : IsOf(data[p], t) /\ (pc[p] = "hash" => t = stat[p])

QuietInv == TypeInv /\ FilesAgree /\ BuildsAgree /\ LoadsAgree /\ ServesCurrent

-----------------------------------------------------------------------------
LEMMA QuietInvInitially == Init => QuietInv
<1> SUFFICES ASSUME Init PROVE QuietInv
  OBVIOUS
<1>1. TypeInv
  BY TypeInvInitially
<1>2. 1 \in 1 .. Now
  BY <1>1 DEF TypeInv, Types, Now
<1>3. \A s \in Slots : index[s] = NoFile
  BY DEF Init
<1>4. \A p \in Procs : pc[p] = "idle" /\ outcome[p] = <<"none">>
  BY DEF Init
<1>5. FilesAgree
  <2>1. \A p \in Procs, s \in Slots : ~Writes(p, s)
    BY <1>4 DEF Writes
  <2>2. IsOf(NoFile, 1)
    BY DEF IsOf, NoFile
  <2>3. QED
    BY <1>2, <1>3, <2>1, <2>2 DEF FilesAgree
<1>6. BuildsAgree /\ LoadsAgree
  BY <1>4 DEF BuildsAgree, LoadsAgree, Parsed
<1>7. ServesCurrent
  BY <1>4 DEF ServesCurrent
<1>8. QED
  BY <1>1, <1>5, <1>6, <1>7 DEF QuietInv

(* Versions are only added. *)
LEMMA VersionsGrow ==
  ASSUME Types, Types', [Next]_vars
  PROVE  /\ Now \in Nat /\ Now' \in Nat /\ Now <= Now' /\ Now <= MaxVersions
         /\ \A t \in 1 .. Now : versions'[t] = versions[t]
         /\ ~MailboxChanges => versions' = versions
<1>1. Now \in Nat /\ Now' \in Nat /\ Now <= MaxVersions
  BY IndexAssumption, SMTT(30) DEF Types, Now
<1>2. CASE MailboxChanges
  <2>1. PICK c \in Contents : versions' = Append(versions, c)
    BY <1>2 DEF MailboxChanges
  <2>2. QED
    BY <1>1, <1>2, <2>1 DEF Types, Now
<1>3. CASE ~MailboxChanges
  <2>1. versions' = versions
    BY <1>3 DEF Next, vars, Call, Locate, LocateInCache, ReadIndex, StatMailbox, HashMailbox, Parse, CheckCancel,
                StatForHeader, HashForHeader, Create, WriteHeader, WriteEntries, RequestCancel, Crash
  <2>2. QED
    BY <1>1, <1>3, <2>1 DEF Now
<1>4. QED
  BY <1>2, <1>3

LEMMA IsOfStays ==
  ASSUME NEW file, NEW t \in 1 .. Now, versions'[t] = versions[t], IsOf(file, t)
  PROVE  IsOf(file, t)'
BY DEF IsOf, PrintOf, Whole

(* A change of the mailbox, which no build is under. *)
LEMMA MailboxChangesQuietly ==
  ASSUME QuietBuild, QuietInv, TypeInv', MailboxChanges
  PROVE  QuietInv'
<1> USE DEF QuietInv
<1>1. /\ Now \in Nat /\ Now' \in Nat /\ Now <= Now'
      /\ \A t \in 1 .. Now : versions'[t] = versions[t]
  BY VersionsGrow DEF TypeInv, Next
<1>2. UNCHANGED <<index, pc, target, data, stat, entries, header, outcome, since>>
  BY DEF MailboxChanges
<1>3. \A p \in Procs : ~Building(p)
  BY DEF MailboxChanges
<1>4. \A file : \A t \in 1 .. Now : IsOf(file, t) => IsOf(file, t)'
  BY <1>1, IsOfStays
<1>5. FilesAgree'
  <2>1. \A p \in Procs, s \in Slots : ~Writes(p, s)'
    BY <1>2, <1>3 DEF Writes, Building
  <2>2. ASSUME NEW s \in Slots PROVE \E t \in 1 .. Now' : IsOf(index[s], t)'
    <3>1. PICK t \in 1 .. Now : IsOf(index[s], t)
      BY DEF FilesAgree
    <3>2. IsOf(index[s], t)'
      BY <1>2, <1>4, <3>1
    <3>3. QED
      BY <1>1, <3>2
  <2>3. QED
    BY <2>1, <2>2 DEF FilesAgree
<1>6. BuildsAgree'
  BY <1>2, <1>3 DEF BuildsAgree, Building, Parsed
<1>7. LoadsAgree'
  <2> SUFFICES ASSUME NEW p \in Procs, pc'[p] \in {"stat", "hash"}
               PROVE  \E t \in 1 .. Now' : IsOf(data[p], t)' /\ (pc'[p] = "hash" => t = stat'[p])
    BY DEF LoadsAgree
  <2>1. PICK t \in 1 .. Now : IsOf(data[p], t) /\ (pc[p] = "hash" => t = stat[p])
    BY <1>2 DEF LoadsAgree
  <2>2. IsOf(data[p], t)'
    BY <1>2, <1>4, <2>1
  <2>3. QED
    BY <1>1, <1>2, <2>1, <2>2
<1>8. ServesCurrent'
  <2> SUFFICES ASSUME NEW p \in Procs, outcome'[p][1] = "entries"
               PROVE  \E n \in since'[p] .. Now' : outcome'[p][2] = [of |-> versions'[n], whole |-> TRUE]
    BY DEF ServesCurrent
  <2>1. PICK n \in since[p] .. Now : outcome[p][2] = [of |-> versions[n], whole |-> TRUE]
    BY <1>2 DEF ServesCurrent
  <2>2. since[p] \in 1 .. MaxVersions
    BY DEF TypeInv, Types
  <2>3. n \in 1 .. Now /\ n \in since[p] .. Now'
    BY <1>1, <2>1, <2>2
  <2>4. QED
    BY <1>1, <1>2, <2>1, <2>3
<1>9. QED
  BY <1>5, <1>6, <1>7, <1>8

-----------------------------------------------------------------------------
(* Steps under which the mailbox stays as it is. *)
LEMMA SameMailbox ==
  ASSUME versions' = versions
  PROVE  /\ Now' = Now /\ Mailbox' = Mailbox
         /\ \A t : Whole(t)' = Whole(t) /\ PrintOf(t)' = PrintOf(t)
         /\ \A file, t : IsOf(file, t)' = IsOf(file, t)
BY DEF Now, Mailbox, Whole, PrintOf, IsOf

(* A step of the process p. *)
Step(p) ==
    \/ \E force_rebuild \in BOOLEAN : Call(p, force_rebuild)
    \/ Locate(p) \/ LocateInCache(p) \/ ReadIndex(p) \/ StatMailbox(p) \/ HashMailbox(p)
    \/ Parse(p) \/ CheckCancel(p) \/ StatForHeader(p) \/ HashForHeader(p)
    \/ Create(p) \/ WriteHeader(p) \/ WriteEntries(p)
    \/ RequestCancel(p) \/ Crash(p)

LEMMA FilesKept ==
  ASSUME FilesAgree, versions' = versions, index' = index,
         \A q \in Procs, s \in Slots : Writes(q, s)' => Writes(q, s)
  PROVE  FilesAgree'
BY SameMailbox DEF FilesAgree

(* What a process that is not p has stays with it. *)
LEMMA OthersKeep ==
  ASSUME Types, NEW p \in Procs, NEW q \in Procs, q # p,
         Step(p)
  PROVE  /\ versions' = versions
         /\ pc'[q] = pc[q] /\ target'[q] = target[q] /\ data'[q] = data[q] /\ stat'[q] = stat[q]
         /\ entries'[q] = entries[q] /\ header'[q] = header[q]
         /\ outcome'[q] = outcome[q] /\ since'[q] = since[q]
BY DEF Types, Step, Call, Locate, LocateInCache, ReadIndex, StatMailbox, HashMailbox, Parse, CheckCancel, StatForHeader,
       HashForHeader, Create, WriteHeader, WriteEntries, RequestCancel, Crash, Goto, Return, WriteFailed

BuildAgrees(p) ==
    /\ pc[p] = "check" => entries[p][1].of = Mailbox
    /\ pc[p] \in Parsed \ {"check"} => entries[p] = <<Whole(Now)>>
    /\ pc[p] = "whash" => stat[p] = Now
    /\ pc[p] \in {"create", "header", "entries"} => header[p] = <<PrintOf(Now)>>

LoadAgrees(p) ==
    pc[p] \in {"stat", "hash"} =>
        \E t \in 1 .. Now : IsOf(data[p], t) /\ (pc[p] = "hash" => t = stat[p])

Serves(p) ==
    outcome[p][1] = "entries" =>
        \E n \in since[p] .. Now : outcome[p][2] = [of |-> versions[n], whole |-> TRUE]

LEMMA QuietInvByProcess ==
  QuietInv <=> TypeInv /\ FilesAgree
               /\ \A p \in Procs : BuildAgrees(p) /\ LoadAgrees(p) /\ Serves(p)
BY DEF QuietInv, BuildsAgree, LoadsAgree, ServesCurrent, BuildAgrees, LoadAgrees, Serves

(* It remains to look at the process that takes the step. *)
LEMMA OnlyTheActor ==
  ASSUME QuietInv, TypeInv', FilesAgree', NEW p \in Procs,
         Step(p),
         BuildAgrees(p)' /\ LoadAgrees(p)' /\ Serves(p)'
  PROVE  QuietInv'
<1>0. versions' = versions
  BY DEF Step, Call, Locate, LocateInCache, ReadIndex, StatMailbox, HashMailbox, Parse, CheckCancel, StatForHeader,
         HashForHeader, Create, WriteHeader, WriteEntries, RequestCancel, Crash
<1>1. ASSUME NEW q \in Procs, q # p
      PROVE  BuildAgrees(q)' /\ LoadAgrees(q)' /\ Serves(q)'
  <2>1. /\ pc'[q] = pc[q] /\ target'[q] = target[q] /\ data'[q] = data[q] /\ stat'[q] = stat[q]
        /\ entries'[q] = entries[q] /\ header'[q] = header[q]
        /\ outcome'[q] = outcome[q] /\ since'[q] = since[q]
    BY <1>1, OthersKeep DEF QuietInv, TypeInv
  <2>2. BuildAgrees(q) /\ LoadAgrees(q) /\ Serves(q)
    BY QuietInvByProcess
  <2>3. BuildAgrees(q)'
    BY <1>0, <2>1, <2>2, SameMailbox DEF BuildAgrees
  <2>4. LoadAgrees(q)'
    BY <1>0, <2>1, <2>2, SameMailbox DEF LoadAgrees
  <2>5. Serves(q)'
    BY <1>0, <2>1, <2>2, SameMailbox DEF Serves
  <2>6. QED
    BY <2>3, <2>4, <2>5
<1>2. \A q \in Procs : BuildAgrees(q)' /\ LoadAgrees(q)' /\ Serves(q)'
  BY <1>1
<1>3. QED
  BY <1>2 DEF QuietInv, BuildsAgree, LoadsAgree, ServesCurrent, BuildAgrees, LoadAgrees, Serves

-----------------------------------------------------------------------------
(* A call that ends gives nothing but what it returns. *)
LEMMA ReturnAgrees ==
  ASSUME QuietInv, TypeInv', FilesAgree', NEW p \in Procs, Step(p), NEW result, Return(p, result),
         versions' = versions, since' = since,
         result[1] = "entries" =>
             \E n \in since[p] .. Now : result[2] = [of |-> versions[n], whole |-> TRUE]
  PROVE  QuietInv'
<1>1. pc'[p] = "idle" /\ outcome'[p] = result
  BY DEF QuietInv, TypeInv, Types, Return, Goto
<1>2. BuildAgrees(p)' /\ LoadAgrees(p)'
  BY <1>1 DEF BuildAgrees, LoadAgrees, Parsed
<1>3. Serves(p)'
  BY <1>1, SameMailbox DEF Serves
<1>4. QED
  BY <1>2, <1>3, OnlyTheActor

(* The entries of a build are of the mailbox as it is. *)
LEMMA EntriesAreCurrent ==
  ASSUME QuietInv, NEW p \in Procs, pc[p] \in Parsed \ {"check"}
  PROVE  \E n \in since[p] .. Now : entries[p][1] = [of |-> versions[n], whole |-> TRUE]
<1>1. entries[p] = <<Whole(Now)>>
  BY DEF QuietInv, BuildsAgree
<1>2. entries[p][1] = [of |-> versions[Now], whole |-> TRUE]
  BY <1>1 DEF Whole
<1>3. Now \in since[p] .. Now
  BY IndexAssumption DEF QuietInv, TypeInv, Types, Progress, Now
<1>4. QED
  BY <1>2, <1>3

(* A write that fails leaves the file as it is. *)
LEMMA WriteFailedAgrees ==
  ASSUME QuietInv, TypeInv', NEW p \in Procs, Step(p), WriteFailed(p),
         pc[p] \in {"create", "header", "entries"}, UNCHANGED <<versions, index, since>>
  PROVE  QuietInv'
<1>1. FilesAgree'
  <2>1. \A q \in Procs, s \in Slots : Writes(q, s)' => Writes(q, s)
    BY DEF QuietInv, TypeInv, Types, WriteFailed, Return, Goto, Writes
  <2>2. QED
    BY <2>1, FilesKept DEF QuietInv
<1>2. CASE Return(p, <<"entries", entries[p][1]>>)
  BY <1>1, <1>2, EntriesAreCurrent, ReturnAgrees DEF Parsed
<1>3. CASE Goto(p, "create") /\ UNCHANGED <<outcome, cancel, data, stat, entries, header>>
  <2>1. pc'[p] = "create"
    BY <1>3 DEF QuietInv, TypeInv, Types, Goto
  <2>2. BuildAgrees(p)'
    BY <1>3, <2>1, SameMailbox DEF QuietInv, BuildsAgree, BuildAgrees, Parsed
  <2>3. LoadAgrees(p)'
    BY <2>1 DEF LoadAgrees
  <2>4. Serves(p)'
    BY <1>3, SameMailbox DEF QuietInv, ServesCurrent, Serves
  <2>5. QED
    BY <1>1, <2>2, <2>3, <2>4, OnlyTheActor
<1>4. QED
  BY <1>2, <1>3 DEF WriteFailed

(* The beginning of a call and the choice of an index file. *)
LEMMA CallAgrees ==
  ASSUME QuietInv, TypeInv', NEW p \in Procs,
         Locate(p) \/ LocateInCache(p) \/ \E force_rebuild \in BOOLEAN : Call(p, force_rebuild)
  PROVE  QuietInv'
<1>1. versions' = versions /\ index' = index /\ pc'[p] \in {"locate", "locate_cache", "parse", "read"}
  BY DEF QuietInv, TypeInv, Types, Locate, LocateInCache, Call, Goto
<1>2. \A q \in Procs, s \in Slots : Writes(q, s)' => Writes(q, s)
  BY DEF QuietInv, TypeInv, Types, Locate, LocateInCache, Call, Goto, Writes
<1>3. FilesAgree'
  BY <1>1, <1>2, FilesKept DEF QuietInv
<1>4. BuildAgrees(p)' /\ LoadAgrees(p)'
  BY <1>1 DEF BuildAgrees, LoadAgrees, Parsed
<1>5. Serves(p)'
  <2>1. CASE Locate(p) \/ LocateInCache(p)
    BY <2>1, SameMailbox DEF Locate, LocateInCache, QuietInv, ServesCurrent, Serves
  <2>2. CASE \E force_rebuild \in BOOLEAN : Call(p, force_rebuild)
    BY <2>2 DEF Call, QuietInv, TypeInv, Types, Serves
  <2>3. QED
    BY <2>1, <2>2
<1>6. QED
  BY <1>3, <1>4, <1>5, OnlyTheActor DEF Step

(* An index file is read as a whole, and it is of one version. *)
LEMMA ReadIndexAgrees ==
  ASSUME QuietInv, TypeInv', NEW p \in Procs, ReadIndex(p)
  PROVE  QuietInv'
<1>1. versions' = versions /\ index' = index /\ pc'[p] \in {"stat", "parse"}
      /\ data'[p] = index[target[p]]
  BY DEF QuietInv, TypeInv, Types, ReadIndex, Goto
<1>2. \A q \in Procs, s \in Slots : Writes(q, s)' => Writes(q, s)
  BY DEF QuietInv, TypeInv, Types, ReadIndex, Goto, Writes
<1>3. FilesAgree'
  BY <1>1, <1>2, FilesKept DEF QuietInv
<1>4. BuildAgrees(p)'
  BY <1>1 DEF BuildAgrees, Parsed
<1>5. LoadAgrees(p)'
  <2>1. PICK t \in 1 .. Now : IsOf(index[target[p]], t)
    BY DEF QuietInv, FilesAgree, TypeInv, Types
  <2>2. IsOf(data[p], t)'
    BY <1>1, <2>1, SameMailbox DEF IsOf
  <2>3. QED
    BY <1>1, <2>2, SameMailbox DEF LoadAgrees
<1>6. Serves(p)'
  BY SameMailbox DEF ReadIndex, QuietInv, ServesCurrent, Serves
<1>7. QED
  BY <1>3, <1>4, <1>5, <1>6, OnlyTheActor DEF Step

(* The modification time names the version. *)
LEMMA StatAgrees ==
  ASSUME MaxVersions <= MaxStamp, QuietInv, TypeInv', NEW p \in Procs, StatMailbox(p)
  PROVE  QuietInv'
<1>1. versions' = versions /\ index' = index /\ data' = data /\ pc'[p] \in {"hash", "parse"}
      /\ stat'[p] = Now
  BY DEF QuietInv, TypeInv, Types, StatMailbox, Goto
<1>2. \A q \in Procs, s \in Slots : Writes(q, s)' => Writes(q, s)
  BY DEF QuietInv, TypeInv, Types, StatMailbox, Goto, Writes
<1>3. FilesAgree'
  BY <1>1, <1>2, FilesKept DEF QuietInv
<1>4. BuildAgrees(p)'
  BY <1>1 DEF BuildAgrees, Parsed
<1>5. LoadAgrees(p)'
  <2> SUFFICES ASSUME pc'[p] = "hash"
               PROVE  \E t \in 1 .. Now : IsOf(data[p], t) /\ t = Now
    BY <1>1, SameMailbox DEF LoadAgrees
  <2>1. PICK t \in 1 .. Now : IsOf(data[p], t)
    BY DEF QuietInv, LoadsAgree, StatMailbox, At
  <2>2. data[p].header = <<PrintOf(t)>>
    BY <2>1 DEF IsOf, QuietInv, TypeInv, Progress, StatMailbox, At
  <2>3. data[p].header[1].mtime = Stamp(Now)
    BY DEF QuietInv, TypeInv, Types, StatMailbox, Goto
  <2>4. Stamp(Now) = Now
    BY IndexAssumption DEF Stamp, QuietInv, TypeInv, Types, Now
  <2>5. t = Now
    BY <2>2, <2>3, <2>4 DEF PrintOf
  <2>6. QED
    BY <2>1, <2>5
<1>6. Serves(p)'
  BY SameMailbox DEF StatMailbox, QuietInv, ServesCurrent, Serves
<1>7. QED
  BY <1>3, <1>4, <1>5, <1>6, OnlyTheActor DEF Step

(* What a load returns was whole and of the version it looked at. *)
LEMMA HashAgrees ==
  ASSUME QuietInv, TypeInv', NEW p \in Procs, HashMailbox(p)
  PROVE  QuietInv'
<1>1. versions' = versions /\ index' = index /\ since' = since /\ pc[p] = "hash"
  BY DEF HashMailbox, At
<1>2. \A q \in Procs, s \in Slots : Writes(q, s)' => Writes(q, s)
  BY DEF QuietInv, TypeInv, Types, HashMailbox, Goto, Writes, Return
<1>3. FilesAgree'
  BY <1>1, <1>2, FilesKept DEF QuietInv
<1>4. CASE data[p].entries # <<>> /\ Return(p, <<"entries", data[p].entries[1]>>)
  <2>1. PICK t \in 1 .. Now : IsOf(data[p], t) /\ t = stat[p]
    BY <1>1 DEF QuietInv, LoadsAgree
  <2>2. data[p].entries = <<Whole(t)>>
    BY <1>4, <2>1 DEF IsOf
  <2>3. data[p].entries[1] = [of |-> versions[t], whole |-> TRUE]
    BY <2>2 DEF Whole
  <2>4. t \in since[p] .. Now
    BY <1>1, <2>1, IndexAssumption DEF QuietInv, TypeInv, Types, Progress, Now
  <2>5. QED
    BY <1>1, <1>3, <1>4, <2>3, <2>4, ReturnAgrees DEF Step
<1>5. CASE Return(p, <<"error">>)
  BY <1>1, <1>3, <1>5, ReturnAgrees DEF Step
<1>6. CASE /\ Goto(p, "parse")
           /\ UNCHANGED <<outcome, cancel, target, data, stat, entries, header>>
  <2>1. pc'[p] = "parse"
    BY <1>6 DEF QuietInv, TypeInv, Types, Goto
  <2>2. BuildAgrees(p)' /\ LoadAgrees(p)'
    BY <2>1 DEF BuildAgrees, LoadAgrees, Parsed
  <2>3. Serves(p)'
    BY <1>1, <1>6, SameMailbox DEF QuietInv, ServesCurrent, Serves
  <2>4. QED
    BY <1>3, <2>2, <2>3, OnlyTheActor DEF Step
<1>7. QED
  BY <1>4, <1>5, <1>6 DEF HashMailbox

LEMMA ParseAgrees ==
  ASSUME QuietInv, TypeInv', NEW p \in Procs, Parse(p)
  PROVE  QuietInv'
<1>1. versions' = versions /\ index' = index /\ pc'[p] = "check"
  BY DEF QuietInv, TypeInv, Types, Parse, Goto
<1>2. \A q \in Procs, s \in Slots : Writes(q, s)' => Writes(q, s)
  BY DEF QuietInv, TypeInv, Types, Parse, Goto, Writes
<1>3. FilesAgree'
  BY <1>1, <1>2, FilesKept DEF QuietInv
<1>4. BuildAgrees(p)'
  <2>1. PICK whole \in {TRUE, ~cancel[p]} :
          entries' = [entries EXCEPT ![p] = <<[of |-> Mailbox, whole |-> whole]>>]
    BY DEF Parse
  <2>2. entries'[p][1].of = Mailbox
    BY <2>1 DEF QuietInv, TypeInv, Types
  <2>3. QED
    BY <1>1, <2>2, SameMailbox DEF BuildAgrees
<1>5. LoadAgrees(p)'
  BY <1>1 DEF LoadAgrees
<1>6. Serves(p)'
  BY SameMailbox DEF Parse, QuietInv, ServesCurrent, Serves
<1>7. QED
  BY <1>3, <1>4, <1>5, <1>6, OnlyTheActor DEF Step

(* A parse that was cancelled goes no further. *)
LEMMA CheckCancelAgrees ==
  ASSUME QuietInv, TypeInv', NEW p \in Procs, CheckCancel(p)
  PROVE  QuietInv'
<1>1. versions' = versions /\ index' = index /\ since' = since /\ pc[p] = "check"
  BY DEF CheckCancel, At
<1>2. \A q \in Procs, s \in Slots : Writes(q, s)' => Writes(q, s)
  BY DEF QuietInv, TypeInv, Types, CheckCancel, Goto, Writes, Return
<1>3. FilesAgree'
  BY <1>1, <1>2, FilesKept DEF QuietInv
<1>4. CASE Return(p, <<"cancelled">>)
  BY <1>1, <1>3, <1>4, ReturnAgrees DEF Step
<1>5. CASE ~cancel[p] /\ Goto(p, "wstat")
           /\ UNCHANGED <<outcome, cancel, target, data, stat, entries, header>>
  <2>1. pc'[p] = "wstat"
    BY <1>5 DEF QuietInv, TypeInv, Types, Goto
  <2>2. entries[p] = <<Whole(Now)>>
    <3>1. entries[p] # <<>> /\ entries[p][1].whole /\ entries[p][1].of = Mailbox
      BY <1>1, <1>5 DEF QuietInv, TypeInv, Progress, BuildsAgree, Parsed
    <3>2. PICK e \in EntryList : entries[p] = <<e>>
      BY <3>1 DEF QuietInv, TypeInv, Types, AtMostOne
    <3>3. e = [of |-> versions[Now], whole |-> TRUE]
      BY <3>1, <3>2 DEF EntryList, Mailbox
    <3>4. QED
      BY <3>2, <3>3 DEF Whole
  <2>3. BuildAgrees(p)' /\ LoadAgrees(p)'
    BY <1>1, <1>5, <2>1, <2>2, SameMailbox DEF BuildAgrees, LoadAgrees
  <2>4. Serves(p)'
    BY <1>1, <1>5, SameMailbox DEF QuietInv, ServesCurrent, Serves
  <2>5. QED
    BY <1>3, <2>3, <2>4, OnlyTheActor DEF Step
<1>6. QED
  BY <1>4, <1>5 DEF CheckCancel

(* The fingerprint is of the mailbox as it is. *)
LEMMA FingerprintAgrees ==
  ASSUME MaxVersions <= MaxStamp, QuietInv, TypeInv', NEW p \in Procs,
         StatForHeader(p) \/ HashForHeader(p)
  PROVE  QuietInv'
<1>1. versions' = versions /\ index' = index /\ pc[p] \in {"wstat", "whash"} /\ entries' = entries
  BY DEF StatForHeader, HashForHeader, At
<1>2. \A q \in Procs, s \in Slots : Writes(q, s)' => Writes(q, s)
  BY DEF QuietInv, TypeInv, Types, StatForHeader, HashForHeader, Goto, Writes
<1>3. FilesAgree'
  BY <1>1, <1>2, FilesKept DEF QuietInv
<1>4. entries[p] = <<Whole(Now)>>
  BY <1>1 DEF QuietInv, BuildsAgree, Parsed
<1>5. BuildAgrees(p)' /\ LoadAgrees(p)'
  <2>1. CASE StatForHeader(p)
    <3>1. pc'[p] = "whash" /\ stat'[p] = Now
      BY <2>1 DEF QuietInv, TypeInv, Types, StatForHeader, Goto
    <3>2. QED
      BY <1>1, <1>4, <3>1, SameMailbox DEF BuildAgrees, LoadAgrees
  <2>2. CASE HashForHeader(p)
    <3>1. pc'[p] = "create"
      BY <2>2 DEF QuietInv, TypeInv, Types, HashForHeader, Goto
    <3>2. stat[p] = Now
      BY <2>2 DEF HashForHeader, At, QuietInv, BuildsAgree
    <3>3. Stamp(Now) = Now
      BY IndexAssumption DEF Stamp, QuietInv, TypeInv, Types, Now
    <3>4. Count(entries[p][1]) = CountOf[versions[Now]]
      BY <1>4 DEF Count, Whole
    <3>5. header'[p] = <<PrintOf(Now)>>
      BY <2>2, <3>2, <3>3, <3>4 DEF QuietInv, TypeInv, Types, HashForHeader, PrintOf, Mailbox
    <3>6. QED
      BY <1>1, <1>4, <3>1, <3>5, SameMailbox DEF BuildAgrees, LoadAgrees
  <2>3. QED
    BY <2>1, <2>2
<1>6. Serves(p)'
  BY SameMailbox DEF StatForHeader, HashForHeader, QuietInv, ServesCurrent, Serves
<1>7. QED
  BY <1>3, <1>5, <1>6, OnlyTheActor DEF Step

-----------------------------------------------------------------------------
(* The writes.  Whoever writes to a file at the same time writes the same. *)
LEMMA FileWritten ==
  ASSUME QuietInv, NEW slot \in Slots, versions' = versions,
         IsOf(index'[slot], Now),
         \A s \in Slots \ {slot} : index'[s] = index[s],
         \A q \in Procs, s \in Slots \ {slot} : Writes(q, s)' => Writes(q, s)
  PROVE  FilesAgree'
<1>1. Now \in 1 .. Now
  BY DEF QuietInv, TypeInv, Types, Now
<1>2. \E t \in 1 .. Now' : IsOf(index[slot], t)' /\ ((\E p \in Procs : Writes(p, slot)') => t = Now')
  BY <1>1, SameMailbox
<1>3. ASSUME NEW s \in Slots \ {slot}
      PROVE  \E t \in 1 .. Now' : IsOf(index[s], t)' /\ ((\E p \in Procs : Writes(p, s)') => t = Now')
  <2>1. PICK t \in 1 .. Now : IsOf(index[s], t) /\ ((\E p \in Procs : Writes(p, s)) => t = Now)
    BY DEF QuietInv, FilesAgree
  <2>2. IsOf(index[s], t)'
    BY <2>1, SameMailbox DEF IsOf
  <2>3. QED
    BY <2>1, <2>2, SameMailbox
<1>4. QED
  BY <1>2, <1>3 DEF FilesAgree

(* A file that is written to is of the mailbox as it is. *)
LEMMA WrittenFileIsCurrent ==
  ASSUME QuietInv, NEW p \in Procs, pc[p] \in {"header", "entries"}
  PROVE  IsOf(index[target[p]], Now)
<1>1. target[p] \in Slots /\ Writes(p, target[p])
  BY DEF QuietInv, TypeInv, Types, Writes
<1>2. QED
  BY <1>1 DEF QuietInv, FilesAgree

LEMMA CreateAgrees ==
  ASSUME QuietInv, TypeInv', NEW p \in Procs, Create(p)
  PROVE  QuietInv'
<1>1. CASE WriteFailed(p) /\ UNCHANGED index
  BY <1>1, WriteFailedAgrees DEF Create, Step, At
<1>2. CASE /\ index' = [index EXCEPT ![target[p]] = EmptyFile]
           /\ Goto(p, "header")
           /\ UNCHANGED <<outcome, cancel, target, data, stat, entries, header>>
  <2>1. versions' = versions /\ since' = since /\ pc[p] = "create" /\ target[p] \in Slots
    BY DEF Create, At, QuietInv, TypeInv, Types
  <2>2. pc'[p] = "header"
    BY <1>2 DEF QuietInv, TypeInv, Types, Goto
  <2>3. index'[target[p]] = EmptyFile /\ \A s \in Slots \ {target[p]} : index'[s] = index[s]
    BY <1>2, <2>1 DEF QuietInv, TypeInv, Types
  <2>4. IsOf(index'[target[p]], Now)
    BY <2>3 DEF IsOf, EmptyFile
  <2>5. \A q \in Procs, s \in Slots \ {target[p]} : Writes(q, s)' => Writes(q, s)
    BY <1>2 DEF QuietInv, TypeInv, Types, Goto, Writes
  <2>6. FilesAgree'
    BY <2>1, <2>3, <2>4, <2>5, FileWritten
  <2>7. BuildAgrees(p)'
    BY <1>2, <2>1, <2>2, SameMailbox DEF QuietInv, BuildsAgree, BuildAgrees, Parsed
  <2>8. LoadAgrees(p)'
    BY <2>2 DEF LoadAgrees
  <2>9. Serves(p)'
    BY <1>2, <2>1, SameMailbox DEF QuietInv, ServesCurrent, Serves
  <2>10. QED
    BY <2>6, <2>7, <2>8, <2>9, OnlyTheActor DEF Step
<1>3. QED
  BY <1>1, <1>2 DEF Create

LEMMA WriteHeaderAgrees ==
  ASSUME QuietInv, TypeInv', NEW p \in Procs, WriteHeader(p)
  PROVE  QuietInv'
<1>1. versions' = versions /\ since' = since /\ pc[p] = "header" /\ target[p] \in Slots
  BY DEF WriteHeader, At, QuietInv, TypeInv, Types
<1>2. CASE WriteFailed(p) /\ UNCHANGED index
  BY <1>1, <1>2, WriteFailedAgrees DEF Step
<1>3. CASE /\ index' = [index EXCEPT ![target[p]].header = header[p]]
           /\ Goto(p, "entries")
           /\ UNCHANGED <<outcome, cancel, target, data, stat, entries, header, faults>>
  <2>1. pc'[p] = "entries"
    BY <1>3 DEF QuietInv, TypeInv, Types, Goto
  <2>2. /\ index'[target[p]].header = header[p]
        /\ index'[target[p]].entries = index[target[p]].entries
        /\ \A s \in Slots \ {target[p]} : index'[s] = index[s]
    BY <1>1, <1>3 DEF QuietInv, TypeInv, Types, IndexFile
  <2>3. header[p] = <<PrintOf(Now)>>
    BY <1>1 DEF QuietInv, BuildsAgree
  <2>4. IsOf(index'[target[p]], Now)
    BY <1>1, <2>2, <2>3, WrittenFileIsCurrent DEF IsOf
  <2>5. \A q \in Procs, s \in Slots \ {target[p]} : Writes(q, s)' => Writes(q, s)
    BY <1>3 DEF QuietInv, TypeInv, Types, Goto, Writes
  <2>6. FilesAgree'
    BY <1>1, <2>2, <2>4, <2>5, FileWritten
  <2>7. BuildAgrees(p)'
    BY <1>1, <1>3, <2>1, SameMailbox DEF QuietInv, BuildsAgree, BuildAgrees, Parsed
  <2>8. LoadAgrees(p)'
    BY <2>1 DEF LoadAgrees
  <2>9. Serves(p)'
    BY <1>1, <1>3, SameMailbox DEF QuietInv, ServesCurrent, Serves
  <2>10. QED
    BY <2>6, <2>7, <2>8, <2>9, OnlyTheActor DEF Step
<1>4. QED
  BY <1>2, <1>3 DEF WriteHeader

LEMMA WriteEntriesAgrees ==
  ASSUME QuietInv, TypeInv', NEW p \in Procs, WriteEntries(p)
  PROVE  QuietInv'
<1>1. versions' = versions /\ since' = since /\ pc[p] = "entries" /\ target[p] \in Slots
  BY DEF WriteEntries, At, QuietInv, TypeInv, Types
<1>2. CASE WriteFailed(p) /\ UNCHANGED index
  BY <1>1, <1>2, WriteFailedAgrees DEF Step
<1>3. CASE /\ index' = [index EXCEPT ![target[p]].entries = entries[p]]
           /\ Return(p, <<"entries", entries[p][1]>>)
  <2>1. /\ index'[target[p]].entries = entries[p]
        /\ index'[target[p]].header = index[target[p]].header
        /\ \A s \in Slots \ {target[p]} : index'[s] = index[s]
    BY <1>1, <1>3 DEF QuietInv, TypeInv, Types, IndexFile
  <2>2. entries[p] = <<Whole(Now)>>
    BY <1>1 DEF QuietInv, BuildsAgree, Parsed
  <2>3. IsOf(index'[target[p]], Now)
    BY <1>1, <2>1, <2>2, WrittenFileIsCurrent DEF IsOf
  <2>4. \A q \in Procs, s \in Slots \ {target[p]} : Writes(q, s)' => Writes(q, s)
    BY <1>3 DEF QuietInv, TypeInv, Types, Return, Goto, Writes
  <2>5. FilesAgree'
    BY <1>1, <2>1, <2>3, <2>4, FileWritten
  <2>6. QED
    BY <1>1, <1>3, <2>5, EntriesAreCurrent, ReturnAgrees DEF Step, Parsed
<1>4. QED
  BY <1>2, <1>3 DEF WriteEntries

LEMMA RequestCancelAgrees ==
  ASSUME QuietInv, TypeInv', NEW p \in Procs, RequestCancel(p)
  PROVE  QuietInv'
<1>1. UNCHANGED <<versions, index, pc, target, data, stat, entries, header, outcome, since>>
  BY DEF RequestCancel
<1>2. FilesAgree' /\ BuildsAgree' /\ LoadsAgree' /\ ServesCurrent'
  BY <1>1, SameMailbox DEF QuietInv, FilesAgree, BuildsAgree, LoadsAgree, ServesCurrent, Writes
<1>3. QED
  BY <1>2 DEF QuietInv

LEMMA CrashAgrees ==
  ASSUME QuietInv, TypeInv', NEW p \in Procs, Crash(p)
  PROVE  QuietInv'
<1>1. UNCHANGED <<versions, index, since>> /\ Return(p, <<"none">>)
  BY DEF Crash
<1>2. \A q \in Procs, s \in Slots : Writes(q, s)' => Writes(q, s)
  BY <1>1 DEF QuietInv, TypeInv, Types, Goto, Writes, Return
<1>3. FilesAgree'
  BY <1>1, <1>2, FilesKept DEF QuietInv
<1>4. QED
  BY <1>1, <1>3, ReturnAgrees DEF Step

-----------------------------------------------------------------------------
LEMMA QuietInvHolds ==
  ASSUME QuietBuild, MaxVersions <= MaxStamp
  PROVE  Spec => []QuietInv
<1>1. ASSUME QuietInv, [Next]_vars
      PROVE  QuietInv'
  <2>1. TypeInv'
    BY <1>1, TypesStep, ProgressStep, HalfIndexStep DEF QuietInv, TypeInv
  <2>2. CASE UNCHANGED vars
    <3>1. UNCHANGED <<versions, index, pc, target, data, stat, entries, header, outcome, since>>
      BY <2>2 DEF vars
    <3>2. FilesAgree' /\ BuildsAgree' /\ LoadsAgree' /\ ServesCurrent'
      BY <1>1, <3>1, SameMailbox DEF QuietInv, FilesAgree, BuildsAgree, LoadsAgree, ServesCurrent, Writes
    <3>3. QED
      BY <2>1, <3>2 DEF QuietInv
  <2>3. CASE MailboxChanges
    BY <1>1, <2>1, <2>3, MailboxChangesQuietly
  <2>4. ASSUME NEW p \in Procs, Step(p)
        PROVE  QuietInv'
    BY <1>1, <2>1, <2>4, CallAgrees, ReadIndexAgrees, StatAgrees, HashAgrees, ParseAgrees,
       CheckCancelAgrees, FingerprintAgrees, CreateAgrees, WriteHeaderAgrees, WriteEntriesAgrees,
       RequestCancelAgrees, CrashAgrees DEF Step
  <2>5. QED
    BY <1>1, <2>2, <2>3, <2>4 DEF Next, Step
<1>2. QED
  BY <1>1, QuietInvInitially, PTL DEF Spec

(* A call that returns entries returns all those of a content the mailbox  *)
(* had while the call ran: for every number of processes that build at the *)
(* same time, and whatever is cancelled, crashes or fails, as long as the  *)
(* mailbox does not change under a build and modification times fit        *)
(* (index/builder.rs:139-160, 75-77).                                      *)
THEOREM ServedEntriesAreCurrent ==
  ASSUME QuietBuild, MaxVersions <= MaxStamp
  PROVE  Spec => []ServesCurrent
<1>1. QuietInv => ServesCurrent
  BY DEF QuietInv
<1>2. QED
  BY <1>1, QuietInvHolds, PTL

(* An index that a load would accept describes the mailbox as it is,       *)
(* whoever wrote its parts and in which order (index/builder.rs:194-249).  *)
THEOREM AcceptedIndexIsSound ==
  ASSUME QuietBuild, MaxVersions <= MaxStamp
  PROVE  Spec => []IndexSound
<1>1. QuietInv => IndexSound
  <2> SUFFICES ASSUME QuietInv, NEW s \in Slots,
                      index[s].header # <<>>, index[s].entries # <<>>,
                      index[s].header[1].mtime = Stamp(Now)
               PROVE  index[s].entries[1] = [of |-> Mailbox, whole |-> TRUE]
    BY DEF IndexSound
  <2>1. PICK t \in 1 .. Now : IsOf(index[s], t)
    BY DEF QuietInv, FilesAgree
  <2>2. index[s].header = <<PrintOf(t)>> /\ index[s].entries = <<Whole(t)>>
    BY <2>1 DEF IsOf
  <2>3. Stamp(Now) = Now
    BY IndexAssumption DEF Stamp, QuietInv, TypeInv, Types, Now
  <2>4. t = Now
    BY <2>2, <2>3 DEF PrintOf
  <2>5. QED
    BY <2>2, <2>4 DEF Whole, Mailbox
<1>2. QED
  BY <1>1, QuietInvHolds, PTL
=============================================================================
