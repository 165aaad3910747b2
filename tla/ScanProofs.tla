----------------------------- MODULE ScanProofs ------------------------------
(***************************************************************************)
(* Theorems about the header scan and the full scan, for every set of      *)
(* mailboxes and every limit.                                              *)
(***************************************************************************)
EXTENDS BothScans, CountingProofs

(* A From line, as the scan decides it with the flag it carries, is a      *)
(* start of a message of the file.                                         *)
FlagInv == git_patch_mbox <=> (pos > 0 /\ mbox[1].kind = "gitpatch")

LEMMA FileIsSeq == ASSUME mbox \in Mailboxes PROVE mbox \in Seq(Line)
  BY MailboxesAssumption

LEMMA LineFacts ==
  ASSUME NEW file \in Seq(Line), NEW i \in 1 .. Len(file)
  PROVE  /\ file[i] \in Line
         /\ file[i].size \in Nat \ {0}
         /\ Retained(file[i]) \in Nat \ {0}
<1>1. file[i] \in Line
  OBVIOUS
<1>2. QED
  BY <1>1, RetainAssumption DEF Line, Retained

LEMMA ExtendType ==
  ASSUME mbox \in Seq(Line), NEW i \in 1 .. Len(mbox), NEW b \in Block
  PROVE  Extend(b, i) \in Block /\ KeepHeader(b, i) \in Block
<1>1. Retained(mbox[i]) \in Nat /\ i \in Nat
  BY LineFacts
<1>2. Append(b.lines, i) \in Seq(Nat) /\ b.bytes + Retained(mbox[i]) \in Nat
  BY <1>1 DEF Block
<1>3. Extend(b, i) \in Block
  BY <1>2 DEF Extend, Block
<1>4. QED
  BY <1>3 DEF KeepHeader

LEMMA EmptyBlockType == EmptyBlock \in Block
  BY DEF EmptyBlock, Block

(* The message being read started at or before the byte the scan is at. *)
OffsetInv == HaveMessage => prev_message_start[1] <= current_offset

LEMMA PreviousMessageType ==
  ASSUME TypeOK, OffsetInv, HaveMessage
  PROVE  /\ PreviousMessage \in Report
         /\ PreviousMessage.offset = prev_message_start[1]
         /\ PreviousMessage.offset + PreviousMessage.length = current_offset
         /\ PreviousMessage.headers = SavedHeaders
<1>1. SavedHeaders \in Block
  BY DEF SavedHeaders, TypeOK
<1>2. prev_message_start[1] \in Nat
  BY DEF TypeOK, HaveMessage
<1>3. current_offset - prev_message_start[1] \in Nat
  BY <1>2 DEF TypeOK, OffsetInv
<1>4. QED
  BY <1>1, <1>2, <1>3 DEF PreviousMessage, Report, TypeOK

(* Type correctness needs OffsetInv: the length of a report is a           *)
(* difference, and only OffsetInv says it is not negative.                 *)
TypeInv == TypeOK /\ FlagInv /\ OffsetInv

LEMMA AdvanceFacts ==
  ASSUME TypeInv, Advance
  PROVE  /\ pos + 1 \in 1 .. Len(mbox)
         /\ pos' \in 0 .. Len(mbox)
         /\ pos' = pos + 1
         /\ mbox' = mbox
         /\ pc' = "scanning"
         /\ current_offset' \in Nat
         /\ current_offset < current_offset'
         /\ git_patch_mbox' \in BOOLEAN
         /\ FlagInv'
         /\ AtFromLine <=> pos + 1 \in Starts(mbox)
<1>1. /\ mbox \in Seq(Line) /\ Len(mbox) \in Nat /\ pos \in Nat /\ pos < Len(mbox)
      /\ mbox' = mbox /\ pos' = pos + 1
  BY DEF TypeInv, TypeOK, Advance
<1>2. pos + 1 \in 1 .. Len(mbox)
  BY <1>1
<1>3. mbox[pos + 1].size \in Nat \ {0}
  BY <1>2, LineFacts DEF TypeInv, TypeOK
<1>4. current_offset' \in Nat /\ current_offset < current_offset'
  BY <1>3, SMTT(30) DEF TypeInv, TypeOK, Advance
<1>5. git_patch_mbox' \in BOOLEAN /\ FlagInv'
  <2>1. git_patch_mbox' = PatchSeries(mbox, git_patch_mbox, pos + 1)
    BY DEF Advance
  <2>2. PatchSeries(mbox, git_patch_mbox, pos + 1) \in BOOLEAN
    BY DEF PatchSeries
  <2>3. PatchSeries(mbox, git_patch_mbox, pos + 1) <=> mbox[1].kind = "gitpatch"
    BY <1>1 DEF PatchSeries, TypeInv, FlagInv
  <2>4. pos' > 0 /\ mbox'[1].kind = mbox[1].kind
    BY <1>1
  <2>5. QED
    BY <2>1, <2>2, <2>3, <2>4 DEF FlagInv
<1>6. AtFromLine <=> pos + 1 \in Starts(mbox)
  <2>1. mbox # <<>> /\ DOMAIN mbox = 1 .. Len(mbox)
    BY <1>1
  <2>2. pos + 1 = 1 <=> pos = 0
    BY <1>1
  <2>3. mbox[pos + 1].kind = "gitpatch" /\ PatchSeries(mbox, git_patch_mbox, pos + 1)
          <=> mbox[pos + 1].kind = "gitpatch" /\ mbox[1].kind = "gitpatch"
    BY <1>1, <2>2 DEF TypeInv, FlagInv, PatchSeries
  <2>4. QED
    BY <1>2, <2>1, <2>2, <2>3 DEF AtFromLine, Starts, IsFromLine
<1>7. QED
  BY <1>1, <1>2, <1>4, <1>5, <1>6 DEF Advance

LEMMA TypeInvInit == Init => TypeInv
<1> SUFFICES ASSUME Init PROVE TypeInv
  OBVIOUS
<1>1. mbox \in Seq(Line)
  BY FileIsSeq DEF Init
<1>2. TypeOK
  <2>1. pos \in 0 .. Len(mbox) /\ current_offset \in Nat
    BY <1>1 DEF Init
  <2>2. /\ prev_message_start \in Seq(Nat) /\ Len(prev_message_start) <= 1
        /\ prev_headers \in Seq(Block) /\ Len(prev_headers) <= 1
        /\ emitted \in Seq(Report)
    BY DEF Init
  <2>3. QED
    BY <1>1, <2>1, <2>2, EmptyBlockType DEF Init, TypeOK
<1>3. FlagInv
  BY DEF Init, FlagInv
<1>4. OffsetInv
  BY DEF Init, OffsetInv, HaveMessage
<1>5. QED
  BY <1>2, <1>3, <1>4 DEF TypeInv

LEMMA TypeInvStep == TypeInv /\ [Next]_vars => TypeInv'
<1> SUFFICES ASSUME TypeInv, [Next]_vars PROVE TypeInv'
  OBVIOUS
<1> USE DEF TypeInv
<1>1. CASE StartMessage
  <2>1. /\ pos + 1 \in 1 .. Len(mbox)   /\ pos' \in 0 .. Len(mbox)
        /\ mbox' = mbox /\ pc' = "scanning" /\ current_offset' \in Nat
        /\ current_offset < current_offset' /\ git_patch_mbox' \in BOOLEAN /\ FlagInv'
    BY <1>1, AdvanceFacts DEF StartMessage
  <2>2. header_buf' \in Block
    BY <1>1, <2>1, ExtendType, EmptyBlockType DEF StartMessage, TypeOK
  <2>3. emitted' \in Seq(Report)
    <3>1. CASE HaveMessage
      <4>1. PreviousMessage \in Report
        BY <3>1, PreviousMessageType
      <4>2. QED
        BY <1>1, <3>1, <4>1 DEF StartMessage, TypeOK
    <3>2. CASE ~HaveMessage
      BY <1>1, <3>2 DEF StartMessage, TypeOK
    <3>3. QED
      BY <3>1, <3>2
  <2>4. prev_message_start' \in Seq(Nat) /\ Len(prev_message_start') <= 1
        /\ prev_message_start'[1] = current_offset
    BY <1>1 DEF StartMessage, TypeOK
  <2>5. prev_headers' \in Seq(Block) /\ Len(prev_headers') <= 1 /\ in_headers' \in BOOLEAN
    BY <1>1 DEF StartMessage
  <2>6. TypeOK'
    BY <2>1, <2>2, <2>3, <2>4, <2>5 DEF TypeOK
  <2>7. OffsetInv'
    BY <2>1, <2>4 DEF OffsetInv, TypeOK
  <2>8. QED
    BY <2>1, <2>6, <2>7
<1>2. CASE RefuseMessage
  BY <1>2 DEF RefuseMessage, TypeOK, FlagInv, OffsetInv, HaveMessage
<1>3. CASE EndHeaders \/ HeaderLine \/ SkipLine
  <2>1. Advance /\ UNCHANGED <<prev_message_start, emitted>>
    BY <1>3 DEF EndHeaders, HeaderLine, SkipLine
  <2>2. /\ pos + 1 \in 1 .. Len(mbox)   /\ pos' \in 0 .. Len(mbox)
        /\ mbox' = mbox /\ pc' = "scanning" /\ current_offset' \in Nat
        /\ current_offset < current_offset' /\ git_patch_mbox' \in BOOLEAN /\ FlagInv'
    BY <2>1, AdvanceFacts
  <2>3. header_buf' \in Block
    BY <1>3, <2>2, ExtendType, EmptyBlockType
    DEF EndHeaders, HeaderLine, SkipLine, TypeOK
  <2>4. prev_headers' \in Seq(Block) /\ Len(prev_headers') <= 1 /\ in_headers' \in BOOLEAN
    <3>1. CASE EndHeaders
      <4>1. prev_headers' = <<header_buf>> /\ header_buf \in Block
        BY <3>1 DEF EndHeaders, TypeOK
      <4>2. prev_headers' \in Seq(Block) /\ Len(prev_headers') <= 1
        BY <4>1
      <4>3. in_headers' \in BOOLEAN
        BY <3>1 DEF EndHeaders
      <4>4. QED
        BY <4>2, <4>3
    <3>2. CASE HeaderLine \/ SkipLine
      BY <3>2 DEF HeaderLine, SkipLine, TypeOK
    <3>3. QED
      BY <1>3, <3>1, <3>2
  <2>5. TypeOK'
    BY <2>1, <2>2, <2>3, <2>4 DEF TypeOK
  <2>6. OffsetInv'
    <3>1. HaveMessage => prev_message_start[1] \in Nat
      BY DEF TypeOK, HaveMessage
    <3>2. QED
      BY <2>1, <2>2, <3>1 DEF OffsetInv, HaveMessage, TypeOK
  <2>7. QED
    BY <2>2, <2>5, <2>6
<1>4. CASE Finish
  <2>1. emitted' \in Seq(Report)
    <3>1. HaveMessage => PreviousMessage \in Report
      BY PreviousMessageType DEF TypeInv
    <3>2. emitted \in Seq(Report)
      BY DEF TypeInv, TypeOK
    <3>3. \/ HaveMessage /\ emitted' = Append(emitted, PreviousMessage)
          \/ emitted' = emitted
      BY <1>4 DEF Finish
    <3>4. QED
      BY <3>1, <3>2, <3>3
  <2>2. QED
    BY <1>4, <2>1 DEF Finish, TypeOK, FlagInv, OffsetInv, HaveMessage
<1>5. CASE UNCHANGED vars
  BY <1>5 DEF vars, TypeOK, FlagInv, OffsetInv, HaveMessage
<1>6. QED
  BY <1>1, <1>2, <1>3, <1>4, <1>5 DEF Next

(* Type correctness of parse_headers_only's state: in particular every     *)
(* reported offset and length is a natural number, so the subtraction that *)
(* computes a length (parser/mbox.rs:297, 336) never underflows.           *)
THEOREM TypeCorrect == Spec => []TypeOK
<1>1. Init => TypeInv
  BY TypeInvInit
<1>2. TypeInv /\ [Next]_vars => TypeInv'
  BY TypeInvStep
<1>3. TypeInv => TypeOK
  BY DEF TypeInv
<1>4. QED
  BY <1>1, <1>2, <1>3, PTL DEF Spec
-----------------------------------------------------------------------------
(* Tiling needs to know that a report is never made while no message is    *)
(* being read: the next message then has nowhere to begin.                 *)
TilingInv == TypeInv /\ Tiling /\ (emitted # <<>> => HaveMessage)

LEMMA AppendFacts ==
  ASSUME NEW S, NEW s \in Seq(S), NEW e \in S
  PROVE  /\ Append(s, e) \in Seq(S)
         /\ Append(s, e) # <<>>
         /\ Len(Append(s, e)) = Len(s) + 1
         /\ Append(s, e)[Len(s) + 1] = e
         /\ \A k \in 1 .. Len(s) : Append(s, e)[k] = s[k]
         /\ s # <<>> => Append(s, e)[1] = s[1]
<1>1. /\ Append(s, e) \in Seq(S)   /\ Len(Append(s, e)) = Len(s) + 1
      /\ Append(s, e)[Len(s) + 1] = e
      /\ Len(s) \in Nat
  OBVIOUS
<1>2. \A k \in 1 .. Len(s) : Append(s, e)[k] = s[k]
  OBVIOUS
<1>3. Append(s, e) # <<>>
  BY <1>1
<1>4. s # <<>> => 1 \in 1 .. Len(s)
  OBVIOUS
<1>5. QED
  BY <1>1, <1>2, <1>3, <1>4

LEMMA ReportKeepsTiling ==
  ASSUME TilingInv, HaveMessage, pc # "done", emitted' = Append(emitted, PreviousMessage)
  PROVE  /\ \A k \in 1 .. Len(emitted') - 1 :
               emitted'[k + 1].offset = emitted'[k].offset + emitted'[k].length
         /\ emitted' # <<>>
         /\ emitted'[Len(emitted')].offset + emitted'[Len(emitted')].length = current_offset
<1> DEFINE e == PreviousMessage
<1>1. /\ e \in Report   /\ e.offset = prev_message_start[1]
      /\ e.offset + e.length = current_offset
  BY PreviousMessageType DEF TilingInv, TypeInv
<1>2. emitted \in Seq(Report)
  BY DEF TilingInv, TypeInv, TypeOK
<1> HIDE DEF e
<1>3. /\ Len(emitted') = Len(emitted) + 1 /\ emitted'[Len(emitted) + 1] = e
      /\ \A k \in 1 .. Len(emitted) : emitted'[k] = emitted[k]
      /\ emitted' # <<>>
  BY <1>1, <1>2, AppendFacts DEF e
<1>4. ASSUME NEW k \in 1 .. Len(emitted') - 1
      PROVE  emitted'[k + 1].offset = emitted'[k].offset + emitted'[k].length
  <2>1. Len(emitted) \in Nat /\ k \in 1 .. Len(emitted)
    BY <1>2, <1>3
  <2>2. CASE k < Len(emitted)
    <3>1. k + 1 \in 1 .. Len(emitted) /\ k \in 1 .. Len(emitted) - 1
      BY <2>1, <2>2
    <3>2. QED
      BY <1>3, <2>1, <3>1 DEF TilingInv, Tiling
  <2>3. CASE k = Len(emitted)
    <3>1. emitted # <<>>
      BY <2>1, <2>3
    <3>2. prev_message_start = <<emitted[k].offset + emitted[k].length>>
      BY <2>3, <3>1 DEF TilingInv, Tiling
    <3>3. prev_message_start[1] = emitted[k].offset + emitted[k].length
      BY <3>2
    <3>4. QED
      BY <1>1, <1>3, <2>1, <2>3, <3>3
  <2>4. QED
    BY <2>1, <2>2, <2>3
<1>5. emitted'[Len(emitted')] = e
  BY <1>3
<1>6. QED
  BY <1>1, <1>3, <1>4, <1>5

LEMMA TilingInvStep == TilingInv /\ [Next]_vars => TilingInv'
<1> SUFFICES ASSUME TilingInv, [Next]_vars PROVE TilingInv'
  OBVIOUS
<1>0. TypeInv'
  BY TypeInvStep DEF TilingInv
<1>1. CASE StartMessage
  <2>1. HaveMessage' /\ prev_message_start' = <<current_offset>> /\ pc' = "scanning"
        /\ pc = "scanning"
    BY <1>1 DEF StartMessage, Advance, HaveMessage
  <2>2. CASE HaveMessage
    <3>1. emitted' = Append(emitted, PreviousMessage)
      BY <1>1, <2>2 DEF StartMessage
    <3>2. QED
      BY <1>0, <2>1, <2>2, <3>1, ReportKeepsTiling DEF TilingInv, Tiling
  <2>3. CASE ~HaveMessage
    <3>1. emitted = <<>> /\ emitted' = <<>>
      BY <1>1, <2>3 DEF StartMessage, TilingInv
    <3>2. QED
      BY <1>0, <2>1, <3>1 DEF TilingInv, Tiling
  <2>4. QED
    BY <2>2, <2>3
<1>2. CASE RefuseMessage
  BY <1>0, <1>2 DEF RefuseMessage, TilingInv, Tiling, HaveMessage
<1>3. CASE EndHeaders \/ HeaderLine \/ SkipLine
  BY <1>0, <1>3 DEF EndHeaders, HeaderLine, SkipLine, Advance, TilingInv, Tiling, HaveMessage
<1>4. CASE Finish
  <2>1. pc = "scanning" /\ pc' = "done" /\ HaveMessage' = HaveMessage
    BY <1>4 DEF Finish, HaveMessage
  <2>2. CASE emitted' = emitted
    BY <1>0, <2>1, <2>2 DEF TilingInv, Tiling
  <2>3. CASE HaveMessage /\ emitted' = Append(emitted, PreviousMessage)
    BY <1>0, <2>1, <2>3, ReportKeepsTiling DEF TilingInv, Tiling
  <2>4. QED
    BY <1>4, <2>2, <2>3 DEF Finish
<1>5. CASE UNCHANGED vars
  BY <1>0, <1>5 DEF vars, TilingInv, Tiling, HaveMessage
<1>6. QED
  BY <1>1, <1>2, <1>3, <1>4, <1>5 DEF Next

(* For every mailbox, the ranges parse_headers_only reports tile it.       *)
THEOREM ReportsTile == Spec => []Tiling
<1>1. Init => TilingInv
  BY TypeInvInit DEF TilingInv, Tiling, Init
<1>2. TilingInv /\ [Next]_vars => TilingInv'
  BY TilingInvStep
<1>3. TilingInv => Tiling
  BY DEF TilingInv
<1>4. QED
  BY <1>1, <1>2, <1>3, PTL DEF Spec
-----------------------------------------------------------------------------
(* HeadersAreOwn is a fact about reports; what keeps it is a fact about    *)
(* the message being read: its header block is its own so far, every       *)
(* start the scan has passed was reported, and, once the body is reached,  *)
(* the saved block is complete.                                            *)
CurrentStart == SavedHeaders.lines[1]

FollowsLastReport ==
    IF emitted = <<>>
    THEN NoStartBetween(0, CurrentStart)
    ELSE /\ emitted[Len(emitted)].headers.lines[1] < CurrentStart
         /\ NoStartBetween(emitted[Len(emitted)].headers.lines[1], CurrentStart)

NoMessageYet ==
    /\ emitted = <<>>
    /\ prev_headers = <<>>
    /\ ~in_headers
    /\ NoStartBetween(0, pos + 1)

ReadingMessage ==
    /\ IsHeaderBlock(SavedHeaders)
    /\ CurrentStart + Len(SavedHeaders.lines) <= pos + 1
    /\ NoStartBetween(CurrentStart, pos + 1)
    /\ in_headers => /\ prev_headers = <<>>
                     /\ \/ CurrentStart + Len(SavedHeaders.lines) = pos + 1
                        \/ SavedHeaders.bytes >= MaxHeaderRetain
    /\ ~in_headers => prev_headers # <<>> /\ IsComplete(SavedHeaders)
    /\ FollowsLastReport

OwnInv ==
    /\ TypeInv
    /\ HeadersAreOwn
    /\ (pc # "done" /\ HaveMessage) => ReadingMessage
    /\ (pc # "done" /\ ~HaveMessage) => NoMessageYet

LEMMA StartsFacts ==
  ASSUME NEW file \in Seq(Line), NEW n \in Starts(file)
  PROVE  n \in 1 .. Len(file)
  BY DEF Starts

LEMMA BlockFacts ==
  ASSUME TypeOK, NEW b \in Block, IsHeaderBlock(b)
  PROVE  /\ b.lines \in Seq(Nat)
         /\ b.lines[1] \in 1 .. Len(mbox)
         /\ Len(b.lines) \in Nat \ {0}
<1>1. b.lines \in Seq(Nat) /\ b.lines # <<>>
  BY DEF Block, IsHeaderBlock
<1>2. b.lines[1] \in 1 .. Len(mbox)
  BY StartsFacts DEF TypeOK, IsHeaderBlock
<1>3. QED
  BY <1>1, <1>2

(* Nothing that starts a message is passed over by one more line that      *)
(* starts none.                                                            *)
LEMMA NoStartBetweenGrows ==
  ASSUME TypeOK, NEW i \in Nat, NEW j \in Nat,
         NoStartBetween(i, j), j \notin Starts(mbox)
  PROVE  NoStartBetween(i, j + 1)
<1> SUFFICES ASSUME NEW n \in Starts(mbox), i < n, n < j + 1 PROVE FALSE
  BY DEF NoStartBetween
<1>1. n \in Nat
  BY StartsFacts DEF TypeOK
<1>2. n < j \/ n = j
  BY <1>1
<1>3. QED
  BY <1>2 DEF NoStartBetween

(* When the block is finished by what comes after the lines read so far,   *)
(* the message can be reported.                                            *)
LEMMA ReportIsOwn ==
  ASSUME OwnInv, HaveMessage, pc # "done", emitted' = Append(emitted, PreviousMessage),
         mbox' = mbox,
         pos + 1 \in Starts(mbox) \/ pos = Len(mbox)
  PROVE  HeadersAreOwn' /\ emitted' # <<>>
         /\ emitted'[Len(emitted')].headers = SavedHeaders
<1> DEFINE e == PreviousMessage
<1>1. e \in Report /\ e.headers = SavedHeaders /\ emitted \in Seq(Report)
  BY PreviousMessageType DEF OwnInv, TypeInv, TypeOK
<1>2. ReadingMessage /\ HeadersAreOwn /\ TypeOK
  BY DEF OwnInv, TypeInv
<1>3. IsHeaderBlock(e.headers)
  BY <1>1, <1>2 DEF ReadingMessage
<1>4. IsComplete(e.headers)
  <2>1. CASE in_headers
    <3>1. \/ CurrentStart + Len(SavedHeaders.lines) = pos + 1
          \/ SavedHeaders.bytes >= MaxHeaderRetain
      BY <1>2, <2>1 DEF ReadingMessage
    <3>2. QED
      BY <1>1, <3>1 DEF IsComplete, CurrentStart
  <2>2. CASE ~in_headers
    BY <1>1, <1>2, <2>2 DEF ReadingMessage
  <2>3. QED
    BY <2>1, <2>2
<1>5. e.headers.lines[1] = CurrentStart
  BY <1>1 DEF CurrentStart
<1> HIDE DEF e
<1>6. /\ Len(emitted') = Len(emitted) + 1 /\ emitted'[Len(emitted) + 1] = e
      /\ \A k \in 1 .. Len(emitted) : emitted'[k] = emitted[k]
      /\ emitted' # <<>>   /\ emitted' \in Seq(Report)
      /\ Len(emitted) \in Nat
      /\ emitted # <<>> => Len(emitted) > 0 /\ emitted'[1] = emitted[1]
      /\ emitted = <<>> => emitted'[1] = e
  BY <1>1, AppendFacts DEF e
<1>7. ASSUME NEW k \in DOMAIN emitted'
      PROVE  IsHeaderBlock(emitted'[k].headers) /\ IsComplete(emitted'[k].headers)
  <2>1. k \in 1 .. Len(emitted) \/ k = Len(emitted) + 1
    BY <1>6
  <2>2. CASE k \in 1 .. Len(emitted)
    BY <1>1, <1>2, <1>6, <2>2 DEF HeadersAreOwn
  <2>3. CASE k = Len(emitted) + 1
    BY <1>3, <1>4, <1>6, <2>3
  <2>4. QED
    BY <2>1, <2>2, <2>3
<1>8. NoStartBetween(0, emitted'[1].headers.lines[1])
  <2>1. CASE emitted = <<>>
    BY <1>2, <1>5, <1>6, <2>1 DEF ReadingMessage, FollowsLastReport
  <2>2. CASE emitted # <<>>
    BY <1>2, <1>6, <2>2 DEF HeadersAreOwn
  <2>3. QED
    BY <2>1, <2>2
<1>9. ASSUME NEW k \in 1 .. Len(emitted') - 1
      PROVE  /\ emitted'[k].headers.lines[1] < emitted'[k + 1].headers.lines[1]
             /\ NoStartBetween(emitted'[k].headers.lines[1], emitted'[k + 1].headers.lines[1])
  <2>1. k \in 1 .. Len(emitted) /\ (k \in 1 .. Len(emitted) - 1 \/ k = Len(emitted))
    BY <1>6
  <2>2. CASE k \in 1 .. Len(emitted) - 1
    <3>1. k + 1 \in 1 .. Len(emitted)
      BY <1>6, <2>2
    <3>2. QED
      BY <1>2, <1>6, <2>1, <2>2, <3>1 DEF HeadersAreOwn
  <2>3. CASE k = Len(emitted)
    <3>1. emitted # <<>>
      BY <1>6, <2>1, <2>3
    <3>2. QED
      BY <1>2, <1>5, <1>6, <2>1, <2>3, <3>1 DEF ReadingMessage, FollowsLastReport
  <2>4. QED
    BY <2>1, <2>2, <2>3
<1>10. HeadersAreOwn'
  <2>1. (\A k \in DOMAIN emitted :
            IsHeaderBlock(emitted[k].headers) /\ IsComplete(emitted[k].headers))'
    BY <1>7 DEF IsHeaderBlock, IsComplete
  <2>2. NoStartBetween(0, emitted[1].headers.lines[1])'
    BY <1>8 DEF NoStartBetween
  <2>3. (\A k \in 1 .. Len(emitted) - 1 :
            /\ emitted[k].headers.lines[1] < emitted[k + 1].headers.lines[1]
            /\ NoStartBetween(emitted[k].headers.lines[1],
                              emitted[k + 1].headers.lines[1]))'
    BY <1>9 DEF NoStartBetween
  <2>4. QED
    BY <2>1, <2>2, <2>3 DEF HeadersAreOwn
<1>11. QED
  BY <1>1, <1>6, <1>10

(* What the case of a line that starts no message leaves alone. *)
LEMMA SameReports ==
  ASSUME HeadersAreOwn, mbox' = mbox, emitted' = emitted
  PROVE  HeadersAreOwn'
<1>1. (\A k \in DOMAIN emitted :
          IsHeaderBlock(emitted[k].headers) /\ IsComplete(emitted[k].headers))'
  BY DEF HeadersAreOwn, IsHeaderBlock, IsComplete
<1>2. (emitted # <<>> => NoStartBetween(0, emitted[1].headers.lines[1]))'
  BY DEF HeadersAreOwn, NoStartBetween
<1>3. (\A k \in 1 .. Len(emitted) - 1 :
          /\ emitted[k].headers.lines[1] < emitted[k + 1].headers.lines[1]
          /\ NoStartBetween(emitted[k].headers.lines[1],
                            emitted[k + 1].headers.lines[1]))'
  BY DEF HeadersAreOwn, NoStartBetween
<1>4. QED
  BY <1>1, <1>2, <1>3 DEF HeadersAreOwn

LEMMA SameFollows ==
  ASSUME FollowsLastReport, mbox' = mbox, emitted' = emitted, CurrentStart' = CurrentStart
  PROVE  FollowsLastReport'
  BY DEF FollowsLastReport, NoStartBetween

LEMMA SingletonFacts ==
  ASSUME NEW x PROVE <<x>> # <<>> /\ <<x>>[1] = x /\ Len(<<x>>) = 1
  OBVIOUS

LEMMA OwnStart == OwnInv /\ StartMessage /\ TypeInv' => OwnInv'
<1> SUFFICES ASSUME OwnInv, StartMessage, TypeInv' PROVE OwnInv'
  OBVIOUS
<1>1. /\ pos + 1 \in 1 .. Len(mbox) /\ pos' = pos + 1 /\ mbox' = mbox
      /\ pos + 1 \in Starts(mbox) /\ pos \in Nat
  BY AdvanceFacts DEF OwnInv, StartMessage, TypeInv, TypeOK
<1>2. pc = "scanning" /\ pc' = "scanning" /\ HaveMessage'
  BY DEF StartMessage, Advance, HaveMessage
<1>3. /\ SavedHeaders' = Extend(EmptyBlock, pos + 1)
      /\ SavedHeaders'.lines = <<pos + 1>>
      /\ CurrentStart' = pos + 1
      /\ prev_headers' = <<>> /\ in_headers'
  <2>1. prev_headers' = <<>> /\ header_buf' = Extend(EmptyBlock, pos + 1) /\ in_headers'
    BY DEF StartMessage
  <2>2. SavedHeaders' = header_buf'
    BY <2>1 DEF SavedHeaders
  <2>3. Extend(EmptyBlock, pos + 1).lines = <<pos + 1>>
    BY DEF Extend, EmptyBlock
  <2>4. QED
    BY <2>1, <2>2, <2>3 DEF CurrentStart
<1>4. IsHeaderBlock(SavedHeaders)'
  <2>1. SavedHeaders'.lines # <<>> /\ SavedHeaders'.lines[1] = pos + 1
        /\ Len(SavedHeaders'.lines) = 1
    BY <1>3, SingletonFacts
  <2>2. QED
    BY <1>1, <2>1 DEF IsHeaderBlock
<1>5. CurrentStart' + Len(SavedHeaders'.lines) = pos' + 1
  BY <1>1, <1>3
<1>6. NoStartBetween(CurrentStart, pos + 1)'
  BY <1>1, <1>3, StartsFacts DEF NoStartBetween, OwnInv, TypeInv, TypeOK
<1>7. HeadersAreOwn' /\ FollowsLastReport'
  <2>1. CASE HaveMessage
    <3>1. emitted' = Append(emitted, PreviousMessage)
      BY <2>1 DEF StartMessage
    <3>2. /\ HeadersAreOwn' /\ emitted' # <<>>
          /\ emitted'[Len(emitted')].headers = SavedHeaders
      BY <1>1, <1>2, <2>1, <3>1, ReportIsOwn
    <3>3. ReadingMessage /\ TypeOK
      BY <1>2, <2>1 DEF OwnInv, TypeInv
    <3>4. SavedHeaders \in Block
      BY <3>3 DEF TypeOK, SavedHeaders
    <3>5. CurrentStart \in Nat /\ Len(SavedHeaders.lines) \in Nat \ {0}
      BY <3>3, <3>4, BlockFacts DEF ReadingMessage, CurrentStart
    <3>6. CurrentStart < pos + 1 /\ NoStartBetween(CurrentStart, pos + 1)
      BY <1>1, <3>3, <3>5 DEF ReadingMessage
    <3>7. emitted'[Len(emitted')].headers.lines[1] = CurrentStart
      BY <3>2 DEF CurrentStart
    <3>8. FollowsLastReport'
      BY <1>1, <1>3, <3>2, <3>6, <3>7 DEF FollowsLastReport, NoStartBetween
    <3>9. QED
      BY <3>2, <3>8
  <2>2. CASE ~HaveMessage
    <3>1. emitted = <<>> /\ emitted' = <<>> /\ NoStartBetween(0, pos + 1)
      BY <1>2, <2>2 DEF OwnInv, NoMessageYet, StartMessage
    <3>2. HeadersAreOwn'
      BY <1>1, <3>1, SameReports DEF OwnInv
    <3>3. FollowsLastReport'
      BY <1>1, <1>3, <3>1 DEF FollowsLastReport, NoStartBetween
    <3>4. QED
      BY <3>2, <3>3
  <2>3. QED
    BY <2>1, <2>2
<1>8. ReadingMessage'
  <2>1. CurrentStart' + Len(SavedHeaders'.lines) <= pos' + 1
    BY <1>1, <1>5
  <2>2. QED
    BY <1>3, <1>4, <1>5, <1>6, <1>7, <2>1 DEF ReadingMessage
<1>9. QED
  BY <1>2, <1>7, <1>8 DEF OwnInv

LEMMA OwnHeaderLine == OwnInv /\ HeaderLine /\ TypeInv' => OwnInv'
<1> SUFFICES ASSUME OwnInv, HeaderLine, TypeInv' PROVE OwnInv'
  OBVIOUS
<1>1. /\ pos + 1 \in 1 .. Len(mbox) /\ pos' = pos + 1 /\ mbox' = mbox
      /\ pos + 1 \notin Starts(mbox) /\ pos \in Nat /\ pos + 1 \in DOMAIN mbox
  BY AdvanceFacts DEF OwnInv, HeaderLine, TypeInv, TypeOK
<1>2. /\ pc = "scanning" /\ pc' = "scanning" /\ HaveMessage' = HaveMessage
      /\ emitted' = emitted /\ in_headers /\ in_headers' /\ prev_headers' = prev_headers
      /\ ~IsBlank(mbox[pos + 1])
  BY DEF HeaderLine, Advance, HaveMessage
<1>3. HaveMessage /\ ReadingMessage /\ TypeOK
  BY <1>2 DEF OwnInv, NoMessageYet, TypeInv
<1>4. /\ SavedHeaders = header_buf /\ SavedHeaders' = header_buf'
      /\ header_buf' = KeepHeader(header_buf, pos + 1)
      /\ header_buf \in Block
  BY <1>2, <1>3 DEF ReadingMessage, SavedHeaders, HeaderLine, TypeOK
<1>5. IsHeaderBlock(header_buf) /\ header_buf.lines \in Seq(Nat)
      /\ Len(header_buf.lines) \in Nat \ {0} /\ header_buf.lines[1] \in Nat
  BY <1>3, <1>4, BlockFacts DEF ReadingMessage
<1>6. HeadersAreOwn'
  BY <1>1, <1>2, SameReports DEF OwnInv
<1>7. CASE header_buf.bytes >= MaxHeaderRetain
  <2>1. header_buf' = header_buf
    BY <1>4, <1>7, RetainAssumption DEF KeepHeader, Block
  <2>2. SavedHeaders' = SavedHeaders /\ CurrentStart' = CurrentStart
    BY <1>4, <2>1 DEF CurrentStart
  <2>3. CurrentStart \in Nat /\ Len(SavedHeaders.lines) \in Nat
    BY <1>4, <1>5 DEF CurrentStart
  <2>4. CurrentStart' + Len(SavedHeaders'.lines) <= pos' + 1
    BY <1>1, <1>3, <2>2, <2>3 DEF ReadingMessage
  <2>5. NoStartBetween(CurrentStart, pos + 1)'
    BY <1>1, <1>3, <2>2, <2>3, NoStartBetweenGrows DEF ReadingMessage, NoStartBetween
  <2>6. FollowsLastReport'
    BY <1>1, <1>2, <1>3, <2>2, SameFollows DEF ReadingMessage
  <2>7. IsHeaderBlock(SavedHeaders)'
    BY <1>1, <1>3, <2>2 DEF ReadingMessage, IsHeaderBlock
  <2>8. ReadingMessage'
    BY <1>2, <1>3, <1>4, <1>7, <2>1, <2>2, <2>4, <2>5, <2>6, <2>7 DEF ReadingMessage
  <2>9. QED
    BY <1>2, <1>3, <1>6, <2>8 DEF OwnInv
<1>8. CASE ~(header_buf.bytes >= MaxHeaderRetain)
  <2>1. header_buf' = Extend(header_buf, pos + 1)
    BY <1>4, <1>8, RetainAssumption DEF KeepHeader, Block
  <2>2. header_buf'.lines = Append(header_buf.lines, pos + 1)
    BY <2>1 DEF Extend
  <2>3. header_buf.lines[1] + Len(header_buf.lines) = pos + 1
    BY <1>2, <1>3, <1>4, <1>8 DEF ReadingMessage, CurrentStart
  <2>4. /\ Len(header_buf'.lines) = Len(header_buf.lines) + 1
        /\ header_buf'.lines[Len(header_buf.lines) + 1] = pos + 1
        /\ \A n \in 1 .. Len(header_buf.lines) : header_buf'.lines[n] = header_buf.lines[n]
        /\ header_buf'.lines # <<>> /\ header_buf'.lines[1] = header_buf.lines[1]
    <3> DEFINE old == header_buf.lines
               new == header_buf'.lines
               next == pos + 1
    <3>1. old \in Seq(Nat) /\ old # <<>> /\ next \in Nat /\ new = Append(old, next)
      BY <1>1, <1>5, <2>2
    <3> HIDE DEF old, new, next
    <3>2. /\ Len(new) = Len(old) + 1 /\ new[Len(old) + 1] = next
          /\ \A n \in 1 .. Len(old) : new[n] = old[n]
          /\ new # <<>> /\ new[1] = old[1]
      BY <3>1, AppendFacts
    <3>3. QED
      BY <3>2 DEF old, new, next
  <2>5. CurrentStart' = CurrentStart /\ CurrentStart = header_buf.lines[1]
    BY <1>4, <2>4 DEF CurrentStart
  <2>6. CurrentStart' + Len(SavedHeaders'.lines) = pos' + 1
    <3>1. SavedHeaders'.lines = header_buf'.lines
      BY <1>4
    <3>2. Len(SavedHeaders'.lines) = Len(header_buf.lines) + 1
      BY <2>4, <3>1
    <3>3. CurrentStart' = header_buf.lines[1] /\ pos' = pos + 1
      BY <1>1, <2>5
    <3>4. header_buf.lines[1] \in Nat /\ Len(header_buf.lines) \in Nat /\ pos \in Nat
      BY <1>1, <1>5
    <3>5. header_buf.lines[1] + (Len(header_buf.lines) + 1) = (pos + 1) + 1
      BY ONLY <2>3, <3>4
    <3>6. QED
      BY ONLY <3>2, <3>3, <3>5
  <2>7. NoStartBetween(CurrentStart, pos + 1)'
    BY <1>1, <1>3, <1>5, <2>5, NoStartBetweenGrows, SMTT(30) DEF ReadingMessage, NoStartBetween
  <2>8. FollowsLastReport'
    BY <1>1, <1>2, <1>3, <2>5, SameFollows DEF ReadingMessage
  <2>9. IsHeaderBlock(SavedHeaders)'
    <3>1. ASSUME NEW n \in 2 .. Len(header_buf'.lines)
          PROVE  /\ header_buf'.lines[n] = header_buf'.lines[1] + n - 1
                 /\ header_buf'.lines[n] \in DOMAIN mbox
                 /\ header_buf'.lines[n] \notin Starts(mbox)
                 /\ ~IsBlank(mbox[header_buf'.lines[n]])
      <4>1. CASE n <= Len(header_buf.lines)
        <5>1. n \in 2 .. Len(header_buf.lines) /\ n \in 1 .. Len(header_buf.lines)
          BY <1>5, <4>1
        <5>2. QED
          BY <1>5, <2>4, <5>1 DEF IsHeaderBlock
      <4>2. CASE n = Len(header_buf.lines) + 1
        BY <1>1, <1>2, <1>5, <2>3, <2>4, <4>2
      <4>3. QED
        BY <1>5, <2>4, <4>1, <4>2
    <3>2. header_buf'.lines[1] \in Starts(mbox)
      BY <1>5, <2>4 DEF IsHeaderBlock
    <3>3. QED
      BY <1>1, <1>4, <2>4, <3>1, <3>2 DEF IsHeaderBlock
  <2>10. ReadingMessage'
    <3>1. pos' + 1 \in Nat
      BY <1>1
    <3>2. QED
      BY <1>2, <1>3, <2>6, <2>7, <2>8, <2>9, <3>1 DEF ReadingMessage
  <2>11. QED
    BY <1>2, <1>3, <1>6, <2>10 DEF OwnInv
<1>9. QED
  BY <1>7, <1>8

LEMMA OwnEndHeaders == OwnInv /\ EndHeaders /\ TypeInv' => OwnInv'
<1> SUFFICES ASSUME OwnInv, EndHeaders, TypeInv' PROVE OwnInv'
  OBVIOUS
<1>1. /\ pos + 1 \in 1 .. Len(mbox) /\ pos' = pos + 1 /\ mbox' = mbox
      /\ pos + 1 \notin Starts(mbox) /\ pos \in Nat /\ pos + 1 \in DOMAIN mbox
  BY AdvanceFacts DEF OwnInv, EndHeaders, TypeInv, TypeOK
<1>2. /\ pc = "scanning" /\ pc' = "scanning" /\ HaveMessage' = HaveMessage
      /\ emitted' = emitted /\ in_headers /\ ~in_headers' /\ prev_headers' = <<header_buf>>
      /\ IsBlank(mbox[pos + 1])
  BY DEF EndHeaders, Advance, HaveMessage
<1>3. HaveMessage /\ ReadingMessage /\ TypeOK
  BY <1>2 DEF OwnInv, NoMessageYet, TypeInv
<1>4. SavedHeaders = header_buf /\ SavedHeaders' = SavedHeaders /\ prev_headers' # <<>>
      /\ CurrentStart' = CurrentStart /\ SavedHeaders \in Block
  <2>1. SavedHeaders = header_buf
    BY <1>2, <1>3 DEF ReadingMessage, SavedHeaders
  <2>2. prev_headers' # <<>> /\ prev_headers'[1] = header_buf
    BY <1>2
  <2>3. SavedHeaders' = header_buf
    BY <2>2 DEF SavedHeaders
  <2>4. QED
    BY <1>3, <2>1, <2>2, <2>3 DEF CurrentStart, TypeOK
<1>5. CurrentStart \in Nat /\ Len(SavedHeaders.lines) \in Nat
  BY <1>3, <1>4, BlockFacts DEF ReadingMessage, CurrentStart
<1>6. CurrentStart' + Len(SavedHeaders'.lines) <= pos' + 1
  BY <1>1, <1>3, <1>4, <1>5 DEF ReadingMessage
<1>7. NoStartBetween(CurrentStart, pos + 1)'
  BY <1>1, <1>3, <1>4, <1>5, NoStartBetweenGrows DEF ReadingMessage, NoStartBetween
<1>8. FollowsLastReport'
  BY <1>1, <1>2, <1>3, <1>4, SameFollows DEF ReadingMessage
<1>9. IsHeaderBlock(SavedHeaders)'
  BY <1>1, <1>3, <1>4 DEF ReadingMessage, IsHeaderBlock
<1>10. IsComplete(SavedHeaders)'
  <2>1. \/ SavedHeaders.lines[1] + Len(SavedHeaders.lines) = pos + 1
        \/ SavedHeaders.bytes >= MaxHeaderRetain
    BY <1>2, <1>3 DEF ReadingMessage, CurrentStart
  <2>2. IsComplete(SavedHeaders)
    BY <1>1, <1>2, <2>1 DEF IsComplete
  <2>3. QED
    BY <1>1, <1>4, <2>2 DEF IsComplete
<1>11. ReadingMessage'
  BY <1>2, <1>4, <1>6, <1>7, <1>8, <1>9, <1>10 DEF ReadingMessage
<1>12. HeadersAreOwn'
  BY <1>1, <1>2, SameReports DEF OwnInv
<1>13. QED
  BY <1>2, <1>3, <1>11, <1>12 DEF OwnInv

LEMMA OwnSkipLine == OwnInv /\ SkipLine /\ TypeInv' => OwnInv'
<1> SUFFICES ASSUME OwnInv, SkipLine, TypeInv' PROVE OwnInv'
  OBVIOUS
<1>1. /\ pos + 1 \in 1 .. Len(mbox) /\ pos' = pos + 1 /\ mbox' = mbox
      /\ pos + 1 \notin Starts(mbox) /\ pos \in Nat
  BY AdvanceFacts DEF OwnInv, SkipLine, TypeInv, TypeOK
<1>2. /\ pc = "scanning" /\ pc' = "scanning" /\ HaveMessage' = HaveMessage
      /\ emitted' = emitted /\ ~in_headers /\ ~in_headers' /\ prev_headers' = prev_headers
      /\ SavedHeaders' = SavedHeaders /\ CurrentStart' = CurrentStart
  BY DEF SkipLine, Advance, HaveMessage, SavedHeaders, CurrentStart
<1>3. TypeOK
  BY DEF OwnInv, TypeInv
<1>4. HeadersAreOwn'
  BY <1>1, <1>2, SameReports DEF OwnInv
<1>5. CASE HaveMessage
  <2>1. ReadingMessage /\ SavedHeaders \in Block
    BY <1>2, <1>3, <1>5 DEF OwnInv, SavedHeaders, TypeOK
  <2>2. CurrentStart \in Nat /\ Len(SavedHeaders.lines) \in Nat
    BY <1>3, <2>1, BlockFacts DEF ReadingMessage, CurrentStart
  <2>3. CurrentStart' + Len(SavedHeaders'.lines) <= pos' + 1
    BY <1>1, <1>2, <2>1, <2>2 DEF ReadingMessage
  <2>4. NoStartBetween(CurrentStart, pos + 1)'
    BY <1>1, <1>2, <1>3, <2>1, <2>2, NoStartBetweenGrows DEF ReadingMessage, NoStartBetween
  <2>5. FollowsLastReport'
    BY <1>1, <1>2, <2>1, SameFollows DEF ReadingMessage
  <2>6. IsHeaderBlock(SavedHeaders)' /\ IsComplete(SavedHeaders)'
    BY <1>1, <1>2, <2>1 DEF ReadingMessage, IsHeaderBlock, IsComplete
  <2>7. ReadingMessage'
    BY <1>2, <2>1, <2>3, <2>4, <2>5, <2>6 DEF ReadingMessage
  <2>8. QED
    BY <1>2, <1>4, <1>5, <2>7 DEF OwnInv
<1>6. CASE ~HaveMessage
  <2>1. NoMessageYet
    BY <1>2, <1>6 DEF OwnInv
  <2>2. NoStartBetween(0, pos + 1)'
    BY <1>1, <1>3, <2>1, NoStartBetweenGrows DEF NoMessageYet, NoStartBetween
  <2>3. NoMessageYet'
    BY <1>2, <2>1, <2>2 DEF NoMessageYet
  <2>4. QED
    BY <1>2, <1>4, <1>6, <2>3 DEF OwnInv
<1>7. QED
  BY <1>5, <1>6

LEMMA OwnInvStep == OwnInv /\ [Next]_vars => OwnInv'
<1> SUFFICES ASSUME OwnInv, [Next]_vars PROVE OwnInv'
  OBVIOUS
<1>0. TypeInv'
  BY TypeInvStep DEF OwnInv
<1>1. CASE StartMessage
  BY <1>0, <1>1, OwnStart
<1>2. CASE EndHeaders
  BY <1>0, <1>2, OwnEndHeaders
<1>3. CASE HeaderLine
  BY <1>0, <1>3, OwnHeaderLine
<1>4. CASE SkipLine
  BY <1>0, <1>4, OwnSkipLine
<1>5. CASE Finish
  <2>1. pc = "scanning" /\ pc' = "done" /\ mbox' = mbox /\ pos = Len(mbox)
    BY <1>5 DEF Finish
  <2>2. HeadersAreOwn'
    <3>1. CASE emitted' = emitted
      BY <2>1, <3>1, SameReports DEF OwnInv
    <3>2. CASE HaveMessage /\ emitted' = Append(emitted, PreviousMessage)
      BY <2>1, <3>2, ReportIsOwn
    <3>3. QED
      BY <1>5, <3>1, <3>2 DEF Finish
  <2>3. QED
    BY <1>0, <2>1, <2>2 DEF OwnInv
<1>6. CASE RefuseMessage \/ UNCHANGED vars
  <2>1. /\ mbox' = mbox /\ pos' = pos /\ in_headers' = in_headers
        /\ header_buf' = header_buf /\ prev_message_start' = prev_message_start
        /\ prev_headers' = prev_headers /\ emitted' = emitted
        /\ pc' # "done" => pc # "done"
    BY <1>6 DEF RefuseMessage, vars
  <2>2. HeadersAreOwn'
    BY <2>1, SameReports DEF OwnInv
  <2>3. /\ HaveMessage' = HaveMessage /\ SavedHeaders' = SavedHeaders
        /\ CurrentStart' = CurrentStart
    BY <2>1 DEF HaveMessage, SavedHeaders, CurrentStart
  <2>4. NoMessageYet => NoMessageYet'
    BY <2>1 DEF NoMessageYet, NoStartBetween
  <2>5. ASSUME ReadingMessage PROVE ReadingMessage'
    <3>1. IsHeaderBlock(SavedHeaders)' /\ (IsComplete(SavedHeaders) => IsComplete(SavedHeaders)')
      BY <2>1, <2>3, <2>5 DEF ReadingMessage, IsHeaderBlock, IsComplete
    <3>2. FollowsLastReport'
      BY <2>1, <2>3, <2>5, SameFollows DEF ReadingMessage
    <3>3. NoStartBetween(CurrentStart, pos + 1)'
      BY <2>1, <2>3, <2>5 DEF ReadingMessage, NoStartBetween
    <3>4. QED
      BY <2>1, <2>3, <2>5, <3>1, <3>2, <3>3 DEF ReadingMessage
  <2>6. QED
    BY <1>0, <2>1, <2>2, <2>3, <2>4, <2>5 DEF OwnInv
<1>7. QED
  BY <1>1, <1>2, <1>3, <1>4, <1>5, <1>6 DEF Next

LEMMA OwnInvInit == Init => OwnInv
<1> SUFFICES ASSUME Init PROVE OwnInv
  OBVIOUS
<1>1. TypeInv
  BY TypeInvInit
<1>2. /\ emitted = <<>> /\ prev_headers = <<>> /\ ~in_headers /\ pos = 0
      /\ prev_message_start = <<>> /\ mbox \in Mailboxes
  BY DEF Init
<1>3. NoStartBetween(0, pos + 1)
  BY <1>2, StartsFacts, FileIsSeq DEF NoStartBetween
<1>4. NoMessageYet /\ ~HaveMessage
  BY <1>2, <1>3 DEF NoMessageYet, HaveMessage
<1>5. HeadersAreOwn
  BY <1>2 DEF HeadersAreOwn
<1>6. QED
  BY <1>1, <1>4, <1>5 DEF OwnInv

(* For every mailbox and every retention limit, each report of             *)
(* parse_headers_only carries the headers of its own message, whole unless *)
(* the limit cut them, and no message of the file is passed over.          *)
THEOREM ReportsCarryTheirHeaders == Spec => []HeadersAreOwn
<1>1. Init => OwnInv
  BY OwnInvInit
<1>2. OwnInv /\ [Next]_vars => OwnInv'
  BY OwnInvStep
<1>3. OwnInv => HeadersAreOwn
  BY DEF OwnInv
<1>4. QED
  BY <1>1, <1>2, <1>3, PTL DEF Spec
-----------------------------------------------------------------------------
(* The byte ranges of MessageStream. *)

Sizes(file) == [i \in DOMAIN file |-> file[i].size]

NoneBetween(file, i, j) == \A n \in Starts(file) : ~(i < n /\ n < j)

(* What Bytes sums by taking out one line after the other. *)
LEMMA BytesAreASum ==
  ASSUME NEW file \in Seq(Line), NEW sum, IsSum(sum, Len(file), Sizes(file))
  PROVE  \A i \in 1 .. Len(file) + 1, j \in 1 .. Len(file) + 1 :
             Stream!Bytes(file, i, j) = sum[i .. j - 1]
<1> DEFINE last == Len(file)
<1>1. last \in Nat /\ DOMAIN file = 1 .. last
  OBVIOUS
<1>2. Sizes(file) \in [1 .. last -> Nat] /\ \A n \in 1 .. last : Sizes(file)[n] = file[n].size
  BY <1>1, LineFacts DEF Sizes
<1>3. IsSum(sum, last, Sizes(file))
  OBVIOUS
<1>4. ASSUME NEW i \in 1 .. last + 1, NEW j \in 1 .. last + 1
      PROVE  Stream!Bytes(file, i, j) = sum[i .. j - 1]
  <2> DEFINE lines == i .. j - 1
             Body(f) == [s \in SUBSET lines |->
                            IF s = {} THEN 0
                            ELSE LET x == CHOOSE y \in s : TRUE IN file[x].size + f[s \ {x}]]
             iter == CHOOSE f : f = Body(f)
  <2>1. Stream!Bytes(file, i, j) = iter[lines]
    BY DEF Stream!Bytes, Stream!MapThenSumSet, Stream!MapThenFoldSet
  <2>2. lines \in SUBSET (1 .. last) /\ SUBSET lines \subseteq SUBSET (1 .. last)
    BY <1>1
  <2>3. ASSUME NEW s \in SUBSET lines, s # {}
        PROVE  LET x == CHOOSE y \in s : TRUE
               IN  x \in s /\ s \ {x} \in SUBSET lines
                   /\ sum[s] = file[x].size + sum[s \ {x}]
    <3> DEFINE x == CHOOSE y \in s : TRUE
    <3>1. x \in s
      BY <2>3
    <3> HIDE DEF x
    <3>2. /\ x \in 1 .. last /\ s \in SUBSET (1 .. last) /\ s \ {x} \in SUBSET (1 .. last)
          /\ s \ {x} \in SUBSET lines
      BY <2>2, <3>1
    <3> HIDE DEF last, lines
    <3>3. sum[s] = sum[s \ {x}] + Sizes(file)[x] /\ sum[s \ {x}] \in Nat /\ Sizes(file)[x] = file[x].size
      BY <1>2, <1>3, <3>1, <3>2 DEF IsSum
    <3>4. Sizes(file)[x] \in Nat
      BY <1>2, <3>2
    <3>5. sum[s] = file[x].size + sum[s \ {x}]
      BY <3>3, <3>4
    <3>6. QED
      BY <3>1, <3>2, <3>5 DEF x
  <2>4. sum[{}] = 0
    BY <1>3 DEF IsSum
  <2> DEFINE partial == [s \in SUBSET lines |-> sum[s]]
  <2>5. partial = Body(partial)
    <3>1. ASSUME NEW s \in SUBSET lines
          PROVE  partial[s] = IF s = {} THEN 0
                              ELSE LET x == CHOOSE y \in s : TRUE
                                   IN  file[x].size + partial[s \ {x}]
      <4> HIDE DEF lines
      <4>1. CASE s = {}
        BY <2>4, <4>1
      <4>2. CASE s # {}
        BY <2>3, <4>2
      <4>3. QED
        BY <4>1, <4>2
    <3> HIDE DEF lines
    <3>2. QED
      BY <3>1
  <2>6. iter = Body(iter)
    <3> HIDE DEF Body, partial
    <3>1. QED
      BY <2>5
  <2> HIDE DEF iter
  <2>7. ASSUME NEW s \in SUBSET lines
        PROVE  iter[s] = IF s = {} THEN 0
                         ELSE LET x == CHOOSE y \in s : TRUE IN file[x].size + iter[s \ {x}]
    <3> HIDE DEF lines
    <3>1. iter[s] = Body(iter)[s]
      BY <2>6
    <3>2. QED
      BY <3>1
  <2>8. ASSUME NEW s \in SUBSET lines
        PROVE  iter[s] = sum[s]
    <3> DEFINE Agrees(n) == \A r \in SUBSET lines : Cardinality(r) = n => iter[r] = sum[r]
               agreeing == {n \in 0 .. Cardinality(lines) : Agrees(n)}
    <3>1. \A r \in SUBSET lines : /\ IsFiniteSet(r) /\ Cardinality(r) \in Nat
                                 /\ Cardinality(r) <= Cardinality(lines)
      <4>1. IsFiniteSet(lines)
        BY <2>2, <1>1, FS_Interval, FS_Subset
      <4> HIDE DEF lines
      <4>2. QED
        BY <4>1, FS_Subset, FS_CardinalityType
    <3>2. Agrees(0)
      <4> HIDE DEF lines
      <4>1. QED
        BY <2>4, <2>7, <3>1, FS_EmptySet
    <3>3. ASSUME NEW n \in Nat, Agrees(n)
          PROVE  Agrees(n + 1)
      <4> HIDE DEF lines
      <4>1. SUFFICES ASSUME NEW r \in SUBSET lines, Cardinality(r) = n + 1
                     PROVE  iter[r] = sum[r]
        OBVIOUS
      <4> DEFINE x == CHOOSE y \in r : TRUE
      <4>2. r # {}
        <5>1. Cardinality({}) = 0 /\ n + 1 # 0
          BY FS_EmptySet
        <5>2. QED
          BY <4>1, <5>1
      <4>3. x \in r /\ r \ {x} \in SUBSET lines /\ sum[r] = file[x].size + sum[r \ {x}]
        BY <2>3, <4>2
      <4>4. iter[r] = file[x].size + iter[r \ {x}]
        BY <2>7, <4>2
      <4> HIDE DEF x
      <4>5. Cardinality(r \ {x}) = n
        BY <3>1, <4>1, <4>3, FS_RemoveElement
      <4>6. iter[r \ {x}] = sum[r \ {x}]
        BY <3>3, <4>3, <4>5
      <4>7. QED
        BY <4>3, <4>4, <4>6
    <3>4. 0 \in agreeing /\ Cardinality(lines) \in Nat
      BY <3>1, <3>2
    <3> HIDE DEF Agrees
    <3>5. \A n \in 0 .. Cardinality(lines) :
              n \in agreeing /\ n < Cardinality(lines) => n + 1 \in agreeing
      BY <3>3, <3>4
    <3>6. \A n \in 0 .. Cardinality(lines) : n \in agreeing
      <4> HIDE DEF agreeing, lines
      <4>1. QED
        BY <3>4, <3>5, InductionUpTo
    <3>7. Agrees(Cardinality(s))
      <4>1. Cardinality(s) \in 0 .. Cardinality(lines)
        BY <3>1
      <4>2. QED
        BY <3>6, <4>1
    <3>8. QED
      BY <3>7 DEF Agrees
  <2>9. QED
    BY <2>1, <2>8
<1>5. QED
  BY <1>4

LEMMA BytesHaveASum ==
  ASSUME NEW file \in Seq(Line)
  PROVE  \E sum : /\ IsSum(sum, Len(file), Sizes(file))
                  /\ \A i \in 1 .. Len(file) + 1, j \in 1 .. Len(file) + 1 :
                         Stream!Bytes(file, i, j) = sum[i .. j - 1]
<1> DEFINE last == Len(file)
<1>1. last \in Nat /\ DOMAIN file = 1 .. last
  OBVIOUS
<1>2. Sizes(file) \in [1 .. last -> Nat]
  BY <1>1, LineFacts DEF Sizes
<1>3. \E sum : IsSum(sum, last, Sizes(file))
  <2> HIDE DEF last
  <2>1. QED
    BY <1>1, <1>2, SumExists
<1>4. QED
  BY <1>3, BytesAreASum

LEMMA BytesFacts ==
  ASSUME NEW file \in Seq(Line), NEW i \in 1 .. Len(file) + 1
  PROVE  /\ Stream!Bytes(file, i, i) = 0
         /\ \A j \in 1 .. Len(file) : i <= j =>
                Stream!Bytes(file, i, j + 1) = Stream!Bytes(file, i, j) + file[j].size
         /\ \A j \in 1 .. Len(file) + 1 : Stream!Bytes(file, i, j) \in Nat
<1> DEFINE last == Len(file)
<1>1. last \in Nat /\ DOMAIN file = 1 .. last
  OBVIOUS
<1>2. PICK sum : /\ IsSum(sum, last, Sizes(file))
                 /\ \A m \in 1 .. last + 1, n \in 1 .. last + 1 :
                        Stream!Bytes(file, m, n) = sum[m .. n - 1]
  BY BytesHaveASum
<1> HIDE DEF last
<1>3. Stream!Bytes(file, i, i) = 0
  <2>1. i .. i - 1 = {} /\ i \in 1 .. last + 1
    BY <1>1 DEF last
  <2>2. QED
    BY <1>2, <2>1 DEF IsSum
<1>4. ASSUME NEW j \in 1 .. last, i <= j
      PROVE  Stream!Bytes(file, i, j + 1) = Stream!Bytes(file, i, j) + file[j].size
  <2>1. i \in 1 .. last + 1 /\ j \in 1 .. last + 1 /\ j + 1 \in 1 .. last + 1
    BY <1>1 DEF last
  <2> DEFINE all == i .. (j + 1) - 1
             but == i .. j - 1
  <2>2. all \in SUBSET (1 .. last) /\ j \in all /\ all \ {j} = but
    BY <1>1, <1>4, <2>1
  <2>3. Stream!Bytes(file, i, j + 1) = sum[all] /\ Stream!Bytes(file, i, j) = sum[but]
    BY <1>2, <2>1
  <2> HIDE DEF all, but
  <2>4. sum[all] = sum[but] + Sizes(file)[j]
    BY <1>2, <2>2 DEF IsSum
  <2>5. Sizes(file)[j] = file[j].size
    BY <1>1 DEF Sizes
  <2>6. QED
    BY <2>3, <2>4, <2>5
<1>5. ASSUME NEW j \in 1 .. last + 1
      PROVE  Stream!Bytes(file, i, j) \in Nat
  <2> DEFINE lines == i .. j - 1
  <2>1. lines \in SUBSET (1 .. last) /\ i \in 1 .. last + 1
    BY <1>1 DEF last
  <2>2. Stream!Bytes(file, i, j) = sum[lines]
    BY <1>2, <2>1
  <2> HIDE DEF lines
  <2>3. sum \in [SUBSET (1 .. last) -> Nat]
    BY <1>2 DEF IsSum
  <2>4. QED
    BY <2>1, <2>2, <2>3
<1>6. QED
  BY <1>3, <1>4, <1>5 DEF last

LEMMA StreamStarts ==
  ASSUME NEW file
  PROVE  Stream!Starts(file) = Starts(file)
  BY DEF Stream!Starts, Starts, Stream!IsFromLine, IsFromLine,
         Stream!StartsWithFrom, StartsWithFrom

(* The starts up to one, itself included: how many messages came before.   *)
UpTo(file, i) == {j \in Starts(file) : j <= i}

LEMMA UpToFacts ==
  ASSUME NEW file \in Seq(Line)
  PROVE  /\ IsFiniteSet(Starts(file)) /\ Cardinality(Starts(file)) \in Nat
         /\ \A i \in Nat : /\ IsFiniteSet(UpTo(file, i)) /\ Cardinality(UpTo(file, i)) \in Nat
                           /\ Cardinality(UpTo(file, i)) <= Cardinality(Starts(file))
<1>1. Starts(file) \in SUBSET (1 .. Len(file)) /\ IsFiniteSet(1 .. Len(file))
  <2>1. Starts(file) \subseteq 1 .. Len(file)
    BY StartsFacts
  <2>2. IsFiniteSet(1 .. Len(file))
    BY FS_Interval
  <2>3. QED
    BY <2>1, <2>2
<1>2. IsFiniteSet(Starts(file)) /\ Cardinality(Starts(file)) \in Nat
  BY <1>1, FS_Subset, FS_CardinalityType
<1>3. \A i \in Nat : UpTo(file, i) \in SUBSET Starts(file)
  BY DEF UpTo
<1>4. QED
  BY <1>2, <1>3, FS_Subset, FS_CardinalityType

LEMMA NthIsUnique ==
  ASSUME NEW file \in Seq(Line), NEW i \in Starts(file)
  PROVE  Stream!NthStart(file, Cardinality(UpTo(file, i))) = i
<1>1. Starts(file) \subseteq Nat
  BY StartsFacts
<1>2. ASSUME NEW k \in Starts(file), NEW j \in Starts(file), k < j
      PROVE  Cardinality(UpTo(file, k)) # Cardinality(UpTo(file, j))
  <2>1. UpTo(file, k) \in SUBSET UpTo(file, j) /\ UpTo(file, k) # UpTo(file, j)
    <3>1. j \in UpTo(file, j) /\ j \notin UpTo(file, k)
      BY <1>1, <1>2 DEF UpTo
    <3>2. UpTo(file, k) \in SUBSET UpTo(file, j)
      BY <1>1, <1>2 DEF UpTo
    <3>3. QED
      BY <3>1, <3>2
  <2>2. IsFiniteSet(UpTo(file, j))
    BY <1>1, UpToFacts
  <2>3. QED
    BY <2>1, <2>2, FS_Subset
<1>3. \A k \in Starts(file) : Cardinality(UpTo(file, k)) = Cardinality(UpTo(file, i)) => k = i
  <2>1. \A k \in Starts(file) : k < i \/ i < k \/ k = i
    BY <1>1
  <2>2. QED
    BY <1>2, <2>1
<1>4. Stream!NthStart(file, Cardinality(UpTo(file, i)))
        = CHOOSE k \in Starts(file) : Cardinality(UpTo(file, k)) = Cardinality(UpTo(file, i))
  BY StreamStarts DEF Stream!NthStart, Stream!Cardinality, Cardinality, UpTo
<1>5. QED
  BY <1>3, <1>4

LEMMA NextStartIs ==
  ASSUME NEW file \in Seq(Line), NEW i \in Nat, NEW j \in 1 .. Len(file) + 1, i < j,
         NoneBetween(file, i, j), j \in Starts(file) \/ j = Len(file) + 1
  PROVE  Stream!NextStart(file, i) = j
<1> DEFINE after == {k \in Starts(file) : k > i} \cup {Len(file) + 1}
<1>1. /\ Stream!NextStart(file, i) = CHOOSE x \in after : \A y \in after : x <= y
  BY StreamStarts DEF Stream!NextStart, Stream!Min
<1>2. Starts(file) \subseteq 1 .. Len(file) /\ Len(file) \in Nat
  BY StartsFacts
<1>3. j \in after
  OBVIOUS
<1>4. ASSUME NEW y \in after
      PROVE  j <= y /\ y \in Nat
  <2>1. CASE y = Len(file) + 1
    BY <1>2, <2>1
  <2>2. CASE y \in Starts(file) /\ y > i
    <3>1. y \in Nat /\ ~(y < j)
      BY <1>2, <2>2 DEF NoneBetween
    <3>2. QED
      BY <3>1
  <2>3. QED
    BY <2>1, <2>2
<1> HIDE DEF after
<1>5. \A x \in after : (\A y \in after : x <= y) => x = j
  BY <1>3, <1>4
<1>6. QED
  BY <1>1, <1>3, <1>4, <1>5

-----------------------------------------------------------------------------
(* What the refinement needs of a reachable state, besides OwnInv: the     *)
(* offset is the size of the lines read, the message being read began at   *)
(* the offset of its first line, and it is the next one to be delivered.   *)
ReadingIsNext ==
    /\ prev_message_start[1] = Stream!Bytes(mbox, 1, CurrentStart)
    /\ current_offset = prev_message_start[1] + Stream!Bytes(mbox, CurrentStart, pos + 1)
    /\ Cardinality(UpTo(mbox, CurrentStart)) = Len(emitted) + 1

StreamInv ==
    /\ OwnInv
    /\ current_offset = Stream!Bytes(mbox, 1, pos + 1)
    /\ (pc # "done" /\ HaveMessage) => ReadingIsNext

LEMMA CurrentFacts ==
  ASSUME OwnInv, HaveMessage, pc # "done"
  PROVE  /\ CurrentStart \in 1 .. Len(mbox) /\ CurrentStart \in Starts(mbox)
         /\ CurrentStart < pos + 1 /\ NoStartBetween(CurrentStart, pos + 1)
         /\ prev_message_start[1] \in Nat
<1>1. TypeOK /\ ReadingMessage /\ SavedHeaders \in Block
  BY DEF OwnInv, TypeInv, TypeOK, SavedHeaders
<1>2. /\ CurrentStart \in 1 .. Len(mbox) /\ Len(SavedHeaders.lines) \in Nat \ {0}
      /\ CurrentStart \in Starts(mbox)
  BY <1>1, BlockFacts DEF ReadingMessage, CurrentStart, IsHeaderBlock
<1>3. pos \in Nat /\ CurrentStart + Len(SavedHeaders.lines) <= pos + 1
  BY <1>1 DEF TypeOK, ReadingMessage
<1>4. CurrentStart < pos + 1
  BY <1>2, <1>3
<1>5. prev_message_start[1] \in Nat
  BY <1>1 DEF TypeOK, HaveMessage
<1>6. QED
  BY <1>1, <1>2, <1>4, <1>5 DEF ReadingMessage

NextIsReported ==
    \E i \in Starts(mbox) :
        /\ Cardinality(UpTo(mbox, i)) = Len(emitted) + 1
        /\ SpansOf(emitted)' = Append(SpansOf(emitted), Stream!Span(mbox, i))

(* A report is the delivery of the next message.                           *)
LEMMA ReportDelivers ==
  ASSUME StreamInv, HaveMessage, pc # "done", emitted' = Append(emitted, PreviousMessage),
         mbox' = mbox,
         pos + 1 \in Starts(mbox) \/ pos = Len(mbox)
  PROVE  Stream!Deliver /\ NextIsReported
<1> DEFINE start == CurrentStart
           next  == Len(emitted) + 1
<1>1. OwnInv /\ ReadingIsNext /\ TypeOK /\ TypeInv
  BY DEF StreamInv, OwnInv, TypeInv
<1>2. /\ start \in 1 .. Len(mbox) /\ start \in Starts(mbox) /\ start < pos + 1
      /\ NoStartBetween(start, pos + 1) /\ prev_message_start[1] \in Nat
  BY <1>1, CurrentFacts
<1>3. mbox \in Seq(Line) /\ Len(mbox) \in Nat /\ pos \in 0 .. Len(mbox)
      /\ emitted \in Seq(Report)
  BY <1>1 DEF TypeOK
<1>4. Cardinality(UpTo(mbox, start)) = next
  BY <1>1 DEF ReadingIsNext
<1>5. Stream!NthStart(mbox, next) = start
  <2> HIDE DEF start, next
  <2>1. QED
    BY <1>2, <1>3, <1>4, NthIsUnique
<1>6. Stream!NextStart(mbox, start) = pos + 1
  <2>1. start \in Nat /\ pos + 1 \in 1 .. Len(mbox) + 1
    BY <1>2, <1>3
  <2>2. pos + 1 \in Starts(mbox) \/ pos + 1 = Len(mbox) + 1
    OBVIOUS
  <2>3. NoneBetween(mbox, start, pos + 1)
    BY <1>2 DEF NoStartBetween, NoneBetween
  <2> HIDE DEF start
  <2>4. QED
    BY <1>2, <1>3, <2>1, <2>2, <2>3, NextStartIs
<1>7. Stream!Bytes(mbox, start, pos + 1) \in Nat
  <2>1. start \in 1 .. Len(mbox) + 1 /\ pos + 1 \in 1 .. Len(mbox) + 1
    BY <1>2, <1>3
  <2>2. QED
    BY <1>3, <2>1, BytesFacts
<1>8. /\ PreviousMessage \in Report
      /\ PreviousMessage.offset = Stream!Bytes(mbox, 1, start)
      /\ PreviousMessage.length = Stream!Bytes(mbox, start, pos + 1)
  <2>1. PreviousMessage \in Report /\ PreviousMessage.offset = prev_message_start[1]
    BY <1>1, PreviousMessageType DEF TypeInv
  <2>2. PreviousMessage.length = current_offset - prev_message_start[1]
    BY DEF PreviousMessage
  <2>3. QED
    BY <1>1, <1>2, <1>7, <2>1, <2>2 DEF ReadingIsNext
<1>9. Stream!Span(mbox, start)
        = [offset |-> PreviousMessage.offset, length |-> PreviousMessage.length]
  BY <1>6, <1>8 DEF Stream!Span
<1> DEFINE e == PreviousMessage
           new == Stream!Span(mbox, start)
<1> HIDE DEF start, next
<1>10. SpansOf(emitted') = Append(SpansOf(emitted), new)
  <2> HIDE DEF e, new
  <2>1. /\ e \in Report /\ new = [offset |-> e.offset, length |-> e.length]
        /\ emitted' = Append(emitted, e)
    BY <1>8, <1>9 DEF e, new
  <2>2. QED
    BY <1>3, <2>1 DEF SpansOf
<1>11. Len(SpansOf(emitted)) = Len(emitted)
  BY <1>3 DEF SpansOf
<1>12. Len(emitted) < Stream!Cardinality(Stream!Starts(mbox))
  <2>1. start \in Nat /\ Len(emitted) \in Nat
    BY <1>2, <1>3
  <2>2. next <= Cardinality(Starts(mbox)) /\ Cardinality(Starts(mbox)) \in Nat
    BY <1>3, <1>4, <2>1, UpToFacts
  <2>3. Len(emitted) < Cardinality(Starts(mbox))
    BY <2>1, <2>2 DEF next
  <2>4. Stream!Cardinality(Stream!Starts(mbox)) = Cardinality(Starts(mbox))
    BY StreamStarts DEF Stream!Cardinality, Cardinality
  <2>5. QED
    BY <2>3, <2>4
<1>13. Stream!Deliver
  BY <1>5, <1>10, <1>11, <1>12 DEF Stream!Deliver, next
<1>14. NextIsReported
  BY <1>2, <1>4, <1>10 DEF NextIsReported, next, new
<1>15. QED
  BY <1>13, <1>14

LEMMA SameStart ==
  ASSUME OwnInv, HaveMessage, EndHeaders \/ HeaderLine \/ SkipLine
  PROVE  CurrentStart' = CurrentStart
<1>1. TypeOK /\ TypeInv /\ pc = "scanning" /\ ReadingMessage
  BY DEF OwnInv, TypeInv, EndHeaders, HeaderLine, SkipLine, Advance
<1>2. CASE EndHeaders
  <2>1. SavedHeaders = header_buf
    BY <1>1, <1>2 DEF EndHeaders, ReadingMessage, SavedHeaders
  <2>2. prev_headers' # <<>> /\ prev_headers'[1] = header_buf
    BY <1>2 DEF EndHeaders
  <2>3. QED
    BY <2>1, <2>2 DEF CurrentStart, SavedHeaders
<1>3. CASE HeaderLine
  <2>1. SavedHeaders = header_buf /\ SavedHeaders' = header_buf'
    BY <1>1, <1>3 DEF HeaderLine, ReadingMessage, SavedHeaders
  <2>2. header_buf \in Block /\ header_buf.lines \in Seq(Nat) /\ header_buf.lines # <<>>
    BY <1>1, <2>1 DEF TypeOK, ReadingMessage, IsHeaderBlock, Block
  <2>3. pos + 1 \in Nat
    BY <1>1 DEF TypeOK
  <2>4. Append(header_buf.lines, pos + 1)[1] = header_buf.lines[1]
    BY <2>2, <2>3, AppendFacts
  <2>5. header_buf'.lines[1] = header_buf.lines[1]
    BY <1>3, <2>4 DEF HeaderLine, KeepHeader, Extend
  <2>6. QED
    BY <2>1, <2>5 DEF CurrentStart
<1>4. CASE SkipLine
  BY <1>4 DEF SkipLine, CurrentStart, SavedHeaders
<1>5. QED
  BY <1>2, <1>3, <1>4

(* The bytes a line adds.                                                  *)
LEMMA AdvanceBytes ==
  ASSUME StreamInv, Advance
  PROVE  /\ current_offset' = Stream!Bytes(mbox, 1, pos + 2)
         /\ \A i \in 1 .. pos + 1 :
                /\ Stream!Bytes(mbox, i, pos + 1) \in Nat
                /\ Stream!Bytes(mbox, i, pos + 2)
                     = Stream!Bytes(mbox, i, pos + 1) + mbox[pos + 1].size
<1>1. /\ mbox \in Seq(Line) /\ pos \in Nat /\ pos + 1 \in 1 .. Len(mbox) /\ Len(mbox) \in Nat
      /\ pos + 2 = (pos + 1) + 1
  BY AdvanceFacts DEF StreamInv, OwnInv, TypeInv, TypeOK
<1>2. ASSUME NEW i \in 1 .. pos + 1
      PROVE  /\ Stream!Bytes(mbox, i, pos + 1) \in Nat
             /\ Stream!Bytes(mbox, i, pos + 2)
                  = Stream!Bytes(mbox, i, pos + 1) + mbox[pos + 1].size
  <2>1. i \in 1 .. Len(mbox) + 1 /\ i <= pos + 1 /\ pos + 1 \in 1 .. Len(mbox) + 1
    BY <1>1
  <2>2. QED
    BY <1>1, <2>1, BytesFacts
<1>3. 1 \in 1 .. pos + 1
  BY <1>1
<1>4. current_offset' = Stream!Bytes(mbox, 1, pos + 2)
  BY <1>2, <1>3 DEF Advance, StreamInv
<1>5. QED
  BY <1>2, <1>4

LEMMA StreamSame ==
  ASSUME StreamInv, OwnInv', EndHeaders \/ HeaderLine \/ SkipLine
  PROVE  StreamInv'
<1>1. /\ Advance /\ UNCHANGED <<prev_message_start, emitted>>
      /\ OwnInv /\ pc = "scanning"
  BY DEF StreamInv, EndHeaders, HeaderLine, SkipLine, Advance
<1>2. mbox' = mbox /\ pos' = pos + 1 /\ pos' + 1 = pos + 2 /\ HaveMessage' = HaveMessage
  BY <1>1 DEF Advance, HaveMessage, OwnInv, TypeInv, TypeOK
<1>3. current_offset' = Stream!Bytes(mbox', 1, pos' + 1)
  BY <1>1, <1>2, AdvanceBytes
<1>4. ASSUME HaveMessage
      PROVE  ReadingIsNext'
  <2>1. CurrentStart' = CurrentStart /\ ReadingIsNext
    BY <1>1, <1>4, SameStart DEF StreamInv
  <2>2. /\ CurrentStart \in 1 .. pos + 1 /\ prev_message_start[1] \in Nat
        /\ mbox[pos + 1].size \in Nat
    <3>1. /\ CurrentStart \in 1 .. Len(mbox) /\ CurrentStart < pos + 1
          /\ prev_message_start[1] \in Nat
      BY <1>1, <1>4, CurrentFacts
    <3>2. pos + 1 \in 1 .. Len(mbox) /\ mbox \in Seq(Line)
      BY <1>1, AdvanceFacts DEF OwnInv, TypeInv, TypeOK
    <3>3. QED
      BY <3>1, <3>2, LineFacts
  <2>3. current_offset' = prev_message_start[1] + Stream!Bytes(mbox, CurrentStart, pos + 2)
    <3>1. current_offset' = current_offset + mbox[pos + 1].size
      BY <1>1 DEF Advance
    <3>2. /\ Stream!Bytes(mbox, CurrentStart, pos + 1) \in Nat
          /\ Stream!Bytes(mbox, CurrentStart, pos + 2)
               = Stream!Bytes(mbox, CurrentStart, pos + 1) + mbox[pos + 1].size
      BY <1>1, <2>2, AdvanceBytes
    <3>3. QED
      BY <2>1, <2>2, <3>1, <3>2 DEF ReadingIsNext
  <2>4. QED
    BY <1>1, <1>2, <2>1, <2>3 DEF ReadingIsNext, UpTo
<1>5. QED
  BY <1>1, <1>2, <1>3, <1>4 DEF StreamInv

LEMMA StreamStart ==
  ASSUME StreamInv, OwnInv', StartMessage
  PROVE  StreamInv'
<1>1. /\ Advance /\ OwnInv /\ TypeInv /\ pc = "scanning" /\ HaveMessage'
      /\ prev_message_start'[1] = current_offset /\ CurrentStart' = pos + 1
  <2>1. Advance /\ OwnInv /\ TypeInv /\ pc = "scanning" /\ prev_headers' = <<>>
        /\ prev_message_start' = <<current_offset>>
        /\ header_buf'.lines = Append(<<>>, pos + 1)
    BY DEF StreamInv, OwnInv, StartMessage, Advance, Extend, EmptyBlock
  <2>2. pos + 1 \in Nat
    BY <2>1 DEF TypeInv, TypeOK
  <2>3. header_buf'.lines[1] = pos + 1
    BY <2>1, <2>2
  <2>4. QED
    BY <2>1, <2>3 DEF HaveMessage, CurrentStart, SavedHeaders
<1>2. /\ mbox' = mbox /\ pos' = pos + 1 /\ pos \in Nat /\ pos' + 1 = pos + 2
      /\ pos + 1 \in 1 .. Len(mbox) /\ pos + 1 \in Starts(mbox) /\ mbox \in Seq(Line)
  BY <1>1, AdvanceFacts DEF StartMessage, TypeInv, TypeOK
<1>3. current_offset' = Stream!Bytes(mbox', 1, pos' + 1)
  BY <1>1, <1>2, AdvanceBytes
<1>4. prev_message_start'[1] = Stream!Bytes(mbox', 1, CurrentStart')
  BY <1>1, <1>2 DEF StreamInv
<1>5. current_offset' = prev_message_start'[1] + Stream!Bytes(mbox', CurrentStart', pos' + 1)
  <2>1. pos + 1 \in 1 .. pos + 1 /\ pos + 1 \in 1 .. Len(mbox) + 1
    BY <1>2
  <2>2. Stream!Bytes(mbox, pos + 1, pos + 2) = 0 + mbox[pos + 1].size
    BY <1>1, <1>2, <2>1, AdvanceBytes, BytesFacts
  <2>3. current_offset' = current_offset + mbox[pos + 1].size /\ mbox[pos + 1].size \in Nat
    BY <1>1, <1>2, LineFacts DEF Advance
  <2>4. QED
    BY <1>1, <1>2, <2>2, <2>3
<1>6. Cardinality(UpTo(mbox, pos + 1)) = Len(emitted') + 1
  <2>1. Starts(mbox) \subseteq Nat
    BY <1>2, StartsFacts
  <2>2. CASE HaveMessage
    <3>1. /\ CurrentStart \in Nat /\ CurrentStart < pos + 1
          /\ NoStartBetween(CurrentStart, pos + 1)
          /\ Cardinality(UpTo(mbox, CurrentStart)) = Len(emitted) + 1
      BY <1>1, <2>2, CurrentFacts DEF StreamInv, ReadingIsNext
    <3>2. /\ UpTo(mbox, pos + 1) = UpTo(mbox, CurrentStart) \cup {pos + 1}
          /\ pos + 1 \notin UpTo(mbox, CurrentStart)
      BY <1>2, <2>1, <3>1 DEF UpTo, NoStartBetween
    <3>3. IsFiniteSet(UpTo(mbox, CurrentStart)) /\ Cardinality(UpTo(mbox, CurrentStart)) \in Nat
      BY <1>2, <3>1, UpToFacts
    <3>4. Cardinality(UpTo(mbox, pos + 1)) = Cardinality(UpTo(mbox, CurrentStart)) + 1
      BY <3>2, <3>3, FS_AddElement
    <3>5. Len(emitted') = Len(emitted) + 1
      <4>1. emitted' = Append(emitted, PreviousMessage) /\ emitted \in Seq(Report)
            /\ PreviousMessage \in Report
        BY <1>1, <2>2, PreviousMessageType DEF StartMessage, TypeInv, TypeOK
      <4>2. QED
        BY <4>1, AppendFacts
    <3>6. QED
      BY <3>1, <3>4, <3>5
  <2>3. CASE ~HaveMessage
    <3>1. emitted = <<>> /\ emitted' = <<>> /\ NoStartBetween(0, pos + 1)
      BY <1>1, <2>3 DEF StartMessage, OwnInv, NoMessageYet
    <3>2. \A n \in Starts(mbox) : 0 < n
      BY <1>2, StartsFacts
    <3>3. UpTo(mbox, pos + 1) = {pos + 1}
      BY <1>2, <2>1, <3>1, <3>2 DEF UpTo, NoStartBetween
    <3>4. Cardinality(UpTo(mbox, pos + 1)) = 1
      BY <3>3, FS_Singleton
    <3>5. QED
      BY <3>1, <3>4
  <2>4. QED
    BY <2>2, <2>3
<1>7. ReadingIsNext'
  BY <1>1, <1>2, <1>4, <1>5, <1>6 DEF ReadingIsNext, UpTo
<1>8. QED
  BY <1>3, <1>7 DEF StreamInv

LEMMA StreamInvInit == Init => StreamInv
<1> SUFFICES ASSUME Init PROVE StreamInv
  OBVIOUS
<1>1. OwnInv /\ ~HaveMessage /\ pos = 0 /\ current_offset = 0 /\ mbox \in Seq(Line)
  BY OwnInvInit, FileIsSeq DEF Init, HaveMessage
<1>2. 1 \in 1 .. Len(mbox) + 1
  BY <1>1
<1>3. Stream!Bytes(mbox, 1, pos + 1) = 0
  BY <1>1, <1>2, BytesFacts
<1>4. QED
  BY <1>1, <1>3 DEF StreamInv

LEMMA StreamStep ==
  StreamInv /\ [Next]_vars
      => /\ StreamInv' /\ [Stream!Deliver]_<<mbox, SpansOf(emitted)>>
         /\ NextIsReported \/ UNCHANGED <<mbox, SpansOf(emitted)>>
<1> SUFFICES ASSUME StreamInv, [Next]_vars
             PROVE  /\ StreamInv' /\ [Stream!Deliver]_<<mbox, SpansOf(emitted)>>
                    /\ NextIsReported \/ UNCHANGED <<mbox, SpansOf(emitted)>>
  OBVIOUS
<1>0. OwnInv' /\ TypeInv
  BY OwnInvStep DEF StreamInv, OwnInv
<1>1. CASE StartMessage
  <2>1. Advance /\ mbox' = mbox /\ pc = "scanning" /\ pos + 1 \in Starts(mbox)
    BY <1>0, <1>1, AdvanceFacts DEF StartMessage, Advance
  <2>2. CASE HaveMessage
    <3>1. emitted' = Append(emitted, PreviousMessage)
      BY <1>1, <2>2 DEF StartMessage
    <3>2. Stream!Deliver /\ NextIsReported
      BY <2>1, <2>2, <3>1, ReportDelivers
    <3>3. QED
      BY <1>0, <1>1, <3>2, StreamStart
  <2>3. CASE ~HaveMessage
    <3>1. UNCHANGED <<mbox, SpansOf(emitted)>>
      BY <1>1, <2>1, <2>3 DEF StartMessage
    <3>2. QED
      BY <1>0, <1>1, <3>1, StreamStart
  <2>4. QED
    BY <2>2, <2>3
<1>2. CASE EndHeaders \/ HeaderLine \/ SkipLine
  <2>1. UNCHANGED <<mbox, SpansOf(emitted)>>
    BY <1>2 DEF EndHeaders, HeaderLine, SkipLine, Advance
  <2>2. QED
    BY <1>0, <1>2, <2>1, StreamSame
<1>3. CASE Finish
  <2>1. /\ pc = "scanning" /\ pc' = "done" /\ mbox' = mbox /\ pos = Len(mbox)
        /\ pos' = pos /\ current_offset' = current_offset
    BY <1>3 DEF Finish
  <2>2. StreamInv'
    BY <1>0, <2>1 DEF StreamInv
  <2>3. CASE emitted' = emitted
    BY <2>1, <2>2, <2>3
  <2>4. CASE HaveMessage /\ emitted' = Append(emitted, PreviousMessage)
    <3>1. Stream!Deliver /\ NextIsReported
      BY <2>1, <2>4, ReportDelivers
    <3>2. QED
      BY <2>2, <3>1
  <2>5. QED
    BY <1>3, <2>3, <2>4 DEF Finish
<1>4. CASE RefuseMessage \/ UNCHANGED vars
  <2>1. /\ mbox' = mbox /\ pos' = pos /\ current_offset' = current_offset
        /\ header_buf' = header_buf /\ prev_message_start' = prev_message_start
        /\ prev_headers' = prev_headers /\ emitted' = emitted
        /\ pc' # "done" => pc # "done"
    BY <1>4 DEF RefuseMessage, vars
  <2>2. HaveMessage' = HaveMessage /\ CurrentStart' = CurrentStart
    BY <2>1 DEF HaveMessage, CurrentStart, SavedHeaders
  <2>3. ReadingIsNext => ReadingIsNext'
    BY <2>1, <2>2 DEF ReadingIsNext, UpTo
  <2>4. StreamInv'
    BY <1>0, <2>1, <2>2, <2>3 DEF StreamInv
  <2>5. QED
    BY <2>1, <2>4
<1>5. QED
  BY <1>1, <1>2, <1>3, <1>4 DEF Next

(* For every mailbox and every retention limit, parse_headers_only         *)
(* implements MessageStream: its reports are the messages of the file,     *)
(* each once, in order, with the bytes from its From line to the next one, *)
(* wherever the callback stops it.                                         *)
THEOREM ImplementsTheStream == Spec => DeliversTheMessages
<1>1. Init => StreamInv
  BY StreamInvInit
<1>2. Init => Stream!Init
  <2>1. SpansOf(<<>>) = <<>>
    BY DEF SpansOf
  <2>2. QED
    BY <2>1 DEF Init, Stream!Init
<1>3. StreamInv /\ [Next]_vars
        => StreamInv' /\ [Stream!Deliver]_<<mbox, SpansOf(emitted)>>
  BY StreamStep
<1>4. QED
  BY <1>1, <1>2, <1>3, PTL DEF Spec, DeliversTheMessages, Stream!Spec
-----------------------------------------------------------------------------
(* The full scan.  Its buffer holds lines in their order, and all the      *)
(* bytes of a range of lines that is not larger than the limit.            *)
Kept(raw, i, j) ==
    Stream!Bytes(whole, i, j) <= MaxMessageSize => raw.bytes = Stream!Bytes(whole, i, j)

InOrder(lines) == \A n \in 1 .. Len(lines) - 1 : lines[n] < lines[n + 1]

IsBuffer(raw, first, last) ==
    /\ raw \in F!Buffer
    /\ InOrder(raw.lines) /\ \A n \in DOMAIN raw.lines : raw.lines[n] \in first .. last
    /\ raw.lines = <<>> => raw.bytes = 0

(* The lines read, before the first From line and after it: how many       *)
(* messages are in delivered, and which one is in the buffer.              *)
BeforeMessages ==
    /\ NoneBetween(whole, 0, fpos + 1)
    /\ delivered = <<>> /\ fstart = 0
    /\ fbuf.lines # <<>> <=> \E i \in 1 .. fpos : whole[i].size <= MaxMessageSize
    /\ IsBuffer(fbuf, 1, fpos) /\ Kept(fbuf, 1, fpos + 1)

ReadsMessage(start) ==
    /\ start <= fpos /\ NoneBetween(whole, start, fpos + 1)
    /\ fstart = Stream!Bytes(whole, 1, start)
    /\ fbuf.lines # <<>>
    /\ IsBuffer(fbuf, start, fpos) /\ Kept(fbuf, start, fpos + 1)
    /\ Len(delivered) + 1 = Cardinality(UpTo(whole, start)) + IF HasPreamble THEN 1 ELSE 0

(* The bytes a message of the full scan stands for, and one that holds     *)
(* them.                                                                   *)
FirstOf(k) == IF k <= Extra THEN 1 ELSE Stream!NthStart(whole, k - Extra)

SpanOf(k) == Stream!Span(whole, FirstOf(k))

IsMessage(m, k) ==
    /\ m.offset = SpanOf(k).offset
    /\ SpanOf(k).length <= MaxMessageSize => m.raw.bytes = SpanOf(k).length
    /\ \A n \in DOMAIN m.raw.lines :
           m.raw.lines[n] \in FirstOf(k) .. Stream!NextStart(whole, FirstOf(k)) - 1
    /\ InOrder(m.raw.lines)

DeliveredAgree == \A k \in DOMAIN delivered : IsMessage(delivered[k], k)

FullInv ==
    /\ F!TypeOK
    /\ fgit <=> (fpos > 0 /\ whole[1].kind = "gitpatch")
    /\ foffset = Stream!Bytes(whole, 1, fpos + 1)
    /\ DeliveredAgree
    /\ fpc # "done" => BeforeMessages \/ \E start \in Starts(whole) : ReadsMessage(start)

LEMMA SameLines == F!Line = Line /\ Stream!Line = Line
  BY DEF F!Line, Line, F!Kinds, Kinds, Stream!Line, Stream!Kinds

LEMMA BytesGrow ==
  ASSUME whole \in Seq(Line), NEW p \in 1 .. Len(whole)
  PROVE  /\ whole[p].size \in Nat \ {0}
         /\ Stream!Bytes(whole, p, p + 1) = whole[p].size
         /\ \A i \in 1 .. p :
                /\ Stream!Bytes(whole, i, p) \in Nat
                /\ Stream!Bytes(whole, i, p + 1) = Stream!Bytes(whole, i, p) + whole[p].size
<1>1. whole[p].size \in Nat \ {0}
  BY LineFacts
<1>2. ASSUME NEW i \in 1 .. p
      PROVE  /\ Stream!Bytes(whole, i, p) \in Nat
             /\ Stream!Bytes(whole, i, p + 1) = Stream!Bytes(whole, i, p) + whole[p].size
  <2>1. i \in 1 .. Len(whole) + 1 /\ i <= p /\ p \in 1 .. Len(whole) + 1
    OBVIOUS
  <2>2. QED
    BY <2>1, BytesFacts
<1>3. Stream!Bytes(whole, p, p) = 0 /\ p \in 1 .. p
  <2>1. p \in 1 .. Len(whole) + 1
    OBVIOUS
  <2>2. QED
    BY <2>1, BytesFacts
<1>4. QED
  BY <1>1, <1>2, <1>3

LEMMA AppendToLines ==
  ASSUME NEW s \in Seq(Nat), NEW e \in Nat
  PROVE  LET t == Append(s, e)
         IN  /\ t \in Seq(Nat) /\ t # <<>> /\ Len(s) \in Nat
             /\ DOMAIN s = 1 .. Len(s) /\ DOMAIN t = 1 .. Len(s) + 1 /\ Len(t) = Len(s) + 1
             /\ t[Len(s) + 1] = e /\ \A n \in 1 .. Len(s) : t[n] = s[n]
  BY AppendFacts

LEMMA CopyFacts ==
  ASSUME whole \in Seq(Line), NEW p \in 1 .. Len(whole), NEW raw,
         NEW first \in 1 .. p, IsBuffer(raw, first, p - 1)
  PROVE  LET copied == F!Copy(raw, p)
         IN  /\ IsBuffer(copied, first, p) /\ copied.lines # <<>>
             /\ copied.bytes = raw.bytes + whole[p].size
<1> DEFINE copied == F!Copy(raw, p)
<1>1. /\ raw.lines \in Seq(Nat) /\ raw.bytes \in Nat /\ p \in Nat /\ whole[p].size \in Nat \ {0}
  <2>1. raw.lines \in Seq(Nat) /\ raw.bytes \in Nat
    BY DEF IsBuffer, F!Buffer
  <2>2. p \in Nat /\ whole[p].size \in Nat \ {0}
    BY BytesGrow
  <2>3. QED
    BY <2>1, <2>2
<1>2. copied = [lines |-> Append(raw.lines, p), bytes |-> raw.bytes + whole[p].size]
  BY DEF F!Copy
<1> HIDE DEF copied
<1>3. /\ copied.lines \in Seq(Nat) /\ copied.lines # <<>> /\ Len(raw.lines) \in Nat
      /\ DOMAIN raw.lines = 1 .. Len(raw.lines) /\ DOMAIN copied.lines = 1 .. Len(raw.lines) + 1
      /\ Len(copied.lines) = Len(raw.lines) + 1 /\ copied.lines[Len(raw.lines) + 1] = p
      /\ \A n \in 1 .. Len(raw.lines) : copied.lines[n] = raw.lines[n]
  <2>1. raw.lines \in Seq(Nat) /\ p \in Nat /\ copied.lines = Append(raw.lines, p)
    BY <1>1, <1>2
  <2>2. QED
    BY <2>1, AppendToLines
<1>4. copied \in F!Buffer /\ copied.bytes = raw.bytes + whole[p].size
  BY <1>1, <1>2, <1>3 DEF F!Buffer
<1>5. Len(raw.lines) \in Nat /\ DOMAIN raw.lines = 1 .. Len(raw.lines)
  BY <1>3
<1>6. \A n \in 1 .. Len(raw.lines) : raw.lines[n] \in first .. p - 1
  BY <1>5 DEF IsBuffer
<1>7. ASSUME NEW n \in DOMAIN copied.lines
      PROVE  copied.lines[n] \in first .. p
  <2>1. n \in 1 .. Len(raw.lines) \/ n = Len(raw.lines) + 1
    BY <1>3, <1>5
  <2>2. CASE n \in 1 .. Len(raw.lines)
    <3>1. copied.lines[n] = raw.lines[n] /\ raw.lines[n] \in first .. p - 1
      BY <1>3, <1>5, <1>6, <2>2
    <3>2. QED
      BY <1>1, <3>1
  <2>3. CASE n = Len(raw.lines) + 1
    <3>1. copied.lines[n] = p
      BY <1>3, <2>3
    <3>2. QED
      BY <1>1, <3>1
  <2>4. QED
    BY <2>1, <2>2, <2>3
<1>8. InOrder(copied.lines)
  <2> SUFFICES ASSUME NEW n \in 1 .. Len(copied.lines) - 1
               PROVE  copied.lines[n] < copied.lines[n + 1]
    BY DEF InOrder
  <2>1. n \in 1 .. Len(raw.lines)
    BY <1>3, <1>5
  <2>2. CASE n = Len(raw.lines)
    <3>1. copied.lines[n] \in first .. p - 1 /\ copied.lines[n + 1] = p
      BY <1>3, <1>6, <2>1, <2>2
    <3>2. QED
      BY <1>1, <3>1
  <2>3. CASE n # Len(raw.lines)
    <3>1. n \in 1 .. Len(raw.lines) - 1 /\ n + 1 \in 1 .. Len(raw.lines)
      BY <1>5, <2>1, <2>3
    <3>2. QED
      BY <1>3, <2>1, <3>1 DEF IsBuffer, InOrder
  <2>4. QED
    BY <2>2, <2>3
<1>9. QED
  BY <1>3, <1>4, <1>7, <1>8 DEF IsBuffer, copied

(* A line that is no From line.                                            *)
LEMMA CopyIfFitsFacts ==
  ASSUME whole \in Seq(Line), MaxMessageSize \in Nat,
         NEW p \in 1 .. Len(whole), NEW raw,
         NEW i \in 1 .. p, IsBuffer(raw, i, p - 1), Kept(raw, i, p)
  PROVE  LET more == F!CopyIfFits(raw, p)
         IN  /\ IsBuffer(more, i, p) /\ Kept(more, i, p + 1)
             /\ more.lines # <<>> <=> raw.lines # <<>> \/ whole[p].size <= MaxMessageSize
<1> DEFINE more == F!CopyIfFits(raw, p)
<1>1. /\ raw \in F!Buffer /\ raw.bytes \in Nat /\ whole[p].size \in Nat \ {0}
      /\ Stream!Bytes(whole, i, p) \in Nat
      /\ Stream!Bytes(whole, i, p + 1) = Stream!Bytes(whole, i, p) + whole[p].size
  BY BytesGrow DEF IsBuffer, F!Buffer
<1>2. CASE raw.bytes + whole[p].size <= MaxMessageSize
  <2>1. more = F!Copy(raw, p)
    BY <1>2 DEF F!CopyIfFits
  <2>2. /\ IsBuffer(more, i, p) /\ more.lines # <<>>
        /\ more.bytes = raw.bytes + whole[p].size
    BY <2>1, CopyFacts
  <2> HIDE DEF more
  <2>3. Kept(more, i, p + 1)
    BY <1>1, <2>2 DEF Kept
  <2>4. whole[p].size <= MaxMessageSize
    BY <1>1, <1>2
  <2>5. QED
    BY <2>2, <2>3, <2>4 DEF more
<1>3. CASE ~(raw.bytes + whole[p].size <= MaxMessageSize)
  <2>1. more = raw
    BY <1>3 DEF F!CopyIfFits
  <2> HIDE DEF more
  <2>2. ~(Stream!Bytes(whole, i, p + 1) <= MaxMessageSize)
    BY <1>1, <1>3 DEF Kept
  <2>3. IsBuffer(more, i, p)
    <3>1. \A n \in DOMAIN raw.lines : raw.lines[n] \in i .. p
      <4>1. i .. p - 1 \subseteq i .. p
        OBVIOUS
      <4>2. QED
        BY <4>1 DEF IsBuffer
    <3>2. QED
      BY <2>1, <3>1 DEF IsBuffer
  <2>4. raw.lines = <<>> => ~(whole[p].size <= MaxMessageSize)
    BY <1>1, <1>3 DEF IsBuffer
  <2>5. QED
    BY <2>1, <2>2, <2>3, <2>4 DEF Kept, more
<1>4. QED
  BY <1>2, <1>3

(* What a line tells the full scan.                                        *)
LEMMA FullAdvance ==
  ASSUME whole \in Seq(Line), FullInv, F!Advance
  PROVE  /\ fpos + 1 \in 1 .. Len(whole) /\ fpos \in Nat
         /\ fpos' = fpos + 1 /\ fpos' \in 0 .. Len(whole) /\ fpos' + 1 = (fpos + 1) + 1
         /\ whole' = whole /\ fpc = "scanning" /\ fpc' = "scanning"
         /\ fgit' \in BOOLEAN
         /\ fgit' <=> (fpos' > 0 /\ whole'[1].kind = "gitpatch")
         /\ foffset' \in Nat /\ foffset' = Stream!Bytes(whole, 1, fpos' + 1)
<1>1. /\ fpos \in 0 .. Len(whole) /\ fpos < Len(whole) /\ Len(whole) \in Nat
      /\ whole' = whole /\ fpos' = fpos + 1 /\ fpc = "scanning" /\ fpc' = fpc
      /\ foffset' = foffset + whole[fpos + 1].size
      /\ fgit' = F!PatchSeries(whole, fgit, fpos + 1)
  BY DEF FullInv, F!TypeOK, F!Advance
<1>2. /\ fpos + 1 \in 1 .. Len(whole) /\ fpos \in Nat /\ fpos' \in 0 .. Len(whole)
      /\ fpos' + 1 = (fpos + 1) + 1 /\ 1 \in 1 .. fpos + 1
  BY <1>1
<1>3. /\ whole[fpos + 1].size \in Nat \ {0}
      /\ foffset' = Stream!Bytes(whole, 1, (fpos + 1) + 1)
      /\ Stream!Bytes(whole, 1, fpos + 1) \in Nat
  BY <1>1, <1>2, BytesGrow DEF FullInv
<1>4. foffset' \in Nat
  BY <1>1, <1>3 DEF FullInv
<1>5. fgit' \in BOOLEAN /\ (fgit' <=> whole[1].kind = "gitpatch")
  <2>1. F!PatchSeries(whole, fgit, fpos + 1) \in BOOLEAN
    BY DEF F!PatchSeries
  <2>2. fpos + 1 = 1 <=> ~(fpos > 0)
    BY <1>2
  <2>3. F!PatchSeries(whole, fgit, fpos + 1) <=> whole[1].kind = "gitpatch"
    BY <1>1, <2>2 DEF FullInv, F!PatchSeries
  <2>4. QED
    BY <1>1, <2>1, <2>3
<1>6. fpos' > 0 /\ whole'[1].kind = whole[1].kind
  BY <1>1, <1>2
<1>7. QED
  BY <1>1, <1>2, <1>3, <1>4, <1>5, <1>6

LEMMA FullStarts ==
  ASSUME whole \in Seq(Line), FullInv, fpos < Len(whole)
  PROVE  F!AtFromLine <=> fpos + 1 \in Starts(whole)
<1>1. /\ fpos \in Nat /\ Len(whole) \in Nat /\ fpos + 1 \in 1 .. Len(whole)
      /\ whole # <<>> /\ DOMAIN whole = 1 .. Len(whole)
  BY DEF FullInv, F!TypeOK
<1>2. F!PatchSeries(whole, fgit, fpos + 1) <=> whole[1].kind = "gitpatch"
  BY <1>1 DEF FullInv, F!PatchSeries
<1>3. fpos + 1 \in Starts(whole) <=> IsFromLine(whole, whole[1].kind = "gitpatch", fpos + 1)
  BY <1>1 DEF Starts
<1>4. QED
  BY <1>2, <1>3 DEF F!AtFromLine, F!IsFromLine, IsFromLine, F!StartsWithFrom, StartsWithFrom

(* When everything before the first From line, or the whole file without   *)
(* one, has been read.                                                     *)
LEMMA PreambleIs ==
  ASSUME whole \in Seq(Line), NEW last \in 0 .. Len(whole), NoneBetween(whole, 0, last + 1),
         last + 1 \in Starts(whole) \/ last = Len(whole)
  PROVE  Preamble = 1 .. last
<1> DEFINE size == Len(whole)
<1>1. size \in Nat /\ last \in Nat /\ last <= size /\ (last + 1 \in Starts(whole) \/ last = size)
  OBVIOUS
<1>2. Preamble = {i \in 1 .. size : \A n \in Starts(whole) : i < n}
  BY DEF Preamble
<1>3. \A n \in Starts(whole) : n \in Nat /\ 0 < n
  BY StartsFacts
<1> HIDE DEF size
<1>4. ASSUME NEW n \in Starts(whole)
      PROVE  n \in Nat /\ last < n
  <2>1. n \in Nat /\ ~(n < last + 1)
    BY <1>3 DEF NoneBetween
  <2>2. QED
    BY <1>1, <2>1
<1>5. ASSUME NEW i \in 1 .. last
      PROVE  i \in 1 .. size /\ \A n \in Starts(whole) : i < n
  <2>1. i \in Nat /\ 1 <= i /\ i <= last
    BY <1>1
  <2>2. QED
    BY <1>1, <1>4, <2>1
<1>6. ASSUME NEW i \in 1 .. size, \A n \in Starts(whole) : i < n
      PROVE  i \in 1 .. last
  <2>1. i \in Nat /\ 1 <= i /\ i <= size
    BY <1>1
  <2>2. i <= last
    BY <1>1, <1>6, <2>1
  <2>3. QED
    BY <1>1, <2>1, <2>2
<1>7. QED
  BY <1>2, <1>5, <1>6

(* What is in the buffer when a From line or the end of the file is read   *)
(* is the next message.                                                    *)
LEMMA BufferIsNext ==
  ASSUME whole \in Seq(Line), FullInv, fpc # "done", F!HaveMessage,
         fpos + 1 \in Starts(whole) \/ fpos = Len(whole)
  PROVE  IsMessage(F!BufferedMessage, Len(delivered) + 1)
<1> DEFINE next == Len(delivered) + 1
           m    == F!BufferedMessage
<1>1. /\ fpos \in 0 .. Len(whole) /\ Len(whole) \in Nat
      /\ fpos + 1 \in 1 .. Len(whole) + 1 /\ (fpos + 1) - 1 = fpos /\ fbuf.lines # <<>>
      /\ m.offset = fstart /\ m.raw = fbuf
  <2>1. fpos \in 0 .. Len(whole) /\ Len(whole) \in Nat
    BY DEF FullInv, F!TypeOK
  <2>2. fpos + 1 \in 1 .. Len(whole) + 1 /\ (fpos + 1) - 1 = fpos
    BY <2>1
  <2>3. fbuf.lines # <<>> /\ m.offset = fstart /\ m.raw = fbuf
    BY DEF F!HaveMessage, F!BufferedMessage
  <2>4. QED
    BY <2>1, <2>2, <2>3
<1> HIDE DEF m
(* It is enough to know the first line.                                    *)
<1>2. ASSUME NEW first \in 1 .. fpos, FirstOf(next) = first, NoneBetween(whole, first, fpos + 1),
             fstart = Stream!Bytes(whole, 1, first),
             IsBuffer(fbuf, first, fpos), Kept(fbuf, first, fpos + 1)
      PROVE  IsMessage(m, next)
  <2>1. first \in Nat /\ first < fpos + 1
    BY <1>1
  <2>2. Stream!NextStart(whole, first) = fpos + 1
    BY <1>1, <1>2, <2>1, NextStartIs
  <2>3. SpanOf(next) = [offset |-> Stream!Bytes(whole, 1, first),
                        length |-> Stream!Bytes(whole, first, fpos + 1)]
    BY <1>2, <2>2 DEF SpanOf, Stream!Span
  <2> HIDE DEF next
  <2>4. QED
    BY <1>1, <1>2, <2>2, <2>3 DEF IsMessage, IsBuffer, Kept
<1>3. CASE BeforeMessages
  <2>1. Preamble = 1 .. fpos
    BY <1>1, <1>3, PreambleIs DEF BeforeMessages
  <2>2. HasPreamble
    BY <1>1, <1>3, <2>1 DEF BeforeMessages, HasPreamble
  <2>3. FirstOf(next) = 1
    BY <1>3, <2>2 DEF BeforeMessages, Extra, FirstOf
  <2>4. PICK i \in 1 .. fpos : i \in Preamble
    BY <2>1, <2>2 DEF HasPreamble
  <2>5. 1 \in 1 .. fpos /\ 1 \in 1 .. Len(whole) + 1
    BY <1>1, <2>4
  <2>6. NoneBetween(whole, 1, fpos + 1)
    <3>1. \A n \in Starts(whole) : n \in Nat
      BY StartsFacts
    <3>2. QED
      BY <1>3, <3>1 DEF BeforeMessages, NoneBetween
  <2>7. fstart = Stream!Bytes(whole, 1, 1)
    BY <1>3, <2>5, BytesFacts DEF BeforeMessages
  <2>8. QED
    BY <1>2, <1>3, <2>3, <2>5, <2>6, <2>7 DEF BeforeMessages, m
<1>4. CASE \E start \in Starts(whole) : ReadsMessage(start)
  <2>1. PICK start \in Starts(whole) : ReadsMessage(start)
    BY <1>4
  <2>2. start \in 1 .. fpos
    <3>1. start \in 1 .. Len(whole) /\ start <= fpos
      BY <2>1, StartsFacts DEF ReadsMessage
    <3>2. QED
      BY <1>1, <3>1
  <2>3. Cardinality(UpTo(whole, start)) \in Nat /\ Cardinality(UpTo(whole, start)) > 0
    <3>1. IsFiniteSet(UpTo(whole, start)) /\ Cardinality(UpTo(whole, start)) \in Nat
      BY <2>2, UpToFacts
    <3>2. start \in UpTo(whole, start)
      BY <2>2 DEF UpTo
    <3>3. Cardinality(UpTo(whole, start)) # 0
      BY <3>1, <3>2, FS_EmptySet
    <3>4. QED
      BY <3>1, <3>3
  <2>4. next = Cardinality(UpTo(whole, start)) + Extra /\ Extra \in {0, 1}
    BY <2>1 DEF ReadsMessage, Extra
  <2>5. ~(next <= Extra) /\ next - Extra = Cardinality(UpTo(whole, start))
    <3> HIDE DEF next
    <3>1. QED
      BY <2>3, <2>4
  <2>6. FirstOf(next) = start
    BY <2>5, NthIsUnique DEF FirstOf
  <2>7. QED
    BY <1>2, <2>1, <2>2, <2>6 DEF ReadsMessage, m
<1>5. QED
  BY <1>3, <1>4 DEF FullInv, m

Delivered == [offset : Nat, raw : F!Buffer]

LEMMA AgreeAfter ==
  ASSUME whole' = whole, \A k \in DOMAIN delivered' : IsMessage(delivered'[k], k)
  PROVE  DeliveredAgree'
<1>1. Preamble' = Preamble
  BY DEF Preamble
<1>2. HasPreamble' <=> HasPreamble
  BY <1>1 DEF HasPreamble
<1>3. QED
  BY <1>2 DEF DeliveredAgree, IsMessage, SpanOf, FirstOf, Extra, InOrder

(* Handing over the buffer keeps what was delivered true.                  *)
LEMMA DeliveryAgrees ==
  ASSUME whole \in Seq(Line), FullInv, fpc # "done", F!HaveMessage, whole' = whole,
         fpos + 1 \in Starts(whole) \/ fpos = Len(whole),
         delivered' = Append(delivered, F!BufferedMessage)
  PROVE  /\ DeliveredAgree' /\ delivered' \in Seq(Delivered)
         /\ Len(delivered') = Len(delivered) + 1
<1> DEFINE m == F!BufferedMessage
           old == delivered
           new == delivered'
<1>1. old \in Seq(Delivered) /\ m \in Delivered
  BY DEF FullInv, F!TypeOK, F!BufferedMessage, Delivered
<1>2. IsMessage(m, Len(old) + 1) /\ new = Append(old, m)
  BY BufferIsNext
<1>3. \A k \in DOMAIN old : IsMessage(old[k], k)
  BY DEF FullInv, DeliveredAgree
<1> HIDE DEF m, old, new
<1>4. /\ new \in Seq(Delivered) /\ Len(new) = Len(old) + 1 /\ new[Len(old) + 1] = m
      /\ \A k \in 1 .. Len(old) : new[k] = old[k]
  BY <1>1, <1>2, AppendFacts
<1>5. ASSUME NEW k \in DOMAIN new
      PROVE  IsMessage(new[k], k)
  <2>1. k \in 1 .. Len(old) \/ k = Len(old) + 1
    BY <1>1, <1>4
  <2>2. CASE k \in 1 .. Len(old)
    <3>1. k \in DOMAIN old /\ new[k] = old[k]
      BY <1>1, <1>4, <2>2
    <3>2. QED
      BY <1>3, <3>1
  <2>3. CASE k = Len(old) + 1
    BY <1>2, <1>4, <2>3
  <2>4. QED
    BY <2>1, <2>2, <2>3
<1>6. DeliveredAgree'
  BY <1>5, AgreeAfter DEF new
<1>7. QED
  BY <1>4, <1>6 DEF old, new

LEMMA NothingDelivered ==
  ASSUME FullInv, whole' = whole, delivered' = delivered
  PROVE  DeliveredAgree' /\ delivered' \in Seq(Delivered)
<1>1. \A k \in DOMAIN delivered' : IsMessage(delivered'[k], k)
  BY DEF FullInv, DeliveredAgree
<1>2. QED
  BY <1>1, AgreeAfter DEF FullInv, F!TypeOK, Delivered

(* The number of messages up to a From line.                               *)
LEMMA StartCounts ==
  ASSUME whole \in Seq(Line), FullInv, F!StartMessage
  PROVE  Len(delivered') + 1 = Cardinality(UpTo(whole, fpos + 1)) + Extra
<1>1. /\ fpos \in Nat /\ fpos + 1 \in Starts(whole) /\ whole' = whole /\ fpc # "done"
      /\ fpos \in 0 .. Len(whole)
  BY FullAdvance, FullStarts DEF F!StartMessage, F!Advance, FullInv, F!TypeOK
<1>2. Starts(whole) \subseteq Nat /\ \A n \in Starts(whole) : 0 < n
  BY StartsFacts
<1>3. F!HaveMessage => Len(delivered') = Len(delivered) + 1
  BY <1>1, DeliveryAgrees DEF F!StartMessage
<1>4. ~F!HaveMessage => delivered' = delivered
  BY DEF F!StartMessage
<1>5. CASE BeforeMessages
  <2>1. Preamble = 1 .. fpos
    BY <1>1, <1>5, PreambleIs DEF BeforeMessages
  <2>2. F!HaveMessage <=> HasPreamble
    BY <1>5, <2>1 DEF BeforeMessages, HasPreamble, F!HaveMessage
  <2>3. UpTo(whole, fpos + 1) = {fpos + 1}
    <3>1. \A n \in Starts(whole) : ~(n < fpos + 1)
      BY <1>2, <1>5 DEF BeforeMessages, NoneBetween
    <3>2. \A n \in Starts(whole) : n <= fpos + 1 => n = fpos + 1
      BY <1>1, <1>2, <3>1
    <3>3. QED
      BY <1>1, <3>2 DEF UpTo
  <2>4. Cardinality(UpTo(whole, fpos + 1)) = 1
    BY <2>3, FS_Singleton
  <2>5. Len(delivered) = 0
    BY <1>5 DEF BeforeMessages
  <2>6. QED
    <3>1. CASE HasPreamble
      <4>1. Len(delivered') = 0 + 1 /\ Extra = 1
        BY <1>3, <2>2, <2>5, <3>1 DEF Extra
      <4>2. QED
        BY <2>4, <4>1
    <3>2. CASE ~HasPreamble
      <4>1. Len(delivered') = 0 /\ Extra = 0
        BY <1>4, <2>2, <2>5, <3>2 DEF Extra
      <4>2. QED
        BY <2>4, <4>1
    <3>3. QED
      BY <3>1, <3>2
<1>6. CASE \E start \in Starts(whole) : ReadsMessage(start)
  <2>1. PICK start \in Starts(whole) : ReadsMessage(start)
    BY <1>6
  <2>2. start \in Nat /\ start <= fpos
    BY <1>2, <2>1 DEF ReadsMessage
  <2>3. UpTo(whole, fpos + 1) = UpTo(whole, start) \cup {fpos + 1} /\ fpos + 1 \notin UpTo(whole, start)
    BY <1>1, <1>2, <2>1, <2>2 DEF ReadsMessage, UpTo, NoneBetween
  <2>4. IsFiniteSet(UpTo(whole, start)) /\ Cardinality(UpTo(whole, start)) \in Nat
    BY <2>2, UpToFacts
  <2>5. Cardinality(UpTo(whole, fpos + 1)) = Cardinality(UpTo(whole, start)) + 1
    BY <2>3, <2>4, FS_AddElement
  <2>6. /\ Len(delivered') = Len(delivered) + 1 /\ Len(delivered) \in Nat
        /\ Len(delivered) + 1 = Cardinality(UpTo(whole, start)) + Extra
    BY <1>3, <2>1 DEF ReadsMessage, F!HaveMessage, FullInv, F!TypeOK, Extra
  <2>7. Extra \in {0, 1}
    BY DEF Extra
  <2>8. QED
    BY <2>4, <2>5, <2>6, <2>7
<1>7. QED
  BY <1>1, <1>5, <1>6 DEF FullInv

LEMMA FullStartStep ==
  ASSUME whole \in Seq(Line), FullInv, F!StartMessage
  PROVE  FullInv'
<1>0. PICK p \in Nat : p = fpos + 1
  BY DEF FullInv, F!TypeOK
<1>1. /\ p \in 1 .. Len(whole) /\ fpos \in Nat /\ fpos' = p /\ fpos' \in 0 .. Len(whole)
      /\ fpos' + 1 = p + 1
      /\ whole' = whole /\ fpc = "scanning" /\ fpc' = "scanning" /\ fgit' \in BOOLEAN
      /\ (fgit' <=> (fpos' > 0 /\ whole'[1].kind = "gitpatch"))
      /\ foffset' \in Nat /\ foffset' = Stream!Bytes(whole, 1, fpos' + 1)
  BY <1>0, FullAdvance DEF F!StartMessage
<1>2. p \in Starts(whole)
  BY <1>0, FullAdvance, FullStarts DEF F!StartMessage, F!Advance
<1>3. IsBuffer(fbuf', p, p) /\ fbuf'.lines # <<>> /\ fbuf'.bytes = whole[p].size
  <2>1. IsBuffer(F!EmptyBuffer, p, p - 1) /\ F!EmptyBuffer.bytes = 0
    <3>1. <<>> \in Seq(Nat) /\ Len(<<>>) = 0
      OBVIOUS
    <3>2. QED
      BY <3>1 DEF IsBuffer, F!EmptyBuffer, F!Buffer, InOrder
  <2>2. fbuf' = F!Copy(F!EmptyBuffer, p) /\ whole[p].size \in Nat
    BY <1>0, <1>1, BytesGrow DEF F!StartMessage
  <2>3. p \in 1 .. p
    BY <1>1
  <2> DEFINE empty == F!EmptyBuffer
  <2> HIDE DEF empty
  <2>4. /\ IsBuffer(F!Copy(empty, p), p, p) /\ F!Copy(empty, p).lines # <<>>
        /\ F!Copy(empty, p).bytes = empty.bytes + whole[p].size
    BY <1>1, <2>1, <2>3, CopyFacts DEF empty
  <2>5. QED
    BY <2>1, <2>2, <2>4 DEF empty
<1>4. DeliveredAgree' /\ delivered' \in Seq(Delivered)
  <2>1. CASE F!HaveMessage
    BY <1>0, <1>1, <1>2, <2>1, DeliveryAgrees DEF F!StartMessage
  <2>2. CASE ~F!HaveMessage
    BY <1>1, <2>2, NothingDelivered DEF F!StartMessage
  <2>3. QED
    BY <2>1, <2>2
<1>5. F!TypeOK'
  <2>1. fstart' \in Nat /\ fbuf' \in F!Buffer
    BY <1>3 DEF F!StartMessage, FullInv, F!TypeOK, IsBuffer
  <2>2. QED
    BY <1>1, <1>4, <2>1 DEF FullInv, F!TypeOK, Delivered
<1>6. ReadsMessage(p)'
  <2>1. p <= fpos' /\ NoneBetween(whole, p, fpos + 1)'
    <3>1. \A n \in Starts(whole) : n \in Nat
      BY StartsFacts
    <3>2. p \in Nat
      BY <1>1
    <3>3. \A n \in Starts(whole) : ~(p < n /\ n < p + 1)
      BY <3>1, <3>2
    <3>4. QED
      BY <1>1, <3>2, <3>3 DEF NoneBetween
  <2>2. fstart' = Stream!Bytes(whole, 1, p)
    BY <1>0 DEF F!StartMessage, FullInv
  <2>3. Kept(fbuf, p, fpos + 1)'
    BY <1>1, <1>3, BytesGrow DEF Kept
  <2>4. Len(delivered') + 1 = Cardinality(UpTo(whole, p)) + Extra
    BY <1>0, StartCounts
  <2>5. HasPreamble' <=> HasPreamble
    BY <1>1 DEF HasPreamble, Preamble
  <2>6. UpTo(whole, p)' = UpTo(whole, p)
    BY <1>1 DEF UpTo
  <2>7. IsBuffer(fbuf, p, fpos)'
    BY <1>1, <1>3 DEF IsBuffer, InOrder
  <2>8. QED
    BY <1>1, <1>3, <2>1, <2>2, <2>3, <2>4, <2>5, <2>6, <2>7 DEF ReadsMessage, Extra
<1>7. QED
  <2>1. p \in Starts(whole')
    BY <1>1, <1>2
  <2>2. QED
    BY <1>1, <1>4, <1>5, <1>6, <2>1 DEF FullInv

LEMMA FullContentStep ==
  ASSUME whole \in Seq(Line), FullInv, F!ContentLine
  PROVE  FullInv'
<1>0. PICK p \in Nat : p = fpos + 1
  BY DEF FullInv, F!TypeOK
<1>1. /\ p \in 1 .. Len(whole) /\ fpos \in Nat /\ fpos' = p /\ fpos' \in 0 .. Len(whole)
      /\ fpos' + 1 = p + 1
      /\ whole' = whole /\ fpc = "scanning" /\ fpc' = "scanning" /\ fgit' \in BOOLEAN
      /\ (fgit' <=> (fpos' > 0 /\ whole'[1].kind = "gitpatch"))
      /\ foffset' \in Nat /\ foffset' = Stream!Bytes(whole, 1, fpos' + 1)
  BY <1>0, FullAdvance DEF F!ContentLine
<1>2. p \notin Starts(whole) /\ fstart' = fstart /\ delivered' = delivered
      /\ fbuf' = F!CopyIfFits(fbuf, p)
  BY <1>0, FullAdvance, FullStarts DEF F!ContentLine, F!Advance
<1>3. p - 1 = fpos /\ MaxMessageSize \in Nat
  BY <1>0, <1>1, MessageSizeAssumption
<1>4. ASSUME NEW i \in 1 .. p, IsBuffer(fbuf, i, fpos), Kept(fbuf, i, p)
      PROVE  /\ IsBuffer(fbuf', i, p) /\ Kept(fbuf', i, p + 1)
             /\ fbuf'.lines # <<>> <=> fbuf.lines # <<>> \/ whole[p].size <= MaxMessageSize
  BY <1>1, <1>2, <1>3, <1>4, CopyIfFitsFacts
<1>5. DeliveredAgree' /\ delivered' \in Seq(Delivered)
  BY <1>1, <1>2, NothingDelivered
<1>6. UpTo(whole, 0)' = UpTo(whole, 0) /\ Preamble' = Preamble /\ (HasPreamble' <=> HasPreamble)
  BY <1>1 DEF UpTo, HasPreamble, Preamble
<1>7. CASE BeforeMessages
  <2>1. 1 \in 1 .. p /\ IsBuffer(fbuf, 1, fpos) /\ Kept(fbuf, 1, p)
    BY <1>0, <1>1, <1>7 DEF BeforeMessages
  <2>2. /\ IsBuffer(fbuf', 1, p) /\ Kept(fbuf', 1, p + 1)
        /\ fbuf'.lines # <<>> <=> fbuf.lines # <<>> \/ whole[p].size <= MaxMessageSize
    BY <1>4, <2>1
  <2>3. fbuf'.lines # <<>> <=> \E i \in 1 .. p : whole[i].size <= MaxMessageSize
    <3>1. 1 .. p = (1 .. fpos) \cup {p}
      BY <1>0, <1>1
    <3>2. fbuf.lines # <<>> <=> \E i \in 1 .. fpos : whole[i].size <= MaxMessageSize
      BY <1>7 DEF BeforeMessages
    <3>3. QED
      BY <2>2, <3>1, <3>2
  <2>4. NoneBetween(whole, 0, p + 1)
    <3>1. NoneBetween(whole, 0, p) /\ \A n \in Starts(whole) : n \in Nat
      BY <1>0, <1>7, StartsFacts DEF BeforeMessages
    <3>2. \A n \in Starts(whole) : n < p + 1 => n < p
      BY <1>2, <3>1
    <3>3. QED
      BY <3>1, <3>2 DEF NoneBetween
  <2>5. IsBuffer(fbuf, 1, fpos)'
    BY <1>1, <2>2 DEF IsBuffer, InOrder
  <2>6. F!TypeOK'
    BY <1>1, <1>2, <1>5, <2>2 DEF FullInv, F!TypeOK, IsBuffer, Delivered
  <2>7. BeforeMessages'
    BY <1>1, <1>2, <1>7, <2>2, <2>3, <2>4, <2>5 DEF BeforeMessages, NoneBetween, Kept
  <2>8. QED
    BY <1>1, <1>5, <2>6, <2>7 DEF FullInv
<1>8. CASE \E start \in Starts(whole) : ReadsMessage(start)
  <2>1. PICK start \in Starts(whole) : ReadsMessage(start)
    BY <1>8
  <2>2. start \in 1 .. p /\ start \in Nat /\ IsBuffer(fbuf, start, fpos) /\ Kept(fbuf, start, p)
    <3>1. start \in Nat /\ 1 <= start /\ start <= fpos
      BY <2>1, StartsFacts DEF ReadsMessage
    <3>2. QED
      BY <1>0, <1>1, <2>1, <3>1 DEF ReadsMessage
  <2>3. /\ IsBuffer(fbuf', start, p) /\ Kept(fbuf', start, p + 1)
        /\ fbuf'.lines # <<>>
    BY <1>4, <2>1, <2>2 DEF ReadsMessage
  <2>4. NoneBetween(whole, start, p + 1)
    <3>1. NoneBetween(whole, start, p) /\ \A n \in Starts(whole) : n \in Nat
      BY <1>0, <2>1, StartsFacts DEF ReadsMessage
    <3>2. \A n \in Starts(whole) : n < p + 1 => n < p
      BY <1>2, <3>1
    <3>3. QED
      BY <3>1, <3>2 DEF NoneBetween
  <2>5. start <= fpos' /\ NoneBetween(whole, start, fpos + 1)' /\ Kept(fbuf, start, fpos + 1)'
    BY <1>1, <2>2, <2>3, <2>4 DEF NoneBetween, Kept
  <2>6. UpTo(whole, start)' = UpTo(whole, start)
    BY <1>1 DEF UpTo
  <2>7. IsBuffer(fbuf, start, fpos)'
    BY <1>1, <2>3 DEF IsBuffer, InOrder
  <2>8. F!TypeOK'
    BY <1>1, <1>2, <1>5, <2>3 DEF FullInv, F!TypeOK, IsBuffer, Delivered
  <2>9. ReadsMessage(start)'
    BY <1>1, <1>2, <1>6, <2>1, <2>3, <2>5, <2>6, <2>7 DEF ReadsMessage
  <2>10. start \in Starts(whole')
    BY <1>1
  <2>11. QED
    BY <1>1, <1>5, <2>8, <2>9, <2>10 DEF FullInv
<1>9. QED
  BY <1>1, <1>7, <1>8 DEF FullInv

(* The end, a refusal, and steps of the other scan.                        *)
LEMMA FullQuietStep ==
  ASSUME FullInv, whole' = whole, UNCHANGED <<fpos, foffset, fgit, fstart, fbuf, delivered>>,
         fpc' = fpc \/ (fpc = "scanning" /\ fpc' = "aborted")
  PROVE  FullInv'
<1>1. DeliveredAgree' /\ F!TypeOK'
  BY NothingDelivered DEF FullInv, F!TypeOK
<1>2. ASSUME NEW first, IsBuffer(fbuf, first, fpos)
      PROVE  IsBuffer(fbuf, first, fpos)'
  BY <1>2 DEF IsBuffer, InOrder
<1>3. Preamble' = Preamble /\ (HasPreamble' <=> HasPreamble)
  BY DEF HasPreamble, Preamble
<1>4. BeforeMessages => BeforeMessages'
  BY <1>2 DEF BeforeMessages, NoneBetween, Kept
<1>5. ASSUME NEW start, ReadsMessage(start)
      PROVE  ReadsMessage(start)'
  <2>1. UpTo(whole, start)' = UpTo(whole, start)
    BY DEF UpTo
  <2>2. QED
    BY <1>2, <1>3, <1>5, <2>1 DEF ReadsMessage, NoneBetween, Kept
<1>6. Starts(whole') = Starts(whole) /\ (fpc' # "done" => fpc # "done")
  OBVIOUS
<1>7. fpc' # "done" => BeforeMessages' \/ \E start \in Starts(whole') : ReadsMessage(start)'
  <2>1. CASE BeforeMessages
    BY <1>4, <2>1
  <2>2. CASE \E start \in Starts(whole) : ReadsMessage(start)
    BY <1>5, <1>6, <2>2
  <2>3. QED
    BY <1>6, <2>1, <2>2 DEF FullInv
<1>8. /\ fgit' <=> (fpos' > 0 /\ whole'[1].kind = "gitpatch")
      /\ foffset' = Stream!Bytes(whole', 1, fpos' + 1)
  BY DEF FullInv
<1>9. QED
  BY <1>1, <1>7, <1>8 DEF FullInv

LEMMA FullFinishStep ==
  ASSUME whole \in Seq(Line), FullInv, F!Finish
  PROVE  FullInv'
<1>1. /\ fpc # "done" /\ fpc' = "done" /\ fpos = Len(whole)
      /\ whole' = whole /\ UNCHANGED <<fpos, foffset, fgit, fstart, fbuf>>
  BY DEF F!Finish
<1>2. DeliveredAgree' /\ delivered' \in Seq(Delivered)
  <2>1. CASE delivered' = delivered
    BY <1>1, <2>1, NothingDelivered
  <2>2. CASE F!HaveMessage /\ delivered' = Append(delivered, F!BufferedMessage)
    BY <1>1, <2>2, DeliveryAgrees
  <2>3. QED
    BY <2>1, <2>2 DEF F!Finish
<1>3. F!TypeOK'
  BY <1>1, <1>2 DEF FullInv, F!TypeOK, Delivered
<1>4. QED
  BY <1>1, <1>2, <1>3 DEF FullInv

LEMMA FullInvInit ==
  ASSUME whole \in Seq(Line), F!Init
  PROVE  FullInv
<1>1. /\ fpos = 0 /\ foffset = 0 /\ fgit = FALSE /\ fstart = 0 /\ fbuf = F!EmptyBuffer
      /\ delivered = <<>> /\ fpc = "scanning"
  BY DEF F!Init
<1>2. Len(whole) \in Nat /\ 0 \in 0 .. Len(whole) /\ 1 \in 1 .. Len(whole) + 1
  OBVIOUS
<1>3. <<>> \in Seq(Nat) /\ Len(<<>>) = 0 /\ delivered \in Seq(Delivered)
  BY <1>1
<1>4. IsBuffer(fbuf, 1, fpos) /\ fbuf \in F!Buffer /\ fbuf.lines = <<>> /\ fbuf.bytes = 0
  BY <1>1, <1>3 DEF IsBuffer, F!EmptyBuffer, F!Buffer, InOrder
<1>5. F!TypeOK
  BY <1>1, <1>2, <1>3, <1>4, SameLines DEF F!TypeOK, Delivered
<1>6. Stream!Bytes(whole, 1, fpos + 1) = 0
  BY <1>1, <1>2, BytesFacts
<1>7. DeliveredAgree
  BY <1>1 DEF DeliveredAgree
<1>8. BeforeMessages
  <2>1. \A n \in Starts(whole) : n \in Nat
    BY StartsFacts
  <2>2. NoneBetween(whole, 0, fpos + 1)
    BY <1>1, <2>1 DEF NoneBetween
  <2>3. ~ \E i \in 1 .. fpos : whole[i].size <= MaxMessageSize
    BY <1>1
  <2>4. QED
    BY <1>1, <1>4, <1>6, <2>2, <2>3 DEF BeforeMessages, Kept
<1>9. QED
  BY <1>1, <1>4, <1>5, <1>6, <1>7, <1>8 DEF FullInv

(* What the reports are at every moment: the messages of the file as the   *)
(* header scan classifies it, in their order.                              *)
ReportsAreSpans ==
    \A k \in DOMAIN emitted :
        \E i \in Starts(mbox) : /\ Cardinality(UpTo(mbox, i)) = k
                               /\ SpansOf(emitted)[k] = Stream!Span(mbox, i)

Ranges == [offset : Nat, length : Nat]

LEMMA SpansAreRanges ==
  ASSUME NEW s \in Seq(Report)
  PROVE  /\ SpansOf(s) \in Seq(Ranges) /\ Len(SpansOf(s)) = Len(s) /\ Len(s) \in Nat
         /\ DOMAIN s = 1 .. Len(s)
<1> DEFINE size == Len(s)
           t == SpansOf(s)
<1>1. size \in Nat /\ DOMAIN s = 1 .. size
  OBVIOUS
<1>2. t = [k \in 1 .. size |-> [offset |-> s[k].offset, length |-> s[k].length]]
  BY <1>1 DEF SpansOf
<1>3. \A k \in 1 .. size : s[k] \in Report
  OBVIOUS
<1> HIDE DEF size, t
<1>4. t \in [1 .. size -> Ranges]
  BY <1>2, <1>3 DEF Report, Ranges
<1>5. t \in Seq(Ranges) /\ Len(t) = size
  BY <1>1, <1>4
<1>6. QED
  BY <1>1, <1>5 DEF size, t

LEMMA ReportsStaySpans ==
  ASSUME StreamInv, ReportsAreSpans, [Next]_vars, mbox' = mbox, emitted' \in Seq(Report)
  PROVE  ReportsAreSpans'
<1>1. emitted \in Seq(Report) /\ (NextIsReported \/ UNCHANGED SpansOf(emitted))
  BY StreamStep DEF StreamInv, OwnInv, TypeInv, TypeOK
<1> DEFINE old == SpansOf(emitted)
           new == SpansOf(emitted)'
<1>2. /\ old \in Seq(Ranges) /\ Len(old) = Len(emitted) /\ DOMAIN emitted = 1 .. Len(old)
      /\ Len(old) \in Nat
  BY <1>1, SpansAreRanges
<1>3. new \in Seq(Ranges) /\ DOMAIN emitted' = 1 .. Len(new)
  <2>1. new = SpansOf(emitted')
    BY DEF SpansOf
  <2> HIDE DEF new
  <2>2. QED
    BY <2>1, SpansAreRanges
<1>4. \A k \in 1 .. Len(old) : \E i \in Starts(mbox) :
          Cardinality(UpTo(mbox, i)) = k /\ old[k] = Stream!Span(mbox, i)
  BY <1>2 DEF ReportsAreSpans
<1>5. /\ UpTo(mbox, 0)' = UpTo(mbox, 0)
      /\ \A i : UpTo(mbox', i) = UpTo(mbox, i) /\ Stream!Span(mbox', i) = Stream!Span(mbox, i)
  BY DEF UpTo
<1> HIDE DEF old, new
<1>6. ASSUME NEW k \in 1 .. Len(new)
      PROVE  \E i \in Starts(mbox) :
                 Cardinality(UpTo(mbox, i)) = k /\ new[k] = Stream!Span(mbox, i)
  <2>1. CASE new = old
    BY <1>4, <2>1
  <2>2. CASE NextIsReported
    <3>1. PICK i \in Starts(mbox) : /\ Cardinality(UpTo(mbox, i)) = Len(old) + 1
                                   /\ new = Append(old, Stream!Span(mbox, i))
      BY <1>2, <2>2 DEF NextIsReported, old, new
    <3> DEFINE span == Stream!Span(mbox, i)
    <3>2. Len(new) = Len(old) + 1 /\ new[Len(old) + 1] = span
          /\ \A n \in 1 .. Len(old) : new[n] = old[n]
      <4> HIDE DEF span
      <4>1. new = Append(old, span)
        BY <3>1 DEF span
      <4>2. QED
        BY <1>2, <4>1
    <3>3. CASE k = Len(old) + 1
      BY <3>1, <3>2, <3>3
    <3>4. CASE k \in 1 .. Len(old)
      BY <1>4, <3>2, <3>4
    <3>5. QED
      BY <1>2, <3>2, <3>3, <3>4
  <2>3. QED
    BY <1>1, <2>1, <2>2 DEF old, new
<1>7. QED
  BY <1>3, <1>5, <1>6 DEF ReportsAreSpans, new

LEMMA WholeIsAFile ==
  ASSUME mbox \in Seq(Line)
  PROVE  /\ whole \in Seq(Line) /\ Len(whole) = Len(mbox)
         /\ \A i \in 1 .. Len(mbox) : whole[i].size = mbox[i].size
<1> DEFINE size == Len(mbox)
<1>1. size \in Nat /\ DOMAIN mbox = 1 .. size /\ DOMAIN whole = 1 .. size
  BY DEF whole, Whole
<1>2. ASSUME NEW i \in 1 .. size
      PROVE  whole[i] \in Line /\ whole[i].size = mbox[i].size
  <2>1. mbox[i] \in Line /\ whole[i] = [mbox[i] EXCEPT !.kind = mbox[i].whole]
    BY <1>1, <1>2 DEF whole, Whole
  <2>2. QED
    BY <2>1 DEF Line
<1> HIDE DEF size
<1>3. whole = [i \in 1 .. size |-> whole[i]]
  BY <1>1 DEF whole, Whole
<1>4. whole \in [1 .. size -> Line]
  BY <1>2, <1>3
<1>5. whole \in Seq(Line) /\ Len(whole) = size
  BY <1>1, <1>4
<1>6. QED
  BY <1>2, <1>5 DEF size

(* A message that both classifications start at the same line is the same  *)
(* range of bytes in both.                                                 *)
LEMMA SpanOfWhole ==
  ASSUME mbox \in Seq(Line), SameStarts, NEW i \in Starts(mbox)
  PROVE  /\ Stream!Span(whole, i) = Stream!Span(mbox, i)
         /\ UpTo(whole, i) = UpTo(mbox, i)
<1> DEFINE last == Len(mbox)
           after == {k \in Starts(mbox) : k > i} \cup {last + 1}
           next == Stream!NextStart(mbox, i)
<1>1. /\ whole \in Seq(Line) /\ Len(whole) = last /\ last \in Nat
      /\ Starts(whole) = Starts(mbox) /\ Starts(mbox) \subseteq 1 .. last
  BY WholeIsAFile, StartsFacts DEF SameStarts
<1>2. Sizes(whole) = Sizes(mbox)
  BY <1>1, WholeIsAFile DEF Sizes
<1>3. next = CHOOSE x \in after : \A y \in after : x <= y
  BY StreamStarts DEF Stream!NextStart, Stream!Min
<1>4. Stream!NextStart(whole, i) = next
  BY <1>1, StreamStarts DEF Stream!NextStart
<1>5. next \in 1 .. last + 1
  <2>1. after \in SUBSET Nat /\ after # {} /\ after \subseteq 1 .. last + 1
    <3> HIDE DEF last
    <3>1. QED
      BY <1>1
  <2> HIDE DEF after, next
  <2>2. \E x \in after : \A y \in after : x <= y
    BY <2>1, HasLeast
  <2>3. next \in after
    BY <1>3, <2>2
  <2>4. QED
    BY <2>1, <2>3
<1>6. PICK sum : IsSum(sum, last, Sizes(mbox))
  <2>1. \E sum : IsSum(sum, last, Sizes(mbox))
    BY BytesHaveASum
  <2>2. QED
    BY <2>1
<1>7. /\ \A m \in 1 .. last + 1, n \in 1 .. last + 1 : Stream!Bytes(mbox, m, n) = sum[m .. n - 1]
      /\ \A m \in 1 .. last + 1, n \in 1 .. last + 1 : Stream!Bytes(whole, m, n) = sum[m .. n - 1]
  <2>1. \A m \in 1 .. last + 1, n \in 1 .. last + 1 : Stream!Bytes(mbox, m, n) = sum[m .. n - 1]
    BY <1>6, BytesAreASum
  <2>2. IsSum(sum, Len(whole), Sizes(whole)) /\ Len(whole) = last
    BY <1>1, <1>2, <1>6
  <2>3. \A m \in 1 .. Len(whole) + 1, n \in 1 .. Len(whole) + 1 :
            Stream!Bytes(whole, m, n) = sum[m .. n - 1]
    BY <1>1, <2>2, BytesAreASum
  <2>4. QED
    BY <2>1, <2>2, <2>3
<1>8. 1 \in 1 .. last + 1 /\ i \in 1 .. last + 1
  BY <1>1
<1> HIDE DEF last, next
<1>9. /\ Stream!Bytes(whole, 1, i) = Stream!Bytes(mbox, 1, i)
      /\ Stream!Bytes(whole, i, next) = Stream!Bytes(mbox, i, next)
  BY <1>5, <1>7, <1>8
<1>10. UpTo(whole, i) = UpTo(mbox, i)
  BY <1>1 DEF UpTo
<1>11. QED
  BY <1>4, <1>9, <1>10 DEF Stream!Span, next

(* What the two scans delivered, compared.                                 *)
LEMMA AgreementFollows ==
  ASSUME StreamInv, ReportsAreSpans, FullInv
  PROVE  ScansAgree
<1>1. mbox \in Seq(Line) /\ whole \in Seq(Line) /\ emitted \in Seq(Report)
  BY WholeIsAFile DEF StreamInv, OwnInv, TypeInv, TypeOK
<1>2. ASSUME NEW k \in DOMAIN delivered
      PROVE  IsNthMessage(delivered[k], k)
  BY DEF FullInv, DeliveredAgree, IsMessage, IsNthMessage, SpanOf, FirstOf, InOrder
<1>3. ASSUME SameStarts, NEW k \in DOMAIN emitted, k + Extra \in DOMAIN delivered
      PROVE  IsAsReported(delivered[k + Extra], emitted[k])
  <2>1. PICK i \in Starts(mbox) : /\ Cardinality(UpTo(mbox, i)) = k
                                 /\ SpansOf(emitted)[k] = Stream!Span(mbox, i)
    BY DEF ReportsAreSpans
  <2>2. Stream!Span(whole, i) = Stream!Span(mbox, i) /\ UpTo(whole, i) = UpTo(mbox, i)
    BY <1>1, <1>3, SpanOfWhole
  <2>3. Stream!NthStart(whole, k) = i
    <3>1. i \in Starts(whole)
      BY <1>3 DEF SameStarts
    <3>2. QED
      BY <1>1, <2>1, <2>2, <3>1, NthIsUnique
  <2>4. FirstOf(k + Extra) = i
    <3>1. k \in Nat /\ k > 0 /\ Extra \in Nat
      BY <1>1 DEF Extra
    <3>2. ~(k + Extra <= Extra) /\ (k + Extra) - Extra = k
      BY <3>1
    <3>3. QED
      BY <2>3, <3>2 DEF FirstOf
  <2>5. SpanOf(k + Extra) = [offset |-> emitted[k].offset, length |-> emitted[k].length]
    BY <2>1, <2>2, <2>4 DEF SpanOf, SpansOf
  <2>6. IsMessage(delivered[k + Extra], k + Extra)
    BY <1>3 DEF FullInv, DeliveredAgree
  <2>7. QED
    BY <2>5, <2>6 DEF IsMessage, IsAsReported
<1>4. QED
  BY <1>2, <1>3 DEF ScansAgree

BothInv == StreamInv /\ ReportsAreSpans /\ FullInv

LEMMA BothStep == BothInv /\ [BothNext]_<<vars, fvars>> => BothInv'
<1> SUFFICES ASSUME BothInv, [BothNext]_<<vars, fvars>> PROVE BothInv'
  OBVIOUS
<1>1. /\ mbox \in Seq(Line) /\ whole \in Seq(Line) /\ FullInv /\ StreamInv
  BY WholeIsAFile DEF BothInv, StreamInv, OwnInv, TypeInv, TypeOK
<1>2. [Next]_vars
  BY DEF BothNext, HeaderStep, FullStep
<1>3. mbox' = mbox /\ whole' = whole
  <2>1. mbox' = mbox
    BY <1>2 DEF vars, Next, StartMessage, RefuseMessage, EndHeaders, HeaderLine, SkipLine,
                Finish, Advance
  <2>2. QED
    BY <2>1 DEF whole
<1>4. StreamInv'
  BY <1>1, <1>2, StreamStep
<1>5. ReportsAreSpans'
  BY <1>1, <1>2, <1>3, <1>4, ReportsStaySpans DEF BothInv, StreamInv, OwnInv, TypeInv, TypeOK
<1>6. FullInv'
  <2>1. CASE UNCHANGED fvars
    BY <1>1, <1>3, <2>1, FullQuietStep DEF fvars
  <2>2. CASE F!Next
    <3>1. CASE F!StartMessage
      BY <1>1, <3>1, FullStartStep
    <3>2. CASE F!RefuseMessage
      BY <1>1, <1>3, <3>2, FullQuietStep DEF F!RefuseMessage
    <3>3. CASE F!ContentLine
      BY <1>1, <3>3, FullContentStep
    <3>4. CASE F!Finish
      BY <1>1, <3>4, FullFinishStep
    <3>5. QED
      BY <2>2, <3>1, <3>2, <3>3, <3>4 DEF F!Next
  <2>3. QED
    BY <2>1, <2>2 DEF BothNext, HeaderStep, FullStep
<1>7. QED
  BY <1>4, <1>5, <1>6 DEF BothInv

LEMMA BothInvHolds == BothSpec => []BothInv
<1>1. BothInit => BothInv
  <2> SUFFICES ASSUME BothInit PROVE BothInv
    OBVIOUS
  <2>1. StreamInv /\ emitted = <<>> /\ F!Init
    BY StreamInvInit DEF BothInit, Init
  <2>2. whole \in Seq(Line)
    BY <2>1, WholeIsAFile DEF StreamInv, OwnInv, TypeInv, TypeOK
  <2>3. ReportsAreSpans
    BY <2>1 DEF ReportsAreSpans
  <2>4. QED
    BY <2>1, <2>2, <2>3, FullInvInit DEF BothInv
<1>2. QED
  BY <1>1, BothStep, PTL DEF BothSpec

(* The state of both scans keeps its types.                                *)
THEOREM ScansHaveTheirTypes == BothSpec => []ScanTypes
<1>1. BothInv => ScanTypes
  BY DEF BothInv, StreamInv, OwnInv, TypeInv, FullInv, ScanTypes
<1>2. QED
  BY <1>1, BothInvHolds, PTL

(* For every mailbox and every limit, the full scan delivers the messages  *)
(* of the file it retains whole, however many lines its cap on the size of *)
(* a message drops; and, unless a line is cut where its class changes, its *)
(* messages are, but for the lines before the first From line, the ones    *)
(* parse_headers_only reports, byte for byte.                              *)
THEOREM ScansCutAlike == BothSpec => []ScansAgree
<1>1. BothInv => ScansAgree
  BY AgreementFollows DEF BothInv
<1>2. QED
  BY <1>1, BothInvHolds, PTL
=============================================================================
