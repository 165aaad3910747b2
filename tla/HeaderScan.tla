----------------------------- MODULE HeaderScan ------------------------------
(***************************************************************************)
(* MboxParser::parse_headers_only (parser/mbox.rs): one pass over the      *)
(* lines of a mailbox that reports, for every message, its offset, its     *)
(* length in bytes and its header block.  The index is built from exactly  *)
(* these reports, and every later read of a message seeks to them.         *)
(*                                                                         *)
(* A message is reported only when the NEXT separator (or the end of the   *)
(* file) is read, and by then header_buf may have been handed over: the    *)
(* headers wait in prev_headers, or are still in header_buf when the       *)
(* message had no blank line.                                              *)
(*                                                                         *)
(* Left out: the 1 MB read buffer (read_until hides it), the progress      *)
(* callback and the warnings, with prev_line_was_empty, which feeds only a *)
(* warning.  A header block is the sequence of the indices of its lines,   *)
(* with the number of bytes kept of them.                                  *)
(***************************************************************************)
EXTENDS MboxLines

CONSTANTS
    Mailboxes,       \* the files a scan may be given
    MaxLineRetain,   \* MAX_LINE_RETAIN: bytes kept of one line
    MaxHeaderRetain  \* MAX_HEADER_RETAIN: bytes at which a header block stops growing

ASSUME MailboxesAssumption == Mailboxes \subseteq Seq(Line)
ASSUME RetainAssumption ==
    MaxLineRetain \in Nat \ {0} /\ MaxHeaderRetain \in Nat \ {0}

(* What the bytes cut off a long line can hide: the rest of a From line,   *)
(* which makes it one or not, and any text after a blank beginning.        *)
HidesItsEnd(line) ==
    /\ line.size > MaxLineRetain
    /\ \/ {line.kind, line.whole} \subseteq {"separator", "gitpatch", "malformed"}
       \/ line.kind = "blank" /\ line.whole = "text"

ASSUME CutAssumption ==
    \A file \in Mailboxes : \A i \in DOMAIN file :
        file[i].kind = file[i].whole \/ HidesItsEnd(file[i])

VARIABLES
    mbox,                \* the file
    pos,                 \* lines read so far; first_line is pos = 0
    current_offset,      \* bytes read so far
    git_patch_mbox,      \* the file is a git patch series
    in_headers,
    header_buf,          \* the header block being accumulated
    prev_message_start,  \* offset of the message being read: <<offset>> or <<>>
    prev_headers,        \* its finished header block: <<block>> or <<>>
    emitted,             \* what header_callback was given and accepted
    pc                   \* "scanning", "done" or "aborted"

vars == <<mbox, pos, current_offset, git_patch_mbox, in_headers, header_buf,
          prev_message_start, prev_headers, emitted, pc>>

Block == [lines : Seq(Nat), bytes : Nat]

Report == [offset : Nat, length : Nat, headers : Block]

TypeOK ==
    /\ mbox \in Seq(Line)
    /\ pos \in 0 .. Len(mbox)
    /\ current_offset \in Nat
    /\ git_patch_mbox \in BOOLEAN
    /\ in_headers \in BOOLEAN
    /\ header_buf \in Block
    /\ prev_message_start \in Seq(Nat) /\ Len(prev_message_start) <= 1
    /\ prev_headers \in Seq(Block) /\ Len(prev_headers) <= 1
    /\ emitted \in Seq(Report)
    /\ pc \in {"scanning", "done", "aborted"}

-----------------------------------------------------------------------------
EmptyBlock == [lines |-> <<>>, bytes |-> 0]

Retained(line) == IF line.size > MaxLineRetain THEN MaxLineRetain ELSE line.size

Extend(block, i) == [lines |-> Append(block.lines, i),
                     bytes |-> block.bytes + Retained(mbox[i])]

(* A header line is kept while the block is still below the limit. *)
KeepHeader(block, i) ==
    IF block.bytes < MaxHeaderRetain THEN Extend(block, i) ELSE block

HaveMessage == prev_message_start # <<>>

MutForgetsUnterminated ==
    IF prev_headers # <<>> THEN prev_headers[1] ELSE EmptyBlock

(* The headers saved at the blank line, or what is still accumulating. *)
SavedHeaders == IF prev_headers # <<>> THEN prev_headers[1] ELSE header_buf

MutLengthBackwards ==
    [offset  |-> prev_message_start[1],
     length  |-> prev_message_start[1] - current_offset,
     headers |-> SavedHeaders]

PreviousMessage ==
    [offset  |-> prev_message_start[1],
     length  |-> current_offset - prev_message_start[1],
     headers |-> SavedHeaders]

Init ==
    /\ mbox \in Mailboxes
    /\ pos = 0
    /\ current_offset = 0
    /\ git_patch_mbox = FALSE
    /\ in_headers = FALSE
    /\ header_buf = EmptyBlock
    /\ prev_message_start = <<>>
    /\ prev_headers = <<>>
    /\ emitted = <<>>
    /\ pc = "scanning"

(* What every iteration of the loop does with the line it read. *)
Advance ==
    /\ pc = "scanning"
    /\ pos < Len(mbox)
    /\ pos' = pos + 1
    /\ current_offset' = current_offset + mbox[pos + 1].size
    /\ git_patch_mbox' = PatchSeries(mbox, git_patch_mbox, pos + 1)
    /\ UNCHANGED <<mbox, pc>>

MutFirstLineStrict ==
    \/ mbox[pos + 1].kind = "separator"
    \/ mbox[pos + 1].kind = "gitpatch" /\ PatchSeries(mbox, git_patch_mbox, pos + 1)

AtFromLine == IsFromLine(mbox, PatchSeries(mbox, git_patch_mbox, pos + 1), pos + 1)

MutStartsAfterItsLine ==
    /\ Advance
    /\ AtFromLine
    /\ emitted' = IF HaveMessage THEN Append(emitted, PreviousMessage) ELSE emitted
    /\ prev_headers' = <<>>
    /\ header_buf' = Extend(EmptyBlock, pos + 1)
    /\ in_headers' = TRUE
    /\ prev_message_start' = <<current_offset'>>

(* A From line: the message before it is reported and a new one starts. *)
StartMessage ==
    /\ Advance
    /\ AtFromLine
    /\ emitted' = IF HaveMessage THEN Append(emitted, PreviousMessage) ELSE emitted
    /\ prev_headers' = <<>>
    /\ header_buf' = Extend(EmptyBlock, pos + 1)
    /\ in_headers' = TRUE
    /\ prev_message_start' = <<current_offset>>

(* The callback asks to stop: the scan returns on the spot, and the        *)
(* message it refused is not counted.                                      *)
RefuseMessage ==
    /\ pc = "scanning"
    /\ pos < Len(mbox)
    /\ AtFromLine
    /\ HaveMessage
    /\ pc' = "aborted"
    /\ UNCHANGED <<mbox, pos, current_offset, git_patch_mbox, in_headers, header_buf,
                   prev_message_start, prev_headers, emitted>>

(* The blank line that ends a header block: the block is swapped out. *)
EndHeaders ==
    /\ Advance
    /\ ~AtFromLine
    /\ in_headers
    /\ IsBlank(mbox[pos + 1])
    /\ in_headers' = FALSE
    /\ prev_headers' = <<header_buf>>
    /\ header_buf' = EmptyBlock
    /\ UNCHANGED <<prev_message_start, emitted>>

HeaderLine ==
    /\ Advance
    /\ ~AtFromLine
    /\ in_headers
    /\ ~IsBlank(mbox[pos + 1])
    /\ header_buf' = KeepHeader(header_buf, pos + 1)
    /\ UNCHANGED <<in_headers, prev_message_start, prev_headers, emitted>>

(* A line of a body, or of what precedes the first From line of the file. *)
SkipLine ==
    /\ Advance
    /\ ~AtFromLine
    /\ ~in_headers
    /\ UNCHANGED <<in_headers, header_buf, prev_message_start, prev_headers, emitted>>

MutEndsOnlyWithAMessage ==
    /\ pc = "scanning"
    /\ pos = Len(mbox)
    /\ HaveMessage
    /\ pc' = "done"
    /\ emitted' = Append(emitted, PreviousMessage)
    /\ UNCHANGED <<mbox, pos, current_offset, git_patch_mbox, in_headers, header_buf,
                   prev_message_start, prev_headers>>

(* The end of the file: the last message is reported, and counted if the   *)
(* callback takes it.                                                      *)
Finish ==
    /\ pc = "scanning"
    /\ pos = Len(mbox)
    /\ pc' = "done"
    /\ \/ emitted' = IF HaveMessage THEN Append(emitted, PreviousMessage) ELSE emitted
       \/ HaveMessage /\ emitted' = emitted
    /\ UNCHANGED <<mbox, pos, current_offset, git_patch_mbox, in_headers, header_buf,
                   prev_message_start, prev_headers>>

Next ==
    \/ StartMessage
    \/ RefuseMessage
    \/ EndHeaders
    \/ HeaderLine
    \/ SkipLine
    \/ Finish

Spec == Init /\ [][Next]_vars

-----------------------------------------------------------------------------
(* A header block that belongs to one message: it begins at a From line    *)
(* and runs over the lines below it, neither into the body nor into the    *)
(* next message.                                                           *)
IsHeaderBlock(block) ==
    /\ block.lines # <<>>
    /\ block.lines[1] \in Starts(mbox)
    /\ \A n \in 2 .. Len(block.lines) :
           /\ block.lines[n] = block.lines[1] + n - 1
           /\ block.lines[n] \in DOMAIN mbox
           /\ block.lines[n] \notin Starts(mbox)
           /\ ~IsBlank(mbox[block.lines[n]])

(* What can end a header block: the blank line, the next message, the end  *)
(* of the file, or the retention limit.                                    *)
IsComplete(block) ==
    LET after == block.lines[1] + Len(block.lines)
    IN  \/ after = Len(mbox) + 1
        \/ after \in Starts(mbox)
        \/ after \in DOMAIN mbox /\ IsBlank(mbox[after])
        \/ block.bytes >= MaxHeaderRetain

NoStartBetween(i, j) == \A n \in Starts(mbox) : ~(i < n /\ n < j)

(* Every report carries the headers of its own message, whole unless the   *)
(* retention limit cut them, and no message is passed over: the hand-over  *)
(* between header_buf and prev_headers neither leaks a neighbour's lines   *)
(* nor drops a message without a blank line (parser/mbox.rs:293-317).      *)
HeadersAreOwn ==
    /\ \A k \in DOMAIN emitted :
           IsHeaderBlock(emitted[k].headers) /\ IsComplete(emitted[k].headers)
    /\ emitted # <<>> => NoStartBetween(0, emitted[1].headers.lines[1])
    /\ \A k \in 1 .. Len(emitted) - 1 :
           LET this == emitted[k].headers.lines[1]
               next == emitted[k + 1].headers.lines[1]
           IN  this < next /\ NoStartBetween(this, next)

(* The reports tile the file: each message begins where the one before it  *)
(* ended, and the message being read begins where the last report ended,   *)
(* so no byte after the first From line is lost or served twice.  The      *)
(* store seeks to exactly these ranges (parser/mbox.rs:297-307, 336).      *)
Tiling ==
    /\ \A k \in 1 .. Len(emitted) - 1 :
           emitted[k + 1].offset = emitted[k].offset + emitted[k].length
    /\ (pc # "done" /\ emitted # <<>>) =>
           prev_message_start =
               <<emitted[Len(emitted)].offset + emitted[Len(emitted)].length>>
-----------------------------------------------------------------------------
(* The reports, as the byte ranges they name. *)
SpansOf(reports) ==
    [k \in DOMAIN reports |-> [offset |-> reports[k].offset, length |-> reports[k].length]]

Stream == INSTANCE MessageStream WITH spans <- SpansOf(emitted)

(* Refinement: the reports of parse_headers_only are the messages of the   *)
(* file, each once, in order, with the bytes from its From line to the     *)
(* next one (parser/mbox.rs:281-307, 333-340).                             *)
DeliversTheMessages == Stream!Spec
=============================================================================
