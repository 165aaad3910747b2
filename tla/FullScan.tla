------------------------------ MODULE FullScan -------------------------------
(***************************************************************************)
(* MboxParser::parse (parser/mbox.rs): the pass that hands over the raw    *)
(* bytes of every message instead of its headers.  It keeps its own copy   *)
(* of the separator rules of parse_headers_only, and it caps the memory of *)
(* one message at MaxMessageSize bytes.                                    *)
(*                                                                         *)
(* The bytes of a message are the sequence of the indices of the lines     *)
(* that were copied into message_buf.  Left out: progress and warnings.    *)
(***************************************************************************)
EXTENDS MboxLines

CONSTANTS
    Mailboxes,      \* the files a scan may be given
    MaxMessageSize  \* MAX_MESSAGE_SIZE: bytes kept of one message

VARIABLES
    mbox,            \* the file
    pos,             \* lines read so far; first_line is pos = 0
    current_offset,  \* bytes read so far
    git_patch_mbox,  \* the file is a git patch series
    message_start,   \* offset of the message in message_buf
    message_buf,     \* the message being read
    delivered,       \* what message_callback was given and accepted
    pc               \* "scanning", "done" or "aborted"

vars == <<mbox, pos, current_offset, git_patch_mbox, message_start, message_buf,
          delivered, pc>>

Buffer == [lines : Seq(Nat), bytes : Nat]

TypeOK ==
    /\ mbox \in Seq(Line)
    /\ pos \in 0 .. Len(mbox)
    /\ current_offset \in Nat
    /\ git_patch_mbox \in BOOLEAN
    /\ message_start \in Nat
    /\ message_buf \in Buffer
    /\ delivered \in Seq([offset : Nat, raw : Buffer])
    /\ pc \in {"scanning", "done", "aborted"}

-----------------------------------------------------------------------------
EmptyBuffer == [lines |-> <<>>, bytes |-> 0]

Copy(buf, i) == [lines |-> Append(buf.lines, i), bytes |-> buf.bytes + mbox[i].size]

MutStopsOneEarly(buf, i) ==
    IF buf.bytes + mbox[i].size < MaxMessageSize THEN Copy(buf, i) ELSE buf

(* A line that would take the message over the limit is not copied. *)
CopyIfFits(buf, i) ==
    IF buf.bytes + mbox[i].size <= MaxMessageSize THEN Copy(buf, i) ELSE buf

HaveMessage == message_buf.lines # <<>>

BufferedMessage == [offset |-> message_start, raw |-> message_buf]

Init ==
    /\ mbox \in Mailboxes
    /\ pos = 0
    /\ current_offset = 0
    /\ git_patch_mbox = FALSE
    /\ message_start = 0
    /\ message_buf = EmptyBuffer
    /\ delivered = <<>>
    /\ pc = "scanning"

(* What every iteration of the loop does with the line it read. *)
Advance ==
    /\ pc = "scanning"
    /\ pos < Len(mbox)
    /\ pos' = pos + 1
    /\ current_offset' = current_offset + mbox[pos + 1].size
    /\ git_patch_mbox' = PatchSeries(mbox, git_patch_mbox, pos + 1)
    /\ UNCHANGED <<mbox, pc>>

AtFromLine == IsFromLine(mbox, PatchSeries(mbox, git_patch_mbox, pos + 1), pos + 1)

(* A From line, whether or not a blank line precedes it: what is in the    *)
(* buffer is delivered.  Lines that precede the first From line of the     *)
(* file are in the buffer too.                                             *)
StartMessage ==
    /\ Advance
    /\ AtFromLine
    /\ delivered' = IF HaveMessage THEN Append(delivered, BufferedMessage) ELSE delivered
    /\ message_start' = current_offset
    /\ message_buf' = Copy(EmptyBuffer, pos + 1)

RefuseMessage ==
    /\ pc = "scanning"
    /\ pos < Len(mbox)
    /\ AtFromLine
    /\ HaveMessage
    /\ pc' = "aborted"
    /\ UNCHANGED <<mbox, pos, current_offset, git_patch_mbox, message_start, message_buf,
                   delivered>>

ContentLine ==
    /\ Advance
    /\ ~AtFromLine
    /\ message_buf' = CopyIfFits(message_buf, pos + 1)
    /\ UNCHANGED <<message_start, delivered>>

Finish ==
    /\ pc = "scanning"
    /\ pos = Len(mbox)
    /\ pc' = "done"
    /\ \/ delivered' = IF HaveMessage THEN Append(delivered, BufferedMessage) ELSE delivered
       \/ HaveMessage /\ delivered' = delivered
    /\ UNCHANGED <<mbox, pos, current_offset, git_patch_mbox, message_start, message_buf>>

Next ==
    \/ StartMessage
    \/ RefuseMessage
    \/ ContentLine
    \/ Finish

Spec == Init /\ [][Next]_vars
=============================================================================
