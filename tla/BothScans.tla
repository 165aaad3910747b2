------------------------------ MODULE BothScans ------------------------------
(***************************************************************************)
(* The two scans of parser/mbox.rs over the same mailbox: first the header *)
(* scan, then the full scan.  They share nothing but the file, so nothing  *)
(* is lost by running one after the other, and what both deliver can be    *)
(* compared with one reference, MessageStream.                             *)
(***************************************************************************)
EXTENDS HeaderScan

CONSTANTS MaxMessageSize  \* MAX_MESSAGE_SIZE: bytes the full scan keeps of one message

ASSUME MessageSizeAssumption == MaxMessageSize \in Nat \ {0}

VARIABLES fpos, foffset, fgit, fstart, fbuf, delivered, fpc

fvars == <<fpos, foffset, fgit, fstart, fbuf, delivered, fpc>>

(* The file as the full scan reads it, which retains whole lines. *)
whole == Whole(mbox)

F == INSTANCE FullScan WITH
        mbox <- whole, Mailboxes <- Seq(Line),
        pos <- fpos, current_offset <- foffset, git_patch_mbox <- fgit,
        message_start <- fstart, message_buf <- fbuf, pc <- fpc

BothInit == Init /\ F!Init

HeaderStep == Next /\ UNCHANGED fvars

FullStep ==
    /\ pc # "scanning"
    /\ UNCHANGED vars
    /\ F!Next

BothNext == HeaderStep \/ FullStep

(* Each scan is a loop on one thread that nothing blocks. *)
BothSpec == /\ BothInit
            /\ [][BothNext]_<<vars, fvars>>
            /\ WF_<<vars, fvars>>(HeaderStep)
            /\ WF_<<vars, fvars>>(FullStep)

-----------------------------------------------------------------------------
(* The two scans' variables have their types. *)
ScanTypes == TypeOK /\ F!TypeOK

(* The lines before the first From line, which the full scan delivers as   *)
(* one more message, without an envelope, if it keeps any of them.         *)
Preamble == {i \in DOMAIN whole : \A n \in Starts(whole) : i < n}

HasPreamble == \E i \in Preamble : whole[i].size <= MaxMessageSize

Extra == IF HasPreamble THEN 1 ELSE 0

(* No line is so long that the two scans disagree on what starts there. *)
SameStarts == Starts(mbox) = Starts(whole)

(* Where the file starts with a From line the two scans cut it alike: the  *)
(* full scan's n-th message is the n-th of the file, consists of lines of  *)
(* that message in their order, and has all its bytes unless they exceed   *)
(* MaxMessageSize; and, unless a line is cut in the middle of what makes   *)
(* it a From line or not, it starts where the n-th report says and has the *)
(* bytes the report counts.  Lines before the first From line are one more *)
(* message for the full scan, unless each alone exceeds the limit, and     *)
(* none for the header scan (parser/mbox.rs:144-177 and 281-307).          *)
IsNthMessage(message, k) ==
    LET raw   == message.raw
        first == IF k <= Extra THEN 1 ELSE Stream!NthStart(whole, k - Extra)
        span  == Stream!Span(whole, first)
    IN  /\ message.offset = span.offset
        /\ span.length <= MaxMessageSize => raw.bytes = span.length
        /\ \A n \in DOMAIN raw.lines :
               raw.lines[n] \in first .. Stream!NextStart(whole, first) - 1
        /\ \A n \in 1 .. Len(raw.lines) - 1 : raw.lines[n] < raw.lines[n + 1]

IsAsReported(message, report) ==
    /\ message.offset = report.offset
    /\ report.length <= MaxMessageSize => message.raw.bytes = report.length

ScansAgree ==
    /\ \A k \in DOMAIN delivered : IsNthMessage(delivered[k], k)
    /\ SameStarts => \A k \in DOMAIN emitted :
                         k + Extra \in DOMAIN delivered
                             => IsAsReported(delivered[k + Extra], emitted[k])

(* CHANGELOG.md:86 says of the cap on a retained line that "the full       *)
(* physical byte count is still consumed, so message offsets stay exact":  *)
(* every report is of a message of the file.  A From line that the cap     *)
(* cuts off, or cuts short to one, moves the messages of the index         *)
(* (parser/mbox.rs:261-279).                                               *)
OffsetsStayExact ==
    \A k \in DOMAIN emitted :
        \E i \in Starts(whole) : emitted[k].offset = Stream!Bytes(whole, 1, i)

(* Liveness: a scan ends, at the end of the file or where its callback     *)
(* stopped it.                                                             *)
ScansEnd == <>(pc # "scanning" /\ fpc # "scanning")
=============================================================================
