---------------------------- MODULE MessageStream ----------------------------
(***************************************************************************)
(* What a scan of a mailbox promises, whatever its loop looks like: it     *)
(* delivers the messages of the file, in order, each exactly once and each *)
(* with the bytes from its From line to the next, and it may stop at any   *)
(* point.  MboxParser::parse_headers_only and MboxParser::parse            *)
(* (parser/mbox.rs) are two implementations of it.                         *)
(***************************************************************************)
EXTENDS MboxLines, FiniteSetsExt

VARIABLES mbox, spans

(* The index just after the message that starts at index i. *)
NextStart(file, i) == Min({j \in Starts(file) : j > i} \cup {Len(file) + 1})

(* The bytes of the lines from index i up to, not including, index j. *)
Bytes(file, i, j) == MapThenSumSet(LAMBDA k : file[k].size, i .. j - 1)

(* The message that starts at index i, as a range of bytes. *)
Span(file, i) == [offset |-> Bytes(file, 1, i),
                  length |-> Bytes(file, i, NextStart(file, i))]

(* The index at which the n-th message starts. *)
NthStart(file, n) ==
    CHOOSE i \in Starts(file) : Cardinality({j \in Starts(file) : j <= i}) = n

Init == spans = <<>>

Deliver ==
    /\ Len(spans) < Cardinality(Starts(mbox))
    /\ spans' = Append(spans, Span(mbox, NthStart(mbox, Len(spans) + 1)))
    /\ UNCHANGED mbox

Spec == Init /\ [][Deliver]_<<mbox, spans>>
=============================================================================
