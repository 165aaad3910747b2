------------------------------ MODULE MCScans --------------------------------
(***************************************************************************)
(* An instance of BothScans: every mailbox of at most MaxLines lines, or   *)
(* of at most MaxCutLines if some are classified differently when cut.  A  *)
(* "text" line comes in two lengths, the longer one above MaxLineRetain,   *)
(* so that both retention limits are met inside a header block of three    *)
(* lines, and above MaxMessageSize, so that the full scan drops it alone   *)
(* and drops others inside a message of three.  Two lines of the same      *)
(* length are From lines only when cut and only when whole.                *)
(***************************************************************************)
EXTENDS BothScans

CONSTANTS MaxLines, MaxCutLines

ASSUME MCScansAssumption == MaxLines \in Nat /\ MaxCutLines \in Nat

LineOf(k, n) == [kind |-> k, whole |-> k, size |-> n]

CutLine(k, w) == [kind |-> k, whole |-> w, size |-> 7]

PlainLines == {LineOf("separator", 2), LineOf("gitpatch", 3), LineOf("malformed", 1),
               LineOf("blank", 1), LineOf("text", 2), LineOf("text", 7)}

CutLines == {CutLine("separator", "malformed"), CutLine("malformed", "separator")}

FilesOf(lines, most) == UNION {[1 .. n -> lines] : n \in 0 .. most}

MCMailboxes == FilesOf(PlainLines, MaxLines) \cup FilesOf(PlainLines \cup CutLines, MaxCutLines)
=============================================================================
