------------------------------ MODULE MboxLines ------------------------------
(***************************************************************************)
(* The lines of an mbox file, as parser/mbox.rs sees them.                 *)
(*                                                                         *)
(* The parser never looks inside a line except to classify it, so a line   *)
(* is its class and its length in bytes.  parse classifies the whole line; *)
(* parse_headers_only classifies the first MAX_LINE_RETAIN bytes of it,    *)
(* which may be of another class: a line has one class for each, "whole"   *)
(* and "kind".  A class is the joint answer of classify_from_line,         *)
(* starts_with_from and is_blank_line:                                     *)
(*   "separator"  From <sender> <asctime date>, or a bare "From "          *)
(*   "gitpatch"   the same shape with git format-patch's magic date        *)
(*   "malformed"  starts with "From " without the shape of a separator     *)
(*   "blank"      only spaces, tabs, CR and LF                             *)
(*   "text"       anything else                                            *)
(***************************************************************************)
EXTENDS Naturals, Sequences

Kinds == {"separator", "gitpatch", "malformed", "blank", "text"}

Line == [kind : Kinds, whole : Kinds, size : Nat \ {0}]

(* The file as a scan classifies it that retains its lines whole. *)
Whole(file) == [i \in DOMAIN file |-> [file[i] EXCEPT !.kind = file[i].whole]]

StartsWithFrom(line) == line.kind \in {"separator", "gitpatch", "malformed"}

IsBlank(line) == line.kind = "blank"

(* Whether the mailbox is a git patch series, once the line at index i has *)
(* been read: only a magic date on the first line of the file says so.     *)
PatchSeries(file, flag, i) == flag \/ (i = 1 /\ file[i].kind = "gitpatch")

(* Whether the line at index i starts a message.  "series" is PatchSeries  *)
(* after that line.  The first line of the file is taken on its prefix     *)
(* alone.                                                                  *)
IsFromLine(file, series, i) ==
    \/ file[i].kind = "separator"
    \/ file[i].kind = "gitpatch" /\ series
    \/ i = 1 /\ StartsWithFrom(file[i])

(* What a mailbox means, independently of any scan: the indices of the     *)
(* lines at which its messages start.                                      *)
Starts(file) ==
    LET series == file /= <<>> /\ file[1].kind = "gitpatch"
    IN  {i \in DOMAIN file : IsFromLine(file, series, i)}
=============================================================================
