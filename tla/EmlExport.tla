------------------------------- MODULE EmlExport -------------------------------
(***************************************************************************)
(* What export_eml_opts does to the bytes of one message (export/eml.rs):  *)
(* it strips the From line, undoes the mboxrd quoting, and on demand walks *)
(* the MIME tree and re-encodes the 8-bit text parts as quoted-printable.  *)
(*                                                                         *)
(* A message is a sequence of lines.  A line is a record: its kind, its    *)
(* line end, and what its kind needs.  An encoded line holds the line it   *)
(* decodes to.  A boundary is a sequence, so that one can begin another;   *)
(* <<>> is a multipart header without a boundary.                          *)
(***************************************************************************)
EXTENDS Integers, Sequences, FiniteSets, SequencesExt

CONSTANTS
    Messages,       \* the messages, as they were before they were archived
    MaxDepth        \* MAX_QP_MULTIPART_DEPTH

ASSUME EmlExportAssumption ==
    /\ MaxDepth \in Nat \ {0}
    /\ \A m \in Messages : DOMAIN m = 1 .. Len(m)

Blank(crlf) == [kind |-> "blank", crlf |-> crlf]

ContentType(type, boundary, crlf) ==
    [kind |-> "ctype", type |-> type, boundary |-> boundary, crlf |-> crlf]

Cte(value, crlf) == [kind |-> "cte", value |-> value, crlf |-> crlf]

Text(bit8, crlf) == [kind |-> "text", bit8 |-> bit8, crlf |-> crlf]

(* A line of the form >...>From, with that many ">". *)
FromLine(gt, crlf) == [kind |-> "from", gt |-> gt, crlf |-> crlf]

Delimiter(boundary, close, crlf) ==
    [kind |-> "delim", boundary |-> boundary, close |-> close, crlf |-> crlf]

Separator == [kind |-> "separator", crlf |-> FALSE]

IsBlank(line) == line.kind = "blank"

Is8bit(line) == line.kind = "text" /\ line.bit8

VARIABLES
    message,    \* the message that is exported
    qp,         \* whether to re-encode it
    stage,      \* "mailbox", "raw", "stripped", "unescaped" or "written"
    bytes       \* the message at that stage

vars == <<message, qp, stage, bytes>>

Init ==
    /\ message \in Messages /\ qp \in BOOLEAN
    /\ stage = "mailbox" /\ bytes = <<>>

Stage(from, to) == stage = from /\ stage' = to /\ UNCHANGED <<message, qp>>

(* What the mailbox holds of the message: mboxrd quoting, the separator    *)
(* before it and a blank line behind it.                                   *)
Archived(lines) ==
    <<Separator>>
    \o [i \in DOMAIN lines |-> IF lines[i].kind = "from" THEN [lines[i] EXCEPT !.gt = @ + 1] ELSE lines[i]]
    \o <<Blank(Last(lines).crlf)>>

GetRawMessage ==
    /\ Stage("mailbox", "raw")
    /\ bytes' = Archived(message)

SkipFromLine ==
    /\ Stage("raw", "stripped")
    /\ bytes' = IF Head(bytes).kind = "separator" THEN Tail(bytes) ELSE bytes

MutUnquoted(line) ==
    IF line.kind = "from" THEN [line EXCEPT !.gt = 0] ELSE line

(* One ">" less. *)
Unquoted(line) ==
    IF line.kind = "from" /\ line.gt > 0 THEN [line EXCEPT !.gt = @ - 1] ELSE line

(* A blank last line that the loop takes away. *)
Trimmable(lines) ==
    /\ Len(lines) >= 2 /\ IsBlank(Last(lines))
    /\ Last(lines).crlf => lines[Len(lines) - 1].crlf

RECURSIVE Trimmed(_)
Trimmed(lines) == IF Trimmable(lines) THEN Trimmed(Front(lines)) ELSE lines

UnescapeMboxrd ==
    /\ Stage("stripped", "unescaped")
    /\ bytes' = Trimmed([i \in DOMAIN bytes |-> Unquoted(bytes[i])])

-----------------------------------------------------------------------------
(* Quoted-printable. *)

Least(S) == CHOOSE i \in S : \A j \in S : i <= j

(* find_header_body_split: the blank line that ends the headers.  It has   *)
(* to follow a line, and CRLF line ends are looked for in the whole        *)
(* message first; 0 if there is none.                                      *)
HeadersEnd(lines) ==
    LET blank == {i \in 2 .. Len(lines) : IsBlank(lines[i])}
        crlf == {i \in blank : lines[i].crlf /\ lines[i - 1].crlf}
        lf == {i \in blank : ~lines[i].crlf}
    IN  IF crlf # {} THEN Least(crlf) ELSE IF lf # {} THEN Least(lf) ELSE 0

(* extract_header_value: the first header of that kind. *)
HeaderOf(headers, kind) == SelectSeq(headers, LAMBDA line : line.kind = kind)

IsMultipart(headers) ==
    LET ctype == HeaderOf(headers, "ctype") IN ctype # <<>> /\ ctype[1].type = "multipart"

(* extract_boundary *)
Boundary(headers) == HeaderOf(headers, "ctype")[1].boundary

IsText(headers) ==
    LET ctype == HeaderOf(headers, "ctype") IN ctype = <<>> \/ ctype[1].type = "text"

AlreadySafe(headers) ==
    LET cte == HeaderOf(headers, "cte") IN cte # <<>> /\ cte[1].value \in {"quoted-printable", "base64"}

(* quoted_printable::encode.  How it writes line ends is left open: the    *)
(* properties compare decoded lines, without the blank ones at the end.    *)
Encoded(lines) == [i \in DOMAIN lines |-> [kind |-> "encoded", of |-> lines[i], crlf |-> TRUE]]

MutLeafPart(headers, body, nested) ==
    IF IsText(headers) /\ ~AlreadySafe(headers) /\ (\E i \in DOMAIN body : Is8bit(body[i]))
    THEN headers \o <<Cte("quoted-printable", TRUE), Blank(TRUE)>> \o Encoded(body)
         \o (IF nested /\ ~IsBlank(Last(body)) THEN <<Blank(TRUE)>> ELSE <<>>)
    ELSE headers \o <<Blank(TRUE)>> \o body

(* reencode_leaf_part.  The line end before a boundary is not part of the  *)
(* part: an encoded one gets another, which leaves a blank line.           *)
LeafPart(headers, body, nested) ==
    IF IsText(headers) /\ ~AlreadySafe(headers) /\ (\E i \in DOMAIN body : Is8bit(body[i]))
    THEN SelectSeq(headers, LAMBDA line : line.kind # "cte")
         \o <<Cte("quoted-printable", TRUE), Blank(TRUE)>> \o Encoded(body)
         \o (IF nested /\ ~IsBlank(Last(body)) THEN <<Blank(TRUE)>> ELSE <<>>)
    ELSE headers \o <<Blank(TRUE)>> \o body

(* A line that begins like a delimiter of the boundary. *)
Delimits(line, boundary) == line.kind = "delim" /\ IsPrefix(boundary, line.boundary)

Closes(line, boundary) == line.kind = "delim" /\ line.boundary = boundary /\ line.close

MutTooDeep(depth) == depth + 2 >= MaxDepth

(* Parts below the cap are kept. *)
TooDeep(depth) == depth + 1 >= MaxDepth

RECURSIVE Reencode(_, _)

(* reencode_multipart_body: every segment between two delimiters is a part *)
(* or, after a closing one, epilogue; what follows the last is kept.       *)
MultipartBody(body, boundary, depth) ==
    LET at == {i \in DOMAIN body : Delimits(body[i], boundary)}
        After(i) == {j \in at : j > i}
        Segment(i) ==
            LET lines == SubSeq(body, i + 1, IF After(i) = {} THEN Len(body) ELSE Least(After(i)) - 1)
            IN  <<body[i]>> \o IF After(i) = {} \/ Closes(body[i], boundary) \/ TooDeep(depth)
                               THEN lines ELSE Reencode(lines, depth + 1)
    IN  IF at = {} THEN body
        ELSE SubSeq(body, 1, Least(at) - 1)
             \o FlattenSeq([i \in DOMAIN body |-> IF i \in at THEN Segment(i) ELSE <<>>])

(* reencode_message_as_qp_depth *)
Reencode(lines, depth) ==
    LET end == HeadersEnd(lines)
        headers == SubSeq(lines, 1, end - 1)
        body == SubSeq(lines, end + 1, Len(lines))
    IN  CASE end = 0 -> lines
          [] end # 0 /\ IsMultipart(headers) ->
                 IF Boundary(headers) = <<>> THEN lines
                 ELSE headers \o <<Blank(TRUE)>> \o MultipartBody(body, Boundary(headers), depth)
          [] OTHER -> LeafPart(headers, body, depth > 0)

WriteEml ==
    /\ Stage("unescaped", "written")
    /\ bytes' = IF qp THEN Reencode(bytes, 0) ELSE bytes

Next == GetRawMessage \/ SkipFromLine \/ UnescapeMboxrd \/ WriteEml

Spec == Init /\ [][Next]_vars

-----------------------------------------------------------------------------
(* How a mail program reads a message: the headers end at the first blank  *)
(* line, a part at a line that is its delimiter.                           *)

RECURSIVE Parse(_)
Parse(lines) ==
    LET blank == {i \in DOMAIN lines : IsBlank(lines[i])}
        end == IF blank = {} THEN Len(lines) + 1 ELSE Least(blank)
        headers == SubSeq(lines, 1, end - 1)
        body == SubSeq(lines, end + 1, Len(lines))
        at == {i \in DOMAIN body : body[i].kind = "delim" /\ body[i].boundary = Boundary(headers)}
        closed == {i \in at : body[i].close}
        last == IF closed = {} THEN Len(body) + 1 ELSE Least(closed)
        starts == {i \in at : i < last}
        EndOf(i) == IF \E j \in at : j > i THEN Least({j \in at : j > i}) ELSE Len(body) + 1
    IN  IF IsMultipart(headers) /\ Boundary(headers) # <<>>
        THEN [leaf |-> FALSE, headers |-> headers,
              parts |-> {<<Cardinality({j \in starts : j < i}), Parse(SubSeq(body, i + 1, EndOf(i) - 1))>>
                             : i \in starts}]
        ELSE [leaf |-> TRUE, headers |-> headers, body |-> body]

(* The text of a leaf, decoded, with CRLF forgotten and without the blank  *)
(* lines at its end.                                                       *)
RECURSIVE WithoutBlankEnd(_)
WithoutBlankEnd(lines) ==
    IF lines # <<>> /\ IsBlank(Last(lines)) THEN WithoutBlankEnd(Front(lines)) ELSE lines

Decoded(headers, lines) ==
    LET Plain(line) == IF line.kind = "encoded" /\ AlreadySafe(headers) THEN line.of ELSE line
    IN  WithoutBlankEnd([i \in DOMAIN lines |-> [Plain(lines[i]) EXCEPT !.crlf = TRUE]])

NoCte(headers) == SelectSeq(headers, LAMBDA line : line.kind # "cte")

RECURSIVE Meaning(_)
Meaning(tree) ==
    IF tree.leaf THEN <<NoCte(tree.headers), Decoded(tree.headers, tree.body)>>
    ELSE <<NoCte(tree.headers), {<<p[1], Meaning(p[2])>> : p \in tree.parts}>>

(* The leaves that at most "depth" multiparts enclose. *)
RECURSIVE LeavesOf(_, _)
LeavesOf(tree, depth) ==
    IF tree.leaf THEN {tree}
    ELSE IF depth = 0 THEN {} ELSE UNION {LeavesOf(p[2], depth - 1) : p \in tree.parts}

(* What the re-encoder relies on. *)
LinesOf(lines, kind) == {i \in DOMAIN lines : lines[i].kind = kind}

UniformLineEnds == \A i, j \in DOMAIN message : message[i].crlf = message[j].crlf

PartsHaveHeaders ==
    \A i \in LinesOf(message, "delim") :
        ~message[i].close => i < Len(message) /\ ~IsBlank(message[i + 1])

EveryMultipartCloses ==
    \A i \in LinesOf(message, "ctype") :
        message[i].boundary # <<>> =>
            \E j \in LinesOf(message, "delim") : Closes(message[j], message[i].boundary)

-----------------------------------------------------------------------------
(* Without re-encoding, the eml file is the message that was archived,     *)
(* lines that look like separators included; only blank lines at its end   *)
(* are lost (export/eml.rs:101-153).                                       *)
EmlIsTheMessage ==
    stage = "unescaped" \/ (stage = "written" /\ ~qp) =>
        /\ IsPrefix(bytes, message)
        /\ \A i \in Len(bytes) + 1 .. Len(message) : IsBlank(message[i])

(* Re-encoding changes the encoding and nothing else: a mail program reads *)
(* the same tree of parts, the same headers and the same text, nested      *)
(* multiparts, epilogues and unclosed multiparts included                  *)
(* (export/eml.rs:171-345).                                                *)
QpKeepsTheContent ==
    stage = "written" /\ UniformLineEnds /\ PartsHaveHeaders =>
        Meaning(Parse(bytes)) = Meaning(Parse(message))

(* After re-encoding no text part holds an 8-bit line, down to the cap on  *)
(* the nesting, but for parts that claim to be encoded already             *)
(* (export/eml.rs:22-28).                                                  *)
QpIsSevenBit ==
    stage = "written" /\ qp
    /\ UniformLineEnds /\ PartsHaveHeaders /\ EveryMultipartCloses =>
        \A leaf \in LeavesOf(Parse(bytes), MaxDepth - 1) :
            IsText(leaf.headers) /\ ~AlreadySafe(leaf.headers)
            => \A i \in DOMAIN leaf.body : ~Is8bit(leaf.body[i])
=============================================================================
