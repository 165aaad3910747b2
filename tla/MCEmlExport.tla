------------------------------ MODULE MCEmlExport ------------------------------
(***************************************************************************)
(* An instance of EmlExport: single messages, multiparts of two parts, and *)
(* multiparts in multiparts, closed or not, with epilogues, parts without  *)
(* headers and boundaries that begin alike.                                *)
(***************************************************************************)
EXTENDS EmlExport

(* The body and the headers may end their lines differently. *)
MCHeaders(crlf) ==
    {<<ContentType(t, <<>>, crlf), Cte(v, crlf)>> : t \in {"text", "image"}, v \in {"8bit", "base64"}}
    \cup {<<Cte("8bit", crlf)>>, <<ContentType("text", <<>>, crlf)>>}

MCBodies(crlf) ==
    {<<Text(b, crlf)>> : b \in BOOLEAN}
    \cup {<<Text(FALSE, crlf), Blank(crlf), Text(TRUE, crlf)>>,
          <<FromLine(0, crlf), Text(TRUE, crlf), FromLine(2, crlf)>>,
          <<Text(TRUE, crlf), Blank(crlf), Blank(crlf)>>}

MCLeaves(crlf, body_crlf) ==
    {h \o <<Blank(crlf)>> \o b : h \in MCHeaders(crlf), b \in MCBodies(body_crlf)}

(* Parts inside a multipart, one of them without headers. *)
MCParts(crlf) ==
    {h \o <<Blank(crlf)>> \o b :
        h \in {<<Cte("8bit", crlf)>>, <<ContentType("image", <<>>, crlf), Cte("8bit", crlf)>>},
        b \in {<<Text(TRUE, crlf)>>, <<Text(FALSE, crlf), Blank(crlf), Text(TRUE, crlf)>>}}
    \cup {<<Blank(crlf), Text(FALSE, crlf), Blank(crlf), Text(TRUE, crlf)>>}

Multipart(boundary, parts, close, crlf) ==
    <<ContentType("multipart", boundary, crlf), Blank(crlf), Text(FALSE, crlf)>>
    \o FlattenSeq([i \in DOMAIN parts |-> <<Delimiter(boundary, FALSE, crlf)>> \o parts[i]])
    \o (IF close THEN <<Delimiter(boundary, TRUE, crlf), Text(FALSE, crlf)>> ELSE <<>>)

MCMultiparts(crlf) ==
    {Multipart(<<1>>, <<p, q>>, c, crlf) : p, q \in MCParts(crlf), c \in BOOLEAN}

MCNested(crlf) ==
    {Multipart(<<1>>, <<p, Multipart(b, <<q>>, c, crlf)>>, d, crlf) :
        p, q \in MCParts(crlf), b \in {<<2>>, <<1, 2>>}, c, d \in BOOLEAN}
    \cup {Multipart(<<1>>, <<Multipart(<<2>>, <<Multipart(<<3>>, <<p>>, TRUE, crlf)>>, c, crlf)>>, TRUE, crlf) :
             p \in MCParts(crlf), c \in BOOLEAN}

MCMessages ==
    MCLeaves(FALSE, FALSE) \cup MCLeaves(FALSE, TRUE) \cup MCLeaves(TRUE, TRUE)
    \cup MCMultiparts(FALSE) \cup MCMultiparts(TRUE)
    \cup MCNested(FALSE) \cup MCNested(TRUE)
    \cup {<<ContentType("multipart", <<>>, FALSE), Blank(FALSE), Text(TRUE, FALSE)>>}
=============================================================================
