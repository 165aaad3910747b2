------------------------------- MODULE MCSearch -------------------------------
(***************************************************************************)
(* An instance of Search.  Needle x is in the subject of 1, the body of 2, *)
(* the subject of 3, whose body cannot be read, and a file name of 4; y is *)
(* in other places of the same messages.  The dates lie on both sides of   *)
(* the ends of months, of a leap February and of a year.                   *)
(***************************************************************************)
EXTENDS Search

CONSTANT MaxTerms, MaxFilters

MCHas == <<
    [f \in MetadataFields |-> IF f = "Subject" THEN {"x"} ELSE IF f = "From" THEN {"y"} ELSE {}],
    [f \in MetadataFields |-> IF f = "Cc" THEN {"y"} ELSE {}],
    [f \in MetadataFields |-> IF f = "Subject" THEN {"x", "y"} ELSE {}],
    [f \in MetadataFields |-> IF f \in {"To", "Label"} THEN {"y"} ELSE {}]>>

MCBodyHas == <<{"y"}, {"x"}, {"x"}, {}>>

MCAttachments == <<{}, {[has |-> {"y"}, is |-> {"y"}]}, {[has |-> {"x"}, is |-> {}]},
                   {[has |-> {"x", "y"}, is |-> {"x"}]}>>

MCDateOf == <<<<2023, 12, 31>>, <<2024, 1, 1>>, <<2024, 2, 29>>, <<2024, 12, 1>>>>

MCLengthOf == <<2, 3, 4, 5>>

TermOf(field, needle, exact, negated) ==
    [kind |-> "term", field |-> field, needle |-> needle, exact |-> exact, negated |-> negated]

Or == [kind |-> "or"]

HasOf(value, negated) == [kind |-> "has", value |-> value, negated |-> negated]

DateToken1(op, when) == [kind |-> "date", op |-> op, when |-> when]

RangeOf(when, to) == [kind |-> "date", op |-> "range", when |-> when, to |-> to]

SizeOf(greater, number, unit) ==
    [kind |-> "size", greater |-> greater, number |-> number, unit |-> unit]

MCTerms ==
    {TermOf("All", "x", FALSE, n) : n \in BOOLEAN} \cup {TermOf("All", "y", FALSE, FALSE)}
    \cup {TermOf(f, "y", FALSE, n) : f \in {"Body", "Subject"}, n \in BOOLEAN}
    \cup {TermOf("Filename", "y", e, FALSE) : e \in BOOLEAN}
    \cup {TermOf("Filename", "x", TRUE, TRUE)}

(* Terms and OR in every order, and a has: among them. *)
TermQueries ==
    UNION {[1 .. n -> MCTerms \cup {Or, HasOf("attachment", FALSE)}] : n \in 0 .. MaxTerms}

Whens == {<<2023>>, <<2024>>, <<2023, 12>>, <<2024, 2>>, <<2024, 13>>, <<2024, 1, 1>>, <<2023, 2, 29>>}

MCFilters ==
    {DateToken1(op, w) : op \in {"date", "before", "after"}, w \in Whens}
    \cup {RangeOf(w, v) : w, v \in Whens}
    \cup {SizeOf(g, n, u) : g \in BOOLEAN, n \in {1, 2, 9}, u \in {1, 2}}
    \cup {HasOf(v, n) : v \in {"attachment", "no-attachment", "other"}, n \in BOOLEAN}

FilterQueries == UNION {[1 .. n -> MCFilters] : n \in 1 .. MaxFilters}

MCQueries == TermQueries \cup FilterQueries
                \cup {<<f, t>> : f \in MCFilters, t \in MCTerms}
==============================================================================
