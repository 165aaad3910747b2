--------------------------- MODULE MCMailboxWriter ---------------------------
(***************************************************************************)
(* An instance of MailboxWriter: every pair of ten small mailboxes, merged *)
(* in every way and exported in part, by a process that may fail anywhere  *)
(* and be started again.                                                   *)
(***************************************************************************)
EXTENDS MailboxWriter

Sep == LineRecord("separator")
Patch == LineRecord("gitpatch")
Odd == LineRecord("malformed")
Blank == LineRecord("blank")
Text == LineRecord("text")
Id(i) == [Text EXCEPT !.id = i]
Cut(line) == [line EXCEPT !.nl = FALSE]
Marked(line) == [line EXCEPT !.bom = TRUE]

MCMailboxes == {
    <<>>,
    <<Sep, Id("i"), Blank, Text>>,
    <<Sep, Id("i"), Blank, Cut(Text)>>,
    <<Text, Sep, Id("j"), Sep, Id("i")>>,
    <<Odd, Id("j"), Sep, Id("i")>>,
    <<Patch, Id("i"), Patch, Id("j"), Blank, Cut(Blank)>>,
    <<Sep, Id("j"), Blank, Patch>>,
    <<Marked(Sep), Id("i"), Cut(Sep)>>,
    <<Sep, Blank, Odd, Id("j"), Sep, Id("i"), Id("j")>>,
    <<Sep, Sep, Text>>}

(* Mailboxes that are told apart by their directories, or are not: Apple   *)
(* Mail packages, group directories, paths of different depth, and two     *)
(* that differ too far up.                                                 *)
Paths ==
    "apple1" :> <<"u", "Work", "Inbox.mbox", "mbox">>
    @@ "apple2" :> <<"u", "Home", "Inbox.mbox", "mbox">>
    @@ "apple3" :> <<"v", "Home", "Inbox.mbox", "mbox">>
    @@ "plain" :> <<"Inbox.mbox">>
    @@ "short" :> <<"Home", "Inbox.mbox">>
    @@ "group1" :> <<"g@", "topics">> @@ "group2" :> <<"g@", "temas">>
    @@ "bird" :> <<"Home", "mbox">>
    @@ "deep1" :> <<"1", "c", "Work", "Inbox.mbox", "x">>
    @@ "deep2" :> <<"2", "c", "Work", "Inbox.mbox", "x">>
    @@ "tab" :> <<"Notes\t">> @@ "blank" :> <<" Notes ">> @@ "notes" :> <<"Home", "Notes">>
    @@ "a" :> <<"a">> @@ "b" :> <<"b">> @@ "out" :> <<"out">> @@ "tmp" :> <<"tmp">>
    @@ "other" :> <<"other">>

MCNames == DOMAIN Paths

(* Characters that a header does not take, and white space around a name.  *)
Components == UNION {Range(Paths[n]) : n \in DOMAIN Paths}

MCPrintable == [c \in Components |-> IF c = "Notes\t" THEN "Notes" ELSE c]

MCTrimStart == [c \in Components |-> IF c = " Notes " THEN "Notes " ELSE c]

MCTrimEnd == [c \in Components \cup {"Notes "} |-> IF c = "Notes " THEN "Notes" ELSE c]

AllNamed == <<"apple1", "apple2", "apple3", "plain", "short", "group1", "group2", "bird",
              "deep1", "deep2", "tab", "blank", "notes">>

NamedMailboxes == Range(AllNamed)

MCTempOf == [n \in MCNames |-> "tmp"]

MCDisks ==
    {("a" :> a @@ "b" :> b @@ "out" :> <<Text>>) : a, b \in MCMailboxes}
    \cup {[n \in NamedMailboxes |-> <<Sep, Text>>]}

MergeOf(dedup, label) ==
    [op |-> "merge", inputs |-> <<"a", "b">>, output |-> "out",
     dedup |-> dedup, label |-> label, chosen |-> {}]

ExportOf(chosen) ==
    [op |-> "export", inputs |-> <<"a">>, output |-> "out",
     dedup |-> FALSE, label |-> FALSE, chosen |-> chosen]

LabelledMerge(inputs) == [MergeOf(FALSE, TRUE) EXCEPT !.inputs = inputs]

MCTasks ==
    {MergeOf(d, l) : d, l \in BOOLEAN} \cup {ExportOf({2}), ExportOf({1, 2})}
    \cup {LabelledMerge(inputs) : inputs \in
              {AllNamed, <<"apple1", "apple2", "plain">>, <<"apple2", "apple3", "short">>,
               <<"group1", "bird", "group2">>, <<"deep2", "apple1", "deep1">>, <<"tab", "notes">>, <<"blank", "tab">>}}

SanitizedTasks == {LabelledMerge(<<"tab", "notes">>), LabelledMerge(<<"apple1", "apple2">>)}

(* Two processes with one temporary name: an export while a merge runs.    *)
RaceDisks ==
    {("a" :> <<Sep, Id("i"), Blank>> @@ "b" :> <<Sep, Id("j"), Text>> @@ "out" :> <<Text>>)}

RaceTasks == {MergeOf(TRUE, FALSE), [ExportOf({1}) EXCEPT !.output = "other"]}
=============================================================================
