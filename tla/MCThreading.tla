---------------------------- MODULE MCThreading ------------------------------
(***************************************************************************)
(* Instances of Threading.  LinkCases vary what the messages say about     *)
(* each other: every id, every reference and every In-Reply-To, among      *)
(* them loops, self-references, repeated and missing ids.  LongCases have  *)
(* two messages with longer chains.  OrderCases vary topics and dates.     *)
(***************************************************************************)
EXTENDS Threading, TLC

CONSTANTS a, b, c

MCNames == {a, b, c}

MCTopics == {"", "hello", "thrid"}

Optional(S) == {<<>>} \cup {<<n>> : n \in S}

Message(id, references, in_reply_to, topic, date) ==
    [id |-> id, references |-> references, in_reply_to |-> in_reply_to,
     topic |-> topic, date |-> date]

AnyMessage(names, longest, topics, dates) ==
    {Message(id, references, in_reply_to, topic, date) :
        id \in Optional(names), references \in UNION {[1 .. n -> names] : n \in 0 .. longest},
        in_reply_to \in Optional(names), topic \in topics, date \in dates}

LinkCases == [1 .. 3 -> AnyMessage({a, b}, 1, {"hello"}, {1})]

LongCases == [1 .. 2 -> AnyMessage(MCNames, 2, {"hello"}, {1})]

OrderCases ==
    {list \in [1 .. 3 -> AnyMessage({a, b}, 1, MCTopics, {1, 2})] :
        \A i \in 1 .. 3 : list[i].in_reply_to = <<>> /\ list[i].id = <<<<a>>, <<b>>, <<>>>>[i]}

MCMailboxes == {<<>>} \cup LinkCases \cup LongCases \cup OrderCases

ConversationCases == [1 .. 2 -> AnyMessage(MCNames, 2, {"thrid"}, {1})]

NameSymmetry == Permutations(MCNames)
=============================================================================
