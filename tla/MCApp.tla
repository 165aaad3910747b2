-------------------------------- MODULE MCApp --------------------------------
(***************************************************************************)
(* Instances of App: three messages, one label, one conversation and a     *)
(* query of each kind.  The query "text" is free text, of which the        *)
(* metadata search finds less than the body scan.                          *)
(***************************************************************************)
EXTENDS App

MCLabels == {"inbox"}

MCLabelled == [l \in MCLabels |-> {1, 2}]

MCQueries == {"", "subject", "text", "body"}

MCHits == [q \in MCQueries |->
    CASE q = "" -> Messages
      [] q = "subject" -> {2, 3}
      [] q = "text" -> {1, 3}
      [] q = "body" -> {3}]

MCQuickHits == [MCHits EXCEPT !["text"] = {1}]

MCNeedsBodyScan == {"text", "body"}

MCNeedsFulltext == {"body"}

MCSortKey == [date    |-> <<1, 2, 3>>,
              from    |-> <<2, 1, 1>>,
              subject |-> <<3, 1, 2>>,
              size    |-> <<1, 1, 1>>]

(* Message 1 is a reply to 3; 2 is a conversation of its own. *)
MCConversations == << <<3, 0>>, <<1, 1>>, <<2, 0>> >>
=============================================================================
