------------------------------- MODULE MCExports -------------------------------
(***************************************************************************)
(* An instance of Exports: three messages of one subject and second, so    *)
(* that all names clash; 1 has two attachments, the second of which is     *)
(* named like a numbered copy of the first, 2 has none, and 3 has another  *)
(* of the first name and one that cannot be decoded.                       *)
(***************************************************************************)
EXTENDS Exports

MCBaseName ==
    [format \in Formats |-> [m \in Entries |-> <<format>>]]

MCFolderName == [m \in Entries |-> "folder"]

MCAttachments == << << <<"a">>, <<"a", 1>> >>, <<>>, << <<"a">>, <<>> >> >>

MCUndecodable == {<<3, 2>>}
=============================================================================
