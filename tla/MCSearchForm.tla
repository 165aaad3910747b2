------------------------------ MODULE MCSearchForm -----------------------------
(* An instance of SearchForm: one word or two words typed at a time; a      *)
(* mailbox without labels and one with a label of two words.                *)
EXTENDS SearchForm

MCTyped == {<<"w">>, <<"v", Space, "w">>}

MCLabelLists == {<<>>, << <<"in", Space, "box">> >>}

MCSizeOptions == <<"size:>1">>
=============================================================================
