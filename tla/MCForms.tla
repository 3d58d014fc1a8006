------------------------------ MODULE MCForms ------------------------------
(* Instance of Forms for TLC: two spellings of one mailbox, typed in many ways. *)
EXTENDS Forms

MCEmailTexts ==
    {<<"a@x">>, <<"blank", "a@x", "blank", "tag">>, <<"A@x", "blank", "comment">>,
     <<"joe", "blank", "tag">>, <<"quote", "a@x">>}
MCNameTexts == {<<"joe">>, <<"tag", "blank">>}
MCPasswordTexts == {<<"w1">>, <<"blank", "w2">>, <<"blank">>}

=============================================================================
