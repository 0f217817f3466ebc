--------------------------------- MODULE MCAsk ---------------------------------
(***************************************************************************)
(* Answers of a word, of two sentences and a word, and of an outcry and a  *)
(* word.                                                                   *)
(***************************************************************************)
EXTENDS Ask

Sentence == <<"word", "stop", "blank">>
Outcry == <<"word", "word", "cry", "blank">>

MCReplies == {<<"word">>, Sentence \o Sentence \o <<"word">>, Outcry \o <<"word">>}

===============================================================================
