------------------------------- MODULE MCRsg -------------------------------
(***************************************************************************)
(* Three grammars: a complete one with nested and recursive definitions,   *)
(* one that defines a nonterminal again, and one with a comma that sticks  *)
(* to a nonterminal.                                                       *)
(***************************************************************************)
EXTENDS Rsg

Complete ==
    <<"A", "poem", "{", "<start>", "The", "<thing>", "<act>", "today", ";", "}", "comment",
      "{", "<thing>", "waves", ";", "big", "<thing>", ";", "}",
      "{", "<act>", ";", "break", "slowly", ";", "}">>

Redefined ==
    <<"{", "<start>", "<act>", "<thing>,", ";", "}", "{", "<act>", "sings", ";", "}",
      "{", "<start>", "<thing>", "<act>", ";", "}", "{", "<thing>", "she", ";", "}">>

Sticky ==
    <<"{", "<start>", "Oh", "<thing>,", ";", "quiet", ";", "}", "{", "<thing>", "waves", ";", "}">>

GrammarFilesDef == {Complete, Redefined, Sticky}

MarkedDef == {"<start>", "<thing>", "<act>", "<thing>,"}
=============================================================================
