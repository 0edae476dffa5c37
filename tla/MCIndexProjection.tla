------------------------- MODULE MCIndexProjection -------------------------
(***************************************************************************)
(* TLC instances of IndexProjection.                                       *)
(***************************************************************************)
EXTENDS IndexProjection

MCLine ==
    {Blank, Plain("text", 1), Plain("text", 5), Plain("text", 30),
     Plain("heading", 3), Plain("hashtag", 9),
     Fence("backtick", 3, 0), Fence("backtick", 4, 0), Fence("backtick", 3, 2), Fence("tilde", 3, 0),
     Indented("backtick", 3, 0), Item("backtick", 3, 0), Ticked(3, 2)}
=============================================================================
