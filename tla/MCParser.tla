------------------------------ MODULE MCParser ------------------------------
(* Messages that end and complete one another: letters, whose headers fit  *)
(* the log with a blank line or are cut, a NUL, a text frame without its    *)
(* last byte, one with a mask.                                             *)
EXTENDS Parser

MCMessages ==
    {<<71, 69, 84, 65>>, <<71, 69, 84, 65, 66>>, CRLFCRLF, <<0>>,
     <<129, 2, 66>>, <<129, 129, 7, 7, 7, 7, 66>>}
=============================================================================
