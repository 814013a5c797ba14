---------------------------- MODULE MCUartStream ----------------------------
(* Two letters and the zero byte; a token that can come in two reads, one   *)
(* that is one letter, and a string of one byte for expect_bin.             *)
EXTENDS UartStream

CONSTANTS a, b, nul

Letters    == {a, b}
TokenLists == {<<<<a, b>>, <<b>>>>, <<<<a, b>>>>}
Words      == {<<a, b>>, <<a>>}
=============================================================================
