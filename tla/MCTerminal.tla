------------------------------ MODULE MCTerminal ------------------------------
EXTENDS Terminal

(* A letter for a keyword: s for stop. *)
MCLetter == {"s"}
MCKeyword == <<"s">> :> "stop"

(* A command with a letter and a digit behind it: split by an error, it    *)
(* leaves the letter, and behind that it is an error that leaves the digit *)
(* 0.  And a text without an end, with which it is too long for the ring.  *)
MCText == {<<"s", "0", "s", "\r">>, <<"\t">>}

=============================================================================
