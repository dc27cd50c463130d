---------------------------- MODULE MCTokenStream ----------------------------
EXTENDS TokenStream

MCLetter == {"a", "x"}
MCKeyword == [w \in {<<"a">>, <<"a", "x">>} |-> IF Len(w) = 1 THEN "all" ELSE "addr"]

(* All there is to type, up to a length; two numbers that overflow.        *)
Character == MCLetter \cup {"0", "7", " ", "\n", "!"}
MCSource == UNION {[1 .. n -> Character] : n \in 0 .. 5}
            \cup {<<"3", "2", "7", "6", "8", " ", "9">>, <<"9", "8", "3", "0", "5", "\n">>}

=============================================================================
