-------------------------- MODULE MCRequestStream --------------------------
(***************************************************************************)
(* An instance of RequestStream for TLC: names one a prefix of the other,  *)
(* an id of three digits, tails with slashes, digits and blanks.           *)
(***************************************************************************)
EXTENDS RequestStream

MCChars == Blank \cup {"a", "c", "H", "/", "1"}
MCNames == {<<"a">>, <<"a", "c">>}
MCIds   == {120}
MCTails == {<<" ", "H", "/", "1", "\r", "\n">>, <<"\n", "c", "/">>}

=============================================================================
