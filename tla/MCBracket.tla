----------------------------- MODULE MCBracket ------------------------------
(***************************************************************************)
(* Three groups and two thirds instead of twelve and eight: winners,       *)
(* runners-up and thirds meet as they do among the thirty-two.             *)
(***************************************************************************)
EXTENDS Bracket

MCGroups == <<"A", "B", "C">>

\* The favourites win; the last beats everybody by two goals.
MCDraws == {<< <<1, 0>>, <<1, 0>>, <<1, 0>>, <<1, 0>>, <<1, 0>>, <<1, 0>> >>,
            << <<1, 0>>, <<0, 2>>, <<1, 0>>, <<0, 2>>, <<0, 2>>, <<1, 0>> >>}
=============================================================================
