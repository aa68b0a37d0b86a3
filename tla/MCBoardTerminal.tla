-------------------------- MODULE MCBoardTerminal ---------------------------
(* A window of two lines of two characters, and characters of three bits.  *)
EXTENDS BoardTerminal

MCChar      == [1 .. 3 -> {0, 1}]
MCNewline   == <<0, 1, 0>>
MCBackspace == <<1, 0, 0>>
MCReturn    == <<1, 0, 1>>
MCSpace     == <<0, 0, 1>>
MCWide      == <<0, 1, 1>>
MCLetter    == <<1, 1, 0>>
MCTypable   == {MCNewline, MCBackspace, MCLetter, MCWide}
=============================================================================
