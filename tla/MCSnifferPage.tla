--------------------------- MODULE MCSnifferPage ---------------------------
(* Small instances of SnifferPage for TLC.                                 *)
EXTENDS SnifferPage

TwoConns == {1, 2}
NoneOrOne == {{}, {1}, {2}}
AnyQuery == {"", "serverElapsed", "serverelapsed"}
=============================================================================
