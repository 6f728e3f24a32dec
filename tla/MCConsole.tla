----------------------------- MODULE MCConsole ------------------------------
(* Small instances of Console. *)
EXTENDS Console, TLC

CONSTANTS p1, p2

LettersAndControls == {"x", "\r", "^D", "^U", "^H", "^P"}

Key(code, ext) == [code |-> code, ext |-> ext]

\* The right control key, and the letter it turns into an end of file.
ControlKeys == {Key("ctl", TRUE), Key("d", FALSE)}

\* What a process writes, and the listing of procdump.
OneLetter == {<<"y">>}
OneRow == <<"y", NewLine>>

ReaderSymmetry == Permutations(Readers)
=============================================================================
