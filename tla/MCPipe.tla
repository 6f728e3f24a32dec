------------------------------- MODULE MCPipe -------------------------------
(* Small instances of Pipe. *)
EXTENDS Pipe

CONSTANTS p1, p2

\* One byte, and more than the pipe holds.
ShortAndLong == {<<0>>, <<1, 0, 1>>}
=============================================================================
