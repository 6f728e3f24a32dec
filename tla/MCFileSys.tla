------------------------------ MODULE MCFileSys ------------------------------
(* Instances of FileSys for TLC. *)
EXTENDS FileSys

CONSTANTS p1, p2

\* mkfs puts one file, "f", in the root.
OneFile == << <<"f">> >>
Swaps == [p \in {p1, p2} |-> <<"/", "s">>]

Call(op, path) == [op |-> op, path |-> path, new |-> <<>>, mode |-> None]
Open(path, m) == [Call("open", path) EXCEPT !.mode = m]
Link(path, new) == [Call("link", path) EXCEPT !.new = new]

\* One process makes what the other removes.
MakeAndRemove ==
    [p \in {p1, p2} |->
       IF p = p1
       THEN {Call("mkdir", <<"d">>), Call("creat", <<"/", "d", "/", "f">>),
             Link(<<"f">>, <<"d", "/", "x">>),
             Call("chdir", <<"d", "/">>), Call("mknod", <<"/", "/", "d">>)}
       ELSE {Call("creat", <<"f">>), Call("unlink", <<"f">>),
             Call("unlink", <<"/", "d">>), Link(<<"f">>, <<".">>),
             Open(<<"d">>, "w")}]

\* One process goes where the other removes directories.
Orphans ==
    [p \in {p1, p2} |->
       IF p = p1
       THEN {Call("mkdir", <<"e">>), Call("mkdir", <<"e", "/", "d">>),
             Open(<<"e", "/", "d", "/", ".", ".">>, "r")}
       ELSE {Call("unlink", <<"e", "/", "d">>), Call("unlink", <<"e">>)}]

\* Both reach for a name that the kernel uses.
SwapNames ==
    [p \in {p1, p2} |-> {Call("unlink", <<"/", "s">>), Call("mkdir", <<"s">>)}]

\* As many calls and crashes as each of them takes.
OneProgram ==
    [makeAndRemove |-> [calls |-> MakeAndRemove, left |-> 3, crashes |-> 1]]
ThreePrograms ==
    [makeAndRemove |-> OneProgram.makeAndRemove,
     orphans |-> [calls |-> Orphans, left |-> 5, crashes |-> 0],
     swapNames |-> [calls |-> SwapNames, left |-> 3, crashes |-> 0]]
=============================================================================
