------------------------------- MODULE Shell -------------------------------
(***************************************************************************)
(* The shell of xv6 (sh.c): it reads a line, forks a child that parses it  *)
(* by recursive descent into a tree of commands, and runs the tree with    *)
(* processes, pipes and redirected descriptors.  The parser is compared    *)
(* with a grammar, the running processes with what the tree says.          *)
(*                                                                         *)
(* A line is a sequence of characters in which "x" stands for any          *)
(* character of a word and " " for any white space; a word or file name    *)
(* is the pair <<q, eq>> of its first position and the one after its last. *)
(* fork, pipe, dup, open and wait are those of the kernel, seen from here; *)
(* a command reads its standard input to the end and exits.                *)
(***************************************************************************)
EXTENDS Integers, Sequences, FiniteSets, SequencesExt, FiniteSetsExt

CONSTANTS
    Lines,      \* what may be typed
    MAXARGS,
    NPROC,      \* processes there may be, the shell included
    NOFILE      \* descriptors of a process

ASSUME MAXARGSAssumption == MAXARGS \in Nat \ {0}
ASSUME NOFILEAssumption == NOFILE \in Nat /\ NOFILE >= 5

VARIABLES
    line,       \* buf
    tree,       \* what parsecmd makes of it
    proc,       \* the processes
    denied      \* a fork has failed

vars == <<line, tree, proc, denied>>

-----------------------------------------------------------------------------
(* gettoken and peek *)

Symbols == {"<", "|", ">", "&", ";", "(", ")"}

\* es: the position after the line, where its NUL is.
es(b) == Len(b) + 1

skip(b, i) == Min({j \in i .. es(b) : j = es(b) \/ b[j] # " "})

peek(b, i, toks) == LET s == skip(b, i) IN s < es(b) /\ b[s] \in toks

wordEnd(b, q) == Min({j \in q .. es(b) : j = es(b) \/ b[j] \in Symbols \cup {" "}})

\* The token at q, which ends at eq.
token(b, q, eq, tok) == [tok |-> tok, word |-> <<q, eq>>, s |-> skip(b, eq)]

tokenAt(b, q) ==
    CASE q = es(b) -> token(b, q, q, "end")
      [] q < es(b) /\ b[q] \notin Symbols -> token(b, q, wordEnd(b, q), "a")
      [] q + 1 < es(b) /\ b[q] = ">" /\ b[q + 1] = ">" -> token(b, q, q + 2, "+")
      [] OTHER -> token(b, q, q + 1, b[q])

gettoken(b, i) == tokenAt(b, skip(b, i))

-----------------------------------------------------------------------------
(* The constructors, and the recursive descent *)

execcmd(argv) == [type |-> "EXEC", argv |-> argv]
\* fd 0 is read, fd 1 written; > and >> are alike.
redircmd(cmd, tok, file) ==
    [type |-> "REDIR", cmd |-> cmd, file |-> file, fd |-> IF tok = "<" THEN 0 ELSE 1]
\* at tells one pipe of a line from another.
pipecmd(left, right, at) ==
    [type |-> "PIPE", left |-> left, right |-> right, at |-> at]
listcmd(left, right) == [type |-> "LIST", left |-> left, right |-> right]
backcmd(cmd) == [type |-> "BACK", cmd |-> cmd]

\* What a parsing function returns, the cursor s included; a panic is final.
Parsed(cmd, s) == [panic |-> FALSE, cmd |-> cmd, s |-> s]
Panic == [panic |-> TRUE, cmd |-> execcmd(<<>>), s |-> 0]
Then(r, Rest(_)) == IF r.panic THEN Panic ELSE Rest(r)

\* What is left of a line after its next token.
after(b, i) == gettoken(b, i).s

RECURSIVE parseredirs(_, _, _)
redirect(cmd, tok, file, b) ==
    IF file.tok # "a" THEN Panic
    ELSE parseredirs(redircmd(cmd, tok, file.word), b, file.s)

parseredirs(cmd, b, i) ==
    IF ~peek(b, i, {"<", ">"}) THEN Parsed(cmd, i)
    ELSE redirect(cmd, gettoken(b, i).tok, gettoken(b, after(b, i)), b)

\* The command inside its redirections gets one more argument.
RECURSIVE addarg(_, _)
addarg(cmd, word) ==
    IF cmd.type = "EXEC" THEN [cmd EXCEPT !.argv = Append(@, word)]
    ELSE [cmd EXCEPT !.cmd = addarg(@, word)]

\* The loop of parseexec over arguments and redirections.
RECURSIVE parseargs(_, _, _, _)
argument(cmd, argc, b, t) ==
    IF t.tok # "a" \/ argc + 1 >= MAXARGS THEN Panic
    ELSE Then(parseredirs(addarg(cmd, t.word), b, t.s),
              LAMBDA r : parseargs(r.cmd, argc + 1, b, r.s))

parseargs(cmd, argc, b, i) ==
    IF skip(b, i) = es(b) \/ peek(b, i, {"|", ")", "&", ";"}) THEN Parsed(cmd, i)
    ELSE argument(cmd, argc, b, gettoken(b, i))

RECURSIVE parseline(_, _)
parseblock(b, i) ==
    Then(parseline(b, after(b, i)),
         LAMBDA r : IF ~peek(b, r.s, {")"}) THEN Panic
                    ELSE parseredirs(r.cmd, b, after(b, r.s)))

parseexec(b, i) ==
    IF peek(b, i, {"("}) THEN parseblock(b, i)
    ELSE Then(parseredirs(execcmd(<<>>), b, i),
              LAMBDA r : parseargs(r.cmd, 0, b, r.s))

RECURSIVE parsepipe(_, _)
parsepipe(b, i) ==
    Then(parseexec(b, i),
         LAMBDA l : IF ~peek(b, l.s, {"|"}) THEN l
                    ELSE Then(parsepipe(b, after(b, l.s)),
                              LAMBDA r : Parsed(pipecmd(l.cmd, r.cmd, skip(b, l.s)), r.s)))

RECURSIVE ampersands(_, _, _)
ampersands(cmd, b, i) ==
    IF peek(b, i, {"&"}) THEN ampersands(backcmd(cmd), b, after(b, i))
    ELSE Parsed(cmd, i)

\* As if what follows a ; were one pipeline.
parselinePipe(b, i) ==
    Then(parsepipe(b, i),
         LAMBDA p : Then(ampersands(p.cmd, b, p.s),
           LAMBDA l : IF ~peek(b, l.s, {";"}) THEN l
                      ELSE Then(parsepipe(b, after(b, l.s)),
                                LAMBDA r : Parsed(listcmd(l.cmd, r.cmd), r.s))))

parseline(b, i) ==
    Then(parsepipe(b, i),
         LAMBDA p : Then(ampersands(p.cmd, b, p.s),
           LAMBDA l : IF ~peek(b, l.s, {";"}) THEN l
                      ELSE Then(parseline(b, after(b, l.s)),
                                LAMBDA r : Parsed(listcmd(l.cmd, r.cmd), r.s))))

parsecmd(b) ==
    Then(parseline(b, 1), LAMBDA r : IF skip(b, r.s) # es(b) THEN Panic ELSE r)

\* nulterminate: the positions of the line where it puts a NUL.
RECURSIVE nulterminate(_)
nulterminate(cmd) ==
    CASE cmd.type = "EXEC" -> {w[2] : w \in ToSet(cmd.argv)}
      [] cmd.type = "REDIR" -> {cmd.file[2]} \cup nulterminate(cmd.cmd)
      [] cmd.type = "BACK" -> nulterminate(cmd.cmd)
      [] OTHER -> nulterminate(cmd.left) \cup nulterminate(cmd.right)

-----------------------------------------------------------------------------
(* The processes *)

Pids == 1 .. NPROC
Sh == 1
Fds == 0 .. NOFILE - 1
File(kind, id) == [kind |-> kind, id |-> id]
Closed == File("closed", 0)
Console == File("console", 0)

NoProc == [pc |-> "none", cmd |-> execcmd(<<>>), parent |-> 0,
           fd |-> [d \in Fds |-> Closed], p |-> <<0, 0>>]

\* main has made sure of its three descriptors.
Init ==
    /\ line \in Lines
    /\ tree = parsecmd(line) /\ denied = FALSE
    /\ proc = [k \in Pids |-> IF k = Sh
                 THEN [NoProc EXCEPT !.pc = "main", !.fd = [d \in Fds |->
                         IF d <= 2 THEN Console ELSE Closed]]
                 ELSE NoProc]

At(k, l) == proc[k].pc = l
Runs(k, type) == At(k, "runcmd") /\ proc[k].cmd.type = type

\* The lowest free descriptor.
freeFd(fd) == Min({d \in Fds : fd[d] = Closed})
close(fd, d) == [fd EXCEPT ![d] = Closed]
\* dup(d) puts what d is at the lowest free place.
dup(fd, d) == [fd EXCEPT ![freeFd(fd)] = fd[d]]

\* exit: the descriptors are closed, init takes the children over and reaps
\* those that are dead, and k itself when its parent is gone.
exited(t, k) ==
    [j \in Pids |->
       IF j = k THEN [NoProc EXCEPT !.pc = IF t[k].parent = 0 THEN "none" ELSE "zombie",
                                    !.parent = t[k].parent]
       ELSE IF t[j].parent # k THEN t[j]
       ELSE IF t[j].pc = "zombie" THEN NoProc
       ELSE [t[j] EXCEPT !.parent = 0]]

Exit(k) == proc' = exited(proc, k) /\ UNCHANGED <<line, tree, denied>>

\* fork1: the child starts with record c, the parent goes on with record p;
\* with no process to be had the caller panics and exits.
fork1(k, p, c) ==
    LET free == {j \in Pids : At(j, "none")}
    IN  /\ proc' = IF free = {} THEN exited(proc, k)
                   ELSE [proc EXCEPT ![k] = p,
                                     ![Min(free)] = [c EXCEPT !.parent = k]]
        /\ denied' = (denied \/ free = {})
        /\ UNCHANGED <<line, tree>>

\* wait: reap one child, or go on at once when there is none.
wait(k, next) ==
    LET kids == {j \in Pids : proc[j].parent = k}
        dead == {j \in kids : At(j, "zombie")}
    IN  /\ dead # {} \/ kids = {}
        /\ proc' = [j \in Pids |-> IF dead # {} /\ j = Min(dead) THEN NoProc
                                   ELSE IF j = k THEN next ELSE proc[j]]
        /\ UNCHANGED <<line, tree, denied>>

-----------------------------------------------------------------------------
(* main and runcmd *)

\* getcmd: an empty buffer is the end of the input.
mainExits == At(Sh, "main") /\ line = <<>> /\ Exit(Sh)

mainForks ==
    /\ At(Sh, "main") /\ line # <<>>
    /\ fork1(Sh, [proc[Sh] EXCEPT !.pc = "mainWait"], [proc[Sh] EXCEPT !.pc = "parse"])

mainWaits == At(Sh, "mainWait") /\ wait(Sh, [proc[Sh] EXCEPT !.pc = "prompt"])

parse(k) ==
    /\ At(k, "parse")
    /\ proc' = IF tree.panic THEN exited(proc, k)
               ELSE [proc EXCEPT ![k].pc = "runcmd", ![k].cmd = tree.cmd]
    /\ UNCHANGED <<line, tree, denied>>

\* exec; a command that is empty or not found exits.
runExec(k) ==
    /\ Runs(k, "EXEC") /\ proc[k].cmd.argv # <<>>
    /\ proc' = [proc EXCEPT ![k].pc = "program"]
    /\ UNCHANGED <<line, tree, denied>>

execFails(k) == Runs(k, "EXEC") /\ Exit(k)

runRedir(k) ==
    /\ Runs(k, "REDIR")
    /\ LET cmd == proc[k].cmd
           fd == close(proc[k].fd, cmd.fd)
       IN  proc' = [proc EXCEPT ![k].fd = [fd EXCEPT ![freeFd(fd)] =
                                             File("file", cmd.file[1])],
                                ![k].cmd = cmd.cmd]
    /\ UNCHANGED <<line, tree, denied>>

openFails(k) == Runs(k, "REDIR") /\ Exit(k)

runList(k) ==
    /\ Runs(k, "LIST")
    /\ fork1(k, [proc[k] EXCEPT !.pc = "listWait"],
                [proc[k] EXCEPT !.cmd = @.left])

\* As if the list did not wait for its first part.
listWaitsNot(k) ==
    /\ At(k, "listWait")
    /\ proc' = [proc EXCEPT ![k].pc = "runcmd", ![k].cmd = @.right]
    /\ UNCHANGED <<line, tree, denied>>

listWaits(k) ==
    /\ At(k, "listWait")
    /\ wait(k, [proc[k] EXCEPT !.pc = "runcmd", !.cmd = @.right])

runBack(k) ==
    /\ Runs(k, "BACK")
    /\ fork1(k, [proc[k] EXCEPT !.pc = "exit"], [proc[k] EXCEPT !.cmd = @.cmd])

\* pipe: the read end and the write end.
runPipe(k) ==
    /\ Runs(k, "PIPE")
    /\ LET r == freeFd(proc[k].fd)
           fd1 == [proc[k].fd EXCEPT ![r] = File("read", proc[k].cmd.at)]
           w == freeFd(fd1)
       IN  proc' = [proc EXCEPT ![k].pc = "pipeLeft", ![k].p = <<r, w>>,
                      ![k].fd = [fd1 EXCEPT ![w] = File("write", proc[k].cmd.at)]]
    /\ UNCHANGED <<line, tree, denied>>

\* No memory or no file for a pipe.
pipeFails(k) == Runs(k, "PIPE") /\ Exit(k)

\* As if a child kept the write end.
pipedKeeps(k, std, end) ==
    close(dup(close(proc[k].fd, std), proc[k].p[end]), proc[k].p[1])

\* close(std); dup(p[end]); close(p[0]); close(p[1])
piped(k, std, end) ==
    LET fd == dup(close(proc[k].fd, std), proc[k].p[end])
    IN  close(close(fd, proc[k].p[1]), proc[k].p[2])

child(k, cmd, std, end) ==
    [proc[k] EXCEPT !.pc = "runcmd", !.cmd = cmd, !.p = <<0, 0>>,
                    !.fd = piped(k, std, end)]

pipeLeft(k) ==
    /\ At(k, "pipeLeft")
    /\ fork1(k, [proc[k] EXCEPT !.pc = "pipeRight"], child(k, proc[k].cmd.left, 1, 2))

pipeRight(k) ==
    /\ At(k, "pipeRight")
    /\ fork1(k, [proc[k] EXCEPT !.pc = "pipeClose"], child(k, proc[k].cmd.right, 0, 1))

\* As if the parent kept the pipe open.
pipeKeeps(k) ==
    /\ At(k, "pipeClose")
    /\ proc' = [proc EXCEPT ![k].pc = "pipeWait"]
    /\ UNCHANGED <<line, tree, denied>>

pipeCloses(k) ==
    /\ At(k, "pipeClose")
    /\ proc' = [proc EXCEPT ![k].pc = "pipeWait",
                            ![k].fd = close(close(@, proc[k].p[1]), proc[k].p[2])]
    /\ UNCHANGED <<line, tree, denied>>

pipeWaits(k) == At(k, "pipeWait") /\ wait(k, [proc[k] EXCEPT !.pc = "pipeWait2"])
pipeWaits2(k) == At(k, "pipeWait2") /\ wait(k, [proc[k] EXCEPT !.pc = "exit"])

exit(k) == At(k, "exit") /\ Exit(k)

\* A command ends when its input does: a pipe's, when nobody can write to it.
EndOfInput(k) ==
    proc[k].fd[0].kind = "read" =>
      ~\E j \in Pids, d \in Fds : proc[j].fd[d] = File("write", proc[k].fd[0].id)

programEnds(k) == At(k, "program") /\ EndOfInput(k) /\ Exit(k)

Step(k) ==
    \/ parse(k) \/ runExec(k) \/ execFails(k) \/ runRedir(k) \/ openFails(k)
    \/ runList(k) \/ listWaits(k) \/ runBack(k)
    \/ runPipe(k) \/ pipeFails(k) \/ pipeLeft(k) \/ pipeRight(k) \/ pipeCloses(k)
    \/ pipeWaits(k) \/ pipeWaits2(k) \/ exit(k) \/ programEnds(k)

Next == mainExits \/ mainForks \/ mainWaits \/ \E k \in Pids : Step(k)

\* The scheduler runs every process.
Spec == Init /\ [][Next]_vars /\ WF_vars(Next)

-----------------------------------------------------------------------------
(* The grammar: the trees that tokens i .. j - 1 of T can stand for *)

Second(b, i) ==     \* the second half of >>
    LET before == {j \in 1 .. i - 1 : \A m \in j .. i - 1 : b[m] = ">"}
    IN  b[i] = ">" /\ Cardinality(before) % 2 = 1

Starts(b) == {i \in 1 .. Len(b) :
                /\ b[i] # " " /\ ~Second(b, i)
                /\ b[i] \in Symbols \/ i = 1 \/ b[Max({1, i - 1})] \in Symbols \cup {" "}}

InOrder(S) ==
    [n \in 1 .. Cardinality(S) |->
       CHOOSE i \in S : Cardinality({j \in S : j < i}) = n - 1]

Tokens(b) ==
    LET at == InOrder(Starts(b))
    IN  [n \in DOMAIN at |->
          LET i == at[n]
          IN  IF b[i] \notin Symbols THEN [tok |-> "a", word |-> <<i, wordEnd(b, i)>>]
              ELSE IF i < Len(b) /\ Second(b, i + 1)
              THEN [tok |-> "+", word |-> <<i, i + 2>>]
              ELSE [tok |-> b[i], word |-> <<i, i + 1>>]]

Ops == {"<", ">", "+"}

\* Words and redirections in any order; cmd is what they apply to.
Redirections(T, i, j) ==
    \A k \in i .. j - 1 : /\ T[k].tok \in Ops \cup {"a"}
                          /\ T[k].tok \in Ops => k + 1 < j /\ T[k + 1].tok = "a"

Words(T, i, j) == {k \in i .. j - 1 : T[k].tok = "a" /\ (k = i \/ T[k - 1].tok \notin Ops)}

RECURSIVE Wrapped(_, _, _, _)
Wrapped(cmd, T, i, j) ==
    IF i >= j THEN cmd
    ELSE IF T[i].tok \in Ops
    THEN Wrapped(redircmd(cmd, T[i].tok, T[i + 1].word), T, i + 2, j)
    ELSE Wrapped(cmd, T, i + 1, j)

Simple(T, i, j) ==
    LET words == InOrder(Words(T, i, j))
    IN  IF Redirections(T, i, j) /\ Len(words) < MAXARGS
        THEN {Wrapped(execcmd([n \in DOMAIN words |-> T[words[n]].word]), T, i, j)}
        ELSE {}

RECURSIVE Line(_, _, _)
Block(T, i, j) ==
    UNION {{Wrapped(c, T, k + 1, j) : c \in Line(T, i + 1, k)} :
             k \in {k \in i + 1 .. j - 1 : /\ T[i].tok = "(" /\ T[k].tok = ")"
                                           /\ Redirections(T, k + 1, j)
                                           /\ Words(T, k + 1, j) = {}}}

RECURSIVE Pipe(_, _, _)
Pipe(T, i, j) ==
    Simple(T, i, j) \cup Block(T, i, j)
      \cup UNION {{pipecmd(l, r, T[k].word[1]) : l \in Simple(T, i, k) \cup Block(T, i, k),
                                                 r \in Pipe(T, k + 1, j)} :
                    k \in {k \in i .. j - 1 : T[k].tok = "|"}}

RECURSIVE Job(_, _, _)
Job(T, i, j) ==
    Pipe(T, i, j) \cup (IF i < j /\ T[j - 1].tok = "&"
                        THEN {backcmd(c) : c \in Job(T, i, j - 1)} ELSE {})

Line(T, i, j) ==
    Job(T, i, j) \cup UNION {{listcmd(l, r) : l \in Job(T, i, k), r \in Line(T, k + 1, j)} :
                               k \in {k \in i .. j - 1 : T[k].tok = ";"}}

Grammar(b) == LET T == Tokens(b) IN Line(T, 1, Len(T) + 1)

RECURSIVE Spans(_)
Spans(cmd) ==
    CASE cmd.type = "EXEC" -> ToSet(cmd.argv)
      [] cmd.type = "REDIR" -> {cmd.file} \cup Spans(cmd.cmd)
      [] cmd.type = "BACK" -> Spans(cmd.cmd)
      [] OTHER -> Spans(cmd.left) \cup Spans(cmd.right)

\* parsecmd gives the one tree the grammar has for the line, or a syntax error
\* when it has none, and the NULs it puts into the line cut no word short.
ParserMeetsGrammar ==
    At(Sh, "main") =>
      /\ Grammar(line) = IF tree.panic THEN {} ELSE {tree.cmd}
      /\ \A w \in Spans(tree.cmd), z \in nulterminate(tree.cmd) :
           ~(w[1] <= z /\ z < w[2])

-----------------------------------------------------------------------------
(* What the tree says of the commands: their input and output, and which of *)
(* them the shell waits for                                                *)

RECURSIVE Wiring(_, _, _)
Wiring(cmd, in, out) ==
    CASE cmd.type = "EXEC" -> {[argv |-> cmd.argv, in |-> in, out |-> out]}
      [] cmd.type = "REDIR" -> LET f == File("file", cmd.file[1])
                               IN  IF cmd.fd = 0 THEN Wiring(cmd.cmd, f, out)
                                   ELSE Wiring(cmd.cmd, in, f)
      [] cmd.type = "PIPE" -> Wiring(cmd.left, in, File("write", cmd.at))
                                \cup Wiring(cmd.right, File("read", cmd.at), out)
      [] cmd.type = "LIST" -> Wiring(cmd.left, in, out) \cup Wiring(cmd.right, in, out)
      [] OTHER -> Wiring(cmd.cmd, in, out)

\* A command runs with the input and output its place in the line gives it,
\* and with no other descriptor of a pipe.
Wired ==
    \A k \in Pids : At(k, "program") =>
      \E w \in Wiring(tree.cmd, Console, Console) :
        /\ w.argv = proc[k].cmd.argv
        /\ proc[k].fd = [d \in Fds |-> CASE d = 0 -> w.in
                                         [] d = 1 -> w.out
                                         [] d = 2 -> Console
                                         [] OTHER -> Closed]

RECURSIVE Lists(_)      \* the lists in a tree
Lists(cmd) ==
    CASE cmd.type = "EXEC" -> {}
      [] cmd.type \in {"REDIR", "BACK"} -> Lists(cmd.cmd)
      [] OTHER -> Lists(cmd.left) \cup Lists(cmd.right)
                    \cup (IF cmd.type = "LIST" THEN {cmd} ELSE {})

RECURSIVE Foreground(_)     \* the commands of a tree that are waited for
Foreground(cmd) ==
    CASE cmd.type = "EXEC" -> {cmd.argv}
      [] cmd.type = "REDIR" -> Foreground(cmd.cmd)
      [] cmd.type = "BACK" -> {}
      [] OTHER -> Foreground(cmd.left) \cup Foreground(cmd.right)

Running == {proc[k].cmd.argv : k \in {k \in Pids : At(k, "program")}}

\* Unless a fork failed, the shell prompts when every command in the
\* foreground has ended, and a list starts its second part when those of its
\* first part have.
ForegroundDone ==
    ~denied =>
      /\ At(Sh, "prompt") => Running \cap Foreground(tree.cmd) = {}
      /\ \A l \in Lists(tree.cmd) :
           Running \cap {w.argv : w \in Wiring(l.right, Console, Console)} # {}
             => Running \cap Foreground(l.left) = {}

\* The shell prompts again after every line: no command waits for the end of a
\* pipe that somebody who waits for it holds open.
Prompts == <>(At(Sh, "prompt") \/ line = <<>>)
=============================================================================
