--------------------------------- MODULE Sh ---------------------------------
(***************************************************************************)
(* The shell (sh.c): the recursive-descent parser that turns a line into a *)
(* command tree, and runcmd, which turns the tree into processes and gives *)
(* each its descriptors with fork, pipe, close, dup and open.  The machine *)
(* types a line one character at a time; what the shell does with the line *)
(* typed so far is a function of it, and every line is a state.            *)
(*                                                                         *)
(* A position in buf is an index of it, Len(buf) + 1 being the address es  *)
(* of the NUL at the end.  A parser returns the position it stops at and   *)
(* the command it built; a panic in it ends the process (sh.c:174), which  *)
(* is the position Panic.                                                  *)
(***************************************************************************)
EXTENDS Naturals, Sequences, FiniteSets, FiniteSetsExt, SequencesExt

CONSTANTS
    Chars,      \* the characters typed
    Seeds,      \* the beginnings of lines
    MaxTyped,   \* bound: characters typed after the beginning
    MAXARGS,    \* the size of argv
    Missing     \* names of files that do not exist

VARIABLES
    buf,        \* the line
    typed,      \* characters typed after the beginning
    parse,      \* what parsecmd makes of the line
    running     \* the processes that come of it

vars == <<buf, typed, parse, running>>

NUL == "0"
Panic == 0
whitespace == {" "}
symbols == {"<", "|", ">", "&", ";", "(", ")"}

At(b, i) == IF i > Len(b) THEN NUL ELSE b[i]

(* The first position from i on whose character is not in C.               *)
Skip(b, i, C) == CHOOSE j \in i..Len(b) + 1 :
                     At(b, j) \notin C /\ \A k \in i..j - 1 : b[k] \in C

gettoken(b, i) ==
    LET q == Skip(b, i, whitespace)
        c == At(b, q)
        append == c = ">" /\ At(b, q + 1) = ">"
        eq == CASE c = NUL -> q
                [] append -> q + 2
                [] c \in symbols /\ ~append -> q + 1
                [] OTHER -> Skip(b, q, Chars \ (whitespace \union symbols))
    IN  [ret  |-> IF append THEN "+" ELSE IF c \in symbols \union {NUL} THEN c ELSE "a",
         word |-> <<q, eq>>,
         next |-> Skip(b, eq, whitespace)]

(* What gettoken finds from each position of a line on: the parsers below  *)
(* read it here.                                                           *)
Lexed(b) == [i \in 1..Len(b) + 1 |-> gettoken(b, i)]

peek(t, i, toks) == i # Panic /\ t[i].ret \in toks

execcmd(argv) == [type |-> "EXEC", argv |-> argv]
redircmd(cmd, file, mode, fd) ==
    [type |-> "REDIR", cmd |-> cmd, file |-> file, mode |-> mode, fd |-> fd]
pipecmd(left, right) == [type |-> "PIPE", left |-> left, right |-> right]
listcmd(left, right) == [type |-> "LIST", left |-> left, right |-> right]
backcmd(cmd) == [type |-> "BACK", cmd |-> cmd]

Parsed(at, cmd) == [at |-> at, cmd |-> cmd]
Failed == Parsed(Panic, execcmd(<<>>))

(***************************************************************************)
(* A redirection is kept apart from its command until the command is       *)
(* complete (redirect): parseexec goes on filling the argv of the EXEC     *)
(* inside while the REDIRs are already around it.                          *)
(***************************************************************************)
RECURSIVE parseredirs(_, _, _)
parseredirs(t, i, redirs) ==
    LET tok  == t[i]
        file == t[tok.next]
        redir == IF tok.ret = "<" THEN [file |-> file.word, mode |-> "r", fd |-> 0]
                                  ELSE [file |-> file.word, mode |-> "w", fd |-> 1]
    IN  IF ~peek(t, i, {"<", ">", "+"}) THEN [at |-> i, redirs |-> redirs]
        ELSE IF file.ret # "a" THEN [at |-> Panic, redirs |-> redirs]
        ELSE parseredirs(t, file.next, Append(redirs, redir))

(* Mutant: a redirection is put inside the ones before it.                 *)
redirect_inside(cmd, redirs) ==
    FoldRight(LAMBDA r, c : redircmd(c, r.file, r.mode, r.fd), redirs, cmd)

redirect(cmd, redirs) ==
    FoldLeft(LAMBDA c, r : redircmd(c, r.file, r.mode, r.fd), cmd, redirs)

TooMany(argc) == argc >= MAXARGS

RECURSIVE arguments(_, _, _, _)
arguments(t, i, argv, redirs) ==
    LET tok  == t[i]
        more == parseredirs(t, tok.next, redirs)
    IN  CASE i = Panic -> Failed
          [] i # Panic /\ (peek(t, i, {"|", ")", "&", ";"}) \/ tok.ret = NUL) ->
                 Parsed(i, redirect(execcmd(argv), redirs))
          [] OTHER ->
                 IF tok.ret # "a" \/ TooMany(Len(argv) + 1) THEN Failed
                 ELSE arguments(t, more.at, Append(argv, tok.word), more.redirs)

RECURSIVE parseline(_, _)
RECURSIVE background(_, _)

parseblock(t, i) ==
    LET line == parseline(t, t[i].next)
        rest == parseredirs(t, t[line.at].next, <<>>)
    IN  IF ~peek(t, line.at, {")"}) THEN Failed
        ELSE Parsed(rest.at, redirect(line.cmd, rest.redirs))

parseexec(t, i) ==
    IF peek(t, i, {"("}) THEN parseblock(t, i)
    ELSE LET first == parseredirs(t, i, <<>>)
         IN  arguments(t, first.at, <<>>, first.redirs)

RECURSIVE parsepipe(_, _)
parsepipe(t, i) ==
    LET left  == parseexec(t, i)
        right == parsepipe(t, t[left.at].next)
    IN  IF ~peek(t, left.at, {"|"}) THEN left
        ELSE Parsed(right.at, pipecmd(left.cmd, right.cmd))

background(t, p) ==
    IF ~peek(t, p.at, {"&"}) THEN p
    ELSE background(t, Parsed(t[p.at].next, backcmd(p.cmd)))

parseline(t, i) ==
    LET left  == background(t, parsepipe(t, i))
        right == parseline(t, t[left.at].next)
    IN  IF ~peek(t, left.at, {";"}) THEN left
        ELSE Parsed(right.at, listcmd(left.cmd, right.cmd))

(* The ends of all words in a tree, where nulterminate puts its NULs.      *)
RECURSIVE Ends(_)
Ends(cmd) ==
    CASE cmd.type = "EXEC" -> {cmd.argv[n][2] : n \in DOMAIN cmd.argv}
      [] cmd.type = "REDIR" -> Ends(cmd.cmd) \union {cmd.file[2]}
      [] cmd.type \in {"PIPE", "LIST"} -> Ends(cmd.left) \union Ends(cmd.right)
      [] cmd.type = "BACK" -> Ends(cmd.cmd)

nulterminate(b, cmd) == [i \in DOMAIN b |-> IF i \in Ends(cmd) THEN NUL ELSE b[i]]

(* The string a process finds at the address q of its copy of the line.    *)
String(b, q) == SubSeq(b, q, Skip(b, q, Chars) - 1)

(* The line after parsing: whether the parser panicked, the tree, and the  *)
(* characters with the NULs in place.                                      *)
parsecmd(b) ==
    LET line == parseline(Lexed(b), 1)
        good == line.at # Panic /\ Skip(b, line.at, whitespace) = Len(b) + 1
    IN  [ok |-> good, cmd |-> line.cmd,
         chars |-> IF good THEN nulterminate(b, line.cmd) ELSE b]

-----------------------------------------------------------------------------
(***************************************************************************)
(* A descriptor table gives each descriptor what it refers to: a file, an  *)
(* end of a pipe (named by the place of its PIPE in the tree), or nothing. *)
(* open, dup and pipe take the lowest free descriptor (fdalloc).           *)
(***************************************************************************)
NOFILE == 6
Closed == <<"closed", <<>>, "">>
Console == <<"file", <<"console">>, "rw">>
Pipe(path, mode) == <<"pipe", path, mode>>

ShellFds == [fd \in 0..NOFILE - 1 |-> IF fd < 3 THEN Console ELSE Closed]

close(fds, fd) == [fds EXCEPT ![fd] = Closed]
lowest(fds) == Min({fd \in DOMAIN fds : fds[fd] = Closed})
fdalloc(fds, what) == [fds EXCEPT ![lowest(fds)] = what]

(* Mutant: the child keeps the write end open.                             *)
plumb_keeps(fds, fd, end, p0, p1) ==
    close(fdalloc(close(fds, fd), fds[end]), p0)

(* The descriptors of a child that puts the pipe end end in the place of   *)
(* fd and closes both ends.                                                *)
plumb(fds, fd, end, p0, p1) ==
    close(close(fdalloc(close(fds, fd), fds[end]), p0), p1)

Opens(file, mode) == mode = "w" \/ file \notin Missing

(***************************************************************************)
(* The processes that come of a command, each with the descriptors it has  *)
(* while its program runs, or while it waits for its children.  b is the   *)
(* line with the NULs, path the place of the process in the tree.          *)
(***************************************************************************)
RECURSIVE runcmd(_, _, _, _)
runcmd(b, cmd, fds, path) ==
    CASE cmd.type = "EXEC" ->
            IF cmd.argv = <<>> THEN {}
            ELSE {[does |-> "exec", at |-> path, fds |-> fds,
                   argv |-> [n \in DOMAIN cmd.argv |-> String(b, cmd.argv[n][1])]]}
      [] cmd.type = "REDIR" ->
            LET file == String(b, cmd.file[1])
            IN  IF Opens(file, cmd.mode)
                THEN runcmd(b, cmd.cmd,
                            fdalloc(close(fds, cmd.fd), <<"file", file, cmd.mode>>), path)
                ELSE {}
      [] cmd.type = "LIST" ->
            {[does |-> "wait", at |-> path, fds |-> fds, argv |-> <<>>]}
            \union runcmd(b, cmd.left, fds, Append(path, "l"))
            \union runcmd(b, cmd.right, fds, Append(path, "r"))
      [] cmd.type = "PIPE" ->
            LET p0  == lowest(fds)
                one == fdalloc(fds, Pipe(path, "r"))
                p1  == lowest(one)
                both == fdalloc(one, Pipe(path, "w"))
            IN  {[does |-> "wait", at |-> path, argv |-> <<>>,
                  fds |-> close(close(both, p0), p1)]}
                \union runcmd(b, cmd.left, plumb(both, 1, p1, p0, p1), Append(path, "l"))
                \union runcmd(b, cmd.right, plumb(both, 0, p0, p0, p1), Append(path, "r"))
      [] cmd.type = "BACK" -> runcmd(b, cmd.cmd, fds, Append(path, "l"))

(* The child of the shell's main loop parses a line and runs it.           *)
Run(p) == IF p.ok THEN runcmd(p.chars, p.cmd, ShellFds, <<>>) ELSE {}

Empty == [ok |-> FALSE, cmd |-> execcmd(<<>>), chars |-> <<>>]

Init ==
    /\ buf \in Seeds
    /\ typed = 0
    /\ parse = Empty
    /\ running = {}

main == \E c \in Chars :
    /\ typed < MaxTyped
    /\ typed' = typed + 1
    /\ buf' = Append(buf, c)
    /\ parse' = parsecmd(buf')
    /\ running' = Run(parse')

Next == main

-----------------------------------------------------------------------------
(***************************************************************************)
(* The reference: the grammar of the command language over the tokens of a *)
(* line, and the meaning of a tree without descriptors.                    *)
(***************************************************************************)
RECURSIVE Tokens(_, _)
Tokens(b, i) ==
    LET tok == gettoken(b, i)
    IN  IF tok.ret = NUL THEN <<>> ELSE <<tok>> \o Tokens(b, tok.next)

Redirs == {"<", ">", "+"}
IsFile(t, n) == n > 1 /\ t[n] = "a" /\ t[n - 1] \in Redirs
IsRedirections(t) ==
    /\ Len(t) % 2 = 0
    /\ \A n \in 1..Len(t) : IF n % 2 = 1 THEN t[n] \in Redirs ELSE t[n] = "a"

IsSimple(t) ==
    /\ \A n \in 1..Len(t) : t[n] \in Redirs \union {"a"}
    /\ \A n \in 1..Len(t) : t[n] \in Redirs => n < Len(t) /\ t[n + 1] = "a"
    /\ Cardinality({n \in 1..Len(t) : t[n] = "a" /\ ~IsFile(t, n)}) < MAXARGS

RECURSIVE IsLine(_)
IsCommand(t) ==
    \/ IsSimple(t)
    \/ \E n \in 2..Len(t) :
          /\ t[1] = "(" /\ t[n] = ")"
          /\ IsRedirections(SubSeq(t, n + 1, Len(t)))
          /\ IsLine(SubSeq(t, 2, n - 1))

RECURSIVE IsPipeline(_)
IsPipeline(t) ==
    \/ IsCommand(t)
    \/ \E n \in 1..Len(t) : /\ t[n] = "|"
                            /\ IsCommand(SubSeq(t, 1, n - 1))
                            /\ IsPipeline(SubSeq(t, n + 1, Len(t)))

IsLine(t) ==
    \E n \in 0..Len(t) : \E k \in n..Len(t) :
        /\ \A x \in n + 1..k : t[x] = "&"
        /\ IF k < Len(t) THEN t[k + 1] = ";" /\ IsLine(SubSeq(t, k + 2, Len(t))) ELSE TRUE
        /\ IsPipeline(SubSeq(t, 1, n))

Kinds(b) == LET t == Tokens(b, 1) IN [n \in DOMAIN t |-> t[n].ret]

Counted(b, word) == SubSeq(b, word[1], word[2] - 1)

(* The programs a tree asks for, with what they read and write: of several *)
(* redirections of one descriptor the first one written wins.              *)
RECURSIVE Wired(_, _, _, _, _)
Wired(b, cmd, in, out, path) ==
    CASE cmd.type = "EXEC" ->
            IF cmd.argv = <<>> THEN {}
            ELSE {[at |-> path, in |-> in, out |-> out,
                   argv |-> [n \in DOMAIN cmd.argv |-> Counted(b, cmd.argv[n])]]}
      [] cmd.type = "REDIR" ->
            LET file == Counted(b, cmd.file)
                to == <<"file", file, cmd.mode>>
            IN  IF ~Opens(file, cmd.mode) THEN {}
                ELSE IF cmd.fd = 0 THEN Wired(b, cmd.cmd, to, out, path)
                                   ELSE Wired(b, cmd.cmd, in, to, path)
      [] cmd.type = "LIST" -> Wired(b, cmd.left, in, out, Append(path, "l"))
                              \union Wired(b, cmd.right, in, out, Append(path, "r"))
      [] cmd.type = "PIPE" -> Wired(b, cmd.left, in, Pipe(path, "w"), Append(path, "l"))
                              \union Wired(b, cmd.right, Pipe(path, "r"), out, Append(path, "r"))
      [] cmd.type = "BACK" -> Wired(b, cmd.cmd, in, out, Append(path, "l"))

RECURSIVE Arguments(_)
Arguments(cmd) ==
    CASE cmd.type = "EXEC" -> cmd.argv
      [] cmd.type \in {"REDIR", "BACK"} -> Arguments(cmd.cmd)
      [] cmd.type \in {"PIPE", "LIST"} -> Arguments(cmd.left) \o Arguments(cmd.right)

RECURSIVE Files(_)
Files(cmd) ==
    CASE cmd.type = "EXEC" -> <<>>
      [] cmd.type = "REDIR" -> Append(Files(cmd.cmd), <<cmd.file, cmd.fd>>)
      [] cmd.type = "BACK" -> Files(cmd.cmd)
      [] cmd.type \in {"PIPE", "LIST"} -> Files(cmd.left) \o Files(cmd.right)

(* The parser accepts the lines of the grammar and panics on all others:   *)
(* the look-ahead of peek, the early returns and the three kinds of panic  *)
(* in parseline, parseblock and parseexec neither drop part of a line nor  *)
(* refuse a good one.                                                      *)
AcceptsGrammar == typed > 0 => (parse.ok <=> IsLine(Kinds(buf)))

(* Every word of an accepted line is an argument or a file of exactly one  *)
(* place of the tree, in the order of the line: parseexec goes on filling  *)
(* its argv after redirections have been put around it.                    *)
WordsKept ==
    LET t == Tokens(buf, 1)
        k == Kinds(buf)
        args == SelectSeq([n \in DOMAIN t |-> n], LAMBDA n : k[n] = "a" /\ ~IsFile(k, n))
        files == SelectSeq([n \in DOMAIN t |-> n], LAMBDA n : IsFile(k, n))
    IN  parse.ok =>
          /\ Arguments(parse.cmd) = [n \in DOMAIN args |-> t[args[n]].word]
          /\ Files(parse.cmd) = [n \in DOMAIN files |->
                <<t[files[n]].word, IF k[files[n] - 1] = "<" THEN 0 ELSE 1>>]

(* runcmd's closes, dups and opens give every program the input, output    *)
(* and arguments its place in the tree asks for, although descriptors are  *)
(* only chosen by being the lowest free ones, and although the words were  *)
(* cut out of the shared line by nulterminate.                             *)
Plumbing ==
    parse.ok =>
          {[at |-> x.at, in |-> x.fds[0], out |-> x.fds[1], argv |-> x.argv] :
              x \in {y \in running : y.does = "exec"}}
          = Wired(buf, parse.cmd, Console, Console, <<>>)

(* Only the left side of a pipe holds its write end and only the right     *)
(* side its read end, each as descriptor 1 or 0 only, the waiting          *)
(* processes included: a reader would otherwise never see the end of file. *)
EndsWhereTheyBelong ==
    \A x \in running : \A fd \in DOMAIN x.fds :
        LET f == x.fds[fd]
        IN  /\ f # Closed <=> fd < 3
            /\ f[1] = "pipe" => IsPrefix(Append(f[2], IF f[3] = "w" THEN "l" ELSE "r"), x.at)
=============================================================================
