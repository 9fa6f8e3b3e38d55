------------------------------- MODULE MCDriver ------------------------------
(***************************************************************************)
(* The process on small files of every outcome, laid out with tabs,        *)
(* carriage returns and missing line ends; each under both engines, under  *)
(* --dump and with the options in other orders, and one good file under    *)
(* every command line of up to three arguments.                            *)
(***************************************************************************)
EXTENDS Promises

Characters(string) == [k \in 1 .. Len(string) |-> SubSeq(string, k, k)]

Result(out, code) == [out |-> out, code |-> code]

(* Each file, what it prints and the exit code it ends with under an engine. *)
Files ==
    [one |-> "print 1\n",
     empty |-> "",
     sum |-> "fn s(n) {\n\tif n == 0 { return 0 }\n\treturn n + s(n - 1)\n}\r\nprint s(2)\n",
     looped |-> "i = 0 while i < 2 { i = i + 1 if i == 2 { print i } else { print -i } }",
     stray |-> "x = 1\n\ty = x @ 2\r\n",
     ended |-> "print 1 +\r\n",
     returned |-> "print \r",
     unclosed |-> "while true {\n\tprint 1",
     unnamed |-> "print 1\n\tprint\ty1\r\n",
     spread |-> "fn f(a) { return a }\nprint f(1,\n  2)",
     wide |-> "print 1\n\tprint\t99\r\n",
     divided |-> "print 1\r\nx = 0\r\n\tprint 7 /\tx\r\nprint 2",
     tested |-> "i = 2\nwhile i { i = i - 1 }",
     typed |-> "print 1 print true\n + 1\n\t+ 2",
     deep |-> "fn d(n) { print n return\td(n) }\n\tprint d(1)",
     large |-> "a=1 b=2 c=3 d=4 e=5 f=6\r\ng=7 h=1 k=2 m=3 print m"]

Golden ==
    [one |-> Result(<<1>>, Ok),
     empty |-> Result(<<>>, Ok),
     sum |-> Result(<<3>>, Ok),
     looped |-> Result(<<-1, 2>>, Ok),
     stray |-> Result(<<>>, CompileTime),
     ended |-> Result(<<>>, CompileTime),
     returned |-> Result(<<>>, CompileTime),
     unclosed |-> Result(<<>>, CompileTime),
     unnamed |-> Result(<<>>, CompileTime),
     spread |-> Result(<<>>, CompileTime),
     wide |-> Result(<<>>, CompileTime),
     divided |-> Result(<<1>>, Runtime),
     tested |-> Result(<<>>, Runtime),
     typed |-> Result(<<1>>, Runtime),
     deep |-> Result([k \in 1 .. MaxCallDepth |-> 1], Runtime),
     large |-> Result(<<3>>, Ok)]

MCDisk == [p \in DOMAIN Files |-> Characters(Files[p])] @@ ("folder" :> <<>>)

MCUnreadable == {"folder"}

MCCommandLines ==
    UNION {{ <<p>>, <<"--engine=vm", p>>, <<p, "--dump">>,
             <<"--trace", "--engine=vm", "--engine=tree", p>> } : p \in DOMAIN MCDisk}
    \cup UNION {[1 .. n -> {"--trace", "--dump", "--engine=tree", "--engine=vm", "--engine=",
                            "-o", "-", "", "one", "none"}] : n \in 0 .. 3}
    \cup {<<"--dump", "large", "--engine=tree">>, <<"--trace", "--engine=vm", "deep">>}

-----------------------------------------------------------------------------

Values(out) == [k \in DOMAIN out |-> out[k].v]

(* Whatever else is on the command line, a file prints the same values and ends
   with the same code under either engine, on that engine alone; --dump runs
   nothing and lists the whole chunk; and a process that was given no program it
   can run writes nothing to standard output.  The one file that does not fit
   into a chunk runs on the tree only. *)
OnlyWhatWasAskedFor ==
    exit # NotYet =>
        LET ran == IF EngineMeant = "vm" THEN vmOut ELSE treeOut
            tooLarge == InputPath = "large" /\ (Dumps \/ EngineMeant = "vm")
        IN  /\ treeOut # <<>> => ~Dumps /\ EngineMeant = "tree"
            /\ vmOut # <<>> => ~Dumps /\ EngineMeant = "vm"
            /\ listing # <<>> => Dumps /\ exit = Ok
            /\ exit \in {Usage, NoInput} => ran = <<>>
            /\ IsGoodCommandLine /\ InputPath \in DOMAIN Golden /\ ~Dumps /\ ~tooLarge =>
                   Result(Values(ran), exit) = Golden[InputPath]
            /\ IsGoodCommandLine /\ InputPath \in DOMAIN Golden /\ Dumps =>
                   (exit = Ok) = (~tooLarge /\ Golden[InputPath].code # CompileTime)
            /\ exit = Ok /\ Dumps => offset = Len(chunk.code)

-----------------------------------------------------------------------------

(* "66 unreadable input file" (src/docs/GRAMMAR.md, Exit codes; the comment on
   EX_NOINPUT in src/src/diagnostic.h says the same): a path that names something
   that cannot be read ends with 66. *)
UnreadableInputIsNoInput ==
    exit # NotYet /\ IsGoodCommandLine /\ InputPath \in Unreadable => exit = NoInput
=============================================================================
