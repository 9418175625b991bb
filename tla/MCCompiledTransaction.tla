----------------------- MODULE MCCompiledTransaction -----------------------
(***************************************************************************)
(* Pools of statements from which TLC puts every body together.            *)
(***************************************************************************)
EXTENDS CompiledTransaction

BitWidths == [a |-> 1, b |-> 1, x |-> 1, s |-> 1, v |-> 2]

\* The Channels declared as Channel #(W).
DeclaredChannels == [C |-> 1, V |-> 2]

\* Tokens a and b, a result x and an external input s: guards around
\* Receives, Assigns and Sends, nested and composed.
GuardedStatements ==
    LET a == Name("a")  b == Name("b")  x == Name("x")  s == Name("s")
    IN {Receive("A", Whole("a")),
        If(s, Receive("B", Whole("b")), Skip),
        If(a, Receive("B", Whole("b")), Skip),
        If(s, Receive("A", Whole("a")), Receive("B", Whole("b"))),
        If(s, Assign(Whole("b"), a), Receive("B", Whole("b"))),
        If(a, Assign(Whole("x"), Not(a)), Skip),
        If(s, Assign(Whole("x"), b), Assign(Whole("x"), Or(s, a))),
        Assign(Whole("x"), And(s, b)),
        Assign(Whole("x"), Conditional(a, x, s)),
        Assign(Whole("a"), Literal(1)),
        Assign(Whole("s"), Not(s)),
        Send("C", x),
        If(a, Send("C", x), Skip),
        If(s, Send("C", a), Send("D", b)),
        If(Not(a), If(s, Send("C", b), Skip), Send("D", a)),
        Parallel(<<Send("C", s), Send("D", Invert(a))>>)}

\* A two-bit token v taken and computed whole or bit by bit, in parallel.
SliceStatements ==
    LET low == {<<"v", 0>>}  high == {<<"v", 1>>}
        v0 == Select("v", 0)  v1 == Select("v", 1)  x == Name("x")
    IN {Receive("V", Whole("v")),
        Receive("W", low),
        Parallel(<<Receive("X", low), Receive("W", high)>>),
        Parallel(<<Sequence(<<Assign(low, Invert(v0)), Assign(Whole("x"), v0)>>),
                   Assign(high, Name("s"))>>),
        Parallel(<<Assign(high, v0), Assign(Whole("x"), v1)>>),
        Parallel(<<If(v0, Assign(high, Name("s")), Skip), Assign(Whole("x"), Name("s"))>>),
        Parallel(<<Assign(Whole("x"), v1), Send("D", v0)>>),
        If(x, Assign(high, Not(v1)), Skip),
        Assign(Whole("v"), Conditional(x, Name("v"), Invert(Name("v")))),
        Send("D", Name("v")),
        Send("D", Literal(1)),
        If(x, Send("D", v1), Send("C", v0)),
        Parallel(<<Send("C", v1), Sequence(<<Skip, Send("D", Name("v"))>>)>>)}

AllPools == {GuardedStatements, SliceStatements}

\* The enable of a Send is computed from what the branch has assigned.
EnableRewritten ==
    LET a == Name("a")
    IN {{Receive("A", Whole("a")),
        If(a, Send("C", a), Assign(Whole("a"), Not(a))),
        Send("D", a)}}

\* Two tests of a variable that is assigned in between.
RetestedGuard ==
    LET a == Name("a")
    IN {{Receive("A", Whole("a")),
        If(a, Assign(Whole("x"), a), Skip),
        Assign(Whole("a"), Not(a)),
        If(a, Send("C", Name("x")), Skip),
        Send("D", a)}}
=============================================================================
