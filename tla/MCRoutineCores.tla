--------------------------- MODULE MCRoutineCores ---------------------------
(* A review of every edit script of up to three lines and of longer ones    *)
(* with merging, separate and truncated hunks; of branches whose files are  *)
(* many or change; and both kinds of run while a document is edited.        *)
EXTENDS RoutineCores, TLC

Letters == {"=", "+", "-"}
ShortScripts == UNION {[1..n -> Letters] : n \in 1..3}
Fives == {<<a>> \o <<"=", "=", "=", "=", "=">> \o <<b, c>> : a \in {"+", "-"}, b, c \in {"+", "-"}}
Scripts == ShortScripts \cup Fives \cup
    { <<"c", "+", "=">>, <<"=", "=", "=", "+", "c", "-">>, <<"+", "=", "=", "+", "=", "=", "+">>,
      <<"=", "=", "=", "=", "+", "+", "-", "=">> }

Text(path, script) == [path |-> path, kind |-> "text", script |-> script]
File(kind) == [path |-> kind, kind |-> kind, script |-> <<>>]
Both == Kinds
Book(size) == [size |-> size, kinds |-> Both]
Books == ("p" :> Book(3)) @@ ("q" :> Book(2))

Plain(kind, files) ==
    [kind |-> kind, names |-> <<>>, playbooks |-> <<>>, skills |-> <<>>, edits |-> 0, target |-> files]
Diffs == {Plain("review", << <<Text("a", s)>>, <<Text("a", <<"+">>)>> >>) : s \in Scripts}
Several ==
    { Plain("review", << <<Text("a", <<"=", "+">>), File("binary"), Text("b", <<"-">>)>>, <<>> >>),
      Plain("review", << <<>>, <<Text("a", <<"+">>)>> >>),
      Plain("review", << <<File("binary")>>, <<File("deleted")>> >>),
      Plain("review", << <<File("mode"), File("deleted"), File("binary"), Text("a", <<"+">>)>>, <<>> >>) }
Documented(kind, skillTable) ==
    [kind |-> kind, names |-> <<"p", "q">>, playbooks |-> Books, skills |-> skillTable,
     edits |-> 1, target |-> << <<>>, <<Text("a", <<"+">>)>> >>]
MCLaunches ==
    Diffs \cup Several \cup
    { Documented("review", ("s" :> 3) @@ ("t" :> 2)), Documented("bughunt", ("s" :> 3) @@ ("t" :> 2)) }

MCHunts == {l \in MCLaunches : l.kind = "bughunt"}

Raw(line, path, titled) == [line |-> line, path |-> path, file |-> path, titled |-> titled]
MCFindings ==
    {<<Raw(line, "same", TRUE)>> : line \in {NoLine, Infinite} \cup -1..9} \cup
    { <<Raw(1, "other", TRUE), Raw(1, "basename", TRUE), Raw(1, "same", FALSE)>> }
MCAnswers ==
    { NoAnswer, [ok |-> TRUE, raw |-> <<>>],
      [ok |-> TRUE, raw |-> <<Raw(2, "known", TRUE), Raw(4, "disk", TRUE), Raw(1, "known", FALSE)>>],
      [ok |-> TRUE, raw |-> <<Raw(Infinite, "known", TRUE)>>] }
MCSpans == "known" :> {<<1, 3>>}
MCPicks == { <<>>, <<"s", "t">>, <<"t", "nobody", "s">>, <<"s", "s">> }
=============================================================================
