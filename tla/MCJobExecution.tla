--------------------------- MODULE MCJobExecution ---------------------------
(* What TLC gives JobExecution: commands that write on both streams or a    *)
(* line that is too long, and artifacts of up to three entries.             *)
EXTENDS JobExecution

MCScripts == {<<>>, <<"out", "err", "out">>, <<"longout">>, <<"longout", "out">>,
              <<"longerr">>, <<"longerr", "err">>}

D(p) == [path |-> p, type |-> "dir"]
F(p) == [path |-> p, type |-> "reg"]
L(p) == [path |-> p, type |-> "link"]

(* A file rewritten by a path that is spelt differently, a file where a     *)
(* directory is needed and the reverse, a link, the root.                   *)
MCContents == {
    <<D(<<"a">>), F(<<"a", "b">>), F(<<"..", "a", "b">>)>>,
    <<F(<<"a", "b">>), L(<<"c">>), D(<<"a", "..", "c">>)>>,
    <<F(<<"a">>), F(<<"a", "b">>)>>,
    <<F(<<"a", "b">>), F(<<"a">>)>>,
    <<F(<<"..">>)>> }

Artifact(e, n, s, alg, k) ==
    [entries |-> e, intact |-> n, sealed |-> s, algorithm |-> alg, key |-> k]

MCArtifacts ==
    {Artifact(e, Len(e), FALSE, "none", "none") : e \in MCContents}
    \cup {Artifact(e, 1, FALSE, "none", "none") : e \in {c \in MCContents : Len(c) > 1}}
    \cup {Artifact(<<F(<<"a">>)>>, 1, s, alg, k) :
              s \in BOOLEAN, alg \in {"none", "aes", "other"}, k \in {"right", "wrong"}}
=============================================================================
