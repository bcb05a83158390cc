-------------------------- MODULE MCShellPipeline --------------------------
(* Pipelines for TLC: every command, and every reason to run one after the *)
(* other.                                                                  *)
EXTENDS ShellPipeline

Command(does, n, kind) == [does |-> does, n |-> n, kind |-> kind]

Plain == {Command(d, 1, "plain") : d \in Commands \ {"seq"}}
           \cup {Command("seq", 3, "plain"), Command("head", 0, "plain")}

Others == {Command("cat", 1, "redirected"), Command("seq", 2, "redirected"),
           Command("sort", 1, "redirected"), Command("cat", 1, "unknown"),
           Command("cat", 1, "bad")}

SmallPipelines ==
  {<<a>> : a \in Plain \cup Others}
    \cup {<<a, b>> : a, b \in Plain \cup Others}
    \cup {<<a, b, c>> : a, b, c \in Plain}
    \cup {<<a, b, c>> : a \in Plain, b, c \in Others}

\* Out of order, not decodable in the middle, and more than a pipe holds.
SmallInputs == {<<>>, <<2, 1>>, <<2, Raw>>, <<3, 2, 1>>}
=============================================================================
