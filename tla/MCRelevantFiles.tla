-------------------------- MODULE MCRelevantFiles --------------------------
(* Small worktrees and short patterns for RelevantFiles.                   *)
EXTENDS RelevantFiles

MCPaths == {<<"a">>, <<"a", "a">>, <<"a", "/", "a">>, <<"a", "a", "/", "a">>,
            <<"a", "/", "a", "/", "a">>}

\* Two stars only as a whole segment.
WholeSegments(p) ==
  \A i \in 1 .. Len(p) - 1 : p[i] = "*" /\ p[i + 1] = "*" =>
    /\ i > 1 => p[i - 1] = "/"
    /\ i + 1 < Len(p) => p[i + 2] = "/"

\* Every pattern of at most four characters, and some that are refused.
ShortPatterns ==
  {p \in UNION {[1 .. n -> {"a", "*", "?", "/"}] : n \in 1 .. 4} : Head(p) # "/"} \cup
  {<<".", ".">>, <<"a", "/", ".", ".">>, <<"a", ".", ".">>, <<"/", "a">>}

\* Two files, neither above the other, or fewer.
Two(f, s, g, t) == [p \in MCPaths |-> IF p = f THEN s ELSE IF p = g THEN t ELSE "absent"]

Trees ==
  {Two(f, s, g, t) : <<f, g>> \in {x \in MCPaths \X MCPaths : ~Above(x[1], x[2]) /\ ~Above(x[2], x[1])},
                     s \in {"tracked", "ignored"}, t \in {"absent", "link", "ignored"}}

\* Every status of one file under any pattern, and two files under three
\* patterns, the last one again the first.
Lists == {<<p, q, p>> : p, q \in {<<"*", "*">>, <<"a", "/", "*">>, <<"*">>}}

MCRequests ==
  [patterns : {<<p>> : p \in {q \in ShortPatterns : WholeSegments(q)}},
   status : {Two(f, s, f, s) : f \in MCPaths, s \in Statuses}] \cup
  [patterns : Lists, status : Trees]

\* Two stars anywhere.
AnyRequests ==
  [patterns : {<<p>> : p \in ShortPatterns},
   status : {Two(f, "ignored", f, "ignored") : f \in MCPaths}]

\* Git changes its mind while three patterns are listed.
FewChanges == changes' = changes \/ patterns \in Lists
=============================================================================
