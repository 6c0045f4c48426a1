---------------------------- MODULE MCPsiToShare ----------------------------
(* Instances of PsiToShare: a host table of four rows, a client that holds *)
(* two or three identifiers some of which the host does not have.          *)
EXTENDS PsiToShare, TLC

MCIds == {"a", "b", "c", "d", "x", "y"}
MCTags == 1 .. 6
MCShortOf == "a" :> 1 @@ "b" :> 2 @@ "c" :> 3 @@ "d" :> 4 @@ "x" :> 5 @@ "y" :> 6

MCHostRows == 0 .. 3
MCHostIds == 0 :> "a" @@ 1 :> "b" @@ 2 :> "c" @@ 3 :> "d"

MCData == 0 :> (0 :> 0 @@ 1 :> 1 @@ 2 :> 2 @@ 3 :> 1)

\* Two columns per driver: none, some or all identifiers in common.
Column2(i, j) == 0 :> i @@ 1 :> j
Column3(i, j, k) == 0 :> i @@ 1 :> j @@ 2 :> k
MCRatioInputs == {Column2("x", "y"), Column2("d", "x"), Column3("d", "b", "a")}
MCFileInputs == {Column2("x", "b"), Column2("d", "a")}
\* "count": the common identifiers are the host's first rows.
MCCountInputs == {Column2("x", "a"), Column2("a", "b")}
MCInputs == "ratio" :> MCRatioInputs @@ "file" :> MCFileInputs @@ "count" :> MCCountInputs
=============================================================================
