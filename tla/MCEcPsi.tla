------------------------------- MODULE MCEcPsi -------------------------------
(* Instances of EcPsi: a host table of three rows in which one identifier  *)
(* occurs twice, and four identifiers a client may hold: two the host has, *)
(* one whose prefix is that of another, and one the host does not have.    *)
EXTENDS EcPsi, TLC

MCIds == {"a", "b", "x", "y"}
MCHostRows == 0 .. 2
MCHostIds == 0 :> "a" @@ 1 :> "b" @@ 2 :> "a"

MCTags == {1, 2, 3}
\* The client's "x" has the same prefix as the host's "b".
MCShortOf == "a" :> 1 @@ "b" :> 2 @@ "x" :> 2 @@ "y" :> 3
=============================================================================
