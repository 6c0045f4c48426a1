---------------------------- MODULE MCPaillierPsi ----------------------------
(* Words of three bits, a host table in which one identifier occurs twice,  *)
(* and labels 0, 1 (the driver's) and -1 (the players take any int32_t).   *)
EXTENDS PaillierPsi, TLC

MCIds == {"a", "b", "x"}
MCHostRows == 0 .. 2
MCHostIds == 0 :> "a" @@ 1 :> "b" @@ 2 :> "a"
MCTags == {1, 2, 3}
MCShortOf == "a" :> 1 @@ "b" :> 2 @@ "x" :> 3
MCLabels == {-1, 0, 1}
=============================================================================
