------------------------------- MODULE MCPatch -------------------------------
(* An instance of the patches for TLC: the two frame rates, and a patchset    *)
(* with a record of two instructions that overlaps them and a hook.           *)
EXTENDS PatchProperties

MCAddr  == 1 .. 2
MCInst  == {"zero", "game", "exefs", "hook", "large", "small", "own", "own2"}
MCLoads == {[a \in MCAddr |-> "game"], [a \in MCAddr |-> IF a = 1 THEN "exefs" ELSE "game"]}

Rec(a, w) == [at |-> a, word |-> w]
MCIps ==
  [s \in {"fixed20", "fixed30", "camera"} |->
     CASE s = "fixed20" -> <<Rec(1, "large")>>
       [] s = "fixed30" -> <<Rec(1, "small")>>
       [] OTHER         -> <<Rec(1, "own"), Rec(2, "own"), Rec(2, "own2")>>]
=============================================================================
