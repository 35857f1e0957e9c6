------------------------------ MODULE MCControls ------------------------------
(* Instances of the controls for TLC. *)
EXTENDS ControlsProperties, TLC

MCInput(buttons, stick) == [buttons |-> buttons, stick |-> stick]
MCNoInput == MCInput({}, 0)
MCInputs  == {MCNoInput, MCInput({"X"}, 0)}
MCVanilla == [mode |-> "vanilla", input |-> MCNoInput]
MCPads    == {MCVanilla, [mode |-> "only", input |-> MCInput({"A"}, 1)]}

MCTrigger(kind, buttons, keys) == [kind |-> kind, buttons |-> buttons, keys |-> keys]
MCNoTrigger == MCTrigger("none", {}, <<>>)
MCTriggers  == {MCTrigger("buttons", {"X"}, <<>>), MCTrigger("keyboard", {}, <<"Q", "W">>)}
MCSymmetry == Permutations(Handles)
MCKeysPressed == {{}, {"Q", "W"}}
=============================================================================
