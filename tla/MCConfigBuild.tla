--------------------------- MODULE MCConfigBuild ----------------------------
(***************************************************************************)
(* ConfigBuild for TLC: a block refers to a client that is declared twice, *)
(* enabled first and then disabled, and the enabled one refers to a block  *)
(* declared after both.                                                    *)
(***************************************************************************)
EXTENDS ConfigBuild

NoFunctions == [s \in ToSet(FunctionStages) |-> << >>]
Block(name, refs, disabled) ==
  [name |-> name, kind |-> "named", refs |-> refs, ordered |-> TRUE, disabled |-> disabled]
SharedName ==
  {[vinit |-> << >>, funcs |-> NoFunctions, consts |-> << >>,
    blocks |-> <<Block(1, {2}, FALSE), Block(2, {3}, FALSE), Block(2, {}, TRUE), Block(3, {}, FALSE)>>]}
=============================================================================
