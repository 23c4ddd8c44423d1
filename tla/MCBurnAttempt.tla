---------------------------- MODULE MCBurnAttempt ----------------------------
(***************************************************************************)
(* Two tasks, the id of one a prefix of the other's, and two gates: one    *)
(* for code, one for any change.                                           *)
(***************************************************************************)
EXTENDS BurnAttempt, TLC

TwoTasks == {1, 10}
OnePrefix == {<<1, 10>>}
PathKinds == {"code", "doc", "stray", "backlog"}
SomeDiffs == {{"code"}, {"doc"}, {"code", "stray"}}
FirstThenAny == <<{1}, {1, 10}>>
TwoGates == <<"lint", "test">>
GatesApply == ("lint" :> PathKinds) @@ ("test" :> {"code"})

CallSymmetry == Permutations(Calls)
=============================================================================
