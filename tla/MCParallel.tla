----------------------------- MODULE MCParallel -----------------------------
(***************************************************************************)
(* Small instances of Parallel for TLC: a flat pipeline of two branches,   *)
(* and one with two empty branches inside a branch of another.             *)
(***************************************************************************)
EXTENDS Parallel, TLC

(* fan - (a | b) - join *)
FlatDown == ("fan" :> <<"a", "b">>) @@ ("a" :> <<"join">>) @@ ("b" :> <<"join">>)
            @@ ("join" :> <<>>)
FlatUp == ("fan" :> "source") @@ ("a" :> "fan") @@ ("b" :> "fan") @@ ("join" :> "a")
FlatBranch == ("fan" :> 0) @@ ("a" :> 1) @@ ("b" :> 2) @@ ("join" :> 0)
OneFanOf == "join" :> "fan"
OneWidth == "join" :> 2

(* fan - (fan2 - ( | ) - join2 - a) - join *)
NestedFans == {"fan", "fan2"}
NestedJoins == {"join", "join2"}
NestedFanOf == ("join" :> "fan") @@ ("join2" :> "fan2")
InnerDown == ("fan" :> <<"fan2">>) @@ ("fan2" :> <<"join2", "join2">>)
             @@ ("join2" :> <<"a">>) @@ ("a" :> <<"join">>) @@ ("join" :> <<>>)
InnerUp == ("fan" :> "source") @@ ("fan2" :> "fan") @@ ("join2" :> "fan2")
           @@ ("a" :> "join2") @@ ("join" :> "a")
InnerBranch == ("fan" :> 0) @@ ("fan2" :> 0) @@ ("join2" :> 0) @@ ("a" :> 1)
               @@ ("join" :> 0)
InnerWidth == ("join" :> 1) @@ ("join2" :> 2)

(* The first of them is what the theorems about flat pipelines speak of.    *)
ASSUME FlatAssumption == Down = FlatDown => Flat

BargeIn == <<"Text", "Interruption", "End">>
=============================================================================
