-------------------------- MODULE MCInstantiation --------------------------
(* Two struct templates, two functions (one of them imported by two units,  *)
(* each with a copy of its symbol), one method, and every program whose     *)
(* declarations are drawn from the lists below.                             *)
EXTENDS Instantiation, TLC

MCStructs  == {"Box", "Pair"}
MCArrays   == {"arr3", "arr4"}
MCConstructors == MCStructs \cup MCArrays \cup {"ptr"}
MCFunctionSymbols == {"f", "f copied", "f copied again", "g"}
MCDeclaration == ("f" :> "f") @@ ("f copied" :> "f") @@ ("f copied again" :> "f") @@ ("g" :> "g")
MCMethods  == {"get"}

Type(of)       == [what |-> "type", of |-> of, open |-> FALSE, arity |-> 1]
TypeT(of)      == [what |-> "type", of |-> of, open |-> TRUE, arity |-> 1]
CallOf(f, of)  == [what |-> "call", of |-> of, open |-> FALSE, arity |-> 1, name |-> f]
CallOfT(f, of) == [what |-> "call", of |-> of, open |-> TRUE, arity |-> 1, name |-> f]
GetOf(of)      == [what |-> "method", of |-> of, open |-> FALSE, arity |-> 1, name |-> "get"]
GetOfT(of)     == [what |-> "method", of |-> of, open |-> TRUE, arity |-> 1, name |-> "get"]

BoxFields == { <<>>, <<TypeT(<<"Box">>)>>, <<TypeT(<<"ptr", "Pair">>), Type(<<"Pair">>)>>,
               <<TypeT(<<"ptr", "Box", "Box">>)>> }
PairFields == { <<>>, <<TypeT(<<"Box">>)>> }
FSignatures == { <<>>, <<TypeT(<<"Box">>)>> }
FBodies == { <<>>, <<CallOfT("f", <<>>)>>, <<CallOfT("f", <<"ptr">>), CallOf("g", <<>>)>>,
             <<CallOfT("g", <<"Pair">>)>> }
GBodies == { <<>>, <<CallOfT("f copied", <<>>), GetOf(<<"Pair">>)>> }
GetBodies == { <<>>, <<GetOfT(<<"Box", "Box">>)>>, <<CallOfT("f", <<>>)>> }
Signatures == { <<>>, <<Type(<<"Box", "Pair">>), Type(<<"Box">>)>> }
Bodies == { <<CallOf("f", <<>>), CallOf("f copied", <<>>), CallOf("f copied again", <<>>)>>,
            <<CallOf("f", <<"arr3">>), CallOf("f", <<"arr4">>)>>,
            <<GetOf(<<"Box">>), GetOf(<<"Box">>), CallOf("g", <<"Box">>)>>,
            <<[Type(<<"Box">>) EXCEPT !.arity = 2], CallOf("g", <<>>), Type(<<"Pair", "Pair">>)>> }

MCPrograms ==
  {[signatures |-> s, bodies |-> b,
    fields |-> ("Box" :> bf) @@ ("Pair" :> pf),
    signature |-> ("f" :> fs) @@ ("g" :> <<>>) @@ ("get" :> <<>>),
    body |-> ("f" :> fb) @@ ("g" :> gb) @@ ("get" :> mb)] :
   s \in Signatures, b \in Bodies, bf \in BoxFields, pf \in PairFields,
   fs \in FSignatures, fb \in FBodies, gb \in GBodies, mb \in GetBodies}
=============================================================================
