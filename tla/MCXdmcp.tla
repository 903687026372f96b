------------------------------ MODULE MCXdmcp ------------------------------
(* Instances of Xdmcp for TLC: a terminal whose X server came back with      *)
(* another port, one for which no name can be made, and two hosts of which   *)
(* one is this one.                                                          *)
EXTENDS Xdmcp

Texts == Keywords \cup {"term", "alpha", "self", "localhost"}
Addresses == {"c", "u", "a", "s"}
Resolving == [x \in Texts |-> CASE x = "alpha" -> "a" [] x = "self" -> "s" [] OTHER -> NoAddress]
Names == [x \in Addresses |-> CASE x = "s" -> "self" [] x = "a" -> "alpha" [] OTHER -> "term"]
Globs == Texts \X {"*"}

W(x) == [not |-> FALSE, text |-> x]
Direct == <<W("*")>>
Chooser == <<W("*"), W("CHOOSER"), W("alpha"), W("self")>>
Accesses == {ReadAccessDatabase(<<Direct, Chooser>>), ReadAccessDatabase(<<Chooser>>)}

Clients == "e1" :> "c" @@ "e2" :> "c" @@ "e3" :> "c"
Numbers == [e \in End |-> 0]
Connections == "e1" :> <<"u", "c">> @@ "e2" :> <<"c">> @@ "e3" :> <<"u">>
Authorizations == "e1" :> "known" @@ "e2" :> "none" @@ "e3" :> "none"
=============================================================================
