------------------------------ MODULE MCAccess ------------------------------
(* Instances of Listen for TLC: a terminal, three hosts of which one is     *)
(* this one, two macros that use each other, and a name that is unknown.    *)
EXTENDS Listen

Texts3 == Keywords \cup {"%a", "%b", "term", "alpha", "beta", "self", "group", "bad", "localhost"}
Patterns == {"*"}
Addresses == {"t", "a", "b", "s", "g", "g6"}
Resolving == [x \in Texts3 |->
  CASE x = "term" -> "t" [] x = "alpha" -> "a" [] x = "beta" -> "b"
    [] x = "self" -> "s" [] x = "group" -> "g" [] OTHER -> NoAddress]
Names == [x \in Addresses |->
  CASE x = "t" -> "term" [] x = "a" -> "alpha" [] x = "b" -> "beta"
    [] x = "s" -> "self" [] OTHER -> "bad"]
Globs == Texts3 \X Patterns

W(x) == [not |-> FALSE, text |-> x]
Not(x) == [not |-> TRUE, text |-> x]

AccessLines ==
  {<<W("term")>>, <<Not("term")>>, <<W("*"), W("NOBROADCAST")>>,
   <<W("%a"), W("alpha"), W("%b")>>, <<W("%b"), W("%a"), W("self"), W("BROADCAST")>>,
   <<W("term"), W("*"), W("%a")>>, <<Not("term"), W("beta")>>, <<Not("term"), W("bad")>>,
   <<W("*"), W("CHOOSER"), W("%b")>>, <<W("bad"), W("term"), W("beta")>>}

ListenLines ==
  {<<W("LISTEN")>>, <<W("LISTEN"), W("self"), W("group")>>, <<W("LISTEN"), W("*")>>,
   <<W("LISTEN"), W("self")>>, <<W("LISTEN"), W("beta"), W("group"), W("alpha")>>}

FilesOf(lines) ==
  {<<>>} \cup {<<x>> : x \in lines} \cup {<<x, y>> : x, y \in lines}

Started ==
  FilesOf(AccessLines) \cup
    {<<x, y, z>> : <<x, y, z>> \in {t \in AccessLines \X AccessLines \X AccessLines :
                                    Cardinality({t[1], t[2], t[3]}) = 3 /\ t[1][1].text # "%a"}}
Edited == FilesOf(ListenLines)
=============================================================================
