----------------------------- MODULE MCRegistry -----------------------------
\* Constants for model checking Registry.
EXTENDS Registry

MCIds == (Leaves \cup Groups) \X Gens
Cfg(leaves, groups, def) == [leaves |-> leaves, groups |-> groups, default |-> def]
Def(replicas) == [g \in Groups |-> [primary |-> "a", replicas |-> replicas,
                                    candidates |-> {}, shadow |-> "s"]]
Shadowed == Def({})
Replicated == Def({"b"})

\* A configuration, and one whose shadow is missing, which resolveShadows refuses.
SameDefault == {Cfg({"a", "s"}, {"g"}, "a"), Cfg({"a"}, {"g"}, "a")}
OtherDefault == {Cfg({"a", "s"}, {}, "a"), Cfg({"a"}, {"g"}, "g")}
BothDefaults == SameDefault \cup OtherDefault
Plain == {Cfg({"a", "b"}, {}, "a")}
=============================================================================
