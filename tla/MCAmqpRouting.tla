---------------------------- MODULE MCAmqpRouting ----------------------------
(* Every pattern of up to three segments alone, every pair of patterns of up *)
(* to two, and every route of up to three words, the empty word included.    *)
EXTENDS AmqpRouting

MCSegments == {"a", "b", "", "*", "*x", "#"}
MCSingleLevel == {"*", "*x"}
MCMultiLevel  == {"#"}

UpTo(n, S) == UNION {[1..k -> S] : k \in 1..n}

MCTables == {<<p>> : p \in UpTo(3, MCSegments)}
       \cup {<<p, q>> : p \in UpTo(2, {"a", "*", "#"}), q \in UpTo(2, {"b", "*", "#"})}
MCRoutes == UpTo(3, {"a", "b", ""})
=============================================================================
