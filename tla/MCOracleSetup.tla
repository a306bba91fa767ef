---------------------------- MODULE MCOracleSetup ----------------------------
(* Pages of four lines, four pages per pool, up to sixteen classes.        *)
EXTENDS OracleSetup

Cfg(group, workset, target) ==
    [group |-> group, workset |-> workset, target |-> target, apart |-> TRUE, fits |-> TRUE]

\* Two work sets that fit, one with two classes, one that does not divide,
\* one with fewer lines than streams, and one that only some programs accept.
MCConfigs ==
    {Cfg(4, 4, {1}), Cfg(4, 8, {2}), Cfg(2, 4, {}), Cfg(4, 6, {3}), Cfg(2, 2, {4}),
     [Cfg(4, 4, {2}) EXCEPT !.apart = FALSE, !.fits = FALSE]}

\* Three and four masks, a mask with a bit below the line, blocks of two
\* lines, and more masks than the histograms allow.
MCMaskSets ==
    {<<{0, 3}, {1, 4}, {2, 5}>>, <<{0, 2}, {1, 3}, {2, 4}, {5, 8}>>, <<{-1, 2}, {0}>>,
     <<{1, 3}, {2, 4}>>, <<{0}, {1}, {2}, {3}, {4}>>}

Names == <<"victim", "high", "low", "aggressor", "worker">> \o Levels

\* Frames of different pools differ.
Frame(bits, r) == bits \cup {8 + CHOOSE i \in 1..Len(Names) : Names[i] = r}
Layout(pattern(_)) == [r \in Range(Names) |-> [p \in 1..4 |-> pattern(r)[p]]]

Even(r) == <<Frame({}, r), Frame({4}, r), Frame({5}, r), Frame({4, 5}, r)>>
Skewed(r) ==
    LET odd == IF r \in {"low", "o50"} THEN {8} ELSE {}
    IN  <<Frame(odd, r), Frame({4} \cup odd, r), Frame({2, 4} \cup odd, r), Frame({2} \cup odd, r)>>
Twice(r) == <<Frame({}, r), Frame({4}, r), Frame({2, 4}, r), Frame({2}, r)>>
Poor(r) == IF r = "victim" THEN Even(r) ELSE <<Frame({2}, r), Frame({5}, r), Frame({3, 5}, r), Frame({2, 4}, r)>>
Hidden(r) == IF r \in {"high", "worker", "o75"} THEN <<Frame({}, r), {}, Frame({4}, r), Frame({5}, r)>> ELSE Even(r)
MCLayouts == {Layout(Even), Layout(Skewed), Layout(Twice), Layout(Poor), Layout(Hidden)}

MCElsewhere == {3, 30}
=============================================================================
