------------------------------- MODULE MCCitations -----------------------------
\* One library; a repository that starts to cite a paper, and one a paper names.
EXTENDS Citations

CONSTANTS library1, lab1, lab2, paper1, paper2

MCNamed == [p \in Papers |-> IF p = paper1 THEN {lab2} ELSE {}]
MCCites == [r \in Labs |-> IF r = lab1 THEN <<{}, {paper2}>> ELSE <<{}>>]

Standing(v, c) == [visible |-> v, confirmed |-> [l \in Researched |-> c]]

MCStandings == {Standing(Labs, Labs), Standing(Labs, {lab1}), Standing({lab2}, {lab2})}

================================================================================
