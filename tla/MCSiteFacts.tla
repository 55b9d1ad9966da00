---------------------------- MODULE MCSiteFacts -----------------------------
(* SiteFacts for TLC: parcels of three bodies.  Theirs is renumbered and    *)
(* its body has an article on a district; the twin's body has an ordinance  *)
(* of the same name as mine and the twin's land-use rows have no statutory  *)
(* zone.                                                                    *)
EXTENDS SiteFacts, TLC

CONSTANTS mine, theirs, twin, bodyP, bodyQ, bodyR, planP, planQ, r1, r2, job

MCBody  == [x \in {mine, theirs, twin} |->
              CASE x = mine -> bodyP [] x = theirs -> bodyQ [] x = twin -> bodyR]
MCTitle == [b \in {bodyP, bodyQ, bodyR} |-> IF b = bodyQ THEN planQ ELSE planP]
MCLocal  == [b \in {bodyP, bodyQ, bodyR} |-> IF b = bodyQ THEN {"o"} ELSE {}]
MCWithin == [b \in {bodyP, bodyQ, bodyR} |-> [x \in {"o"} |-> {theirs}]]
MCSites == {<<mine>>, <<theirs>>, <<twin>>}
MCTogether == {<<theirs, mine>>}
MCSymmetry == Permutations({r1, r2})
=============================================================================
