---------------------------- MODULE MCMediaHub ----------------------------
(* Small instances of MediaHub. *)
EXTENDS MediaHub

MCTabs == {1, 2}
MCStamps == {0, 1}

MCOneStamp == {0}

(* On every list of three tabs, three stamps, the choice of the active tab *)
(* has exactly one outcome: ActiveTabs is a translation of a sort.         *)
ASSUME \A m \in UNION {[D -> [playing : BOOLEAN, lastActiveAt : 0..2]] :
                          D \in SUBSET (1..3)},
          focus \in 0..3 :
         \E t \in 0..3 : ActiveTabs(m, focus) = {t}
=============================================================================
