-------------------------- MODULE MCContentScript --------------------------
(* Small instances of ContentScript. *)
EXTENDS ContentScript

MCElements == {1, 2}

(* One element in the page and one in a frame of it. *)
MCEmbedded == [e \in MCElements |-> IF e = 1 THEN "main" ELSE "embedded"]

(* Both in the page. *)
MCTogether == [e \in MCElements |-> "main"]

MCLayouts == {MCEmbedded, MCTogether}
MCPage == {MCTogether}
=============================================================================
