--------------------------- MODULE MCDesktopHost ---------------------------
(* A small instance of DesktopHost: each browser numbers its tabs itself,  *)
(* so one id may stand for a page of either.                               *)
EXTENDS DesktopHost

MCTabsOf == [b \in Browsers |-> IF b = "edge" THEN {1, 2} ELSE {2}]
=============================================================================
