------------------------------ MODULE MCGameLoop ------------------------------
(***************************************************************************)
(* Two periods, two cadences at the loader's floor of five rounds, and     *)
(* three configs to begin with: the shipped one, one without persistence   *)
(* that crawls at boot, and one that disables the module.                  *)
(***************************************************************************)
EXTENDS GameLoop

Shipped == [hours |-> 1, every |-> 5, emotes |-> TRUE,
            enabled |-> TRUE, persist |-> TRUE, recrawl |-> FALSE]
MCFirstStores ==
    {Shipped,
     [Shipped EXCEPT !.persist = FALSE, !.recrawl = TRUE],
     [Shipped EXCEPT !.enabled = FALSE]}
=============================================================================
