---------------------------- MODULE MCCategoryView ----------------------------
(* CCMCategoryView on lists of a few rows. *)
EXTENDS CCMCategoryView

Lists ==
    {[header |-> TRUE, counts |-> <<3>>, initialOffset |-> 0],
     [header |-> FALSE, counts |-> <<1, 0, 2>>, initialOffset |-> 3]}
ScrolledTo == {-1, 1, 2, 5, 6, 9}
=============================================================================
