---------------------------- MODULE MCSceneManager ----------------------------
(* CCMSceneManager on small instances. *)
EXTENDS CCMSceneManager
=============================================================================
