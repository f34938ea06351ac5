------------------------------- MODULE MCVideo -------------------------------
(* CCMVideo on devices and in browsers, with and without loop, its player's *)
(* events in time or late.                                                  *)
EXTENDS CCMVideo

AllSetups == Setup
=============================================================================
