------------------------------ MODULE MCChatHub ------------------------------
(***************************************************************************)
(* TLC instances of ChatHub.  Clients, feeds and attached publishers are   *)
(* interchangeable; the runs without liveness reduce by clients and feeds. *)
(***************************************************************************)
EXTENDS ChatHub, TLC

Symmetry == Permutations(Clients) \cup Permutations(Feeds)
==============================================================================
