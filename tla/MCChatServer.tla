---------------------------- MODULE MCChatServer ----------------------------
(* TLC instance of ChatServer: three users, so that one leaves while another  *)
(* is to be sent what it said and a third is moved to its place.              *)
EXTENDS ChatServer, TLC

Descriptors == Permutations(Fds)
==============================================================================
