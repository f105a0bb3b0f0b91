---------------------------- MODULE MCGrpcStream ----------------------------
(* GrpcStream with two tasks that share a sender and a channel of two      *)
(* slots.                                                                  *)
EXTENDS GrpcStream
=============================================================================
