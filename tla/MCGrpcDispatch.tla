--------------------------- MODULE MCGrpcDispatch ---------------------------
(* GrpcDispatch with two methods: GetUser has path captures, ListUsers     *)
(* none.                                                                   *)
EXTENDS GrpcDispatch, TLC

CONSTANTS GetUser, ListUsers

MCHttpStatuses == {200, 304}
MCBoolean == {TRUE, FALSE}

(* A handler that takes Json<T>, and one that takes Proto<T>.              *)
MCMixed == (GetUser :> "json") @@ (ListUsers :> "proto")
=============================================================================
