---------------------------- MODULE MCGrpcClient ----------------------------
(* Instances of GrpcClient for TLC.                                        *)
EXTENDS GrpcClient

CONSTANTS c1, c2, unavailable, not_found

MCCallers == {c1, c2}
MCCodes == {unavailable, not_found}
MCRetryOn == {unavailable}

(* No policy; one retry; and u32::MAX retries, where max_retries + 1 wraps.*)
MCConfigs ==
  {[retry |-> r, max_retries |-> m, breaker |-> b] :
     r \in BOOLEAN, m \in {1, 3}, b \in BOOLEAN}
=============================================================================
