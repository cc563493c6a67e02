---------------------------- MODULE MCApiClient ----------------------------
(***************************************************************************)
(* ApiClient for TLC: a read and a create, two retries, one redirect that  *)
(* is followed (the next is one too many), a status of each class the      *)
(* client tells apart and Retry-After values on both sides of the cap and  *)
(* beyond the saturation point.                                            *)
(***************************************************************************)
EXTENDS ApiClient

\* 30 s of read timeout, 90 s of write timeout, 60 s of cap, scaled down.
MCMethods == {"GET", "POST"}
MCStatuses == {200, 307, 404, 429, 503}
MCRetryAfterSeconds == {-1, 2, 3, 9}

=============================================================================
