------------------------------ MODULE Errcode ------------------------------
(***************************************************************************)
(* The frozen error codes and the exit codes they become                   *)
(* (src/internal/errcode/codes.go).  An error is coded when one of the     *)
(* frozen codes can be recovered from its chain; one that is not exits as  *)
(* a generic error.                                                        *)
(***************************************************************************)
EXTENDS Naturals

Success            == 0
GenericError       == 1
UsageError         == 2
AuthRequired       == 3
NotFound           == 4
PermissionDenied   == 5
Conflict           == 6
QuotaExceeded      == 7
RateLimited        == 8
ServiceUnavailable == 9

Codes == {"validation_failed", "auth_required", "cluster_not_found", "permission_denied",
          "access_restricted", "cluster_already_exists", "quota_exceeded", "rate_limited",
          "service_unavailable", "internal_error"}

\* The code of an error no code can be recovered from.
Uncoded == ""

BugUnavailableIsLimited(code) ==
  CASE code = "validation_failed"                          -> UsageError
    [] code = "auth_required"                              -> AuthRequired
    [] code = "cluster_not_found"                          -> NotFound
    [] code \in {"permission_denied", "access_restricted"} -> PermissionDenied
    [] code = "cluster_already_exists"                     -> Conflict
    [] code = "quota_exceeded"                             -> QuotaExceeded
    [] code \in {"rate_limited", "service_unavailable"}    -> RateLimited
    [] OTHER                                               -> GenericError

ExitForCode(code) ==
  CASE code = "validation_failed"                          -> UsageError
    [] code = "auth_required"                              -> AuthRequired
    [] code = "cluster_not_found"                          -> NotFound
    [] code \in {"permission_denied", "access_restricted"} -> PermissionDenied
    [] code = "cluster_already_exists"                     -> Conflict
    [] code = "quota_exceeded"                             -> QuotaExceeded
    [] code = "rate_limited"                               -> RateLimited
    [] code = "service_unavailable"                        -> ServiceUnavailable
    [] OTHER                                               -> GenericError

=============================================================================
