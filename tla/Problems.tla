------------------------------ MODULE Problems ------------------------------
(***************************************************************************)
(* What a failed call is at each end: the errors the service raises        *)
(* (domain/errors.py), the problem documents they are sent as              *)
(* (api/errors.py), and what the SDK makes of an error answer              *)
(* (trellis.runs.errors and the transport).                                *)
(*                                                                         *)
(* An answer is [status, code, retryable]: code and retryable None when    *)
(* its body is not a problem document.  The words, the details and the     *)
(* request's id are left out.                                              *)
(***************************************************************************)
EXTENDS Null, Integers, FiniteSets

\* The ServiceErrors, and what is raised that is none (Fault).
Kinds == {"BadRequest", "Unauthorized", "Forbidden", "NotFound", "Conflict", "LeaseLost",
          "TooLarge", "Unprocessable", "RateLimited", "Unavailable", "Fault"}

StatusOf ==
    [BadRequest |-> 400, Unauthorized |-> 401, Forbidden |-> 403, NotFound |-> 404,
     Conflict |-> 409, LeaseLost |-> 409, TooLarge |-> 413, Unprocessable |-> 422,
     RateLimited |-> 429, Unavailable |-> 503, Fault |-> 500]

CodeOf ==
    [BadRequest |-> "VALIDATION", Unauthorized |-> "AUTHENTICATION",
     Forbidden |-> "AUTHORIZATION", NotFound |-> "NOT_FOUND", Conflict |-> "CONFLICT",
     LeaseLost |-> "LEASE_LOST", TooLarge |-> "PAYLOAD_TOO_LARGE",
     Unprocessable |-> "VALIDATION", RateLimited |-> "RATE_LIMIT",
     Unavailable |-> "DEPENDENCY_UNAVAILABLE", Fault |-> "INTERNAL"]

MayBeRepeated == {"RateLimited", "Unavailable"}

\* _service_error, _validation_error, _database_error and _unhandled: a failure as its
\* problem.  A database that cannot be reached, or has no connection free in time, is
\* Unavailable; whatever else it refuses is a Fault.  Two are left out, which no read of a
\* listing is answered with: an error raised with a retryable of its own (FireFailed), and a
\* bare status the framework raises (405, an unknown path).
Problem(kind) ==
    [status |-> StatusOf[kind], code |-> CodeOf[kind], retryable |-> kind \in MayBeRepeated]

\* A proxy before the service answers in its place.
Proxied(status) == [status |-> status, code |-> None, retryable |-> None]

------------------------------------------------------------------------------
RETRY_STATUSES == {429, 502, 503, 504}

BY_CODE ==
    [AUTHENTICATION |-> "AuthenticationError", AUTHORIZATION |-> "AuthorizationError",
     NOT_FOUND |-> "NotFoundError", CONFLICT |-> "ConflictError",
     LEASE_LOST |-> "LeaseLostError", VALIDATION |-> "ValidationError",
     PAYLOAD_TOO_LARGE |-> "PayloadTooLargeError", RATE_LIMIT |-> "RateLimitedError",
     DEPENDENCY_UNAVAILABLE |-> "DependencyUnavailableError"]

BY_STATUS(status) ==
    CASE status \in {400, 405, 422} -> "ValidationError"
      [] status = 401               -> "AuthenticationError"
      [] status = 403               -> "AuthorizationError"
      [] status = 404               -> "NotFoundError"
      [] status = 409               -> "ConflictError"
      [] status = 413               -> "PayloadTooLargeError"
      [] status = 429               -> "RateLimitedError"
      [] status \in {502, 503, 504} -> "DependencyUnavailableError"
      [] OTHER                      -> "RunsError"

\* error_from_problem: the class raised for an error answer ...
ErrorClass(answer) ==
    IF answer.code \in DOMAIN BY_CODE THEN BY_CODE[answer.code] ELSE BY_STATUS(answer.status)

\* ... and whether it says that the same call may succeed later.
Retryable(answer) ==
    IF answer.retryable # None THEN answer.retryable ELSE answer.status \in RETRY_STATUSES

\* _again: whether the transport sends the call again.
Again(answer) == answer.status \in RETRY_STATUSES /\ Retryable(answer)
=============================================================================
