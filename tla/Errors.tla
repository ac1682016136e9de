------------------------------- MODULE Errors -------------------------------
(***************************************************************************)
(* What the API answers when a view raises: custom_exception_handler, the  *)
(* EXCEPTION_HANDLER of the settings.  An answer is a status and the code  *)
(* of its body; messages and field errors are left out.                    *)
(***************************************************************************)
EXTENDS Naturals

Answer(status, code) == [status |-> status, code |-> code]

\* The answer of a view that returns.
Success(status) == Answer(status, "none")

\* The exceptions of the program and of the frameworks below it.
ApiError(status, code) == [type |-> "ApiError", status |-> status, code |-> code]
ValidationError == [type |-> "ValidationError"]
\* One that drf_exception_handler knows; "says" is the first message of the JWT
\* library, or "nothing" when the exception is not its.
APIException(status, says) == [type |-> "APIException", status |-> status, says |-> says]
\* DatabaseError, IntegrityError, DoesNotExist, OperationalError of Redis...
Unexpected == [type |-> "Unexpected"]

ServerError == Answer(500, "INTERNAL_ERROR")

\* _resolve_401: the JWT library says "expired" or "invalid or expired".
Resolve401(says) ==
    CASE says = "nothing" -> "UNAUTHORIZED"
      [] says = "expired" -> "TOKEN_EXPIRED"
      [] OTHER            -> "TOKEN_NOT_VALID"

\* _status_to_code
StatusToCode(status) ==
    CASE status = 400 -> "BAD_REQUEST"
      [] status = 401 -> "UNAUTHORIZED"
      [] status = 403 -> "FORBIDDEN"
      [] status = 404 -> "NOT_FOUND"
      [] status = 405 -> "METHOD_NOT_ALLOWED"
      [] status = 429 -> "RATE_LIMITED"
      [] OTHER        -> "API_ERROR"

\* custom_exception_handler
Handle(exc) ==
    CASE exc.type = "ApiError"        -> Answer(exc.status, exc.code)
      [] exc.type = "ValidationError" -> Answer(400, "VALIDATION_ERROR")
      [] exc.type = "APIException"    ->
             Answer(exc.status, IF exc.status = 401 THEN Resolve401(exc.says)
                                                    ELSE StatusToCode(exc.status))
      [] OTHER                        -> ServerError
=============================================================================
