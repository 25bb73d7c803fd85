---------------------------- MODULE ErrorCodes ----------------------------
(***************************************************************************)
(* errors.hpp: ErrorCodes, a std::variant over the kinds of error, and the *)
(* conversions into it.  The enumerations have eight bits; an int that is  *)
(* converted keeps its value modulo 256.                                   *)
(***************************************************************************)
EXTENDS Integers

ErrorTypes == {"NO_ERR", "EVENT_MANAGER_ERR",
               "LIBURING_SUBMISSION_ERR_ERRNO", "OPERATION_ERR_ERRNO"}

\* The values the 8-bit enumerations can hold, and those Errnos names.
Byte == 0..255
Errnos == (0..133) \ {41, 58}

\* EventManagerErrors.
SUBMISSION_QUEUE_FULL == 1
SYSTEM_COMMUNICATION_CHANNEL_FAILURE == 2

\* A variant: which alternative it holds, and the value.
ErrorCodes == [type : ErrorTypes, code : Byte]

no_error == [type |-> "NO_ERR", code |-> 0]

is_there_an_error(e) == e.type # "NO_ERR"

set_error_from_enum(type, val) == [type |-> type, code |-> val]

set_error_from_num(type, num) == [type |-> type, code |-> num % 256]

\* std::optional: the code if the error is of that type, else nothing.
get_contained_error_code(e, type) == IF e.type = type THEN {e.code} ELSE {}

\* IOAwaitable::await_suspend when io_uring_submit returned ret < 1.
submission_error(ret) == set_error_from_num("LIBURING_SUBMISSION_ERR_ERRNO", -ret)

\* event_handler: the error number of a completion's result.
error_num(res) == IF res < 0 THEN -res ELSE 0

\* IOAwaitable::await_resume: the error of a response with an error number.
operation_error(num) ==
  IF num # 0 THEN set_error_from_num("OPERATION_ERR_ERRNO", -num) ELSE no_error
=============================================================================
