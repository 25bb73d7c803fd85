------------------------- MODULE ErrorCodesProofs -------------------------
(***************************************************************************)
(* What becomes of an error number on its way to the client, for all       *)
(* numbers.                                                                *)
(***************************************************************************)
EXTENDS ErrorCodes, TLAPS

\* Every conversion yields a value of the variant.
LEMMA ConversionType ==
  ASSUME NEW type \in ErrorTypes, NEW num \in Int
  PROVE  set_error_from_num(type, num) \in ErrorCodes
BY DEF set_error_from_num, ErrorCodes, Byte

\* A byte is converted to itself, and its negation to its complement.
LEMMA Modulo256 ==
  ASSUME NEW n \in 1..255
  PROVE  n % 256 = n /\ (-n) % 256 = 256 - n
OBVIOUS

\* A submission that failed with errno n is reported as n: await_suspend
\* negates what io_uring_submit returned (io_awaitables.hpp 60).
THEOREM SubmissionErrorExact ==
  ASSUME NEW n \in Errnos \ {0}
  PROVE  get_contained_error_code(submission_error(-n), "LIBURING_SUBMISSION_ERR_ERRNO") = {n}
<1>1. n \in 1..255 BY DEF Errnos
<1>2. -(-n) = n BY <1>1
<1>3. (-(-n)) % 256 = n BY <1>1, <1>2, Modulo256
<1> QED BY <1>3 DEF get_contained_error_code, submission_error, set_error_from_num

\* An awaited operation is reported as failed exactly if its result is
\* negative (core.cpp 187-191, io_awaitables.hpp 82).
THEOREM ErrorIffFailed ==
  ASSUME NEW res \in Int
  PROVE  is_there_an_error(operation_error(error_num(res))) <=> res < 0
BY DEF is_there_an_error, operation_error, error_num, set_error_from_num, no_error

\* What the run wrong_errno shows for ECANCELED: the errno n of a failed
\* operation is reported as 256 - n, so that 128 (ERR_KEYREVOKED) is the only
\* one reported as itself (io_awaitables.hpp 83).
THEOREM OperationErrnoNegated ==
  ASSUME NEW n \in Errnos \ {0}
  PROVE  /\ get_contained_error_code(operation_error(error_num(-n)), "OPERATION_ERR_ERRNO")
              = {256 - n}
         /\ get_contained_error_code(operation_error(error_num(-n)), "OPERATION_ERR_ERRNO")
              = {n} <=> n = 128
<1>1. n \in 1..255 BY DEF Errnos
<1>2. error_num(-n) = n BY <1>1 DEF error_num
<1>3. (-n) % 256 = 256 - n BY <1>1, Modulo256
<1>4. get_contained_error_code(operation_error(n), "OPERATION_ERR_ERRNO") = {256 - n}
  BY <1>1, <1>3 DEF get_contained_error_code, operation_error, set_error_from_num
<1>5. {256 - n} = {n} <=> n = 128 BY <1>1
<1> QED BY <1>2, <1>4, <1>5
=============================================================================
