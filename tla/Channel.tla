------------------------------ MODULE Channel ------------------------------
(***************************************************************************)
(* communication/: the CommunicationChannel, a variant with one response   *)
(* or nothing (std::monostate), which every coroutine's promise holds; the *)
(* responses event_handler publishes in it (core.cpp); and what an         *)
(* awaitable makes of it (io_awaitables.hpp).                              *)
(***************************************************************************)
EXTENDS ErrorCodes

\* Responses that carry a result of the operation beside error and descriptor.
Transfers == {"READ", "WRITE", "READV", "WRITEV", "ACCEPT"}
\* Responses that name no descriptor.
PathOps == {"STATX", "UNLINKAT", "RENAMEAT"}
RequestType == Transfers \cup PathOps \cup {"CLOSE", "SHUTDOWN", "CONNECT", "OPENAT"}

monostate == [type |-> "monostate"]

\* The response pack event_handler makes of result res of a request on
\* descriptor fd.  A response to openat carries the result as its descriptor.
response_pack(rt, res, fd) ==
  [type      |-> rt,
   error_num |-> error_num(res),
   req_fd    |-> CASE rt = "OPENAT" -> res
                   [] rt \in PathOps -> -1
                   [] OTHER -> fd,
   result    |-> IF rt \in Transfers /\ res >= 0 THEN res ELSE 0]

\* Mutant: a response is stored only if the channel is empty.
publish_if_empty(store, pack) == IF store = monostate THEN pack ELSE store

\* The channel after publish_resp_data.
publish_resp_data(store, pack) == pack

\* Whether consume_resp_data<rt> finds a response, and the channel after it.
has_response(store, rt) == store.type = rt
consume_resp_data(store, rt) == IF has_response(store, rt) THEN monostate ELSE store

\* IOAwaitable::await_resume with the awaitable's own error: what the
\* co_await expression yields.
await_resume_io(error, store, rt) ==
  IF is_there_an_error(error) THEN [error |-> error, data |-> monostate]
  ELSE IF ~has_response(store, rt)
  THEN [error |-> set_error_from_enum("EVENT_MANAGER_ERR", SYSTEM_COMMUNICATION_CHANNEL_FAILURE),
        data  |-> monostate]
  ELSE [error |-> operation_error(store.error_num), data |-> store]
=============================================================================
