--------------------------------- MODULE Api --------------------------------
(***************************************************************************)
(* The edge function's way of answering, and the web client's way of       *)
(* understanding the answer: the error contract of _shared/http.ts, the    *)
(* middleware of _shared/auth.ts and api/index.ts, the client of the       *)
(* engine (_shared/engine.ts) and that of the API (web/lib/api.ts).        *)
(***************************************************************************)
EXTENDS Integers

STATUS == [unauthorized |-> 401, forbidden |-> 403, not_found |-> 404,
           invalid_request |-> 422, conflict |-> 409, broker_error |-> 502,
           upstream_error |-> 502, internal_error |-> 500]

ok(data, status) == [status |-> status, code |-> "none", data |-> data]
fail(code) == [status |-> STATUS[code], code |-> code, data |-> "none"]

(* A connection that breaks before the answer is read: fetch throws.        *)
broken == [status |-> 0, code |-> "none", data |-> "none"]

(* What a route that throws is answered by onError.                         *)
onError(thrown) == IF thrown \in DOMAIN STATUS THEN fail(thrown) ELSE fail("internal_error")

(* Every route but /health stands behind requireUser.                       *)
requireUser(user_is_known, answer) == IF user_is_known THEN answer ELSE fail("unauthorized")

(* fromPostgres: an exception of the SQL functions, or of a constraint.     *)
fromPostgres(error) ==
  IF error = "bot not found" THEN "not_found"
  ELSE IF error \in {"pause the bot", "23505"} THEN "conflict"
  ELSE IF error \in {"target weights must total", "add target holdings"}
       THEN "invalid_request"
  ELSE "internal_error"

(* call, in engine.ts: what becomes of the engine's answer.  Past the       *)
(* deadline, or with the engine out of reach, there is none.                *)
NoAnswer == 0
engine_call(status, data) ==
  IF status \in 200..299 THEN ok(data, 200)
  ELSE onError(IF status = 404 THEN "not_found" ELSE "upstream_error")

(* request, in api.ts: without a token nothing is sent.  The rest returns   *)
(* the data, or throws an ApiError, or what fetch threw.                    *)
request(signed_in, answer) ==
  IF ~signed_in THEN [ok |-> FALSE, error |-> "unauthorized"]
  ELSE IF answer.status \in 200..299 THEN [ok |-> TRUE, data |-> answer.data]
  ELSE [ok |-> FALSE, error |-> IF answer = broken THEN "network" ELSE answer.code]
=============================================================================
