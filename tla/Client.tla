------------------------------- MODULE Client -------------------------------
(***************************************************************************)
(* One exchange with Europeana, from what the network does to the failure  *)
(* detail the ingestion run keeps of it: Httpx2Transport.get,              *)
(* EuropeanaDiscoveryClient (discovery/client.py) and classify_failure     *)
(* (ingestion/retry.py).                                                   *)
(*                                                                         *)
(* A body is reduced to what its parsers make of it, and a Retry-After     *)
(* header to what str.isdigit and int make of its value.  The Bronze       *)
(* integrity failure is left out of classify_failure: no exchange ends in  *)
(* it, only the object store raises it (see Orchestrator!StoreFails).      *)
(***************************************************************************)
EXTENDS Integers, FiniteSets

CONSTANTS
  HttpStatuses,  \* the status codes the provider may answer with
  Seconds,       \* the numeric Retry-After values it may send
  None           \* Python's None

ASSUME StatusesAssumption == HttpStatuses \subseteq 100..999
ASSUME SecondsAssumption == Seconds \subseteq Nat
ASSUME NoneAssumption == None \notin Int

-----------------------------------------------------------------------------
(* What the network does                                                   *)

(* "not_digits": absent, a date, a sign...: isdigit is false.               *)
(* "odd_digits": isdigit is true and int raises ValueError (superscripts,   *)
(*   more than 4300 digits).                                                *)
Digits == [kind : {"digits"}, seconds : Seconds]

RetryAfterHeader == Digits \cup [kind : {"not_digits", "odd_digits"}]

Bodies == {"valid", "not_json", "not_object", "off_contract"}

Response ==
  [kind : {"response"}, status : HttpStatuses,
   retry_after : RetryAfterHeader, body : Bodies]

(* A request that fails in the transport, or a response.                    *)
Exchange ==
  [kind : {"timeout", "request_error", "other_error"}] \cup Response

-----------------------------------------------------------------------------
(* EuropeanaDiscoveryClient: the exception the exchange ends in            *)

Raises(class) == [class |-> class]

Returned == Raises("none")

(* _retry_after_seconds, for a rate-limited response.                       *)
RateLimited(header) ==
  CASE header.kind = "digits" ->
         [class |-> "RateLimit", retry_after_seconds |-> header.seconds]
    [] header.kind = "not_digits" ->
         [class |-> "RateLimit", retry_after_seconds |-> None]
    [] OTHER -> Raises("ValueError")

(* _decode_document and _validate_payload.                                  *)
ParsePayload(body) ==
  CASE body = "not_json" -> Raises("InvalidJson")
    [] body \in {"not_object", "off_contract"} -> Raises("InvalidResponse")
    [] OTHER -> Returned

(* _raise_for_status, then the parsers.                                     *)
OfResponse(response) ==
  CASE response.status \in 200..299 -> ParsePayload(response.body)
    [] response.status \in {401, 403} -> Raises("Authentication")
    [] response.status = 404 -> Raises("RecordNotFound")
    [] response.status = 429 -> RateLimited(response.retry_after)
    [] OTHER -> [class |-> "HttpStatus", status_code |-> response.status]

(* _get over the transport's own exceptions; another one passes unchanged.  *)
Get(exchange) ==
  CASE exchange.kind = "timeout" -> Raises("Timeout")
    [] exchange.kind = "request_error" -> Raises("Transport")
    [] exchange.kind = "other_error" -> Raises("Other")
    [] OTHER -> OfResponse(exchange)

-----------------------------------------------------------------------------
(* classify_failure                                                        *)

Categories ==
  {"timeout", "transport", "rate_limited", "provider_server",
   "authentication", "not_found", "invalid_json", "invalid_response",
   "retry_exhausted", "unknown"}

HttpDetail(category, retryable, status_code, retry_after_seconds) ==
  [category |-> category, retryable |-> retryable,
   status_code |-> status_code, retry_after_seconds |-> retry_after_seconds]

Detail(category, retryable) == HttpDetail(category, retryable, None, None)

ServerErrorsFromGateway == 502..599

ServerErrors == 500..599

ClassifyFailure(error) ==
  CASE error.class = "Timeout" -> Detail("timeout", TRUE)
    [] error.class = "Transport" -> Detail("transport", TRUE)
    [] error.class = "RateLimit" ->
         HttpDetail("rate_limited", TRUE, 429, error.retry_after_seconds)
    [] error.class = "HttpStatus" ->
         IF error.status_code \in ServerErrors
         THEN HttpDetail("provider_server", TRUE, error.status_code, None)
         ELSE HttpDetail("unknown", FALSE, error.status_code, None)
    [] error.class = "Authentication" ->
         HttpDetail("authentication", FALSE, 401, None)
    [] error.class = "RecordNotFound" ->
         HttpDetail("not_found", FALSE, 404, None)
    [] error.class = "InvalidJson" -> Detail("invalid_json", FALSE)
    [] error.class = "InvalidResponse" -> Detail("invalid_response", FALSE)
    [] OTHER -> Detail("unknown", FALSE)

(* _retry_exhausted                                                         *)
RetryExhausted == Detail("retry_exhausted", TRUE)

(* FailureDetail: what its validators accept.  A detail they refuse makes   *)
(* classify_failure itself raise.                                           *)
ValidDetail(detail) == detail.status_code \in {None} \cup 100..599
=============================================================================
