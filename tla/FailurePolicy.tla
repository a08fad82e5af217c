----------------------------- MODULE FailurePolicy -----------------------------
(***************************************************************************)
(* What an upstream failure means (providers/failure_policy.py, the        *)
(* override of providers/nvidia_nim/client.py, and the decision of         *)
(* providers/stream_recovery.py): one execution fails attempt after        *)
(* attempt; before each retry the error is qualified, and the last error   *)
(* is classified into the failure the client gets.  The two judgements     *)
(* look at the same exception through different functions.                 *)
(*                                                                         *)
(* An exception is its class, the HTTP status it carries (0: none), the    *)
(* status in its body, the marker its text holds and what the adapter      *)
(* reads in it; behind it are the exceptions it was raised from or while   *)
(* handling: such a chain is qualified by its head and classified by its   *)
(* end.                                                                    *)
(***************************************************************************)
EXTENDS Naturals, Sequences

CONSTANTS MaxAttemptsLeft  \* attempts of the retry session

ASSUME FailureAssumption == MaxAttemptsLeft \in Nat

VARIABLES failing,         \* the exceptions of the last failure, outermost first
          left,            \* attempts_remaining
          accepted,        \* the failed attempt had been accepted (a chunk came)
          qualified,       \* what the policy said of the last failure: retryable or not
          reported         \* the ExecutionFailure raised at the end, or Unreported

failureVars == <<failing, left, accepted, qualified, reported>>

OpenAIStatus == {"RateLimit", "Authentication", "Permission", "BadRequest", "OtherStatus",
                 "InternalServer"}
Connection == {"APITimeout", "APIConnection"}
Http == {"HTTPStatus", "ReadTimeout", "ConnectError", "ReadError", "RemoteProtocol"}
Classes == OpenAIStatus \union Connection \union Http
           \union {"APIError", "Timeout", "Protocol", "ExecutionFailure", "Other"}

(* The only failure that is raised ready-made is that of a Google login.    *)
LoginStatuses == {401, 503}

(* The statuses an exception of a class can carry.                          *)
StatusesOf(class) ==
    CASE class = "RateLimit"      -> {429}
      [] class = "Authentication" -> {401}
      [] class = "Permission"     -> {403}
      [] class = "BadRequest"     -> {400}
      [] class = "OtherStatus"    -> {404, 422}
      [] class = "InternalServer" -> {500, 503}
      [] class = "ExecutionFailure" -> LoginStatuses
      [] class = "HTTPStatus"     -> {400, 401, 403, 404, 422, 429, 500, 503}
      [] OTHER                    -> {0}

Markers == {"none", "rate", "overload", "internal"}

(* Only answers of the upstream have a body; only the 400 of NIM is read by *)
(* its adapter.                                                             *)
Exceptions ==
    {e \in [class : Classes, status : {0, 400, 401, 403, 404, 422, 429, 500, 503},
            body : {0, 400, 429, 503}, marker : Markers,
            quirk : {"none", "context_window", "degraded"}] :
       /\ e.status \in StatusesOf(e.class)
       /\ e.class \notin OpenAIStatus \union {"APIError"} => e.body = 0
       /\ e.class \notin OpenAIStatus \union {"APIError", "Other"} => e.marker = "none"
       /\ e.class # "BadRequest" => e.quirk = "none"}

Bare(class) == [class |-> class, status |-> 0, body |-> 0, marker |-> "none", quirk |-> "none"]

(* What this code's own exceptions hide.  A refused tool argument is raised *)
(* "from None" while a ValueError is handled, which stays its __context__;  *)
(* the failure of a Google login is raised from the error that it explains. *)
HiddenHere(class) == IF class \in {"Protocol", "ExecutionFailure"} THEN {"Other"} ELSE {}

(* What the libraries' exceptions hide: the SDK's errors the one of HTTPX   *)
(* that they were raised for, those of HTTPX an error of the transport,     *)
(* which the policy does not know or knows as a timeout.                    *)
HiddenInLibraries(class) ==
    CASE class = "APITimeout"    -> {"ReadTimeout"}
      [] class = "APIConnection" -> {"ConnectError", "ReadError", "RemoteProtocol", "Other"}
      [] class \in OpenAIStatus  -> {"HTTPStatus"}
      [] class \in Http \ {"HTTPStatus"} -> {"Timeout", "Other"}
      [] OTHER                   -> {}

Behind(e) == {[Bare(class) EXCEPT !.status = IF class = "HTTPStatus" THEN e.status ELSE 0] :
                class \in HiddenHere(e.class) \union HiddenInLibraries(e.class)}

(* An exception alone, unless it is always raised from another; or with one *)
(* or two behind it.                                                        *)
Alone == {<<e>> : e \in {x \in Exceptions : x.class \notin Connection \union {"ExecutionFailure"}}}
HidesOne == UNION {{<<e, f>> : f \in Behind(e)} : e \in Exceptions}
HidesTwo == UNION {UNION {{<<e, f, g>> : g \in Behind(f)} : f \in Behind(e)} : e \in Exceptions}

Failures == Alone \union HidesOne \union HidesTwo

(* ProviderRecoveryExhausted carries the last error of the execution that   *)
(* led the shared recovery.                                                 *)
RecoveryExhausted == Bare("RecoveryExhausted")

Failure(kind, status, retryable) == [kind |-> kind, status |-> status, retryable |-> retryable]
Unreported == Failure("none", 0, FALSE)

FailureTypeOK ==
    /\ \/ failing = <<>>
       \/ failing \in Failures
       \/ \E chain \in Failures : failing = <<RecoveryExhausted>> \o chain
    /\ left \in 0..MaxAttemptsLeft /\ accepted \in BOOLEAN /\ qualified \in BOOLEAN
    /\ reported = Unreported \/ reported.status \in 400..599

FailureInit ==
    /\ failing = <<>> /\ left = MaxAttemptsLeft /\ accepted = FALSE /\ qualified = TRUE
    /\ reported = Unreported

-----------------------------------------------------------------------------
(* _is_retryable_status                                                     *)
RetryableStatus(status) == status = 429 \/ status \in 500..599

StatusOfMarker(marker) ==
    CASE marker = "rate" -> 429 [] marker = "overload" -> 503 [] marker = "internal" -> 500
      [] OTHER -> 0

(* retryable_transient_status, 0 for None                                   *)
TransientStatus(e) ==
    CASE e.class = "RateLimit" -> 429
      [] e.class = "HTTPStatus" -> IF RetryableStatus(e.status) THEN e.status ELSE 0
      [] e.class \notin {"RateLimit", "HTTPStatus"} /\ RetryableStatus(e.status) -> e.status
      [] e.class \notin {"RateLimit", "HTTPStatus"} /\ ~RetryableStatus(e.status) ->
           IF RetryableStatus(e.body) THEN e.body ELSE StatusOfMarker(e.marker)

Transport == {"Timeout", "ReadTimeout", "ConnectError", "ReadError", "RemoteProtocol",
              "APITimeout", "APIConnection", "Protocol"}

(* is_retryable_provider_error                                              *)
IsRetryable(e) ==
    /\ e.class \notin {"Authentication", "Permission", "BadRequest"}
    /\ TransientStatus(e) # 0 \/ e.class \in Transport

(* is_retryable_stream_error, for an attempt that was accepted              *)
IsRetryableStream(e) ==
    /\ e.class \notin {"Authentication", "BadRequest"}
    /\ TransientStatus(e) # 0 \/ e.class \in Transport

Overloaded == Failure("overloaded", 529, TRUE)
ContextWindowExceeded == Failure("context_window_exceeded", 400, FALSE)

(* _provider_failure_override of the NIM adapter                            *)
Overridden(e) == e.quirk # "none"
Override(e) == IF e.quirk = "degraded" THEN Overloaded ELSE ContextWindowExceeded

(* A fault, for the checks only: the override is asked at the end only.     *)
QualifiesRaw(e) == IsRetryable(e)

(* ProviderAttempt.retry: the adapter's meaning comes first.                *)
Qualifies(e) == IF Overridden(e) THEN Override(e).retryable ELSE IsRetryable(e)

(* _classify_provider_failure                                               *)
StatusFailure(e) ==
    CASE TransientStatus(e) = 429 -> Failure("rate_limit", 429, TRUE)
      [] TransientStatus(e) # 429 /\ e.marker = "overload" -> Overloaded
      [] OTHER -> LET status == IF TransientStatus(e) # 0 THEN TransientStatus(e)
                                ELSE IF e.status # 0 THEN e.status ELSE 500
                  IN  Failure("upstream", status, IsRetryable(e))

HttpFailure(e) ==
    CASE e.status = 401 -> Failure("authentication", 401, FALSE)
      [] e.status = 403 -> Failure("permission", 403, FALSE)
      [] e.status = 429 -> Failure("rate_limit", 429, TRUE)
      [] e.status = 400 -> Failure("invalid_request", 400, FALSE)
      [] e.status \in {502, 503, 504} -> Overloaded
      [] OTHER -> Failure("upstream", e.status, RetryableStatus(e.status))

ServerFailure(e) ==
    IF e.marker = "overload" THEN Overloaded
    ELSE Failure("upstream", TransientStatus(e), TRUE)

PlainFailure(e) ==
    LET kind == CASE e.class \in {"Timeout", "ReadTimeout"} -> "timeout"
                  [] e.class \in {"ConnectError", "ReadError"} -> "unavailable"
                  [] OTHER -> "upstream"
    IN  Failure(kind, 502, IsRetryable(e))

Classified(e) ==
    CASE e.class = "Authentication" -> Failure("authentication", 401, FALSE)
      [] e.class = "Permission"     -> Failure("permission", 403, FALSE)
      [] e.class = "RateLimit"      -> Failure("rate_limit", 429, TRUE)
      [] e.class = "BadRequest"     -> Failure("invalid_request", 400, FALSE)
      [] e.class = "APITimeout"     -> Failure("timeout", 500, TRUE)
      [] e.class = "APIConnection"  -> Failure("unavailable", 500, TRUE)
      [] e.class = "InternalServer" -> ServerFailure(e)
      [] e.class \in {"OtherStatus", "APIError"} -> StatusFailure(e)
      [] e.class = "HTTPStatus"     -> HttpFailure(e)
      [] OTHER                      -> PlainFailure(e)

(* underlying_provider_error follows the causes to the first exception,     *)
(* which is never an ExecutionFailure here.                                 *)
Underlying(chain) == chain[Len(chain)]

(* classify_provider_failure                                                *)
Reported(chain) ==
    LET e == Underlying(chain) IN IF Overridden(e) THEN Override(e) ELSE Classified(e)

-----------------------------------------------------------------------------
(* An attempt fails, before or after its first chunk.  Before it the error  *)
(* is qualified by the admission with the override; after it by the stream  *)
(* recovery without.                                                        *)
AttemptFails ==
    /\ reported = Unreported /\ qualified /\ left > 0
    /\ \E chain \in Failures, late \in BOOLEAN :
          /\ failing' = chain /\ accepted' = late
          /\ qualified' = IF late THEN IsRetryableStream(chain[1]) ELSE Qualifies(chain[1])
    /\ left' = left - 1
    /\ UNCHANGED reported

(* The gate refuses the next attempt, be it the first: the shared recovery  *)
(* was exhausted by another execution.  The refusal is not retried.         *)
GateRefusesAttempt ==
    /\ reported = Unreported /\ qualified /\ left > 0
    /\ \E chain \in Failures :
          /\ Qualifies(chain[1])
          /\ failing' = <<RecoveryExhausted>> \o chain
    /\ accepted' = FALSE
    /\ qualified' = IsRetryableStream(RecoveryExhausted)
    /\ UNCHANGED <<left, reported>>

(* The error that is not retried, or the last one, is reported.             *)
ReportFailure ==
    /\ failing # <<>> /\ reported = Unreported
    /\ ~qualified \/ left = 0
    /\ reported' = Reported(failing)
    /\ UNCHANGED <<failing, left, accepted, qualified>>

FailureNext == AttemptFails \/ GateRefusesAttempt \/ ReportFailure

FailureSpec == FailureInit /\ [][FailureNext]_failureVars

-----------------------------------------------------------------------------
Told == reported # Unreported

RefusedAtGate == failing # <<>> /\ failing[1] = RecoveryExhausted

(* What was qualified, by this execution or by the one that led the shared  *)
(* recovery.                                                                *)
Cause == IF RefusedAtGate THEN Tail(failing) ELSE failing

(* Every failure is reported with the eligibility that the policy gives the *)
(* error at the end of its chain: classification and qualification, which   *)
(* read the same exception by different functions, agree on each.           *)
ReportsEligibility == Told => (reported.retryable <=> Qualifies(Underlying(failing)))

(* What the client is told agrees with what was done: a failure reported as *)
(* retryable was retried until no attempt was left, one reported as final   *)
(* was not retried.  The code has four exceptions.  A refused execution is  *)
(* told "retryable", whatever it has left: the attempts were those of the   *)
(* leader of the shared recovery.  An exception that hides one the policy   *)
(* judges otherwise is retried as the one and reported as the other.  Of an *)
(* attempt that had been accepted the adapter's override is not asked, and  *)
(* there a denied permission counts as transient when its text says so.     *)
TellsWhatWasDone ==
    Told /\ (Qualifies(Head(Cause)) <=> Qualifies(Underlying(Cause)))
         /\ ~(accepted /\ (Overridden(Head(Cause)) \/ Head(Cause).class = "Permission"))
       => (reported.retryable <=> RefusedAtGate \/ (qualified /\ left = 0))

(* A retryable failure has a status of a server or a rate limit, a final    *)
(* one that of a client or of a gateway; a status means its kind.           *)
StatusFits ==
    Told => /\ reported.retryable => RetryableStatus(reported.status)
            /\ reported.kind = "rate_limit" <=> reported.status = 429
            /\ reported.kind = "overloaded" <=> reported.status = 529
            /\ reported.kind = "authentication" <=> reported.status = 401
            /\ reported.kind = "permission" <=> reported.status = 403

FailuresHonest == ReportsEligibility /\ TellsWhatWasDone /\ StatusFits

(* The same without the exceptions of refusals and of hidden errors, which  *)
(* break it: "ExecutionFailure.retryable records provider-policy            *)
(* eligibility" (ARCHITECTURE.md).                                          *)
EligibilityRecorded == Told /\ ~accepted => (reported.retryable <=> qualified)
=============================================================================
