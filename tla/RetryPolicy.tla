---------------------------- MODULE RetryPolicy ----------------------------
(***************************************************************************)
(* The retry taxonomy of packages/workflow-runtime/src/index.ts: which     *)
(* error classes are retried and how often.  "OTHER" stands for every      *)
(* class the switch does not name.                                         *)
(***************************************************************************)
EXTENDS Naturals

AllErrorClasses ==
    {"AUTH_ERROR", "INVALID_INPUT", "RATE_LIMIT", "TIMEOUT", "HTTP_5XX",
     "SCHEMA_DRIFT", "MODEL_FORMAT_ERROR", "BUDGET_EXCEEDED",
     "SERIALIZATION_CONFLICT", "NOTIFICATION_TRANSIENT", "OTHER"}

NeverRetried == {"AUTH_ERROR", "INVALID_INPUT", "BUDGET_EXCEEDED", "SCHEMA_DRIFT"}

MaxAttempts(e) ==
    CASE e \in NeverRetried                          -> 1
      [] e = "MODEL_FORMAT_ERROR"                    -> 2
      [] e \in {"RATE_LIMIT", "TIMEOUT", "HTTP_5XX"} -> 5
      [] e = "SERIALIZATION_CONFLICT"                -> 10
      [] e = "NOTIFICATION_TRANSIENT"                -> 8
      [] OTHER                                       -> 3

\* classifyRetry(e, attempt).retryable
Retryable(e, attempt) ==
    /\ e \notin NeverRetried
    /\ e = "MODEL_FORMAT_ERROR" => attempt < 1

\* Mutant: one retry more than the policy allows.
HasExhaustedRetriesLate(e, attempt) ==
    ~Retryable(e, attempt) \/ attempt >= MaxAttempts(e)

\* hasExhaustedRetries, and the same test inlined in recordStepFailure.
HasExhaustedRetries(e, attempt) ==
    ~Retryable(e, attempt) \/ attempt + 1 >= MaxAttempts(e)
=============================================================================
