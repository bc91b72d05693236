------------------------------ MODULE MCStack -------------------------------
(* Two requests; the stack ManagedClient builds with everything on, one an   *)
(* application builds with guardrails, a usage sink and the thresholds of    *)
(* PerProviderHealthCheck, one with the health check alone, and none.        *)
EXTENDS Stack

CONSTANTS r1, r2

MCConfigs ==
  { {}, {"health"},
    {"hooks", "budget", "rate", "cooldown", "health", "cache"},
    {"guardrail", "hooks", "sink", "provider_health"} }
MCKindsOf == [r \in {r1, r2} |-> IF r = r1 THEN {"Chat"} ELSE {"ChatStream", "Raw"}]
=============================================================================
