------------------------------ MODULE MCGateway ------------------------------
(* Instances of Gateway for TLC: rules of each verdict and transformation,   *)
(* after those of policies/default_policy.yaml.                              *)
EXTENDS Gateway

CONSTANTS r1, r2

MCRequests == {r1, r2}
MCFacts == {"INJECTION", "PII", "SECRET", "send_email", "wire_transfer"}

Rule(id, planes, when, verdict, transformation) ==
    [reason |-> id, planes |-> planes, when |-> when,
     verdict |-> verdict, transformation |-> transformation]

MCRules == {
    Rule("deny_prompt_injection", {"input", "context"}, {{"INJECTION"}}, "DENY", "NONE"),
    Rule("redact_pii_inbound", {"input", "context"}, {{"PII"}}, "ALLOW", "REDACT"),
    Rule("approve_external_pii_transfer", {"input"}, {{"PII", "send_email"}}, "NEED_APPROVAL", "REDACT"),
    Rule("high_value_transfer", {"action"}, {{"wire_transfer"}}, "NEED_APPROVAL", "REDACT"),
    Rule("deny_output_secret_leak", {"response"}, {{"SECRET"}}, "DENY", "NONE"),
    Rule("redact_output_pii", {"response"}, {{"PII"}}, "ALLOW", "REDACT")}

With(plane, facts, tools) == [Empty EXCEPT ![plane] = facts, !["action"] = tools]

\* No rule matches the second body's SECRET, but redaction replaces it.
MCRequestBodies == {
    With("input", {"INJECTION", "PII"}, {}),
    With("context", {"SECRET"}, {"send_email", "wire_transfer"})}
MCResponseBodies == {
    [first |-> With("response", {"PII", "SECRET"}, {}), others |-> With("response", {"PII"}, {})],
    [first |-> With("response", {}, {"wire_transfer"}), others |-> Empty]}
==============================================================================
