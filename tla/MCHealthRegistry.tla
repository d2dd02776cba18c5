--------------------------- MODULE MCHealthRegistry ---------------------------
(* HealthRegistry for TLC: one provider, one model of it, and one error of *)
(* each sort.                                                              *)
EXTENDS HealthRegistry

CONSTANTS p, m

MCProviders  == {p}
MCModels     == {m}
MCProviderOf == [x \in {m} |-> p]

Error(kind, base, modelSpecific, global) ==
    [kind |-> kind, base |-> base, modelSpecific |-> modelSpecific, global |-> global]

MCErrors == {Error("rate_limit", 1, FALSE, FALSE),
             Error("request_scoped", 1, TRUE, FALSE),
             Error("request_variant", 1, TRUE, FALSE),
             Error("transport", 1, TRUE, FALSE),
             Error("other", 0, FALSE, FALSE),
             Error("access", 0, FALSE, FALSE),
             Error("rate_limit", 2, FALSE, TRUE)}
=============================================================================
