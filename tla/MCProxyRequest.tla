---------------------------- MODULE MCProxyRequest ----------------------------
(* ProxyRequest for TLC: two providers with two models each, two routers. *)
EXTENDS ProxyRequest

CONSTANTS a1, a2, b1, b2, pa, pb

MCModels     == {a1, a2, b1, b2}
MCProviders  == {pa, pb}
MCProviderOf == [m \in MCModels |-> IF m \in {a1, a2} THEN pa ELSE pb]
=============================================================================
