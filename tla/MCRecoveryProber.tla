--------------------------- MODULE MCRecoveryProber ---------------------------
(* RecoveryProber for TLC: a provider that is probed with two models and   *)
(* that any error may befall, and another one that takes turns with it and *)
(* that only a permanent error befalls.                                    *)
EXTENDS RecoveryProber

CONSTANTS provider, other, a, b

MCProviders  == {provider, other}
MCTestModels == [x \in MCProviders |-> IF x = provider THEN <<a, b>> ELSE <<a>>]
MCErrors     == [x \in MCProviders |->
                    IF x = provider
                      THEN [status : {"cooldown", "disabled"}, strikes : {"few", "passing", "final"}]
                      ELSE {[status |-> "disabled", strikes |-> "few"]}]
=============================================================================
