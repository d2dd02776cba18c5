----------------------------- MODULE MCMetaRouter -----------------------------
(* MetaRouter for TLC: a router with a liveness page that lists x, and a   *)
(* gateway probed at its catalog that lists it too; krx is the gateway's   *)
(* own name for it.                                                        *)
EXTENDS MetaRouter

CONSTANTS hub, kiro, x, krx, px, t1

MCRouters   == {hub, kiro}
MCRank      == [n \in MCRouters |-> IF n = hub THEN 0 ELSE 1]
MCWeight    == [n \in MCRouters |-> 1]
MCModels    == {x, krx}
MCCanonical == [m \in MCModels |-> IF m = krx THEN x ELSE m]
MCProviderOf == [m \in MCModels |-> px]
MCBareOf    == [m \in MCModels |-> IF m = krx THEN x ELSE None]
MCCatalog   == [n \in MCRouters |-> {x}]
=============================================================================
