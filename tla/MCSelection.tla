------------------------------ MODULE MCSelection ------------------------------
(* Three models of three providers: one of high priority that may lose its *)
(* access, one of lower priority that may be slow or unusable, and a small *)
(* one of a last resort that is proven.                                    *)
EXTENDS Selection

MCProviders == {"kr", "samba", "cerebras"}
MCModels    == {"kr/m", "samba/m", "cerebras/m"}
MCProvider  == "kr/m" :> "kr" @@ "samba/m" :> "samba" @@ "cerebras/m" :> "cerebras"
MCPriority  == "kr" :> 5 @@ "samba" :> 35 @@ "cerebras" :> 12
MCSize      == "kr/m" :> 0 @@ "samba/m" :> 0 @@ "cerebras/m" :> 15

Fine    == [errors |-> 0, access |-> 0, latency |-> 0, failed |-> 0]
New     == [usable |-> TRUE, stats |-> NoData, failures |-> 0, limits |-> 0, proven |-> FALSE]
Good    == [New EXCEPT !.stats = Fine]
Shut    == [New EXCEPT !.stats = [Fine EXCEPT !.errors = 1, !.access = 1]]
Slow    == [New EXCEPT !.stats = [Fine EXCEPT !.latency = 60]]
Proven  == [Good EXCEPT !.proven = TRUE]
Away    == [Good EXCEPT !.usable = FALSE]

MCViews == "kr/m" :> {Good, Shut} @@ "samba/m" :> {Good, Slow, Away}
           @@ "cerebras/m" :> {Proven}
=============================================================================
