----------------------------- MODULE MCErrorParser -----------------------------
(* One text for each row, one that matches none, and the texts that match  *)
(* several rows, whose order decides: tokens per day and per minute, and   *)
(* the rate limit of a whole gateway.                                      *)
EXTENDS ErrorParser

MCTexts == {{i} : i \in DOMAIN Rows} \cup {{}, {26, 27, 28}, {27, 28}, {29, 30}}
MCHints == {0, 2, 90, 450000}
MCStatuses == {404, 429, 500, 503}
=============================================================================
