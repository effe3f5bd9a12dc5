----------------------------- MODULE MC_GsbRouter -----------------------------
(* Model-checking instances of GsbRouter: a service path "/s", a sub-path  *)
(* "/s/x" below it, and one message type. *)
EXTENDS GsbRouter, TLC

MCPrefixes == {<<"s">>, <<"s", "x">>}
MCTypeIds == {"T"}
====
