---------------------------- MODULE MC_GsbEndpoints ----------------------------
(* Model-checking instances of GsbEndpoints: one address per slot variant  *)
(* and one with nothing bound.                                              *)
EXTENDS GsbEndpoints, TLC

MCAddrs == {"aUnary", "aStream", "aRaw", "aRawStream", "aDual", "aNone"}
MCEndpointOf == [a \in MCAddrs |->
                   CASE a = "aUnary" -> "unary"
                     [] a = "aStream" -> "stream"
                     [] a = "aRaw" -> "raw"
                     [] a = "aRawStream" -> "rawstream"
                     [] a = "aDual" -> "dual"
                     [] OTHER -> "none"]
MCSymmetry == Permutations(Conns) \cup Permutations(Reqs)
====
