-------------------------------- MODULE Maps --------------------------------
(***************************************************************************)
(* std::map and std::unordered_map as the simulator uses them: a map is a   *)
(* function whose domain is the set of keys present, so that count(k) is    *)
(* k \in DOMAIN f.  operator[] on an absent key is Put of a default value;  *)
(* the callers below pass the default through At.                           *)
(***************************************************************************)

EmptyMap == [k \in {} |-> k]

\* f[k] = v
Put(f, k, v) == [x \in DOMAIN f \cup {k} |-> IF x = k THEN v ELSE f[x]]

\* f.erase(k)
Erase(f, k) == [x \in DOMAIN f \ {k} |-> f[x]]

\* The value under k, or "default" when there is none.
At(f, k, default) == IF k \in DOMAIN f THEN f[k] ELSE default

=============================================================================
