----------------------------- MODULE MCService -----------------------------
(***************************************************************************)
(* Model-checking instance of Service: two admin threads, the registry's  *)
(* two default models, two updates of the first default and one new      *)
(* model, two provider names, three api_keys, a known and an unknown provider type, one   *)
(* restart.                                                                *)
(***************************************************************************)
EXTENDS Service

M1  == [name |-> "m1", provider |-> "pa", cost |-> 2,  context_size |-> 4096, weight |-> 50]
M2  == [name |-> "m2", provider |-> "pa", cost |-> 30, context_size |-> 8192, weight |-> 100]
M1b == [M1 EXCEPT !.weight = 60]
M1c == [M1 EXCEPT !.weight = 70]
M3  == [name |-> "m3", provider |-> "pb", cost |-> 5,  context_size |-> 2048, weight |-> 100]

MCDefaults == <<M1, M2>>
MCModelUpdates == {M1b, M1c, M3}

\* api_key values: 16 and 5 ASCII characters, and 5 characters one of
\* which is two bytes long in UTF-8 (e-acute, code point 233).
Ascii(code) == [c |-> code, w |-> 1]
K16 == [i \in 1..16 |-> Ascii(97)]
K5  == [i \in 1..5 |-> Ascii(98)]
KUtf == <<[c |-> 233, w |-> 2]>> \o [i \in 1..4 |-> Ascii(99)]
MCApiKeys == {K16, KUtf}

\* Admin threads are interchangeable.
MCSymmetry == Permutations(Threads)

=============================================================================
