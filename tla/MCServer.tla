----------------------------- MODULE MCServer -----------------------------
(***************************************************************************)
(* Model-checking instance of Server: the registry's two defaults on      *)
(* provider pa, one admin thread that may upgrade m1 (MCUpgradeOnly) or   *)
(* upgrade m2 in place and add m3 on provider pb (MCModelUpdates), and    *)
(* one chat request of 5 estimated tokens under RoutingPolicy().          *)
(***************************************************************************)
EXTENDS Server

M1   == [name |-> "m1", provider |-> "pa", cost |-> 2,  context_size |-> 4096,  weight |-> 50]
M2   == [name |-> "m2", provider |-> "pa", cost |-> 30, context_size |-> 8192,  weight |-> 100]
M1up == [M1 EXCEPT !.context_size = 16384, !.weight = 120]
M2up == [M2 EXCEPT !.context_size = 16384, !.weight = 130]
M3   == [name |-> "m3", provider |-> "pb", cost |-> 5,  context_size |-> 2048,  weight |-> 110]

MCDefaults == <<M1, M2>>
MCModelUpdates == {M2up, M3}

\* The upgrade of m1 only, for the runs that restart the process.
MCUpgradeOnly == {M1up}
MCCatalogs == {MCDefaults}
MCDirectories == {{}}

MCRequests ==
    {[messages   |-> <<[role |-> "user", content |-> <<"user-input">>, chars |-> 20]>>,
      model      |-> NoModel,
      max_tokens |-> NoLimit]}

MCRespChars == {40}

\* One 16-character ASCII api_key.
MCApiKeys == {[i \in 1..16 |-> [c |-> 97, w |-> 1]]}

=============================================================================
