---- MODULE MCDiscovery ----
(***************************************************************************)
(* An instance of Platform for TLC: two files, of which the first may       *)
(* import the second, in a model that has room for one symbol besides the   *)
(* summaries.                                                               *)
(***************************************************************************)
EXTENDS Platform

CONSTANTS main, lib, f, g

Declared ==
    (main :> (0 :> {f} @@ 1 :> {f, Import} @@ 2 :> {f, g})) @@
    (lib :> (0 :> {g} @@ 1 :> {} @@ 2 :> {f}))

Imports == main :> lib @@ lib :> main

Budget == [kind \in Kinds |-> IF kind = "edit" THEN 2 ELSE 1]
====
