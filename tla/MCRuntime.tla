------------------------------ MODULE MCRuntime ------------------------------
(***************************************************************************)
(* Small configurations of Runtime for TLC: the master core c0, two or     *)
(* three background cores and two ports.                                   *)
(***************************************************************************)
EXTENDS Runtime, TLC

CONSTANTS c0, c1, c2, c3, p1, p2

\* A port on two background cores and one on a third.
Apart == p1 :> {c1, c2} @@ p2 :> {c3}
\* Both ports may put their KniTx on the same background core.
Shared == p1 :> {c1} @@ p2 :> {c1, c2}
\* The port with the KNI has the master core among its cores.
WithMaster == p1 :> {c0, c1} @@ p2 :> {c2}

=============================================================================
