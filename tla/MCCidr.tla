------------------------------- MODULE MCCidr -------------------------------
(***************************************************************************)
(* A small instance of Cidr for TLC: a usize of 4 bits has more than an    *)
(* address of v4 and fewer than one of v6.                                 *)
(***************************************************************************)
EXTENDS Cidr

McFamilies == {"v4", "v6"}
McBitsOf == [f \in McFamilies |-> IF f = "v4" THEN 3 ELSE 5]
=============================================================================
