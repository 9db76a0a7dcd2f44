---------------------------- MODULE MCRouteServer ---------------------------
(***************************************************************************)
(* Small instances of RouteServer for TLC: two sessions of two users.      *)
(* Contents: "near" and "mirrored" are equal under compareTo (their        *)
(* coordinates have the same modulus), "far" has a greater distance, and   *)
(* "half" has a fractional from.z, which is read back without the fraction *)
(* as "near".                                                              *)
(***************************************************************************)
EXTENDS RouteServer, TLC

CONSTANTS s1, s2, u1, u2, bad

\* Exchanging the two clients, sessions and users together, changes nothing.
ExchangeClients == {(s1 :> s2) @@ (s2 :> s1) @@ (u1 :> u2) @@ (u2 :> u1)}

MCUserOf == (s1 :> u1) @@ (s2 :> u2)

MCKeyOf == [v \in Routes |-> CASE v = "near" -> 1 [] v = "mirrored" -> 1
                               [] v = "half" -> 2 [] v = "far" -> 3]
MCDistOf == [v \in Routes |-> IF v = "far" THEN 2 ELSE 1]
MCReadBack == [v \in Routes |-> IF v = "half" THEN "near" ELSE v]

\* "1", "2" and "08": what the client's parseUnsignedInt lets through.
MCDecode == [x \in IdTexts |-> CASE x = "1" -> 1 [] x = "2" -> 2
                                 [] x = "3" -> 3 [] x = "08" -> bad]
=============================================================================
