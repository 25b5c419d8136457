----------------------------- MODULE MCCoredyOta -----------------------------
(* Small fleets of builds.  v1 is flashed by wire and good; v2 never connects
   to the cloud; v3 does not even start; v4 connects but does not reach the
   update server; v5 and v6 are good, and v6 is the newest. *)
EXTENDS CoredyOta, TLC

CONSTANTS v1, v2, v3, v4, v5, v6

MCImages == {v1, v2, v3, v4, v5, v6}
MCVersion == (v1 :> <<1, 3, 9>>) @@ (v2 :> <<1, 4, 0>>) @@ (v3 :> <<1, 4, 1>>)
             @@ (v4 :> <<1, 10, 0>>) @@ (v5 :> <<1, 11, 0>>) @@ (v6 :> <<2, 0, 0>>)
MCStarts == MCImages \ {v3}
MCConnects == {v1, v4, v5, v6}
MCFetches == {v1, v5, v6}
=============================================================================
