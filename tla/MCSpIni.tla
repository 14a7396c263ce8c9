-------------------------------- MODULE MCSpIni --------------------------------
(* Instances of SpIni: a setting with a handler, one without, and one PHP  *)
(* does not know.                                                          *)
EXTENDS SpIni

CONSTANTS depth, agent, typo, low, high, null

MCSettings == {depth, agent, typo}
MCPresent  == {depth, agent}
MCValues   == {low, high, null}
MCPhpIni   == (depth :> low) @@ (agent :> low)
MCNative   == depth :> {low, high}

Checked(S) == Rule(S, Nothing)
Sealing    == Rule(Nothing, "ro")
Protect(es) == [Unprotected EXCEPT !.enable = TRUE, !.entries = es]

Range  == Protect((depth :> [Checked({high}) EXCEPT !.set = low]) @@ (agent :> [Checked({high}) EXCEPT !.allow_null = TRUE]))
Closed == Protect((depth :> [Sealing EXCEPT !.set = null]) @@ (agent :> [Sealing EXCEPT !.set = high, !.allow_null = TRUE]))
Policy == [Protect((depth :> Rule({high}, "rw")) @@ (agent :> Rule(Nothing, Nothing)) @@ (typo :> Sealing))
             EXCEPT !.policy_readonly = TRUE, !.policy_drop = TRUE, !.policy_silent_ro = TRUE]
Trial  == [Range EXCEPT !.simulation = TRUE]
Off    == [Closed EXCEPT !.enable = FALSE]

MCConfigs == {Range, Closed, Policy, Trial, Off}
=============================================================================
