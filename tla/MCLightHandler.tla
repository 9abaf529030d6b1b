--------------------------- MODULE MCLightHandler ---------------------------
(* Values for the constants of LightHandler that a configuration cannot    *)
(* spell.                                                                  *)
EXTENDS LightHandlerLive

Lit == [DefaultState EXCEPT !.on = TRUE]
Dark == DefaultState

MCTargets == {Lit, Dark}
MCScenes == {Lit}
MCFields == {Fields, {"on"}}
=============================================================================
