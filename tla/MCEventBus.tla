----------------------------- MODULE MCEventBus -----------------------------
(* Two instances, two events with a UUID and a sleep cue of the sentinel,  *)
(* batches of two, two remembered ids.                                     *)
EXTENDS EventBus

CONSTANTS i1, i2, e1, e2, cue

MCInstance == {i1, i2}
MCEvent == {e1, e2, cue}
MCUnfit == {cue}
=============================================================================
