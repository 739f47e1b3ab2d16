---------------------------- MODULE MCLifecycle ----------------------------
(* Two presets and two endpoints: a reload can change either.               *)
EXTENDS Lifecycle

CONSTANTS balanced, strict, run1, run2, limited, endless

MCPresets   == {balanced, strict}
MCEndpoints == {run1, run2}
=============================================================================
