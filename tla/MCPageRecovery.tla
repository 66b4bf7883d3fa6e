--------------------------- MODULE MCPageRecovery ---------------------------
(* PageRecovery on small instances. *)
EXTENDS PageRecovery, TLC

CONSTANT a1

SmallDelay == [reload_page |-> {1}, recreate_profile_page |-> {1}, restart_browser |-> {1}]
MixedPages == {{}, {"transient"}, {"restricted", "transient"}, {"lowConfidence"}}
=============================================================================
