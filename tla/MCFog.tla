------------------------------- MODULE MCFog --------------------------------
(* Instances of FogOverseer for TLC. *)
EXTENDS FogOverseer

AllCommands ==
    {"activate", "new_keys", "sync_keys", "set_peers", "retire", "unretire", "report_lost"}
=============================================================================
