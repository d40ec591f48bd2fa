--------------------------- MODULE MCContextLoad ---------------------------
(***************************************************************************)
(* ContextLoad for TLC: two overlapping loads, a reset and a write, any    *)
(* four events of all that may happen.                                     *)
(***************************************************************************)
EXTENDS ContextLoad

MCAuthConfigs ==
    {[mode |-> "none", required |-> FALSE, named |-> TRUE],
     [mode |-> "api_key", required |-> TRUE, named |-> TRUE]}

MCLocals ==
    {[status |-> "ok", usable |-> TRUE, branch |-> "feature"],
     [status |-> "no_workspace", usable |-> FALSE, branch |-> None]}

MCAllTools == {Tools}

MCPublished == {Tools \ {"get_recent_errors"}}

MCModes == {"mcp", "validation_stale"}
=============================================================================
