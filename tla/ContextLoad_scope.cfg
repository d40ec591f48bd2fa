\* One load against a server with all five tools: a load is answered with
\* the focus, docs/mcp/vscode_read_model_contract.md:17-30.
SPECIFICATION Spec
CONSTANTS
  None = None
  CanonicalKey = CanonicalKey
  ErpKey = ErpKey
  Loads = {l1}
  Resets = {}
  Writes = {}
  Outages = {"transport_error"}
  Published <- MCAllTools
  Modes <- MCModes
  AuthConfigs <- MCAuthConfigs
  Locals <- MCLocals
  MaxEvents = 3
INVARIANT
  LoadReachesTheFocus
CHECK_DEADLOCK FALSE
