--------------------------- MODULE MCSupportPolicy ---------------------------
(***************************************************************************)
(* A small support policy: a network model with a system-VISA and a        *)
(* pyvisa-py suite, a serial model with range-dependent ratings, and a     *)
(* candidate.                                                              *)
(***************************************************************************)
EXTENDS SupportPolicy

MCReal ==
  [m \in {"e36312a", "e3646a", "candidate"} |->
    CASE m = "e36312a" -> {"measure", "sequence", "trigger-step"}
      [] m = "e3646a"  -> {"sequence"}
      [] OTHER         -> {"measure"}]

MCInventory ==
  [m \in {"e36312a", "e3646a", "candidate"} |->
    [c \in {"measure", "sequence", "trigger-step"} |->
      CASE m = "e36312a" /\ c = "sequence"     -> {"set", "trigger-pulse"}
        [] m = "e36312a" /\ c = "trigger-step" -> {"bus", "immediate"}
        [] m = "e3646a" /\ c = "sequence"      -> {"set"}
        [] OTHER                               -> {}]]

MCCanonical ==
  [s \in {"set", "trigger-pulse", "bus", "immediate", "imm", "misspelt"} |->
    CASE s = "imm"      -> "immediate"
      [] s = "misspelt" -> "none"
      [] OTHER          -> s]

MCRequirements ==
  {{}, {"misspelt"}, {"set"}, {"bus"}, {"imm"}, {"immediate", "bus"}, {"set", "trigger-pulse"}}

MCValidatedTransports ==
  [m \in {"e36312a", "e3646a"} |-> IF m = "e36312a" THEN {"tcpip"} ELSE {"asrl"}]

MCEvidenceOf ==
  [m \in {"e36312a", "e3646a"} |->
    [t \in MCValidatedTransports[m] |->
      [c \in MCReal[m] |-> IF m = "e3646a" THEN "serial" ELSE "lan"]]]

MCPyvisaPyEvidence == [m \in {"e36312a"} |-> "python"]

MCPyvisaPyFeatures ==
  [m \in {"e36312a"} |->
    [c \in {"measure", "sequence", "trigger-step"} |->
      CASE c = "sequence" -> {"set"} [] c = "trigger-step" -> {"bus"} [] OTHER -> {}]]

Record(id, m, transport, backend, historical, features) ==
  [id |-> id, model |-> m, transport |-> transport, backend |-> backend,
   kind |-> IF historical THEN "full_suite" ELSE "verified", wellFormed |-> TRUE,
   checksum |-> ~historical, history |-> historical,
   commands |-> MCReal[m], features |-> features]

MCEvidence ==
  [id \in {"lan", "python", "serial"} |->
    CASE id = "lan"    -> Record(id, "e36312a", "tcpip", "system_visa", TRUE,
                                 MCInventory["e36312a"])
      [] id = "python" -> Record(id, "e36312a", "tcpip", "pyvisa_py", FALSE,
                                 MCPyvisaPyFeatures["e36312a"])
      [] OTHER         -> Record(id, "e3646a", "asrl", "system_visa", FALSE,
                                 [c \in {"sequence"} |-> {"set"}])]

MCPendingConnections == [m \in {"candidate"} |-> {<<"usb", "system_visa">>}]

MCPendingCommands == [m \in {"candidate"} |-> {"measure"}]
=============================================================================
