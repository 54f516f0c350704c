---------------------------- MODULE Capabilities ----------------------------
(***************************************************************************)
(* The commands each planning identity supports without hardware, and the  *)
(* commands that the adapters treat as changing an output.                 *)
(***************************************************************************)

E36312A == "keysight-e36312a"
EDU36311A == "keysight-edu36311a"
E3646A == "keysight-e3646a"
PSM2010 == "gw-instek-psm-2010"
GenericProfile == "generic-scpi"

ReadOnlyCommands ==
  {"identify", "measure", "output-state", "readback", "read-status", "validate-readonly",
   "log", "sequence", "capabilities"}

DirectOutputCommands ==
  {"set", "output-on", "output-off", "safe-off", "cycle-output", "apply", "ramp",
   "smoke-output"}

OutputCommandNames == DirectOutputCommands \cup {"ramp-list"}

TriggerCommandNames ==
  {"trigger-pulse", "trigger-status", "trigger-step", "trigger-list", "trigger-fire",
   "trigger-abort"}

OfflineCommands == {"snapshot-diff", "hardware-report", "doctor", "safety inspect"}

ProtectionWrites == {"protection-set", "clear-protection"}

SnapshotCommands == {"snapshot", "restore-from-snapshot"}

ExtraCommands ==
  {"measure-all", "protection-status"} \cup ProtectionWrites \cup SnapshotCommands
    \cup TriggerCommandNames

KnownCommands == ReadOnlyCommands \cup OutputCommandNames \cup ExtraCommands \cup OfflineCommands

\* The commands a model has with an instrument or a simulator.
ModelCommands(model) ==
  CASE model = E36312A   -> ReadOnlyCommands \cup OutputCommandNames \cup ExtraCommands
    [] model = EDU36311A -> ReadOnlyCommands \cup OutputCommandNames \cup ProtectionWrites
                              \cup {"protection-status"}
    [] model = E3646A    -> (ReadOnlyCommands \ {"validate-readonly"}) \cup OutputCommandNames
    [] model = PSM2010   -> ReadOnlyCommands \cup OutputCommandNames \cup ProtectionWrites
                              \cup SnapshotCommands \cup {"protection-status"}
    [] OTHER             -> {"identify", "measure", "capabilities"}

\* The commands of a model that can be previewed.
PreviewedCommands(model) ==
  CASE model = E36312A   -> ModelCommands(model)
                              \ {"measure-all", "protection-status", "snapshot"}
    [] model = EDU36311A -> ModelCommands(model) \ {"protection-status"}
    [] model = E3646A    -> ModelCommands(model)
    [] model = PSM2010   -> OutputCommandNames \cup ProtectionWrites
                              \cup {"output-state", "sequence", "restore-from-snapshot"}
    [] OTHER             -> {}

\* ensure_command_supported: without hardware, a command needs an entry for
\* the planning identity and the mode.
Supports(identity, command, mode) ==
  LET planned == IF identity = GenericProfile
                 THEN ReadOnlyCommands \cup OutputCommandNames ELSE {}
  IN IF mode = "simulate"
     THEN command \in ModelCommands(identity) \cup OfflineCommands \cup planned
     ELSE command \in (PreviewedCommands(identity) \cup planned) \ {"log", "identify", "measure"}

-----------------------------------------------------------------------------
(* The adapters *)

\* The Worker's commands, and those it accepts for an instrument only with
\* allow_output_writes and a confirmation.
WorkerCommands ==
  (KnownCommands \cup {"error"})
    \ (OfflineCommands \cup {"validate-readonly", "capabilities"})

OutputAffecting ==
  OutputCommandNames \cup ProtectionWrites \cup {"restore-from-snapshot", "sequence"}

\* The WebUI's jobs that run one Core command.
WebCommands ==
  (WorkerCommands \cup {"list-resources", "verify", "clear"}) \ {"log"}
=============================================================================
