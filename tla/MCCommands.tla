----------------------------- MODULE MCCommands -----------------------------
(* Programs of one to three commands, for TLC. *)
EXTENDS Commands

Cmd(name, channels, flags) ==
    [Base EXCEPT !.name = name, !.channels = channels, !.flags = flags]
Step(c, v, flags) ==
    [Cmd("trigger-step", <<c>>, flags) EXCEPT !.values["voltage"] = v, !.pins = {1}]
List(c, v, flags) ==
    [Cmd("trigger-list", <<c>>, flags) EXCEPT !.values["voltage"] = v, !.pins = {1}]
Given(name, channels, v, i, flags) ==
    [Cmd(name, channels, flags) EXCEPT !.values["voltage"] = v, !.values["current"] = i]
Pulse(cmd, c) == [cmd EXCEPT !.pulse = c, !.pins = {2}]
On2(cmd) == [cmd EXCEPT !.model = "global"]
Psm(cmd) == [cmd EXCEPT !.model = "pair"]
Both == <<1, 2>>
Protect(c, ovp, ocp) ==
    [Cmd("protection-set", <<c>>, {}) EXCEPT !.values["ovp"] = ovp, !.values["ocp"] = ocp]

MCPrograms == {
    \* triggers
    <<List(1, 2, {"leave"}), Pulse(Cmd("output-on", <<2>>, {"verify"}), 2), Cmd("trigger-abort", Both, {})>>,
    <<Step(1, 1, {"fire", "wait"}), Cmd("trigger-fire", <<1>>, {"wait", "abort"})>>,
    <<Step(1, None, {"leave"}), Cmd("trigger-pulse", <<2>>, {"exclusive"}),
      Cmd("trigger-fire", <<1>>, {"abort"})>>,
    <<List(1, 2, {"fire", "wait", "exclusive"}), Pulse(Given("set", <<1>>, 1, 1, {"verify", "settle"}), 1)>>,
    <<[Step(1, 2, {"wait"}) EXCEPT !.source = "imm"], Cmd("trigger-status", Both, {})>>,
    <<Pulse(Given("apply", Both, 1, 1, {"leave"}), 2), Cmd("trigger-fire", <<1>>, {})>>,
    <<List(2, 2, {"fire", "leave"}), Pulse(Given("set", <<1>>, 1, None, {}), 2)>>,
    \* outputs
    <<Pulse(Cmd("cycle-output", Both, {}), 1), Cmd("output-state", Both, {})>>,
    <<Given("smoke-output", <<1>>, 1, 2, {}), Cmd("safe-off", Both, {}), Cmd("output-off", <<1>>, {"verify"})>>,
    \* snapshot, restore, protection
    <<Cmd("snapshot", <<1>>, {}), Given("apply", Both, 2, 1, {"verify"}),
      Cmd("restore-from-snapshot", Both, {"on"})>>,
    <<Protect(1, 1, 1), Cmd("snapshot", <<1>>, {}), Protect(1, 2, None)>>,
    <<Given("apply", <<1>>, 1, 1, {}), Cmd("snapshot", <<1>>, {}), Given("set", <<1>>, 2, 2, {}),
      Cmd("restore-from-snapshot", <<1>>, {"on"})>>,
    <<Cmd("restore-from-snapshot", <<1>>, {"on"}), Cmd("clear-protection", Both, {}),
      Cmd("protection-status", Both, {})>>,
    \* read-only commands
    <<Cmd("log", Both, {}), Cmd("measure", <<1>>, {}), Cmd("read-status", Both, {})>>,
    <<Cmd("readback", Both, {}), Cmd("identify", <<1>>, {}), Cmd("clear", <<1>>, {})>>,
    <<Cmd("validate-readonly", Both, {}), Cmd("live-panel", Both, {}), Cmd("error", <<1>>, {})>>,
    \* E3646A
    <<On2(Given("set", <<2>>, 1, 1, {"verify"})), On2(Given("apply", Both, 2, 1, {})),
      On2(Cmd("cycle-output", Both, {}))>>,
    <<On2(Given("smoke-output", <<2>>, 1, 1, {})), On2(Cmd("readback", Both, {}))>>,
    \* PSM-2010
    <<Psm(Given("set", <<1>>, 2, None, {})), Psm(Cmd("output-on", <<1>>, {})),
      Psm(Given("set", <<1>>, 1, 2, {}))>>,
    <<Psm(Given("apply", <<1>>, 2, 1, {})), Psm(Cmd("snapshot", <<1>>, {})),
      Psm(Cmd("restore-from-snapshot", <<1>>, {"on"}))>>}
=============================================================================
