---------------------------- MODULE MCWorkflow ----------------------------
(* Workflow for TLC: a plan for each way the code tells plans apart.        *)
EXTENDS Workflow

Base == [kind |-> "ramp", model |-> "independent", segments |-> << >>, steps |-> << >>,
         loops |-> 1, enable |-> FALSE, pulse |-> "none", verify |-> FALSE, paced |-> FALSE]

One(c, n) == [channels |-> <<c>>, volts |-> n]
Both(n) == [channels |-> <<1, 2>>, volts |-> n]
Do(action, C) == [action |-> action, channels |-> C]

Ramps ==
    {[Base EXCEPT !.segments = <<Both(2)>>, !.loops = 2, !.enable = TRUE],
     [Base EXCEPT !.segments = <<Both(2)>>, !.enable = TRUE, !.model = "global", !.paced = TRUE],
     [Base EXCEPT !.segments = <<One(2, 2)>>, !.enable = TRUE, !.model = "global"],
     [Base EXCEPT !.segments = <<One(1, 2)>>, !.loops = 2, !.enable = TRUE, !.model = "pair", !.verify = TRUE],
     [Base EXCEPT !.segments = <<One(2, 2)>>, !.enable = TRUE, !.pulse = "step"],
     [Base EXCEPT !.segments = <<One(2, 1)>>, !.loops = 2, !.pulse = "segment", !.verify = TRUE],
     [Base EXCEPT !.segments = <<One(1, 2)>>, !.pulse = "loop"]}

RampLists ==
    {[p EXCEPT !.kind = "ramplist"] : p \in
        {[Base EXCEPT !.segments = <<One(1, 2), Both(1)>>, !.loops = 2, !.enable = TRUE],
         [Base EXCEPT !.segments = <<One(2, 1), One(1, 2)>>, !.enable = TRUE, !.model = "global"],
         [Base EXCEPT !.segments = <<One(1, 1), One(1, 2)>>, !.enable = TRUE, !.model = "global"],
         [Base EXCEPT !.segments = <<One(1, 2), One(1, 1)>>, !.enable = TRUE, !.model = "pair", !.paced = TRUE],
         [Base EXCEPT !.segments = <<One(1, 1), One(1, 1)>>, !.pulse = "segment"],
         [Base EXCEPT !.segments = <<One(1, 2)>>, !.enable = TRUE, !.pulse = "loop"]}}

SequencePlans ==
    {[p EXCEPT !.kind = "sequence"] : p \in
        {[Base EXCEPT !.steps = <<Do("apply", <<1, 2>>), Do("wait", << >>), Do("measure", <<1>>)>>],
         [Base EXCEPT !.steps = <<Do("cycle-output", <<1, 2>>), Do("output-on", <<2>>)>>, !.loops = 2],
         [Base EXCEPT !.steps = <<Do("set", <<1>>), Do("output-on", <<1, 2>>), Do("output-off", <<1>>)>>,
                      !.model = "global"],
         [Base EXCEPT !.steps = <<Do("apply", <<1>>), Do("cycle-output", <<1>>)>>, !.model = "pair"],
         [Base EXCEPT !.steps = <<Do("output-on", <<1>>), Do("trigger-pulse", <<1>>)>>]}}

MCPlans == Ramps \cup RampLists \cup SequencePlans
=============================================================================
