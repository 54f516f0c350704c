--------------------------- MODULE WorkflowProofs ---------------------------
(***************************************************************************)
(* Theorems about a workflow, for every plan and any number of channels.   *)
(*                                                                         *)
(* The first part is what the scripts of Ramp, Ramp List and Sequence      *)
(* promise, for every plan: a proof outline of each.  A call of an         *)
(* undisturbed run changes the progress of the workflow (Does) and may     *)
(* come only where Sound allows it; an outline gives the progress before   *)
(* and after every call.                                                   *)
(*                                                                         *)
(* The theorems on the outputs after a cancelled or a failed workflow need *)
(* no script: what matters is how a call may end and what the two cleanup  *)
(* loops have visited.  The others follow the workflow along the outline   *)
(* of its script (Track).                                                  *)
(***************************************************************************)
EXTENDS Workflow, SequenceLemmas

-----------------------------------------------------------------------------
(* Progress and outlines *)

\* These calls name a channel.
Addressed == {"limit", "voltage", "pair", "on", "off", "cycleon", "state", "readback", "measure"}

Ops == Addressed \cup {"firstpoll", "poll", "unit", "pulse", "errors", "endcycle"}

Calls == {c \in [op : Ops, ch : Channels \cup {0}, val : Nat \X Nat, final : BOOLEAN] :
            c.op \in Addressed => c.ch \in Channels}

\* Completed units and what was written; since the last unit: a poll, a read of
\* the error queue, and the outputs whose state was read.
Progress == [units : Nat, level : [Channels -> Nat \X Nat], limited : [Channels -> BOOLEAN],
             polled : BOOLEAN, read : BOOLEAN, seen : SUBSET Channels]

Start == [units |-> 0, level |-> [c \in Channels |-> <<0, 0>>],
          limited |-> [c \in Channels |-> FALSE],
          polled |-> FALSE, read |-> FALSE, seen |-> {}]

Polls == {"firstpoll", "poll"}

Does(a, c) ==
    [units   |-> IF c.op = "unit" THEN a.units + 1 ELSE a.units,
     level   |-> IF c.op \in {"voltage", "pair"} THEN [a.level EXCEPT ![c.ch] = c.val] ELSE a.level,
     limited |-> IF c.op \in {"limit", "pair"} THEN [a.limited EXCEPT ![c.ch] = TRUE] ELSE a.limited,
     polled  |-> IF c.op = "unit" THEN FALSE ELSE a.polled \/ c.op \in Polls,
     read    |-> IF c.op = "unit" THEN FALSE ELSE a.read \/ c.op = "errors",
     seen    |-> IF c.op = "unit" THEN {} ELSE IF c.op = "state" THEN a.seen \cup {c.ch} ELSE a.seen]

UnitAt(p, n) == UnitsOfLoop(p)[(n % Len(UnitsOfLoop(p))) + 1]

Programmed(p, a, d) == a.limited[d] /\ a.level[d] = <<FirstSegment(p, d), 1>>

\* The outputs that the switch of a channel acts on.
ActsOn(p, c) == IF p.model = "global" THEN Channels ELSE {c}

HasCycle(p) == p.kind = "sequence" /\ \E i \in 1..Len(p.steps) : p.steps[i].action = "cycle-output"

\* Where a call may come: a unit after a poll, and with the voltages it stands
\* for; a ramp or ramp list never switches off, and on only channels of its plan
\* when what the switch acts on is programmed.
Sound(p, a, c) ==
    /\ c.op = "unit" => a.polled
    /\ c.op \in {"cycleon", "endcycle"} => HasCycle(p)
    /\ p.kind # "sequence" =>
        /\ c.op # "off"
        /\ c.op = "unit" => \A d \in UnitAt(p, a.units).channels : a.level[d] = UnitAt(p, a.units).val
        /\ c.op = "on" =>
              c.ch \in PlanChannels(p) /\ \A d \in PlanChannels(p) \cap ActsOn(p, c.ch) : Programmed(p, a, d)

Outline(p, s, a, f) ==
    /\ f \in [0..Len(s) -> Progress] /\ f[0] = a
    /\ \A i \in 1..Len(s) : Sound(p, f[i - 1], s[i]) /\ f[i] = Does(f[i - 1], s[i])

\* The call sequences that lead from any progress in A to one in B.
Leads(p, A, B) ==
    {s \in Seq(Calls) : \A a \in A : \E f : Outline(p, s, a, f) /\ f[Len(s)] \in B}

-----------------------------------------------------------------------------
(* Rules for outlines *)

\* No calls: from A to A.
LEMMA LeadsNothing ==
    ASSUME NEW p, NEW A, NEW B, A \subseteq B, A \subseteq Progress
    PROVE  << >> \in Leads(p, A, B)
<1>1. << >> \in Seq(Calls) /\ Len(<< >>) = 0
  BY EmptySeq
<1>2. ASSUME NEW a \in A
      PROVE  \E f : Outline(p, << >>, a, f) /\ f[Len(<< >>)] \in B
  <2> DEFINE f == [i \in 0..0 |-> a]
  <2>1. Outline(p, << >>, a, f) /\ f[0] \in B
    BY <1>1 DEF Outline
  <2> QED
    BY <1>1, <2>1
<1> QED
  BY <1>1, <1>2 DEF Leads

\* One call.
LEMMA LeadsCall ==
    ASSUME NEW p, NEW A, NEW B, A \subseteq Progress, NEW c \in Calls,
           \A a \in A : Sound(p, a, c) /\ Does(a, c) \in B /\ Does(a, c) \in Progress
    PROVE  <<c>> \in Leads(p, A, B)
<1>1. <<c>> \in Seq(Calls) /\ Len(<<c>>) = 1 /\ <<c>>[1] = c
  OBVIOUS
<1>2. ASSUME NEW a \in A
      PROVE  \E f : Outline(p, <<c>>, a, f) /\ f[Len(<<c>>)] \in B
  <2> DEFINE f == [i \in 0..1 |-> IF i = 0 THEN a ELSE Does(a, c)]
  <2>1. f \in [0..1 -> Progress] /\ f[0] = a /\ f[1] = Does(a, c)
    OBVIOUS
  <2>2. \A i \in 1..1 : Sound(p, f[i - 1], <<c>>[i]) /\ f[i] = Does(f[i - 1], <<c>>[i])
    <3> HIDE DEF f
    <3>1. ASSUME NEW i \in 1..1
          PROVE  Sound(p, f[i - 1], <<c>>[i]) /\ f[i] = Does(f[i - 1], <<c>>[i])
      <4>1. i = 1 /\ i - 1 = 0
        OBVIOUS
      <4> QED
        BY <1>1, <2>1, <4>1
    <3> QED
      BY <3>1
  <2>3. Outline(p, <<c>>, a, f) /\ f[Len(<<c>>)] \in B
    <3> HIDE DEF f
    <3> QED
      BY <1>1, <2>1, <2>2 DEF Outline
  <2> QED
    BY <2>3
<1> QED
  BY <1>1, <1>2 DEF Leads

\* One call sequence after another.
LEMMA LeadsJoin ==
    ASSUME NEW p, NEW A, NEW B, NEW C, NEW s \in Leads(p, A, B), NEW t \in Leads(p, B, C)
    PROVE  s \o t \in Leads(p, A, C)
<1>1. s \in Seq(Calls) /\ t \in Seq(Calls)
  BY DEF Leads
<1>2. /\ s \o t \in Seq(Calls) /\ Len(s \o t) = Len(s) + Len(t)
      /\ Len(s) \in Nat /\ Len(t) \in Nat
      /\ \A i \in 1..Len(s) + Len(t) :
            (s \o t)[i] = IF i <= Len(s) THEN s[i] ELSE t[i - Len(s)]
  BY <1>1, ConcatProperties, LenProperties
<1>3. ASSUME NEW a \in A
      PROVE  \E f : Outline(p, s \o t, a, f) /\ f[Len(s \o t)] \in C
  <2>1. PICK g : Outline(p, s, a, g) /\ g[Len(s)] \in B
    BY DEF Leads
  <2>2. PICK h : Outline(p, t, g[Len(s)], h) /\ h[Len(t)] \in C
    BY <2>1 DEF Leads
  <2> DEFINE m == Len(s)
             n == Len(t)
             f == [i \in 0..m + n |-> IF i <= m THEN g[i] ELSE h[i - m]]
  <2>3. /\ m \in Nat /\ n \in Nat /\ g \in [0..m -> Progress] /\ h \in [0..n -> Progress]
        /\ g[0] = a /\ h[0] = g[m]
        /\ \A i \in 1..m : Sound(p, g[i - 1], s[i]) /\ g[i] = Does(g[i - 1], s[i])
        /\ \A i \in 1..n : Sound(p, h[i - 1], t[i]) /\ h[i] = Does(h[i - 1], t[i])
    BY <1>2, <2>1, <2>2 DEF Outline
  <2>4. f \in [0..m + n -> Progress] /\ f[0] = a /\ f[m + n] = h[n]
    BY <2>3
  <2>5. ASSUME NEW i \in 1..m + n
        PROVE  Sound(p, f[i - 1], (s \o t)[i]) /\ f[i] = Does(f[i - 1], (s \o t)[i])
    <3>1. CASE i <= m
      <4>1. f[i] = g[i] /\ f[i - 1] = g[i - 1] /\ (s \o t)[i] = s[i] /\ i \in 1..m
        BY <1>2, <2>3, <3>1
      <4> QED
        BY <2>3, <4>1
    <3>2. CASE ~(i <= m)
      <4> DEFINE j == i - m
      <4>1. j \in 1..n /\ f[i] = h[j] /\ (s \o t)[i] = t[j]
        BY <1>2, <2>3, <3>2
      <4>2. f[i - 1] = h[j - 1]
        BY <2>3, <3>2
      <4> QED
        BY <2>3, <4>1, <4>2
    <3> QED
      BY <3>1, <3>2
  <2>6. Outline(p, s \o t, a, f) /\ f[Len(s \o t)] \in C
    <3> HIDE DEF f
    <3> QED
      BY <1>2, <2>2, <2>4, <2>5 DEF Outline
  <2> QED
    BY <2>6
<1> QED
  BY <1>2, <1>3 DEF Leads

\* A stronger start, a weaker end.
LEMMA LeadsWeaken ==
    ASSUME NEW p, NEW A, NEW B, NEW C, NEW D, NEW s \in Leads(p, B, C), A \subseteq B, C \subseteq D
    PROVE  s \in Leads(p, A, D)
BY DEF Leads

\* The start, one progress at a time.
LEMMA LeadsEach ==
    ASSUME NEW p, NEW A, NEW B, NEW s, A # {}, \A a \in A : s \in Leads(p, {a}, B)
    PROVE  s \in Leads(p, A, B)
BY DEF Leads

\* Flattened sequences, each leading on from where the last one ended.
LEMMA LeadsFlatten ==
    ASSUME NEW p, NEW n \in Nat, NEW ss, Len(ss) = n, n = 0 => ss = << >>, NEW P,
           \A i \in 0..n : P[i] \subseteq Progress,
           \A i \in 1..n : ss[i] \in Leads(p, P[i - 1], P[i])
    PROVE  FlattenSeq(ss) \in Leads(p, P[0], P[n])
<1> DEFINE Q == [i \in 0..n |-> Leads(p, P[0], P[i])]
<1>1. << >> \in Q[0]
  BY LeadsNothing
<1>2. n # 0 => ss[1] \in Q[1]
  <2> SUFFICES ASSUME n # 0 PROVE ss[1] \in Q[1]
    OBVIOUS
  <2>1. ss[1] \in Leads(p, P[1 - 1], P[1]) /\ 1 - 1 = 0 /\ 1 \in 0..n
    OBVIOUS
  <2> QED
    BY <2>1
<1>3. \A i \in 2..n : \A s \in Q[i - 1] : s \o ss[i] \in Q[i]
  <2> SUFFICES ASSUME NEW i \in 2..n, NEW s \in Q[i - 1] PROVE s \o ss[i] \in Q[i]
    OBVIOUS
  <2>1. i \in 0..n /\ i - 1 \in 0..n /\ i \in 1..n
    OBVIOUS
  <2>2. s \in Leads(p, P[0], P[i - 1]) /\ ss[i] \in Leads(p, P[i - 1], P[i])
    BY <2>1
  <2>3. s \o ss[i] \in Leads(p, P[0], P[i])
    BY <2>2, LeadsJoin
  <2> QED
    BY <2>1, <2>3
<1>4. FlattenSeq(ss) \in Q[n]
  <2> HIDE DEF Q
  <2> QED
    BY <1>1, <1>2, <1>3, FlattenInduction
<1> QED
  BY <1>4

-----------------------------------------------------------------------------
(* The calls *)

Quiet == {"firstpoll", "poll", "pulse", "errors", "state", "readback", "measure"}

\* b has got further than a within a unit: polls, reads of errors and states.
Later(a, b) ==
    /\ b.units = a.units /\ b.level = a.level /\ b.limited = a.limited
    /\ (a.polled => b.polled) /\ (a.read => b.read) /\ a.seen \subseteq b.seen

Steady(A) == A \subseteq Progress /\ \A a \in A : \A b \in Progress : Later(a, b) => b \in A

Polled == {a \in Progress : a.polled}
Read == {a \in Progress : a.read}
Seen(C) == {a \in Progress : C \subseteq a.seen}

\* Every call leads from progress to progress.
LEMMA DoesType == ASSUME NEW a \in Progress, NEW c \in Calls PROVE Does(a, c) \in Progress
<1>1. c.op \in Addressed => c.ch \in Channels
  BY DEF Calls
<1>2. c.val \in Nat \X Nat
  BY DEF Calls
<1>3. /\ a.units \in Nat /\ a.level \in [Channels -> Nat \X Nat] /\ a.limited \in [Channels -> BOOLEAN]
      /\ a.polled \in BOOLEAN /\ a.read \in BOOLEAN /\ a.seen \subseteq Channels
  BY DEF Progress
<1>4. [a.level EXCEPT ![c.ch] = c.val] \in [Channels -> Nat \X Nat]
      /\ [a.limited EXCEPT ![c.ch] = TRUE] \in [Channels -> BOOLEAN]
  BY <1>2, <1>3
<1>5. c.op = "state" => a.seen \cup {c.ch} \subseteq Channels
  BY <1>1, <1>3 DEF Addressed
<1> DEFINE b == Does(a, c)
<1>6. b.units \in Nat /\ b.level \in [Channels -> Nat \X Nat] /\ b.limited \in [Channels -> BOOLEAN]
  BY <1>3, <1>4 DEF Does
<1>7. b.polled \in BOOLEAN /\ b.read \in BOOLEAN /\ b.seen \subseteq Channels
  BY <1>3, <1>5 DEF Does
<1>8. b = [units |-> b.units, level |-> b.level, limited |-> b.limited,
           polled |-> b.polled, read |-> b.read, seen |-> b.seen]
  BY DEF Does
<1> HIDE DEF b
<1>9. b \in Progress
  BY <1>6, <1>7, <1>8 DEF Progress
<1> QED
  BY <1>9 DEF b

\* A workflow starts with no unit, and nothing written.
LEMMA StartProgress == Start \in Progress
<1>1. <<0, 0>> \in Nat \X Nat
  OBVIOUS
<1>2. [c \in Channels |-> <<0, 0>>] \in [Channels -> Nat \X Nat]
      /\ [c \in Channels |-> FALSE] \in [Channels -> BOOLEAN] /\ {} \in SUBSET Channels
  BY <1>1
<1> QED
  BY <1>2 DEF Start, Progress

\* What two steady sets have in common.
LEMMA SteadyBoth == ASSUME NEW A, NEW B, Steady(A), Steady(B) PROVE Steady(A \cap B)
BY DEF Steady

\* To have polled, read and seen something stays true.
LEMMA SteadySets == ASSUME NEW C PROVE Steady(Progress) /\ Steady(Polled) /\ Steady(Read) /\ Steady(Seen(C))
BY DEF Steady, Later, Polled, Read, Seen

\* A quiet call loses nothing.
LEMMA QuietCall ==
    ASSUME NEW p, NEW A, Steady(A), NEW c \in Calls, c.op \in Quiet
    PROVE  <<c>> \in Leads(p, A, A)
<1>1. ASSUME NEW a \in A PROVE Sound(p, a, c) /\ Does(a, c) \in A /\ Does(a, c) \in Progress
  <2>1. a \in Progress
    BY DEF Steady
  <2>2. Does(a, c) \in Progress
    BY <2>1, DoesType
  <2>3. Later(a, Does(a, c))
    BY <2>1 DEF Later, Does, Quiet, Progress
  <2>4. Sound(p, a, c)
    BY DEF Sound, Quiet
  <2> QED
    BY <2>2, <2>3, <2>4 DEF Steady
<1> QED
  BY <1>1, LeadsCall DEF Steady

\* The calls without a channel are calls; a poll polls, errors are read.
LEMMA PlainCall ==
    ASSUME NEW op \in Ops \ Addressed
    PROVE  Call(op, 0, <<0, 0>>) \in Calls /\ Call(op, 0, <<0, 0>>).op = op
BY DEF Call, Calls

\* The calls with a channel are calls.
LEMMA ChannelCall ==
    ASSUME NEW op \in Ops, NEW c \in Channels, NEW v \in Nat \X Nat
    PROVE  /\ Call(op, c, v) \in Calls /\ Call(op, c, v).op = op
           /\ Call(op, c, v).ch = c /\ Call(op, c, v).val = v
BY DEF Call, Calls

\* Polls, pulses and reads of the error queue lose nothing.
LEMMA PlainQuiet ==
    ASSUME NEW p, NEW A, Steady(A), NEW op \in {"firstpoll", "poll", "pulse", "errors"}
    PROVE  /\ Plain(op) \in Leads(p, A, A)
           /\ op \in Polls => Plain(op) \in Leads(p, A, A \cap Polled)
           /\ op = "errors" => Plain(op) \in Leads(p, A, A \cap Read)
<1> DEFINE c == Call(op, 0, <<0, 0>>)
<1>1. c \in Calls /\ c.op = op /\ c.op \in Quiet
  <2>1. op \in Quiet
    BY DEF Quiet
  <2>2. op \in Ops
    BY DEF Ops
  <2>3. op \notin Addressed
    BY DEF Addressed
  <2> QED
    BY <2>1, <2>2, <2>3, PlainCall
<1>2. Plain(op) = <<c>>
  BY DEF Plain
<1> HIDE DEF c
<1>3. <<c>> \in Leads(p, A, A)
  BY <1>1, QuietCall
<1>4. ASSUME NEW a \in A
      PROVE  /\ Sound(p, a, c) /\ Does(a, c) \in A /\ Does(a, c) \in Progress
             /\ op \in Polls => Does(a, c) \in Polled
             /\ op = "errors" => Does(a, c) \in Read
  <2>1. a \in Progress /\ Does(a, c) \in Progress
    BY <1>1, DoesType DEF Steady
  <2>2. Later(a, Does(a, c)) /\ Sound(p, a, c)
    BY <1>1, <2>1 DEF Later, Does, Quiet, Progress, Sound
  <2> QED
    BY <1>1, <2>1, <2>2 DEF Steady, Polled, Read, Does, Polls
<1>5. op \in Polls => <<c>> \in Leads(p, A, A \cap Polled)
  BY <1>1, <1>4, LeadsCall DEF Steady
<1>6. op = "errors" => <<c>> \in Leads(p, A, A \cap Read)
  BY <1>1, <1>4, LeadsCall DEF Steady
<1> QED
  BY <1>2, <1>3, <1>5, <1>6

\* Each of n calls keeps A and what the others have marked, and marks its own.
Marking(p, A, n, cs, M) ==
    \A j \in 1..n :
        /\ cs[j] \in Calls
        /\ \A a \in A :
              /\ Sound(p, a, cs[j]) /\ Does(a, cs[j]) \in A /\ Does(a, cs[j]) \in M[j]
              /\ \A k \in 1..n : a \in M[k] => Does(a, cs[j]) \in M[k]

\* n calls, each a script of its own.
Singles(ss, n, cs) ==
    Len(ss) = n /\ (n = 0 => ss = << >>) /\ \A j \in 1..n : ss[j] = <<cs[j]>>

\* Where all have marked, B is reached.
AllMarked(A, n, M, B) == \A a \in A : (\A k \in 1..n : a \in M[k]) => a \in B

\* Such calls, one after the other, mark everything.
LEMMA LeadsMark ==
    ASSUME NEW p, NEW A, A \subseteq Progress, NEW n \in Nat, NEW cs, NEW M,
           Marking(p, A, n, cs, M), NEW ss, Singles(ss, n, cs), NEW B, AllMarked(A, n, M, B)
    PROVE  FlattenSeq(ss) \in Leads(p, A, B)
<1> DEFINE P == [j \in 0..n |-> {a \in A : \A k \in 1..j : a \in M[k]}]
<1>1. \A j \in 0..n : P[j] \subseteq Progress
  OBVIOUS
<1>2. ASSUME NEW j \in 1..n PROVE ss[j] \in Leads(p, P[j - 1], P[j])
  <2>1. j \in 0..n /\ j - 1 \in 0..n /\ cs[j] \in Calls
    BY DEF Marking
  <2>2. ASSUME NEW a \in P[j - 1]
        PROVE  Sound(p, a, cs[j]) /\ Does(a, cs[j]) \in P[j] /\ Does(a, cs[j]) \in Progress
    <3>1. a \in A /\ \A k \in 1..j - 1 : a \in M[k]
      BY <2>1
    <3>2. Sound(p, a, cs[j]) /\ Does(a, cs[j]) \in A /\ Does(a, cs[j]) \in M[j]
          /\ \A k \in 1..n : a \in M[k] => Does(a, cs[j]) \in M[k]
      BY <3>1 DEF Marking
    <3>3. \A k \in 1..j : k = j \/ (k \in 1..j - 1 /\ k \in 1..n)
      OBVIOUS
    <3>4. \A k \in 1..j : Does(a, cs[j]) \in M[k]
      BY <3>1, <3>2, <3>3
    <3> QED
      BY <2>1, <3>2, <3>4
  <2>3. P[j - 1] \subseteq Progress
    BY <1>1, <2>1
  <2> HIDE DEF P
  <2>4. <<cs[j]>> \in Leads(p, P[j - 1], P[j])
    BY <2>1, <2>2, <2>3, LeadsCall
  <2> QED
    BY <2>4 DEF Singles
<1>3. FlattenSeq(ss) \in Leads(p, P[0], P[n])
  <2> HIDE DEF P
  <2> QED
    BY <1>1, <1>2, LeadsFlatten DEF Singles
<1>4. P[0] = A /\ P[n] \subseteq B
  BY DEF AllMarked
<1> QED
  <2> HIDE DEF P
  <2> QED
    BY <1>3, <1>4, LeadsWeaken

\* Parts that each keep A, joined.
LEMMA LeadsKeep ==
    ASSUME NEW p, NEW A, A \subseteq Progress, NEW n \in Nat, NEW ss, Len(ss) = n,
           n = 0 => ss = << >>, \A j \in 1..n : ss[j] \in Leads(p, A, A)
    PROVE  FlattenSeq(ss) \in Leads(p, A, A)
<1> DEFINE P == [j \in 0..n |-> A]
<1>1. (\A j \in 0..n : P[j] \subseteq Progress) /\ \A j \in 1..n : ss[j] \in Leads(p, P[j - 1], P[j])
  OBVIOUS
<1>2. FlattenSeq(ss) \in Leads(p, P[0], P[n])
  <2> HIDE DEF P
  <2> QED
    BY <1>1, LeadsFlatten
<1> QED
  BY <1>2

-----------------------------------------------------------------------------
(* The plan *)

\* What a plan names.
LEMMA PlanFacts ==
    ASSUME NEW p \in Plans
    PROVE  /\ p.kind \in {"ramp", "ramplist", "sequence"} /\ p.loops \in Nat \ {0}
           /\ Len(p.segments) \in Nat /\ Len(p.steps) \in Nat
           /\ p.kind = "ramp" => Len(p.segments) = 1 /\ Head(p.segments) = p.segments[1]
           /\ p.kind = "ramplist" => Len(p.segments) # 0
           /\ \A n \in 1..Len(p.steps) : p.steps[n] \in Steps
           /\ \A k \in 1..Len(p.segments) :
                 /\ p.segments[k] \in Segments
                 /\ p.model = "pair" => p.segments[k].channels = <<1>>
<1>1. /\ p.segments \in Seq(Segments) /\ p.steps \in Seq(Steps)
      /\ p.kind = "ramplist" => p.segments # << >>
      /\ p.model = "pair" => \A k \in DOMAIN p.segments : p.segments[k].channels = <<1>>
  BY PlansAssumption
<1>2. p.kind \in {"ramp", "ramplist", "sequence"} /\ p.loops \in Nat \ {0}
      /\ (p.kind = "ramp" => Len(p.segments) = 1)
  BY PlansAssumption
<1>3. Len(p.segments) \in Nat /\ Len(p.steps) \in Nat /\ DOMAIN p.segments = 1..Len(p.segments)
      /\ (Len(p.segments) = 0 => p.segments = << >>)
  BY <1>1, LenProperties, EmptySeq
<1>4. /\ \A k \in 1..Len(p.segments) : p.segments[k] \in Segments
      /\ \A n \in 1..Len(p.steps) : p.steps[n] \in Steps
  BY <1>1, ElementOfSeq
<1>5. Head(p.segments) = p.segments[1]
  OBVIOUS
<1> QED
  BY <1>1, <1>2, <1>3, <1>4, <1>5

\* What a segment names: channels of the supply, at least one.
LEMMA SegmentFacts ==
    ASSUME NEW p \in Plans, NEW k \in 1..Len(p.segments)
    PROVE  /\ p.segments[k].channels \in Seq(Channels)
           /\ Len(p.segments[k].channels) \in Nat \ {0}
           /\ \A j \in 1..Len(p.segments[k].channels) : p.segments[k].channels[j] \in Channels
           /\ Head(p.segments[k].channels) = p.segments[k].channels[1]
           /\ SegmentChannels(p, k) =
                 {p.segments[k].channels[j] : j \in 1..Len(p.segments[k].channels)}
           /\ SegmentChannels(p, k) \subseteq Channels
           /\ p.segments[k].volts \in Nat \ {0}
<1>1. p.segments[k] \in Segments
  BY PlanFacts
<1> DEFINE cs == p.segments[k].channels
<1>2. cs \in Seq(Channels) /\ cs # << >> /\ p.segments[k].volts \in Nat \ {0}
  BY <1>1 DEF Segments
<1>3. SegmentChannels(p, k) = {cs[j] : j \in DOMAIN cs}
  BY DEF SegmentChannels, ToSet
<1>4. Head(cs) = cs[1]
  OBVIOUS
<1> HIDE DEF cs
<1>5. Len(cs) \in Nat \ {0} /\ DOMAIN cs = 1..Len(cs) /\ \A j \in 1..Len(cs) : cs[j] \in Channels
  BY <1>2, LenProperties, EmptySeq, ElementOfSeq
<1> QED
  BY <1>2, <1>3, <1>4, <1>5 DEF cs

\* Where the units of a segment are, in any loop.
LEMMA UnitsOfPlan ==
    ASSUME NEW p \in Plans
    PROVE  \E o \in [0..Len(p.segments) -> Nat] :
              /\ o[0] = 0 /\ o[Len(p.segments)] = Len(UnitsOfLoop(p))
              /\ \A k \in 1..Len(p.segments) :
                    o[k] = o[k - 1] + p.segments[k].volts /\ o[k] <= Len(UnitsOfLoop(p))
              /\ \A k \in 1..Len(p.segments) : \A i \in 1..p.segments[k].volts : \A l \in Nat :
                    UnitAt(p, l * Len(UnitsOfLoop(p)) + (o[k - 1] + (i - 1))) =
                        [channels |-> SegmentChannels(p, k), val |-> <<k, i>>]
<1> DEFINE n == Len(p.segments)
           v == [k \in 1..n |-> p.segments[k].volts]
           u(k, i) == [channels |-> SegmentChannels(p, k), val |-> <<k, i>>]
           ss == [k \in 1..n |-> [i \in 1..p.segments[k].volts |-> u(k, i)]]
           E == [channels : SUBSET Channels, val : Nat \X Nat]
<1>1. n \in Nat
  BY PlanFacts
<1>2. \A k \in 1..n : p.segments[k].volts \in Nat \ {0}
  BY SegmentFacts
<1>3. v \in [1..n -> Nat]
  BY <1>2
<1>4. PICK o \in [0..n -> Nat] :
          o[0] = 0 /\ (\A k \in 1..n : o[k] = o[k - 1] + v[k]) /\ \A k \in 0..n : o[k] <= o[n]
  <2> HIDE DEF v, n
  <2> QED
    BY <1>1, <1>3, SumsExist
<1>5. ASSUME NEW k \in 1..n
      PROVE  ss[k] \in Seq(E) /\ Len(ss[k]) = v[k] /\ \A i \in 1..v[k] : ss[k][i] = u(k, i)
  <2>1. ss[k] = [i \in 1..v[k] |-> u(k, i)] /\ v[k] \in Nat
    BY <1>2
  <2>2. \A i \in 1..v[k] : u(k, i) \in E
    <3>1. 1..v[k] \subseteq Nat /\ k \in Nat
      BY <1>1, <2>1
    <3>2. SegmentChannels(p, k) \subseteq Channels
      BY SegmentFacts
    <3> QED
      BY <3>1, <3>2
  <2> HIDE DEF ss, v, E
  <2> QED
    BY <2>1, <2>2, SeqDef
<1>6. Len(ss) = n /\ (n = 0 => ss = << >>)
  BY <1>1
<1>7. \A k \in 1..n : o[k] = o[k - 1] + Len(ss[k]) /\ ss[k] \in Seq(E)
  <2> HIDE DEF ss, v, E, n
  <2> QED
    BY <1>4, <1>5
<1>8. UnitsOfLoop(p) = FlattenSeq(ss)
  BY DEF UnitsOfLoop, Repeat
<1>9. Placed(E, ss, o, n, FlattenSeq(ss))
  <2> HIDE DEF ss, n, E
  <2> QED
    BY <1>1, <1>4, <1>6, <1>7, FlattenPositions
<1>10. /\ Len(UnitsOfLoop(p)) = o[n]
       /\ \A k \in 1..n : \A i \in 1..v[k] :
             o[k - 1] + i <= o[n] /\ UnitsOfLoop(p)[o[k - 1] + i] = u(k, i)
  <2>1. /\ Len(UnitsOfLoop(p)) = o[n]
        /\ \A k \in 1..n : \A i \in 1..Len(ss[k]) :
              o[k - 1] + i <= o[n] /\ UnitsOfLoop(p)[o[k - 1] + i] = ss[k][i]
    <3> HIDE DEF ss, n, E, v
    <3> QED
      BY <1>8, <1>9 DEF Placed
  <2>2. ASSUME NEW k \in 1..n, NEW i \in 1..v[k]
        PROVE  o[k - 1] + i <= o[n] /\ UnitsOfLoop(p)[o[k - 1] + i] = u(k, i)
    <3> HIDE DEF ss, n, E, v, u
    <3>1. Len(ss[k]) = v[k] /\ ss[k][i] = u(k, i)
      BY <1>5
    <3>2. i \in 1..Len(ss[k])
      BY <3>1
    <3> QED
      BY <2>1, <3>1, <3>2
  <2> HIDE DEF ss, n, E, v, u
  <2> QED
    BY <2>1, <2>2
<1>11. ASSUME NEW k \in 1..n, NEW i \in 1..v[k], NEW l \in Nat
       PROVE  UnitAt(p, l * o[n] + (o[k - 1] + (i - 1))) = u(k, i)
  <2> DEFINE x == o[k - 1] + (i - 1)
  <2> HIDE DEF v, ss, E
  <2>1. v[k] \in Nat /\ k - 1 \in 0..n /\ n \in 0..n
    BY <1>1, <1>3
  <2>2. o[k - 1] \in Nat /\ o[n] \in Nat /\ i \in Nat /\ i >= 1
    <3>1. o \in [0..n -> Nat]
      BY <1>4
    <3> HIDE DEF n
    <3>2. o[k - 1] \in Nat /\ o[n] \in Nat
      BY <2>1, <3>1
    <3>3. i \in Nat /\ i >= 1
      BY <2>1
    <3> QED
      BY <3>2, <3>3
  <2>3. o[k - 1] + i <= o[n] /\ UnitsOfLoop(p)[o[k - 1] + i] = u(k, i)
    BY <1>10
  <2>4. x \in 0..o[n] - 1 /\ o[n] \in Nat \ {0} /\ x + 1 = o[k - 1] + i
    <3>1. o[k - 1] + i <= o[n]
      BY <2>3
    <3>2. \A s, t, j \in Nat : j >= 1 /\ s + j <= t =>
            s + (j - 1) \in 0..t - 1 /\ t # 0 /\ (s + (j - 1)) + 1 = s + j
      OBVIOUS
    <3> QED
      BY <2>2, <3>1, <3>2
  <2>5. (l * o[n] + x) % o[n] = x
    <3> HIDE DEF x
    <3> QED
      BY <2>4, Modulus
  <2>6. UnitAt(p, l * o[n] + x) = UnitsOfLoop(p)[x + 1]
    <3> HIDE DEF x
    <3> QED
      BY <1>10, <2>5 DEF UnitAt
  <2> QED
    BY <2>3, <2>4, <2>6
<1>12. o[0] = 0 /\ \A k \in 1..n : o[k] = o[k - 1] + v[k] /\ o[k] <= o[n]
  <2> HIDE DEF n, v
  <2> QED
    BY <1>1, <1>4
<1>13. \A k \in 1..n : v[k] = p.segments[k].volts
  OBVIOUS
<1>14. o[n] = Len(UnitsOfLoop(p))
  BY <1>10
<1> HIDE DEF v, ss, E
<1>15. \A k \in 1..n : \A i \in 1..p.segments[k].volts : \A l \in Nat :
         UnitAt(p, l * Len(UnitsOfLoop(p)) + (o[k - 1] + (i - 1))) = u(k, i)
  BY <1>11, <1>13, <1>14
<1>16. \A k \in 1..n : o[k] = o[k - 1] + p.segments[k].volts /\ o[k] <= Len(UnitsOfLoop(p))
  BY <1>12, <1>13, <1>14
<1> QED
  BY <1>12, <1>14, <1>15, <1>16

-----------------------------------------------------------------------------
(* The parts of a script *)

\* n units are completed; the channels of segment k have their limits and,
\* unless i is 0, voltage i.
Stage(p, k, n, i) ==
    {a \in Progress :
        /\ a.units = n
        /\ \A c \in SegmentChannels(p, k) : a.limited[c] /\ (i # 0 => a.level[c] = <<k, i>>)}

Completed(n) == {a \in Progress : a.units = n}

\* What a stage has reached stays true while only quiet calls follow.
LEMMA StageSteady ==
    ASSUME NEW p, NEW k, NEW n, NEW i
    PROVE  /\ Steady(Stage(p, k, n, i)) /\ Steady(Stage(p, k, n, i) \cap Polled)
           /\ Steady(Completed(n)) /\ Stage(p, k, n, i) \subseteq Stage(p, k, n, 0)
           /\ Stage(p, k, n, i) \subseteq Completed(n)
BY DEF Steady, Later, Stage, Completed, Polled

\* The same of one kind of call, for all channels.
MarkingChannels(p, A, op, v, M) ==
    \A c \in Channels : \A a \in A :
        LET b == Does(a, Call(op, c, v))
        IN  /\ Sound(p, a, Call(op, c, v)) /\ b \in A /\ b \in M[c]
            /\ \A d \in Channels : a \in M[d] => b \in M[d]

\* One kind of call, for every channel of a list.
LEMMA LeadsChannels ==
    ASSUME NEW p, NEW X, NEW Y, NEW list \in Seq(Channels), NEW op \in Ops, NEW v \in Nat \X Nat, NEW Marked,
           X \subseteq Progress, MarkingChannels(p, X, op, v, Marked),
           \A a \in X : (\A m \in 1..Len(list) : a \in Marked[list[m]]) => a \in Y
    PROVE  FlattenSeq([m \in 1..Len(list) |-> <<Call(op, list[m], v)>>]) \in Leads(p, X, Y)
<1> DEFINE size == Len(list)
           calls == [m \in 1..size |-> Call(op, list[m], v)]
           marks == [m \in 1..size |-> Marked[list[m]]]
           parts == [m \in 1..size |-> <<calls[m]>>]
<1>1. size \in Nat /\ \A m \in 1..size : list[m] \in Channels
  BY LenProperties, ElementOfSeq
<1>2. \A m \in 1..size : calls[m] = Call(op, list[m], v) /\ calls[m] \in Calls
  <2> HIDE DEF size
  <2> QED
    BY <1>1, ChannelCall
<1>3. Marking(p, X, size, calls, marks)
  <2>1. \A m \in 1..size : marks[m] = Marked[list[m]]
    OBVIOUS
  <2> HIDE DEF size, calls, marks
  <2> QED
    BY <1>1, <1>2, <2>1 DEF Marking, MarkingChannels
<1>4. Singles(parts, size, calls)
  <2> HIDE DEF size, calls
  <2> QED
    BY <1>1 DEF Singles
<1>5. AllMarked(X, size, marks, Y)
  BY DEF AllMarked
<1>6. FlattenSeq(parts) \in Leads(p, X, Y)
  <2> HIDE DEF size, calls, marks, parts
  <2> QED
    BY <1>1, <1>3, <1>4, <1>5, LeadsMark
<1>7. parts = [m \in 1..Len(list) |-> <<Call(op, list[m], v)>>]
  OBVIOUS
<1> QED
  <2> HIDE DEF parts
  <2> QED
    BY <1>6, <1>7

\* The voltage of a segment, on all its channels.
LEMMA VoltagesWritten ==
    ASSUME NEW p \in Plans, NEW k \in 1..Len(p.segments), NEW n \in Nat, NEW i \in Nat \ {0}, NEW j
    PROVE  Voltages(p.segments[k].channels, k, i)
               \in Leads(p, Stage(p, k, n, j) \cap Polled, Stage(p, k, n, i) \cap Polled)
<1> DEFINE list == p.segments[k].channels
           v == <<k, i>>
           before == Stage(p, k, n, 0) \cap Polled
           after == Stage(p, k, n, i) \cap Polled
           marks == [c \in Channels |-> {a \in Progress : a.level[c] = v}]
<1>1. /\ list \in Seq(Channels) /\ v \in Nat \X Nat /\ "voltage" \in Ops
      /\ SegmentChannels(p, k) = {list[m] : m \in 1..Len(list)}
      /\ \A m \in 1..Len(list) : list[m] \in Channels
  <2>1. k \in Nat
    BY PlanFacts
  <2>2. "voltage" \in Ops
    BY DEF Ops, Addressed
  <2> QED
    BY <2>1, <2>2, SegmentFacts
<1>2. before \subseteq Progress /\ Stage(p, k, n, j) \cap Polled \subseteq before
  BY StageSteady DEF Stage
<1>3. ASSUME NEW c \in Channels, NEW a \in before
      PROVE  /\ Sound(p, a, Call("voltage", c, v)) /\ Does(a, Call("voltage", c, v)) \in before
             /\ Does(a, Call("voltage", c, v)) \in marks[c]
             /\ \A d \in Channels : a \in marks[d] => Does(a, Call("voltage", c, v)) \in marks[d]
  <2> DEFINE b == Does(a, Call("voltage", c, v))
  <2>1. a \in Progress /\ DOMAIN a.level = Channels /\ a.polled
    BY <1>2 DEF Progress, Polled
  <2>2. b \in Progress
    BY <1>1, <2>1, ChannelCall, DoesType
  <2>3. b.units = a.units /\ b.limited = a.limited /\ b.level = [a.level EXCEPT ![c] = v] /\ b.polled
    BY <2>1 DEF Does, Call
  <2>4. Sound(p, a, Call("voltage", c, v))
    BY DEF Sound, Call
  <2>5. \A d \in Channels : b.level[d] = IF d = c THEN v ELSE a.level[d]
    BY <2>1, <2>3
  <2> HIDE DEF b, v
  <2>6. b \in before
    BY <2>2, <2>3 DEF Stage, Polled
  <2>7. b \in marks[c] /\ \A d \in Channels : a \in marks[d] => b \in marks[d]
    BY <2>1, <2>2, <2>5
  <2> QED
    BY <2>4, <2>6, <2>7 DEF b
<1>4. \A a \in before : (\A m \in 1..Len(list) : a \in marks[list[m]]) => a \in after
  <2> SUFFICES ASSUME NEW a \in before, \A m \in 1..Len(list) : a \in marks[list[m]]
               PROVE  a \in after
    OBVIOUS
  <2>1. \A m \in 1..Len(list) : a.level[list[m]] = v
    BY <1>1
  <2>2. \A c \in SegmentChannels(p, k) : a.level[c] = v
    <3> HIDE DEF list, v
    <3> QED
      BY <1>1, <2>1
  <2> HIDE DEF list, v, marks
  <2> QED
    BY <2>2 DEF Stage, v
<1>5. MarkingChannels(p, before, "voltage", v, marks)
  <2> HIDE DEF v, before, marks
  <2> QED
    BY <1>3 DEF MarkingChannels
<1>6. FlattenSeq([m \in 1..Len(list) |-> <<Call("voltage", list[m], v)>>]) \in Leads(p, before, after)
  <2> HIDE DEF list, v, before, after, marks
  <2> QED
    BY <1>1, <1>2, <1>4, <1>5, LeadsChannels
<1>7. Voltages(list, k, i) \in Leads(p, before, after)
  BY <1>6 DEF Voltages, Each, Voltage
<1> QED
  <2> HIDE DEF list, before, after
  <2>1. Stage(p, k, n, j) \cap Polled \subseteq before /\ after = Stage(p, k, n, i) \cap Polled
    BY <1>2 DEF after
  <2>2. Voltages(list, k, i) \in Leads(p, Stage(p, k, n, j) \cap Polled, after)
    BY <1>7, <2>1, LeadsWeaken
  <2> QED
    BY <2>1, <2>2 DEF list

\* The current limits of a segment, on all its channels; a pair also writes the
\* first voltage.
LEMMA LimitsWritten ==
    ASSUME NEW p \in Plans, NEW k \in 1..Len(p.segments), NEW n \in Nat
    PROVE  Limits(p, p.segments[k].channels, k)
               \in Leads(p, Completed(n), Stage(p, k, n, IF p.model = "pair" THEN 1 ELSE 0))
<1> DEFINE list == p.segments[k].channels
           v == <<0, 0>>
           before == Completed(n)
           after == Stage(p, k, n, 0)
           marks == [c \in Channels |-> {a \in Progress : a.limited[c]}]
<1>1. /\ list \in Seq(Channels) /\ v \in Nat \X Nat /\ "limit" \in Ops /\ "pair" \in Ops
      /\ SegmentChannels(p, k) = {list[m] : m \in 1..Len(list)}
      /\ (\A m \in 1..Len(list) : list[m] \in Channels) /\ before \subseteq Progress
  <2>1. "limit" \in Ops /\ "pair" \in Ops
    BY DEF Ops, Addressed
  <2> QED
    BY <2>1, SegmentFacts DEF Completed
<1>2. CASE p.model = "pair"
  <2> DEFINE c == Call("pair", 1, <<k, 1>>)
  <2>1. list = <<1>> /\ Head(list) = 1 /\ k \in Nat /\ 1 \in Channels
    <3>1. list = <<1>>
      BY <1>2, PlanFacts
    <3> QED
      BY <1>1, <3>1, PlanFacts
  <2>2. c \in Calls /\ c.op = "pair" /\ c.ch = 1 /\ c.val = <<k, 1>>
    BY <1>1, <2>1, ChannelCall
  <2>3. SegmentChannels(p, k) = {1}
    BY <1>1, <2>1
  <2> HIDE DEF c, list
  <2>4. ASSUME NEW a \in before
        PROVE  Sound(p, a, c) /\ Does(a, c) \in Stage(p, k, n, 1) /\ Does(a, c) \in Progress
    <3>1. a \in Progress /\ DOMAIN a.level = Channels /\ DOMAIN a.limited = Channels /\ a.units = n
      BY DEF Progress, Completed
    <3>2. Does(a, c) \in Progress
      BY <2>2, <3>1, DoesType
    <3>3. /\ Does(a, c).units = a.units
          /\ Does(a, c).level[1] = <<k, 1>> /\ Does(a, c).limited[1] = TRUE
      BY <2>1, <2>2, <3>1 DEF Does
    <3>4. Sound(p, a, c)
      BY <2>2 DEF Sound
    <3> QED
      BY <2>3, <3>1, <3>2, <3>3, <3>4 DEF Stage
  <2>5. <<c>> \in Leads(p, before, Stage(p, k, n, 1))
    BY <1>1, <2>2, <2>4, LeadsCall
  <2>6. Limits(p, list, k) = <<c>>
    BY <1>2, <2>1 DEF Limits, c
  <2> QED
    BY <1>2, <2>5, <2>6 DEF list
<1>3. CASE p.model # "pair"
  <2>1. ASSUME NEW c \in Channels, NEW a \in before
        PROVE  /\ Sound(p, a, Call("limit", c, v)) /\ Does(a, Call("limit", c, v)) \in before
               /\ Does(a, Call("limit", c, v)) \in marks[c]
               /\ \A d \in Channels : a \in marks[d] => Does(a, Call("limit", c, v)) \in marks[d]
    <3> DEFINE b == Does(a, Call("limit", c, v))
    <3>1. a \in Progress /\ DOMAIN a.limited = Channels /\ a.units = n
      BY <1>1 DEF Progress, Completed
    <3>2. b \in Progress
      BY <1>1, <3>1, ChannelCall, DoesType
    <3>3. b.units = a.units /\ b.limited = [a.limited EXCEPT ![c] = TRUE]
      BY <3>1 DEF Does, Call
    <3>4. Sound(p, a, Call("limit", c, v))
      BY DEF Sound, Call
    <3>5. \A d \in Channels : b.limited[d] = IF d = c THEN TRUE ELSE a.limited[d]
      BY <3>1, <3>3
    <3> HIDE DEF b
    <3>6. b \in before
      BY <3>1, <3>2, <3>3 DEF Completed
    <3>7. b \in marks[c] /\ \A d \in Channels : a \in marks[d] => b \in marks[d]
      BY <3>1, <3>2, <3>5
    <3> QED
      BY <3>4, <3>6, <3>7 DEF b
  <2>2. ASSUME NEW a \in before, \A m \in 1..Len(list) : a \in marks[list[m]]
        PROVE  a \in after
    <3>1. \A m \in 1..Len(list) : a.limited[list[m]]
      BY <1>1, <2>2
    <3>2. \A c \in SegmentChannels(p, k) : a.limited[c]
      BY <1>1, <3>1
    <3> HIDE DEF list, marks
    <3> QED
      BY <3>2 DEF Stage, Completed
  <2>3. MarkingChannels(p, before, "limit", v, marks)
    <3> HIDE DEF v, before, marks
    <3> QED
      BY <2>1 DEF MarkingChannels
  <2>4. FlattenSeq([m \in 1..Len(list) |-> <<Call("limit", list[m], v)>>]) \in Leads(p, before, after)
    <3> HIDE DEF list, v, before, after, marks
    <3> QED
      BY <1>1, <2>2, <2>3, LeadsChannels
  <2>5. Limits(p, list, k) = FlattenSeq([m \in 1..Len(list) |-> <<Call("limit", list[m], v)>>])
    BY <1>3 DEF Limits, Each, On
  <2> QED
    BY <1>3, <2>4, <2>5
<1> QED
  BY <1>2, <1>3

\* The states of outputs, each read.
LEMMA StatesRead ==
    ASSUME NEW p, NEW X, Steady(X), NEW list \in Seq(Channels), NEW C,
           \A c \in C : \E m \in 1..Len(list) : c = list[m]
    PROVE  States(list) \in Leads(p, X, X \cap Seen(C))
<1> DEFINE v == <<0, 0>>
           marks == [c \in Channels |-> {a \in Progress : c \in a.seen}]
           after == X \cap Seen(C)
<1>1. X \subseteq Progress /\ v \in Nat \X Nat /\ "state" \in Ops /\ "state" \in Quiet
  BY DEF Steady, Ops, Addressed, Quiet
<1>2. ASSUME NEW c \in Channels, NEW a \in X
      PROVE  /\ Sound(p, a, Call("state", c, v)) /\ Does(a, Call("state", c, v)) \in X
             /\ Does(a, Call("state", c, v)) \in marks[c]
             /\ \A d \in Channels : a \in marks[d] => Does(a, Call("state", c, v)) \in marks[d]
  <2> DEFINE b == Does(a, Call("state", c, v))
  <2>1. a \in Progress
    BY <1>1
  <2>2. b \in Progress
    BY <1>1, <2>1, ChannelCall, DoesType
  <2>3. Later(a, b) /\ b.seen = a.seen \cup {c}
    BY <2>1 DEF Does, Call, Later, Polls, Progress
  <2>4. Sound(p, a, Call("state", c, v))
    BY DEF Sound, Call
  <2> HIDE DEF b
  <2>5. b \in X
    BY <2>2, <2>3 DEF Steady
  <2>6. b \in marks[c] /\ \A d \in Channels : a \in marks[d] => b \in marks[d]
    BY <2>1, <2>2, <2>3
  <2> QED
    BY <2>4, <2>5, <2>6 DEF b
<1>3. ASSUME NEW a \in X, \A m \in 1..Len(list) : a \in marks[list[m]]
      PROVE  a \in after
  <2>1. \A m \in 1..Len(list) : list[m] \in Channels
    BY ElementOfSeq
  <2>2. \A m \in 1..Len(list) : list[m] \in a.seen
    BY <1>3, <2>1
  <2> QED
    BY <1>1, <2>2 DEF Seen
<1>4. MarkingChannels(p, X, "state", v, marks)
  <2> HIDE DEF v, marks
  <2> QED
    BY <1>2 DEF MarkingChannels
<1>5. FlattenSeq([m \in 1..Len(list) |-> <<Call("state", list[m], v)>>]) \in Leads(p, X, after)
  <2> HIDE DEF v, marks, after
  <2> QED
    BY <1>1, <1>3, <1>4, LeadsChannels
<1> QED
  BY <1>5 DEF States, Each, On

\* Setpoints are read back.
LEMMA ReadbacksKeep ==
    ASSUME NEW p, NEW X, Steady(X), NEW list \in Seq(Channels), NEW k \in Nat, NEW i \in Nat
    PROVE  Readbacks(list, k, i) \in Leads(p, X, X)
<1> DEFINE parts == [m \in 1..Len(list) |-> <<Call("readback", list[m], <<k, i>>)>>]
<1>1. "readback" \in Ops /\ "readback" \in Quiet /\ <<k, i>> \in Nat \X Nat /\ X \subseteq Progress
  BY DEF Ops, Addressed, Quiet, Steady
<1>2. Len(list) \in Nat /\ \A m \in 1..Len(list) : list[m] \in Channels
  BY LenProperties, ElementOfSeq
<1>3. ASSUME NEW m \in 1..Len(list) PROVE parts[m] \in Leads(p, X, X)
  <2> DEFINE c == Call("readback", list[m], <<k, i>>)
  <2>1. c \in Calls /\ c.op = "readback"
    BY <1>1, <1>2, ChannelCall
  <2> HIDE DEF c
  <2>2. <<c>> \in Leads(p, X, X)
    BY <1>1, <2>1, QuietCall
  <2> QED
    BY <2>2 DEF c
<1>4. Len(parts) = Len(list) /\ (Len(list) = 0 => parts = << >>)
  BY <1>2
<1>5. FlattenSeq(parts) \in Leads(p, X, X)
  <2> HIDE DEF parts
  <2> QED
    BY <1>1, <1>2, <1>3, <1>4, LeadsKeep
<1> QED
  BY <1>5 DEF Readbacks, Each

\* A unit is completed after a poll, with its voltage on its channels.
LEMMA UnitCompleted ==
    ASSUME NEW p, NEW k, NEW n \in Nat, NEW i \in Nat \ {0},
           UnitAt(p, n) = [channels |-> SegmentChannels(p, k), val |-> <<k, i>>]
    PROVE  Unit \in Leads(p, Stage(p, k, n, i) \cap Polled, Stage(p, k, n + 1, i))
<1> DEFINE c == Call("unit", 0, <<0, 0>>)
           before == Stage(p, k, n, i) \cap Polled
           after == Stage(p, k, n + 1, i)
<1>1. c \in Calls /\ c.op = "unit"
  BY PlainCall DEF Ops, Addressed
<1>2. Unit = <<c>>
  BY DEF Unit, Plain
<1>3. before \subseteq Progress
  BY DEF Polled
<1> HIDE DEF c
<1>4. ASSUME NEW a \in before
      PROVE  Sound(p, a, c) /\ Does(a, c) \in after /\ Does(a, c) \in Progress
  <2>1. a \in Progress /\ a.polled /\ a.units = n
        /\ \A d \in SegmentChannels(p, k) : a.limited[d] /\ a.level[d] = <<k, i>>
    BY DEF Stage, Polled
  <2>2. Does(a, c) \in Progress
    BY <1>1, <2>1, DoesType
  <2>3. Does(a, c).units = n + 1 /\ Does(a, c).limited = a.limited /\ Does(a, c).level = a.level
    BY <1>1, <2>1 DEF Does
  <2>4. Sound(p, a, c)
    BY <1>1, <2>1 DEF Sound
  <2> QED
    BY <2>1, <2>2, <2>3, <2>4 DEF Stage
<1>5. <<c>> \in Leads(p, before, after)
  <2> HIDE DEF before, after
  <2> QED
    BY <1>1, <1>3, <1>4, LeadsCall
<1> QED
  BY <1>2, <1>5

\* An output goes on when every output of the plan that its switch acts on is
\* programmed.
LEMMA SwitchedOn ==
    ASSUME NEW p, NEW X, Steady(X), NEW c \in Channels, c \in PlanChannels(p),
           \A a \in X : \A d \in PlanChannels(p) \cap ActsOn(p, c) : Programmed(p, a, d)
    PROVE  On("on", c) \in Leads(p, X, X)
<1> DEFINE e == Call("on", c, <<0, 0>>)
<1>1. e \in Calls /\ e.op = "on" /\ e.ch = c
  BY ChannelCall DEF Ops, Addressed
<1>2. On("on", c) = <<e>>
  BY DEF On
<1> HIDE DEF e
<1>3. ASSUME NEW a \in X PROVE Sound(p, a, e) /\ Does(a, e) \in X /\ Does(a, e) \in Progress
  <2>1. a \in Progress
    BY DEF Steady
  <2>2. Does(a, e) \in Progress
    BY <1>1, <2>1, DoesType
  <2>3. Later(a, Does(a, e))
    BY <1>1, <2>1 DEF Later, Does, Polls, Progress
  <2>4. Sound(p, a, e)
    BY <1>1 DEF Sound
  <2> QED
    BY <2>1, <2>2, <2>3, <2>4 DEF Steady
<1>4. <<e>> \in Leads(p, X, X)
  BY <1>1, <1>3, LeadsCall DEF Steady
<1> QED
  BY <1>2, <1>4

\* When its first voltage is written, all channels of a ramp are programmed.
LEMMA RampProgrammed ==
    ASSUME NEW p \in Plans, p.kind = "ramp", NEW n, NEW a \in Stage(p, 1, n, 1), NEW d \in PlanChannels(p)
    PROVE  Programmed(p, a, d)
<1>1. Len(p.segments) = 1
  BY PlanFacts
<1>2. d \in SegmentChannels(p, 1)
  BY <1>1 DEF PlanChannels
<1>3. FirstSegment(p, d) = 1
  BY <1>1, <1>2 DEF FirstSegment
<1> QED
  BY <1>2, <1>3 DEF Stage, Programmed

\* The switching on of a ramp's outputs, and the reading of their states.
LEMMA RampEnabled ==
    ASSUME NEW p \in Plans, p.kind = "ramp", NEW n
    PROVE  RampEnable(p, p.segments[1].channels) \in Leads(p, Stage(p, 1, n, 1), Stage(p, 1, n, 1))
<1> DEFINE list == p.segments[1].channels
           X == Stage(p, 1, n, 1)
<1>1. /\ list \in Seq(Channels) /\ Len(list) \in Nat \ {0} /\ Head(list) = list[1]
      /\ \A m \in 1..Len(list) : list[m] \in Channels \cap PlanChannels(p)
  <2>1. 1 \in 1..Len(p.segments)
    BY PlanFacts
  <2>2. \A c \in SegmentChannels(p, 1) : c \in PlanChannels(p)
    BY <2>1 DEF PlanChannels
  <2> QED
    BY <2>1, <2>2, SegmentFacts
<1>2. Steady(X) /\ X \subseteq Progress
  BY StageSteady DEF Steady
<1>3. ASSUME NEW c \in Channels \cap PlanChannels(p) PROVE On("on", c) \in Leads(p, X, X)
  BY <1>2, SwitchedOn, RampProgrammed
<1>4. SwitchOn(list) \in Leads(p, X, X)
  <2> DEFINE parts == [m \in 1..Len(list) |-> On("on", list[m])]
  <2>1. Len(parts) = Len(list) /\ (Len(list) = 0 => parts = << >>)
        /\ \A m \in 1..Len(list) : parts[m] \in Leads(p, X, X)
    <3> HIDE DEF list, X
    <3> QED
      BY <1>1, <1>3
  <2>2. FlattenSeq(parts) \in Leads(p, X, X)
    <3> HIDE DEF parts, list, X
    <3> QED
      BY <1>1, <1>2, <2>1, LeadsKeep
  <2> QED
    BY <2>2 DEF SwitchOn, Each
<1>5. On("on", Head(list)) \in Leads(p, X, X)
  BY <1>1, <1>3
<1>6. States(list) \in Leads(p, X, X)
  <2> HIDE DEF list, X
  <2>1. States(list) \in Leads(p, X, X \cap Seen({}))
    BY <1>1, <1>2, StatesRead
  <2> QED
    BY <2>1, LeadsWeaken
<1> QED
  <2> HIDE DEF list, X
  <2>1. RampEnable(p, list) \in Leads(p, X, X)
    BY <1>4, <1>5, <1>6, LeadsJoin DEF RampEnable
  <2> QED
    BY <2>1 DEF list, X

\* A segment enables the channels it is the first to use.
LEMMA SegmentEnabled ==
    ASSUME NEW p \in Plans, p.model # "global", NEW k \in 1..Len(p.segments), NEW n, NEW l
    PROVE  SegmentEnable(p, k, l) \in Leads(p, Stage(p, k, n, 1), Stage(p, k, n, 1))
<1> DEFINE list == p.segments[k].channels
           X == Stage(p, k, n, 1)
           part(c) == When(l = 1 /\ FirstSegment(p, c) = k, On("on", c) \o On("state", c))
           parts == [m \in 1..Len(list) |-> part(list[m])]
<1>1. /\ Len(list) \in Nat \ {0} /\ SegmentChannels(p, k) = {list[m] : m \in 1..Len(list)}
      /\ \A m \in 1..Len(list) : list[m] \in Channels
  BY SegmentFacts
<1>2. Steady(X) /\ X \subseteq Progress
  BY StageSteady DEF Steady
<1>3. ASSUME NEW m \in 1..Len(list) PROVE parts[m] \in Leads(p, X, X)
  <2> DEFINE c == list[m]
  <2>1. c \in Channels /\ c \in SegmentChannels(p, k) /\ parts[m] = part(c) /\ c \in PlanChannels(p)
    BY <1>1 DEF PlanChannels
  <2>2. CASE l = 1 /\ FirstSegment(p, c) = k
    <3>1. \A a \in X : \A d \in PlanChannels(p) \cap ActsOn(p, c) : Programmed(p, a, d)
      BY <2>1, <2>2 DEF ActsOn, Programmed, Stage
    <3> DEFINE e == Call("state", c, <<0, 0>>)
    <3>2. e \in Calls /\ e.op \in Quiet
      BY <2>1, ChannelCall DEF Ops, Addressed, Quiet
    <3>3. part(c) = On("on", c) \o <<e>>
      BY <2>2 DEF When, On
    <3> HIDE DEF c, X, e, list, parts, part
    <3>4. On("on", c) \in Leads(p, X, X)
      BY <1>2, <2>1, <3>1, SwitchedOn
    <3>5. <<e>> \in Leads(p, X, X)
      BY <1>2, <3>2, QuietCall
    <3> QED
      BY <2>1, <3>3, <3>4, <3>5, LeadsJoin
  <2>3. CASE ~(l = 1 /\ FirstSegment(p, c) = k)
    <3>1. part(c) = << >>
      BY <2>3 DEF When
    <3> QED
      BY <1>2, <2>1, <3>1, LeadsNothing
  <2> QED
    BY <2>2, <2>3
<1>4. Len(parts) = Len(list) /\ (Len(list) = 0 => parts = << >>)
  BY <1>1
<1>5. FlattenSeq(parts) \in Leads(p, X, X)
  <2> HIDE DEF parts, list, X
  <2> QED
    BY <1>1, <1>2, <1>3, <1>4, LeadsKeep
<1> QED
  BY <1>5 DEF SegmentEnable, Each

\* An optional part that keeps what is known.
LEMMA LeadsWhen ==
    ASSUME NEW p, NEW X, X \subseteq Progress, NEW condition, NEW calls,
           condition => calls \in Leads(p, X, X)
    PROVE  When(condition, calls) \in Leads(p, X, X)
BY LeadsNothing DEF When

\* What a ramp or ramp list that ran to its end has done: all units, and since
\* the last a read of the error queue and of the state of what it enabled.
Finish(p) ==
    {a \in Progress :
        p.kind # "sequence" =>
            a.units = Total(p) /\ a.read /\ (p.enable => PlanChannels(p) \subseteq a.seen)}

-----------------------------------------------------------------------------
(* Ramp *)

\* The pair of the first voltage is on when the first unit begins.
Paired(p, l, i) == IF p.model = "pair" /\ l = 1 /\ i = 1 THEN 1 ELSE 0

\* The units of a ramp are the voltages of its one segment.
LEMMA RampUnits ==
    ASSUME NEW p \in Plans, p.kind = "ramp"
    PROVE  /\ 1 \in 1..Len(p.segments) /\ Len(p.segments) = 1 /\ p.segments[1].volts \in Nat \ {0}
           /\ Len(UnitsOfLoop(p)) = p.segments[1].volts
           /\ \A l \in Nat : \A i \in 1..p.segments[1].volts :
                 UnitAt(p, l * p.segments[1].volts + (i - 1)) =
                     [channels |-> SegmentChannels(p, 1), val |-> <<1, i>>]
<1>1. 1 \in 1..Len(p.segments) /\ Len(p.segments) = 1
  <2>1. Len(p.segments) = 1
    BY PlanFacts
  <2> QED
    BY <2>1
<1>2. p.segments[1].volts \in Nat \ {0}
  BY <1>1, SegmentFacts
<1>3. PICK o \in [0..Len(p.segments) -> Nat] :
         /\ o[0] = 0 /\ o[Len(p.segments)] = Len(UnitsOfLoop(p))
         /\ \A k \in 1..Len(p.segments) : o[k] = o[k - 1] + p.segments[k].volts
         /\ \A k \in 1..Len(p.segments) : \A m \in 1..p.segments[k].volts : \A h \in Nat :
               UnitAt(p, h * Len(UnitsOfLoop(p)) + (o[k - 1] + (m - 1))) =
                   [channels |-> SegmentChannels(p, k), val |-> <<k, m>>]
  BY UnitsOfPlan
<1>4. o[1] = p.segments[1].volts /\ o[1 - 1] = 0 /\ Len(UnitsOfLoop(p)) = p.segments[1].volts
  BY <1>1, <1>2, <1>3
<1>5. ASSUME NEW l \in Nat, NEW i \in 1..p.segments[1].volts
      PROVE  UnitAt(p, l * p.segments[1].volts + (i - 1)) =
                 [channels |-> SegmentChannels(p, 1), val |-> <<1, i>>]
  <2>1. UnitAt(p, l * p.segments[1].volts + (0 + (i - 1))) =
            [channels |-> SegmentChannels(p, 1), val |-> <<1, i>>]
    BY <1>1, <1>3, <1>4
  <2>2. i \in Nat
    BY <1>2
  <2>3. 0 + (i - 1) = i - 1
    BY <2>2
  <2> QED
    BY <2>1, <2>3
<1> QED
  BY <1>1, <1>2, <1>4, <1>5

\* One voltage of a ramp completes one unit.
LEMMA RampStepLeads ==
    ASSUME NEW p \in Plans, p.kind = "ramp", NEW l \in Nat \ {0}, NEW i \in 1..p.segments[1].volts,
           NEW n \in Nat, n = (l - 1) * p.segments[1].volts + (i - 1)
    PROVE  RampStep(p, p.segments[1], l, i)
               \in Leads(p, Stage(p, 1, n, Paired(p, l, i)), Stage(p, 1, n + 1, 0))
<1> DEFINE s == p.segments[1]
           S0 == Stage(p, 1, n, Paired(p, l, i))
           S1 == Stage(p, 1, n, i) \cap Polled
           S2 == Stage(p, 1, n + 1, i)
<1>1. 1 \in 1..Len(p.segments) /\ s.volts \in Nat \ {0} /\ i \in Nat \ {0} /\ Len(p.segments) = 1
  <2>1. p.segments[1].volts \in Nat \ {0}
    BY RampUnits
  <2>2. i \in Nat \ {0}
    BY <2>1
  <2> QED
    BY <2>1, <2>2, RampUnits
<1>2. Steady(S0) /\ Steady(S1) /\ Steady(S2) /\ S2 \subseteq Progress /\ S2 \subseteq Stage(p, 1, n + 1, 0)
      /\ S0 \cap Polled \subseteq Progress
  BY StageSteady DEF Steady
<1>3. UnitAt(p, n) = [channels |-> SegmentChannels(p, 1), val |-> <<1, i>>]
  <2>1. l - 1 \in Nat
    OBVIOUS
  <2> QED
    BY <2>1, RampUnits
<1>4. Poll \in Leads(p, S0, S0 \cap Polled)
  <2> HIDE DEF S0
  <2> QED
    BY <1>2, PlainQuiet DEF Poll, Polls
<1>5. RampVoltages(p, s, l, i) \in Leads(p, S0 \cap Polled, S1)
  <2>1. CASE p.model = "pair" /\ l = 1 /\ i = 1
    <3>1. RampVoltages(p, s, l, i) = << >> /\ S1 = S0 \cap Polled
      BY <2>1 DEF RampVoltages, When, Paired
    <3> HIDE DEF S0, S1
    <3> QED
      BY <1>2, <3>1, LeadsNothing
  <2>2. CASE ~(p.model = "pair" /\ l = 1 /\ i = 1)
    <3>1. RampVoltages(p, s, l, i) = Voltages(s.channels, 1, i)
      BY <2>2 DEF RampVoltages, When
    <3>2. Voltages(p.segments[1].channels, 1, i)
              \in Leads(p, Stage(p, 1, n, Paired(p, l, i)) \cap Polled, Stage(p, 1, n, i) \cap Polled)
      BY <1>1, VoltagesWritten
    <3> QED
      BY <3>1, <3>2
  <2> QED
    BY <2>1, <2>2
<1>6. Unit \in Leads(p, S1, S2)
  BY <1>1, <1>3, UnitCompleted
<1>7. When(p.enable /\ l = 1 /\ i = 1, RampEnable(p, s.channels)) \in Leads(p, S2, S2)
  <2>1. i = 1 => RampEnable(p, s.channels) \in Leads(p, S2, S2)
    BY RampEnabled
  <2> HIDE DEF S2
  <2> QED
    BY <1>2, <2>1, LeadsWhen
<1>8. When(p.pulse = "step", Pulse) \in Leads(p, S2, S2)
  <2> HIDE DEF S2
  <2> QED
    BY <1>2, PlainQuiet, LeadsWhen DEF Pulse
<1>9. When(p.paced /\ i < s.volts, Sleep) \in Leads(p, S2, S2)
  <2> HIDE DEF S2
  <2> QED
    BY <1>2, PlainQuiet, LeadsWhen DEF Sleep, Poll
<1>10. RampWrites(p, s, l, i) \in Leads(p, S0 \cap Polled, S2)
  <2> HIDE DEF S0, S1, S2, s
  <2> QED
    BY <1>5, <1>6, <1>7, <1>8, <1>9, LeadsJoin DEF RampWrites
<1> HIDE DEF S0, S1, S2, s
<1>11. RampStep(p, s, l, i) \in Leads(p, S0, S2)
  BY <1>4, <1>10, LeadsJoin DEF RampStep
<1>12. RampStep(p, s, l, i) \in Leads(p, S0, Stage(p, 1, n + 1, 0))
  BY <1>2, <1>11, LeadsWeaken
<1> QED
  BY <1>12 DEF s, S0

\* One loop of a ramp completes a unit for every voltage.
LEMMA RampLoopLeads ==
    ASSUME NEW p \in Plans, p.kind = "ramp", NEW l \in Nat \ {0},
           NEW m \in Nat, m = (l - 1) * p.segments[1].volts
    PROVE  RampLoop(p, p.segments[1], l)
               \in Leads(p, Stage(p, 1, m, Paired(p, l, 1)), Stage(p, 1, m + p.segments[1].volts, 0))
<1> DEFINE s == p.segments[1]
           size == s.volts
           P == [i \in 0..size |-> Stage(p, 1, m + i, Paired(p, l, i + 1))]
           parts == [i \in 1..size |-> RampStep(p, s, l, i)]
           X == Stage(p, 1, m + size, 0)
<1>1. size \in Nat \ {0} /\ 1 \in 1..Len(p.segments)
  BY RampUnits
<1>2. ASSUME NEW i \in 1..size PROVE parts[i] \in Leads(p, P[i - 1], P[i])
  <2>1. i \in 0..size /\ i - 1 \in 0..size /\ m + (i - 1) \in Nat /\ (m + (i - 1)) + 1 = m + i
        /\ (i - 1) + 1 = i /\ i + 1 # 1
    BY <1>1
  <2>2. RampStep(p, s, l, i) \in Leads(p, Stage(p, 1, m + (i - 1), Paired(p, l, i)),
                                       Stage(p, 1, (m + (i - 1)) + 1, 0))
    BY <2>1, RampStepLeads
  <2>3. P[i - 1] = Stage(p, 1, m + (i - 1), Paired(p, l, i)) /\ P[i] = Stage(p, 1, m + i, 0)
    BY <2>1 DEF Paired
  <2> HIDE DEF P, s
  <2> QED
    BY <2>1, <2>2, <2>3
<1>3. \A i \in 0..size : P[i] \subseteq Progress
  BY DEF Stage
<1>4. FlattenSeq(parts) \in Leads(p, P[0], P[size])
  <2>1. Len(parts) = size /\ (size = 0 => parts = << >>) /\ size \in Nat
    BY <1>1
  <2> HIDE DEF P, parts, size
  <2> QED
    BY <1>2, <1>3, <2>1, LeadsFlatten
<1>5. P[0] = Stage(p, 1, m, Paired(p, l, 1)) /\ P[size] = X
  <2>1. 0 \in 0..size /\ size \in 0..size /\ m + 0 = m /\ 0 + 1 = 1 /\ size + 1 # 1
    BY <1>1
  <2> HIDE DEF size
  <2> QED
    BY <2>1 DEF Paired
<1>6. Repeat(size, LAMBDA i : RampStep(p, s, l, i)) = FlattenSeq(parts)
  BY DEF Repeat
<1>7. Steady(X) /\ X \subseteq Progress
  BY StageSteady DEF Steady
<1>8. When(p.paced, Sleep) \in Leads(p, X, X) /\ Poll \in Leads(p, X, X)
      /\ When(p.pulse = "segment", Pulse) \in Leads(p, X, X)
  <2> HIDE DEF X
  <2> QED
    BY <1>7, PlainQuiet, LeadsWhen DEF Sleep, Poll, Pulse
<1>9. When(p.verify, Readbacks(s.channels, 1, s.volts)) \in Leads(p, X, X)
  <2>1. s.channels \in Seq(Channels) /\ s.volts \in Nat
    BY <1>1, SegmentFacts
  <2> HIDE DEF X, s
  <2> QED
    BY <1>7, <2>1, ReadbacksKeep, LeadsWhen
<1>10. RampLoop(p, s, l) \in Leads(p, P[0], X)
  <2> DEFINE s1 == FlattenSeq(parts) \o When(p.paced, Sleep)
             s2 == s1 \o When(p.verify, Readbacks(s.channels, 1, s.volts))
             s3 == s2 \o Poll
             s4 == s3 \o When(p.pulse = "segment", Pulse)
  <2>1. RampLoop(p, s, l) = s4
    BY <1>6 DEF RampLoop
  <2> HIDE DEF X, P, parts, s, size
  <2>2. s1 \in Leads(p, P[0], X)
    BY <1>4, <1>5, <1>8, LeadsJoin
  <2> HIDE DEF s1
  <2>3. s2 \in Leads(p, P[0], X)
    BY <1>9, <2>2, LeadsJoin
  <2> HIDE DEF s2
  <2>4. s3 \in Leads(p, P[0], X)
    BY <1>8, <2>3, LeadsJoin
  <2> HIDE DEF s3
  <2>5. s4 \in Leads(p, P[0], X)
    BY <1>8, <2>4, LeadsJoin
  <2> QED
    BY <2>1, <2>5
<1> QED
  BY <1>5, <1>10

\* The loops of a ramp.
LEMMA RampLoopsLead ==
    ASSUME NEW p \in Plans, p.kind = "ramp"
    PROVE  FlattenSeq([l \in 1..p.loops |-> RampLoop(p, p.segments[1], l)])
               \in Leads(p, Stage(p, 1, 0, IF p.model = "pair" THEN 1 ELSE 0), Stage(p, 1, Total(p), 0))
<1> DEFINE s == p.segments[1]
           size == s.volts
           count == p.loops
           P == [l \in 0..count |-> Stage(p, 1, l * size, Paired(p, l + 1, 1))]
           parts == [l \in 1..count |-> RampLoop(p, s, l)]
<1>1. size \in Nat \ {0} /\ count \in Nat \ {0} /\ Total(p) = count * size
  <2>1. size \in Nat \ {0} /\ Len(UnitsOfLoop(p)) = size
    BY RampUnits
  <2>2. count \in Nat \ {0}
    BY PlanFacts
  <2> QED
    BY <2>1, <2>2 DEF Total
<1>2. ASSUME NEW l \in 1..count PROVE parts[l] \in Leads(p, P[l - 1], P[l])
  <2> DEFINE m == (l - 1) * size
  <2>1. l \in Nat \ {0} /\ l \in 0..count /\ l - 1 \in 0..count /\ l - 1 \in Nat
        /\ (l - 1) + 1 = l /\ l + 1 # 1
    BY <1>1
  <2>2. m \in Nat /\ m + size = l * size
    <3> HIDE DEF size
    <3> QED
      BY <1>1, <2>1
  <2>3. RampLoop(p, p.segments[1], l)
            \in Leads(p, Stage(p, 1, m, Paired(p, l, 1)), Stage(p, 1, m + p.segments[1].volts, 0))
    BY <2>1, <2>2, RampLoopLeads
  <2>4. P[l - 1] = Stage(p, 1, m, Paired(p, l, 1)) /\ P[l] = Stage(p, 1, l * size, 0)
    BY <2>1 DEF Paired
  <2> HIDE DEF P, m
  <2> QED
    BY <2>2, <2>3, <2>4
<1>3. \A l \in 0..count : P[l] \subseteq Progress
  BY DEF Stage
<1>4. FlattenSeq(parts) \in Leads(p, P[0], P[count])
  <2>1. Len(parts) = count /\ (count = 0 => parts = << >>) /\ count \in Nat
    BY <1>1
  <2> HIDE DEF P, parts, count
  <2> QED
    BY <1>2, <1>3, <2>1, LeadsFlatten
<1>5. P[0] = Stage(p, 1, 0, IF p.model = "pair" THEN 1 ELSE 0) /\ P[count] = Stage(p, 1, Total(p), 0)
  <2> HIDE DEF size, count
  <2>1. 0 \in 0..count /\ count \in 0..count /\ 0 * size = 0 /\ 0 + 1 = 1 /\ count + 1 # 1
    BY <1>1
  <2> QED
    BY <1>1, <2>1 DEF Paired
<1>6. FlattenSeq(parts) \in Leads(p, Stage(p, 1, 0, IF p.model = "pair" THEN 1 ELSE 0), Stage(p, 1, Total(p), 0))
  <2> HIDE DEF P, parts
  <2> QED
    BY <1>4, <1>5
<1> QED
  BY <1>6

\* A ramp ends with all its units completed, its errors read, and the states of
\* the outputs it enabled read after the last unit.
LEMMA RampLeads ==
    ASSUME NEW p \in Plans, p.kind = "ramp"
    PROVE  Ramp(p) \in Leads(p, {Start}, Finish(p))
<1> DEFINE s == p.segments[1]
           j == IF p.model = "pair" THEN 1 ELSE 0
           begin == Completed(0)
           looped == Stage(p, 1, Total(p), 0)
           confirmed == {a \in looped : p.enable => PlanChannels(p) \subseteq a.seen}
           X == confirmed \cap Read
<1>1. Len(p.segments) = 1 /\ Head(p.segments) = s /\ 1 \in 1..Len(p.segments)
      /\ PlanChannels(p) = SegmentChannels(p, 1)
  <2>1. Len(p.segments) = 1 /\ Head(p.segments) = s /\ 1 \in 1..Len(p.segments)
    BY PlanFacts, RampUnits
  <2> QED
    BY <2>1 DEF PlanChannels
<1>2. Steady(begin) /\ {Start} \subseteq begin
  <2>1. Start \in Progress
    BY StartProgress
  <2>2. Start.units = 0
    BY DEF Start
  <2>3. Steady(begin)
    BY StageSteady
  <2> QED
    BY <2>1, <2>2, <2>3 DEF Completed
<1>3. Steady(looped) /\ Steady(confirmed) /\ Steady(X) /\ X \subseteq Finish(p)
  <2>1. Steady(looped)
    BY StageSteady
  <2>2. Steady(confirmed)
    BY <2>1 DEF Steady, Later
  <2>3. Steady(X)
    <3> HIDE DEF confirmed
    <3> QED
      BY <2>2, SteadySets, SteadyBoth
  <2>4. X \subseteq Finish(p)
    BY DEF Finish, Stage, Read
  <2> QED
    BY <2>1, <2>2, <2>3, <2>4
<1>4. Plain("firstpoll") \in Leads(p, begin, begin) /\ Poll \in Leads(p, begin, begin)
  <2> HIDE DEF begin
  <2> QED
    BY <1>2, PlainQuiet DEF Poll
<1>5. Limits(p, s.channels, 1) \in Leads(p, begin, Stage(p, 1, 0, j))
  BY <1>1, LimitsWritten
<1>6. FlattenSeq([l \in 1..p.loops |-> RampLoop(p, s, l)]) \in Leads(p, Stage(p, 1, 0, j), looped)
  BY RampLoopsLead
<1>7. RampFinalStates(p, s) \in Leads(p, looped, confirmed)
  <2>1. CASE p.enable
    <3>1. s.channels \in Seq(Channels)
          /\ \A c \in PlanChannels(p) : \E m \in 1..Len(s.channels) : c = s.channels[m]
      BY <1>1, SegmentFacts
    <3>2. States(s.channels) \in Leads(p, looped, looped \cap Seen(PlanChannels(p)))
      <4> HIDE DEF looped, s
      <4> QED
        BY <1>3, <3>1, StatesRead
    <3>3. looped \cap Seen(PlanChannels(p)) \subseteq confirmed
      BY <2>1 DEF Seen
    <3>4. RampFinalStates(p, s) = States(s.channels)
      BY <2>1 DEF RampFinalStates, When
    <3> HIDE DEF looped, confirmed, s
    <3> QED
      BY <3>2, <3>3, <3>4, LeadsWeaken
  <2>2. CASE ~p.enable
    <3>1. RampFinalStates(p, s) = << >> /\ looped \subseteq confirmed /\ looped \subseteq Progress
      BY <2>2 DEF RampFinalStates, When, Stage
    <3> HIDE DEF looped, confirmed
    <3> QED
      BY <3>1, LeadsNothing
  <2> QED
    BY <2>1, <2>2
<1>8. Errors \in Leads(p, confirmed, X)
  <2> HIDE DEF confirmed
  <2> QED
    BY <1>3, PlainQuiet DEF Errors
<1>9. Poll \in Leads(p, X, X) /\ When(p.pulse = "loop", Pulse) \in Leads(p, X, X)
  <2> HIDE DEF X
  <2>1. X \subseteq Progress
    BY <1>3 DEF Steady
  <2> QED
    BY <1>3, <2>1, PlainQuiet, LeadsWhen DEF Poll, Pulse
<1>10. Ramp(p) \in Leads(p, begin, X)
  <2> DEFINE s1 == Plain("firstpoll") \o Poll
             s2 == s1 \o Limits(p, s.channels, 1)
             s3 == s2 \o FlattenSeq([l \in 1..p.loops |-> RampLoop(p, s, l)])
             s4 == s3 \o RampFinalStates(p, s)
             s5 == s4 \o Errors
             s6 == s5 \o Poll
             s7 == s6 \o When(p.pulse = "loop", Pulse)
  <2>1. Ramp(p) = s7
    <3>1. Head(p.segments) = s
      BY <1>1
    <3> HIDE DEF s
    <3> QED
      BY <3>1 DEF Ramp, Repeat
  <2>2. s2 \in Leads(p, begin, Stage(p, 1, 0, j))
    <3> HIDE DEF begin, s, j
    <3>1. s1 \in Leads(p, begin, begin)
      BY <1>4, LeadsJoin
    <3> QED
      BY <1>5, <3>1, LeadsJoin
  <2>3. s3 \in Leads(p, begin, looped)
    <3> HIDE DEF begin, s, s2, j, looped
    <3> QED
      BY <1>6, <2>2, LeadsJoin
  <2>4. s5 \in Leads(p, begin, X)
    <3> HIDE DEF begin, s, s3, looped, confirmed, X
    <3>1. s4 \in Leads(p, begin, confirmed)
      BY <1>7, <2>3, LeadsJoin
    <3> QED
      BY <1>8, <3>1, LeadsJoin
  <2>5. s7 \in Leads(p, begin, X)
    <3> HIDE DEF begin, s5, X
    <3>1. s6 \in Leads(p, begin, X)
      BY <1>9, <2>4, LeadsJoin
    <3> QED
      BY <1>9, <3>1, LeadsJoin
  <2> QED
    BY <2>1, <2>5
<1> QED
  <2> HIDE DEF begin, X
  <2> QED
    BY <1>2, <1>3, <1>10, LeadsWeaken

-----------------------------------------------------------------------------
(* Sequence *)

\* Within a step of a sequence, a call keeps the step's poll.
LEMMA StepCall ==
    ASSUME NEW p, p.kind = "sequence", NEW c \in Calls, c.op # "unit",
           c.op \in {"cycleon", "endcycle"} => HasCycle(p)
    PROVE  <<c>> \in Leads(p, Polled, Polled)
<1>1. Polled \subseteq Progress
  BY DEF Polled
<1>2. ASSUME NEW a \in Polled
      PROVE  Sound(p, a, c) /\ Does(a, c) \in Polled /\ Does(a, c) \in Progress
  <2>1. Does(a, c) \in Progress
    BY <1>1, DoesType
  <2>2. Does(a, c).polled
    BY DEF Does, Polled
  <2> QED
    BY <2>1, <2>2 DEF Sound, Polled
<1> QED
  BY <1>1, <1>2, LeadsCall

\* A part for each channel of a list.
LEMMA StepEach ==
    ASSUME NEW p, NEW list \in Seq(Channels), NEW part,
           \A m \in 1..Len(list) : part[m] \in Leads(p, Polled, Polled)
    PROVE  FlattenSeq([m \in 1..Len(list) |-> part[m]]) \in Leads(p, Polled, Polled)
<1> DEFINE parts == [m \in 1..Len(list) |-> part[m]]
<1>1. Len(list) \in Nat /\ Polled \subseteq Progress
  BY LenProperties DEF Polled
<1>2. Len(parts) = Len(list) /\ (Len(list) = 0 => parts = << >>)
      /\ \A m \in 1..Len(list) : parts[m] \in Leads(p, Polled, Polled)
  BY <1>1
<1> HIDE DEF parts
<1>3. FlattenSeq(parts) \in Leads(p, Polled, Polled)
  BY <1>1, <1>2, LeadsKeep
<1> QED
  BY <1>3 DEF parts

\* The calls of a step of a sequence, whatever its action.
LEMMA StepLeads ==
    ASSUME NEW p \in Plans, p.kind = "sequence", NEW n \in 1..Len(p.steps)
    PROVE  SequenceCalls(p, p.steps[n], n) \in Leads(p, Polled, Polled)
<1> DEFINE X == Leads(p, Polled, Polled)
           step == p.steps[n]
           C == step.channels
           setpoints(c) ==
               IF p.model = "pair" THEN <<Call("pair", c, <<n, 1>>)>>
               ELSE On("limit", c) \o Voltage(c, n, 1)
<1>1. /\ step \in Steps /\ C \in Seq(Channels) /\ n \in Nat
      /\ \A m \in 1..Len(C) : C[m] \in Channels
  <2>1. step \in Steps /\ Len(p.steps) \in Nat
    BY PlanFacts
  <2>2. C \in Seq(Channels)
    BY <2>1 DEF Steps
  <2> QED
    BY <2>1, <2>2, ElementOfSeq
<1>2. \A s, t \in X : s \o t \in X
  BY LeadsJoin
<1>3. Poll \in X /\ Pulse \in X
  BY SteadySets, PlainQuiet DEF Poll, Pulse
<1>4. ASSUME NEW c \in Channels, NEW op \in Addressed, NEW v \in Nat \X Nat,
             op = "cycleon" => HasCycle(p)
      PROVE  <<Call(op, c, v)>> \in X
  <2>1. op \in Ops /\ op # "unit" /\ op # "endcycle"
    BY DEF Ops, Addressed
  <2> HIDE DEF Polled
  <2> QED
    BY <1>4, <2>1, ChannelCall, StepCall
<1>5. ASSUME NEW c \in Channels
      PROVE  /\ On("on", c) \in X /\ On("off", c) \in X /\ On("measure", c) \in X /\ setpoints(c) \in X
             /\ HasCycle(p) => On("cycleon", c) \in X
  <2>1. <<0, 0>> \in Nat \X Nat /\ <<n, 1>> \in Nat \X Nat
    BY <1>1
  <2>2. /\ "on" \in Addressed /\ "off" \in Addressed /\ "measure" \in Addressed /\ "limit" \in Addressed
        /\ "voltage" \in Addressed /\ "pair" \in Addressed /\ "cycleon" \in Addressed
    BY DEF Addressed
  <2>3. On("on", c) \in X /\ On("off", c) \in X /\ On("measure", c) \in X
        /\ (HasCycle(p) => On("cycleon", c) \in X)
    BY <1>4, <2>1, <2>2 DEF On
  <2>4. On("limit", c) \in X /\ Voltage(c, n, 1) \in X /\ <<Call("pair", c, <<n, 1>>)>> \in X
    BY <1>4, <2>1, <2>2 DEF On, Voltage
  <2> QED
    BY <1>2, <2>3, <2>4
<1>6. step.action = "cycle-output" => HasCycle(p) /\ Plain("endcycle") \in X
  <2> SUFFICES ASSUME step.action = "cycle-output" PROVE HasCycle(p) /\ Plain("endcycle") \in X
    OBVIOUS
  <2>1. HasCycle(p)
    BY DEF HasCycle
  <2>2. "endcycle" \in Ops \ Addressed
    BY DEF Ops, Addressed
  <2> QED
    BY <2>1, <2>2, PlainCall, StepCall DEF Plain
<1>7. ASSUME NEW part, \A m \in 1..Len(C) : part[m] \in X
      PROVE  FlattenSeq([m \in 1..Len(C) |-> part[m]]) \in X
  BY <1>1, <1>7, StepEach
<1>8. CASE step.action = "set"
  <2> DEFINE part == [m \in 1..Len(C) |-> Poll \o setpoints(C[m])]
  <2>1. FlattenSeq([m \in 1..Len(C) |-> part[m]]) \in X
    BY <1>1, <1>2, <1>3, <1>5, <1>7
  <2> QED
    BY <1>8, <2>1 DEF SequenceCalls, Each
<1>9. CASE step.action = "apply"
  <2> DEFINE part == [m \in 1..Len(C) |-> Poll \o setpoints(C[m]) \o On("on", C[m])]
  <2>1. FlattenSeq([m \in 1..Len(C) |-> part[m]]) \in X
    BY <1>1, <1>2, <1>3, <1>5, <1>7
  <2> QED
    BY <1>9, <2>1 DEF SequenceCalls, Each
<1>10. CASE step.action \in {"output-on", "output-off", "measure"}
  <2>1. FlattenSeq([m \in 1..Len(C) |-> [k \in 1..Len(C) |-> On("on", C[k])][m]]) \in X
    BY <1>1, <1>5, <1>7
  <2>2. FlattenSeq([m \in 1..Len(C) |-> [k \in 1..Len(C) |-> On("off", C[k])][m]]) \in X
    BY <1>1, <1>5, <1>7
  <2>3. FlattenSeq([m \in 1..Len(C) |-> [k \in 1..Len(C) |-> On("measure", C[k])][m]]) \in X
    BY <1>1, <1>5, <1>7
  <2> QED
    BY <1>10, <2>1, <2>2, <2>3 DEF SequenceCalls, SwitchOn, Each
<1>11. CASE step.action = "cycle-output"
  <2> DEFINE part == [m \in 1..Len(C) |-> Poll \o On("cycleon", C[m])]
  <2>1. FlattenSeq([m \in 1..Len(C) |-> part[m]]) \in X
    BY <1>1, <1>2, <1>3, <1>5, <1>6, <1>7, <1>11
  <2>2. SequenceCalls(p, step, n) =
            (FlattenSeq([m \in 1..Len(C) |-> part[m]]) \o Sleep) \o Plain("endcycle")
    BY <1>11 DEF SequenceCalls, Each
  <2>3. Sleep \in X /\ Plain("endcycle") \in X
    BY <1>3, <1>6, <1>11 DEF Sleep
  <2>4. (FlattenSeq([m \in 1..Len(C) |-> part[m]]) \o Sleep) \o Plain("endcycle") \in X
    <3> HIDE DEF part, X
    <3> QED
      BY <1>2, <2>1, <2>3
  <2> QED
    BY <2>2, <2>4
<1>12. CASE step.action \in {"trigger-pulse", "wait"}
  BY <1>3, <1>12 DEF SequenceCalls, Sleep
<1> QED
  BY <1>1, <1>8, <1>9, <1>10, <1>11, <1>12 DEF Steps, Actions

\* A sequence polls before every unit, and once more at its end.
LEMMA SequenceEndsWithPoll ==
    ASSUME NEW p \in Plans, p.kind = "sequence"
    PROVE  \E s \in Leads(p, Progress, Progress) : Sequence(p) = s \o Poll
<1> DEFINE size == Len(p.steps)
           X == Leads(p, Progress, Progress)
           parts == [n \in 1..size |-> Poll \o SequenceCalls(p, p.steps[n], n) \o Unit]
           loop == FlattenSeq(parts)
           loops == [l \in 1..p.loops |-> loop]
<1>1. size \in Nat /\ p.loops \in Nat
  BY PlanFacts
<1>2. Poll \in Leads(p, Progress, Polled) /\ Poll \in X
  <2>1. Steady(Progress)
    BY SteadySets
  <2>2. Progress \cap Polled = Polled
    BY DEF Polled
  <2> QED
    BY <2>1, <2>2, PlainQuiet DEF Poll, Polls
<1>3. Unit \in Leads(p, Polled, Progress)
  <2> DEFINE c == Call("unit", 0, <<0, 0>>)
  <2>1. c \in Calls /\ c.op = "unit"
    BY PlainCall DEF Ops, Addressed
  <2> HIDE DEF c
  <2>2. ASSUME NEW a \in Polled PROVE Sound(p, a, c) /\ Does(a, c) \in Progress
    BY <2>1, DoesType DEF Sound, Polled
  <2>3. <<c>> \in Leads(p, Polled, Progress)
    BY <2>1, <2>2, LeadsCall DEF Polled
  <2> QED
    BY <2>3 DEF Unit, Plain, c
<1>4. ASSUME NEW n \in 1..size PROVE parts[n] \in X
  <2>1. SequenceCalls(p, p.steps[n], n) \in Leads(p, Polled, Polled)
    BY StepLeads
  <2>2. Poll \o SequenceCalls(p, p.steps[n], n) \in Leads(p, Progress, Polled)
    BY <1>2, <2>1, LeadsJoin
  <2>3. (Poll \o SequenceCalls(p, p.steps[n], n)) \o Unit \in X
    BY <1>3, <2>2, LeadsJoin
  <2> QED
    BY <2>3
<1>5. loop \in X
  <2>1. Len(parts) = size /\ (size = 0 => parts = << >>)
    BY <1>1
  <2> HIDE DEF size, parts
  <2> QED
    BY <1>1, <1>4, <2>1, LeadsKeep
<1>6. FlattenSeq(loops) \in X
  <2>1. Len(loops) = p.loops /\ (p.loops = 0 => loops = << >>) /\ \A l \in 1..p.loops : loops[l] \in X
    <3> HIDE DEF loop
    <3> QED
      BY <1>1, <1>5
  <2> HIDE DEF loops
  <2> QED
    BY <1>1, <2>1, LeadsKeep
<1>7. Sequence(p) = FlattenSeq(loops) \o Poll
  BY DEF Sequence, Repeat
<1> QED
  <2> HIDE DEF loops
  <2> QED
    BY <1>6, <1>7

\* The course of a sequence, of which only its cycle-output steps cycle.
LEMMA SequenceLeads ==
    ASSUME NEW p \in Plans, p.kind = "sequence"
    PROVE  Sequence(p) \in Leads(p, {Start}, Finish(p))
<1>1. PICK s \in Leads(p, Progress, Progress) : Sequence(p) = s \o Poll
  BY SequenceEndsWithPoll
<1>2. Poll \in Leads(p, Progress, Progress)
  BY SteadySets, PlainQuiet DEF Poll, Polls
<1>3. Sequence(p) \in Leads(p, Progress, Progress)
  BY <1>1, <1>2, LeadsJoin
<1>4. {Start} \subseteq Progress /\ Progress \subseteq Finish(p)
  BY StartProgress DEF Finish
<1> QED
  BY <1>3, <1>4, LeadsWeaken

-----------------------------------------------------------------------------
(* Ramp List *)

\* The last part of a script, whose failures are not caught.
LEMMA LeadsFinal ==
    ASSUME NEW p, NEW X, NEW Y, NEW s \in Leads(p, X, Y)
    PROVE  Final(s) \in Leads(p, X, Y)
<1>1. s \in Seq(Calls) /\ Len(s) \in Nat /\ DOMAIN s = 1..Len(s) /\ \A i \in 1..Len(s) : s[i] \in Calls
  <2>1. s \in Seq(Calls)
    BY DEF Leads
  <2> QED
    BY <2>1, LenProperties, ElementOfSeq
<1> DEFINE t == Final(s)
<1>2. ASSUME NEW i \in 1..Len(s)
      PROVE  t[i] \in Calls /\ t[i].op = s[i].op /\ t[i].ch = s[i].ch /\ t[i].val = s[i].val
  <2>1. s[i] \in Calls /\ t[i] = [s[i] EXCEPT !.final = TRUE]
    BY <1>1 DEF Final
  <2> QED
    BY <2>1 DEF Calls
<1>3. t \in Seq(Calls) /\ Len(t) = Len(s)
  <2>1. t = [i \in 1..Len(s) |-> t[i]]
    BY <1>1 DEF Final
  <2> HIDE DEF t
  <2> QED
    BY <1>1, <1>2, <2>1, SeqDef
<1> HIDE DEF t
<1>4. ASSUME NEW a \in X
      PROVE  \E f : Outline(p, t, a, f) /\ f[Len(t)] \in Y
  <2>1. PICK f : Outline(p, s, a, f) /\ f[Len(s)] \in Y
    BY DEF Leads
  <2>2. ASSUME NEW i \in 1..Len(s)
        PROVE  Sound(p, f[i - 1], t[i]) /\ f[i] = Does(f[i - 1], t[i])
    <3>1. Sound(p, f[i - 1], s[i]) /\ f[i] = Does(f[i - 1], s[i])
      BY <2>1 DEF Outline
    <3> DEFINE b == f[i - 1]
               old == s[i]
               new == t[i]
    <3>2. new.op = old.op /\ new.ch = old.ch /\ new.val = old.val
      BY <1>2
    <3> HIDE DEF b, old, new
    <3>3. Does(b, new) = Does(b, old)
      BY <3>2 DEF Does
    <3>4. Sound(p, b, old) => Sound(p, b, new)
      BY <3>2 DEF Sound
    <3> QED
      BY <3>1, <3>3, <3>4 DEF b, old, new
  <2>3. Outline(p, t, a, f)
    BY <1>3, <2>1, <2>2 DEF Outline
  <2> QED
    BY <1>3, <2>1, <2>3
<1> QED
  BY <1>3, <1>4 DEF Leads, t

\* The channels of a set, in order.
LEMMA InOrderFacts ==
    ASSUME NEW C, C \subseteq Channels
    PROVE  /\ InOrder(C) \in Seq(Channels)
           /\ \A m \in 1..Len(InOrder(C)) : InOrder(C)[m] \in C
           /\ \A c \in C : \E m \in 1..Len(InOrder(C)) : c = InOrder(C)[m]
<1> DEFINE parts == [c \in 1..NumChannels |-> IF c \in C THEN <<c>> ELSE << >>]
           Listed(n, s) == /\ \A m \in 1..Len(s) : s[m] \in C
                           /\ \A c \in C \cap 1..n : \E m \in 1..Len(s) : c = s[m]
           P == [n \in 0..NumChannels |-> {s \in Seq(Channels) : Listed(n, s)}]
<1>1. NumChannels \in Nat \ {0} /\ Channels = 1..NumChannels
  BY BoundsAssumption DEF Channels
<1>2. InOrder(C) = FlattenSeq(parts)
  BY DEF InOrder, Repeat, When
<1>3. << >> \in P[0]
  BY <1>1
<1>4. ASSUME NEW n \in 1..NumChannels, NEW s \in P[n - 1] PROVE s \o parts[n] \in P[n]
  <2> DEFINE last == parts[n]
  <2>1. n \in 0..NumChannels /\ n - 1 \in 0..NumChannels /\ n \in Channels
    BY <1>1
  <2>2. s \in Seq(Channels) /\ Listed(n - 1, s)
    BY <2>1
  <2>3. last \in Seq(Channels) /\ (\A m \in 1..Len(last) : last[m] \in C)
        /\ (n \in C => Len(last) = 1 /\ last[1] = n)
    <3>1. << >> \in Seq(Channels) /\ Len(<< >>) = 0
      BY EmptySeq
    <3>2. CASE n \in C
      <4>1. last = <<n>>
        BY <3>2
      <4> QED
        BY <2>1, <3>2, <4>1
    <3>3. CASE n \notin C
      <4>1. last = << >>
        BY <3>3
      <4> QED
        BY <3>1, <3>3, <4>1
    <3> QED
      BY <3>2, <3>3
  <2> HIDE DEF parts, last
  <2>4. /\ s \o last \in Seq(Channels) /\ Len(s \o last) = Len(s) + Len(last)
        /\ \A i \in 1..Len(s) : (s \o last)[i] = s[i]
        /\ \A i \in 1..Len(last) : (s \o last)[Len(s) + i] = last[i]
        /\ Len(s) \in Nat /\ Len(last) \in Nat
    BY <2>2, <2>3, JoinPositions, LenProperties
  <2>5. ASSUME NEW m \in 1..Len(s \o last) PROVE (s \o last)[m] \in C
    <3>1. CASE m <= Len(s)
      <4>1. m \in 1..Len(s)
        BY <2>4, <3>1
      <4> QED
        BY <2>2, <2>4, <4>1
    <3>2. CASE ~(m <= Len(s))
      <4> DEFINE j == m - Len(s)
      <4>1. j \in 1..Len(last) /\ Len(s) + j = m
        BY <2>4, <3>2
      <4> QED
        BY <2>3, <2>4, <4>1
    <3> QED
      BY <3>1, <3>2
  <2>6. ASSUME NEW c \in C \cap 1..n PROVE \E m \in 1..Len(s \o last) : c = (s \o last)[m]
    <3>1. CASE c = n
      <4>1. n \in C
        BY <3>1
      <4>2. Len(last) = 1 /\ last[1] = n
        BY <2>3, <4>1
      <4>3. Len(s) + 1 \in 1..Len(s \o last) /\ 1 \in 1..Len(last)
        BY <2>4, <4>2
      <4>4. (s \o last)[Len(s) + 1] = n
        BY <2>4, <4>2, <4>3
      <4> QED
        BY <3>1, <4>3, <4>4
    <3>2. CASE c # n
      <4>1. c \in C \cap 1..n - 1
        BY <2>1, <3>2
      <4>2. PICK m \in 1..Len(s) : c = s[m]
        BY <2>2, <4>1
      <4>3. m \in 1..Len(s \o last) /\ (s \o last)[m] = c
        BY <2>4, <4>2
      <4> QED
        BY <4>3
    <3> QED
      BY <3>1, <3>2
  <2>7. Listed(n, s \o last)
    BY <2>5, <2>6
  <2>8. s \o last \in P[n]
    <3> HIDE DEF Listed
    <3> QED
      BY <2>1, <2>4, <2>7
  <2> QED
    BY <2>8 DEF last
<1>5. 1 \in 1..NumChannels /\ Len(parts) = NumChannels /\ parts[1] \in P[1]
  <2>1. 1 \in 1..NumChannels /\ 1 - 1 = 0 /\ Len(parts) = NumChannels
    BY <1>1
  <2>2. << >> \o parts[1] \in P[1]
    <3> HIDE DEF P, parts
    <3> QED
      BY <1>3, <1>4, <2>1
  <2>3. parts[1] \in Seq(Channels)
    <3>1. << >> \in Seq(Channels) /\ 1 \in Channels
      BY <1>1, EmptySeq
    <3> QED
      BY <2>1, <3>1
  <2>4. << >> \o parts[1] = parts[1]
    <3> HIDE DEF parts
    <3> QED
      BY <2>3, ConcatEmptySeq
  <2> HIDE DEF P, parts
  <2> QED
    BY <2>1, <2>2, <2>4
<1>6. FlattenSeq(parts) \in P[NumChannels]
  <2>1. \A n \in 2..NumChannels : n \in 1..NumChannels
    OBVIOUS
  <2> HIDE DEF P, parts
  <2>2. \A n \in 2..NumChannels : \A s \in P[n - 1] : s \o parts[n] \in P[n]
    BY <1>4, <2>1
  <2>3. NumChannels \in Nat /\ NumChannels # 0
    BY <1>1
  <2> QED
    BY <1>3, <1>5, <2>2, <2>3, FlattenInduction
<1>7. NumChannels \in 0..NumChannels /\ \A c \in C : c \in C \cap 1..NumChannels
  BY <1>1
<1>8. InOrder(C) \in Seq(Channels) /\ Listed(NumChannels, InOrder(C))
  <2> HIDE DEF parts, Listed
  <2> QED
    BY <1>2, <1>6, <1>7
<1> QED
  BY <1>7, <1>8

\* A channel of the plan has a first segment.
LEMMA FirstSegmentExists ==
    ASSUME NEW p \in Plans, NEW c \in PlanChannels(p)
    PROVE  /\ FirstSegment(p, c) \in 1..Len(p.segments)
           /\ c \in SegmentChannels(p, FirstSegment(p, c)) /\ c \in Channels
<1> DEFINE S == {k \in 1..Len(p.segments) : c \in SegmentChannels(p, k)}
<1>1. Len(p.segments) \in Nat
  BY PlanFacts
<1>2. S \subseteq Nat /\ S # {}
  BY <1>1 DEF PlanChannels
<1>3. PICK k \in S : \A n \in S : k <= n
  <2> HIDE DEF S
  <2> QED
    BY <1>2, LeastExists
<1>4. k \in 1..Len(p.segments) /\ c \in SegmentChannels(p, k)
  OBVIOUS
<1>5. \A m \in 1..k - 1 : c \notin SegmentChannels(p, m)
  <2> SUFFICES ASSUME NEW m \in 1..k - 1, c \in SegmentChannels(p, m) PROVE FALSE
    OBVIOUS
  <2>1. m \in S /\ m < k
    BY <1>1, <1>4
  <2> HIDE DEF S
  <2> QED
    BY <1>1, <1>2, <1>3, <1>4, <2>1
<1>6. FirstSegment(p, c) \in 1..Len(p.segments) /\ c \in SegmentChannels(p, FirstSegment(p, c))
  BY <1>4, <1>5 DEF FirstSegment
<1> QED
  BY <1>6, SegmentFacts

\* The pair of a segment's first voltage is on when its first unit begins.
PairedSegment(p, i) == IF p.model = "pair" /\ i = 1 THEN 1 ELSE 0

\* One voltage of a segment completes one unit.
LEMMA SegmentStepLeads ==
    ASSUME NEW p \in Plans, NEW k \in 1..Len(p.segments), NEW l,
           NEW i \in Nat \ {0}, NEW n \in Nat,
           UnitAt(p, n) = [channels |-> SegmentChannels(p, k), val |-> <<k, i>>]
    PROVE  SegmentStep(p, k, l, i)
               \in Leads(p, Stage(p, k, n, PairedSegment(p, i)), Stage(p, k, n + 1, 0))
<1> DEFINE list == p.segments[k].channels
           S0 == Stage(p, k, n, PairedSegment(p, i))
           S1 == Stage(p, k, n, i) \cap Polled
           S2 == Stage(p, k, n + 1, i)
<1>1. Steady(S0) /\ Steady(S2) /\ S2 \subseteq Progress /\ S2 \subseteq Stage(p, k, n + 1, 0)
      /\ S0 \cap Polled \subseteq Progress
  BY StageSteady DEF Steady
<1>2. Poll \in Leads(p, S0, S0 \cap Polled)
  <2> HIDE DEF S0
  <2> QED
    BY <1>1, PlainQuiet DEF Poll, Polls
<1>3. When(~(p.model = "pair" /\ i = 1), Voltages(list, k, i)) \in Leads(p, S0 \cap Polled, S1)
  <2>1. CASE p.model = "pair" /\ i = 1
    <3>1. When(~(p.model = "pair" /\ i = 1), Voltages(list, k, i)) = << >> /\ S1 = S0 \cap Polled
      BY <2>1 DEF When, PairedSegment
    <3> HIDE DEF S0, S1
    <3> QED
      BY <1>1, <3>1, LeadsNothing
  <2>2. CASE ~(p.model = "pair" /\ i = 1)
    <3>1. When(~(p.model = "pair" /\ i = 1), Voltages(list, k, i)) = Voltages(list, k, i)
      BY <2>2 DEF When
    <3>2. Voltages(p.segments[k].channels, k, i)
              \in Leads(p, Stage(p, k, n, PairedSegment(p, i)) \cap Polled, Stage(p, k, n, i) \cap Polled)
      BY VoltagesWritten
    <3> QED
      BY <3>1, <3>2
  <2> QED
    BY <2>1, <2>2
<1>4. Unit \in Leads(p, S1, S2)
  BY UnitCompleted
<1>5. When(p.enable /\ p.model # "global" /\ i = 1, SegmentEnable(p, k, l)) \in Leads(p, S2, S2)
  <2>1. p.model # "global" /\ i = 1 => SegmentEnable(p, k, l) \in Leads(p, S2, S2)
    BY SegmentEnabled
  <2> HIDE DEF S2
  <2> QED
    BY <1>1, <2>1, LeadsWhen
<1>6. When(p.pulse = "step", Pulse) \in Leads(p, S2, S2)
      /\ When(p.paced /\ i < p.segments[k].volts, Sleep) \in Leads(p, S2, S2)
  <2> HIDE DEF S2
  <2> QED
    BY <1>1, PlainQuiet, LeadsWhen DEF Pulse, Sleep, Poll
<1>7. SegmentStep(p, k, l, i) \in Leads(p, S0, S2)
  <2> DEFINE s1 == Poll \o When(~(p.model = "pair" /\ i = 1), Voltages(list, k, i))
             s2 == s1 \o Unit
             s3 == s2 \o When(p.enable /\ p.model # "global" /\ i = 1, SegmentEnable(p, k, l))
             s4 == s3 \o When(p.pulse = "step", Pulse)
             s5 == s4 \o When(p.paced /\ i < p.segments[k].volts, Sleep)
  <2>1. SegmentStep(p, k, l, i) = s5
    BY DEF SegmentStep
  <2> HIDE DEF S0, S1, S2, list
  <2>2. s1 \in Leads(p, S0, S1)
    BY <1>2, <1>3, LeadsJoin
  <2> HIDE DEF s1
  <2>3. s2 \in Leads(p, S0, S2)
    BY <1>4, <2>2, LeadsJoin
  <2> HIDE DEF s2
  <2>4. s3 \in Leads(p, S0, S2)
    BY <1>5, <2>3, LeadsJoin
  <2> HIDE DEF s3
  <2>5. s4 \in Leads(p, S0, S2)
    BY <1>6, <2>4, LeadsJoin
  <2> HIDE DEF s4
  <2>6. s5 \in Leads(p, S0, S2)
    BY <1>6, <2>5, LeadsJoin
  <2> QED
    BY <2>1, <2>6
<1> QED
  <2> HIDE DEF S2
  <2> QED
    BY <1>1, <1>7, LeadsWeaken

\* A segment completes a unit for every voltage, and reads its errors.
LEMMA SegmentLeads ==
    ASSUME NEW p \in Plans, NEW k \in 1..Len(p.segments), NEW l, NEW n \in Nat,
           \A i \in 1..p.segments[k].volts :
              UnitAt(p, n + (i - 1)) = [channels |-> SegmentChannels(p, k), val |-> <<k, i>>]
    PROVE  Segment(p, k, l)
               \in Leads(p, Completed(n), Completed(n + p.segments[k].volts) \cap Read)
<1> DEFINE list == p.segments[k].channels
           size == p.segments[k].volts
           begin == Completed(n)
           P == [i \in 0..size |-> Stage(p, k, n + i, PairedSegment(p, i + 1))]
           parts == [i \in 1..size |-> SegmentStep(p, k, l, i)]
           X == Completed(n + size)
<1>1. size \in Nat \ {0}
  BY SegmentFacts
<1>2. ASSUME NEW i \in 1..size PROVE parts[i] \in Leads(p, P[i - 1], P[i])
  <2>1. i \in 0..size /\ i - 1 \in 0..size /\ n + (i - 1) \in Nat /\ (n + (i - 1)) + 1 = n + i
        /\ (i - 1) + 1 = i /\ i + 1 # 1 /\ i \in Nat \ {0}
    BY <1>1
  <2>2. SegmentStep(p, k, l, i) \in Leads(p, Stage(p, k, n + (i - 1), PairedSegment(p, i)),
                                          Stage(p, k, (n + (i - 1)) + 1, 0))
    BY <2>1, SegmentStepLeads
  <2>3. P[i - 1] = Stage(p, k, n + (i - 1), PairedSegment(p, i)) /\ P[i] = Stage(p, k, n + i, 0)
    BY <2>1 DEF PairedSegment
  <2> HIDE DEF P
  <2> QED
    BY <2>1, <2>2, <2>3
<1>3. \A i \in 0..size : P[i] \subseteq Progress
  BY DEF Stage
<1>4. FlattenSeq(parts) \in Leads(p, P[0], P[size])
  <2>1. Len(parts) = size /\ (size = 0 => parts = << >>) /\ size \in Nat
    BY <1>1
  <2> HIDE DEF P, parts, size
  <2> QED
    BY <1>2, <1>3, <2>1, LeadsFlatten
<1>5. P[0] = Stage(p, k, n, IF p.model = "pair" THEN 1 ELSE 0) /\ P[size] \subseteq X
  <2> HIDE DEF size
  <2>1. 0 \in 0..size /\ size \in 0..size /\ n + 0 = n /\ 0 + 1 = 1
    BY <1>1
  <2> QED
    BY <2>1, StageSteady DEF PairedSegment
<1>6. Steady(begin) /\ Steady(X) /\ X \subseteq Progress
  BY StageSteady DEF Completed
<1>7. Poll \in Leads(p, begin, begin) /\ Limits(p, list, k) \in Leads(p, begin, P[0])
  <2>1. Poll \in Leads(p, begin, begin)
    <3> HIDE DEF begin
    <3> QED
      BY <1>6, PlainQuiet DEF Poll
  <2>2. Limits(p, p.segments[k].channels, k)
            \in Leads(p, Completed(n), Stage(p, k, n, IF p.model = "pair" THEN 1 ELSE 0))
    BY LimitsWritten
  <2> HIDE DEF P
  <2> QED
    BY <1>5, <2>1, <2>2
<1>8. FlattenSeq(parts) \in Leads(p, P[0], X)
  <2> HIDE DEF P, X, parts
  <2> QED
    BY <1>4, <1>5, LeadsWeaken
<1>9. /\ When(p.paced, Sleep) \in Leads(p, X, X) /\ When(p.pulse = "segment", Pulse) \in Leads(p, X, X)
      /\ Errors \in Leads(p, X, X \cap Read)
  <2> HIDE DEF X
  <2> QED
    BY <1>6, PlainQuiet, LeadsWhen DEF Sleep, Poll, Pulse, Errors
<1>10. Segment(p, k, l) \in Leads(p, begin, X \cap Read)
  <2> DEFINE s1 == Poll \o Poll
             s2 == s1 \o Limits(p, list, k)
             s3 == s2 \o FlattenSeq(parts)
             s4 == s3 \o When(p.paced, Sleep)
             s5 == s4 \o When(p.pulse = "segment", Pulse)
             s6 == s5 \o Errors
  <2>1. Segment(p, k, l) = s6
    BY DEF Segment, Repeat
  <2> HIDE DEF begin, P, X, parts, list, size
  <2>2. s1 \in Leads(p, begin, begin)
    BY <1>7, LeadsJoin
  <2> HIDE DEF s1
  <2>3. s2 \in Leads(p, begin, P[0])
    BY <1>7, <2>2, LeadsJoin
  <2> HIDE DEF s2
  <2>4. s3 \in Leads(p, begin, X)
    BY <1>8, <2>3, LeadsJoin
  <2> HIDE DEF s3
  <2>5. s4 \in Leads(p, begin, X)
    BY <1>9, <2>4, LeadsJoin
  <2> HIDE DEF s4
  <2>6. s5 \in Leads(p, begin, X)
    BY <1>9, <2>5, LeadsJoin
  <2> HIDE DEF s5
  <2>7. s6 \in Leads(p, begin, X \cap Read)
    BY <1>9, <2>6, LeadsJoin
  <2> QED
    BY <2>1, <2>7
<1> QED
  BY <1>10

\* n units are completed; if there are any, the errors were read since the last.
Known(n) == {a \in Completed(n) : n # 0 => a.read}

\* The position that y units after the first x lead to.
LEMMA ShiftedUnits ==
    ASSUME NEW m \in Nat, NEW x \in Nat, NEW y \in Nat \ {0}
    PROVE  m + x \in Nat /\ (m + x) + y = m + (x + y) /\ m + (x + y) # 0
OBVIOUS

\* One loop of a ramp list, which has the position m of its first unit.
LEMMA ListLoopLeads ==
    ASSUME NEW p \in Plans, NEW l \in Nat \ {0}, NEW m \in Nat, m = (l - 1) * Len(UnitsOfLoop(p))
    PROVE  FlattenSeq([k \in 1..Len(p.segments) |-> Segment(p, k, l)])
               \in Leads(p, Known(m), Known(m + Len(UnitsOfLoop(p))))
<1> DEFINE count == Len(p.segments)
           parts == [k \in 1..count |-> Segment(p, k, l)]
<1>1. count \in Nat /\ l - 1 \in Nat
  BY PlanFacts
<1>2. PICK o \in [0..count -> Nat] :
         /\ o[0] = 0 /\ o[count] = Len(UnitsOfLoop(p))
         /\ \A k \in 1..count : o[k] = o[k - 1] + p.segments[k].volts
         /\ \A k \in 1..count : \A i \in 1..p.segments[k].volts : \A h \in Nat :
               UnitAt(p, h * Len(UnitsOfLoop(p)) + (o[k - 1] + (i - 1))) =
                   [channels |-> SegmentChannels(p, k), val |-> <<k, i>>]
  BY UnitsOfPlan
<1> DEFINE P == [k \in 0..count |-> Known(m + o[k])]
<1>3. ASSUME NEW k \in 1..count PROVE parts[k] \in Leads(p, P[k - 1], P[k])
  <2> DEFINE n == m + o[k - 1]
             size == p.segments[k].volts
  <2>1. k \in 0..count /\ k - 1 \in 0..count
    BY <1>1
  <2>2. o[k - 1] \in Nat /\ o[k] = o[k - 1] + size /\ size \in Nat \ {0}
    BY <1>2, <2>1, SegmentFacts
  <2>3. n \in Nat /\ n + size = m + o[k] /\ m + o[k] # 0
    <3> HIDE DEF size, count
    <3>1. m + o[k - 1] \in Nat /\ (m + o[k - 1]) + size = m + (o[k - 1] + size)
          /\ m + (o[k - 1] + size) # 0
      BY <2>2, ShiftedUnits
    <3>2. m + o[k] = m + (o[k - 1] + size)
      BY <2>2, Zenon
    <3> QED
      BY <3>1, <3>2, Zenon
  <2>4. ASSUME NEW i \in 1..p.segments[k].volts
        PROVE  UnitAt(p, n + (i - 1)) = [channels |-> SegmentChannels(p, k), val |-> <<k, i>>]
    <3>1. UnitAt(p, m + (o[k - 1] + (i - 1))) = [channels |-> SegmentChannels(p, k), val |-> <<k, i>>]
      BY <1>1, <1>2
    <3>2. i \in Nat
      BY <2>2
    <3>3. m + (o[k - 1] + (i - 1)) = n + (i - 1)
      BY <2>2, <3>2
    <3> QED
      BY <3>1, <3>3
  <2>5. Segment(p, k, l) \in Leads(p, Completed(n), Completed(n + size) \cap Read)
    <3> HIDE DEF n
    <3> QED
      BY <2>3, <2>4, SegmentLeads
  <2>6. P[k - 1] \subseteq Completed(n) /\ Completed(n + size) \cap Read \subseteq P[k]
    <3>1. P[k - 1] = Known(n) /\ P[k] = Known(n + size)
      BY <2>1, <2>3
    <3> HIDE DEF P, n, size
    <3> QED
      BY <3>1 DEF Known, Read
  <2> HIDE DEF P, n, size
  <2> QED
    BY <2>5, <2>6, LeadsWeaken
<1>4. \A k \in 0..count : P[k] \subseteq Progress
  BY DEF Known, Completed
<1>5. FlattenSeq(parts) \in Leads(p, P[0], P[count])
  <2>1. Len(parts) = count /\ (count = 0 => parts = << >>)
    BY <1>1
  <2> HIDE DEF P, parts, count
  <2> QED
    BY <1>1, <1>3, <1>4, <2>1, LeadsFlatten
<1>6. P[0] = Known(m) /\ P[count] = Known(m + Len(UnitsOfLoop(p)))
  <2>1. 0 \in 0..count /\ count \in 0..count /\ m + 0 = m
    BY <1>1
  <2> HIDE DEF count
  <2> QED
    BY <1>2, <2>1
<1> QED
  <2> HIDE DEF P
  <2> QED
    BY <1>5, <1>6

\* All loops of a ramp list.
LEMMA ListLoopsLead ==
    ASSUME NEW p \in Plans, p.kind = "ramplist"
    PROVE  FlattenSeq([l \in 1..p.loops |->
                           FlattenSeq([k \in 1..Len(p.segments) |-> Segment(p, k, l)])])
               \in Leads(p, Completed(0), Completed(Total(p)) \cap Read)
<1> DEFINE size == Len(UnitsOfLoop(p))
           count == p.loops
           P == [l \in 0..count |-> Known(l * size)]
           parts == [l \in 1..count |-> FlattenSeq([k \in 1..Len(p.segments) |-> Segment(p, k, l)])]
<1>1. count \in Nat \ {0} /\ Len(p.segments) \in Nat \ {0} /\ Total(p) = count * size
  BY PlanFacts DEF Total
<1>2. size \in Nat \ {0}
  <2>1. PICK o \in [0..Len(p.segments) -> Nat] :
           /\ o[0] = 0 /\ o[Len(p.segments)] = size
           /\ \A k \in 1..Len(p.segments) : o[k] = o[k - 1] + p.segments[k].volts /\ o[k] <= size
    BY UnitsOfPlan
  <2>2. 1 \in 1..Len(p.segments) /\ 1 - 1 = 0
    BY <1>1
  <2>3. p.segments[1].volts \in Nat \ {0}
    BY <2>2, SegmentFacts
  <2>4. o[1] = o[0] + p.segments[1].volts /\ o[1] <= size /\ size \in Nat
    BY <1>1, <2>1, <2>2
  <2> HIDE DEF size
  <2> QED
    BY <2>1, <2>3, <2>4
<1>3. ASSUME NEW l \in 1..count PROVE parts[l] \in Leads(p, P[l - 1], P[l])
  <2> DEFINE m == (l - 1) * size
  <2>1. l \in Nat \ {0} /\ l \in 0..count /\ l - 1 \in 0..count /\ l - 1 \in Nat
    BY <1>1
  <2>2. m \in Nat /\ m + size = l * size
    <3> HIDE DEF size
    <3> QED
      BY <1>2, <2>1
  <2>3. parts[l] \in Leads(p, Known(m), Known(m + size))
    BY <2>1, <2>2, ListLoopLeads
  <2>4. P[l - 1] = Known(m) /\ P[l] = Known(l * size)
    BY <2>1
  <2> HIDE DEF P, m, size, parts
  <2> QED
    BY <2>2, <2>3, <2>4
<1>4. \A l \in 0..count : P[l] \subseteq Progress
  BY DEF Known, Completed
<1>5. FlattenSeq(parts) \in Leads(p, P[0], P[count])
  <2>1. Len(parts) = count /\ (count = 0 => parts = << >>) /\ count \in Nat
    BY <1>1
  <2> HIDE DEF P, parts, count
  <2> QED
    BY <1>3, <1>4, <2>1, LeadsFlatten
<1>6. Completed(0) \subseteq P[0] /\ P[count] \subseteq Completed(Total(p)) \cap Read
  <2> HIDE DEF size, count
  <2>1. 0 \in 0..count /\ count \in 0..count /\ 0 * size = 0
    BY <1>1, <1>2
  <2>2. count * size \in Nat /\ count * size # 0
    BY <1>1, <1>2
  <2>3. P[0] = Known(0) /\ P[count] = Known(Total(p)) /\ Total(p) # 0
    BY <1>1, <2>1, <2>2
  <2> HIDE DEF P
  <2> QED
    BY <2>3 DEF Known, Completed, Read
<1> QED
  <2> HIDE DEF P, parts
  <2>1. FlattenSeq(parts) \in Leads(p, Completed(0), Completed(Total(p)) \cap Read)
    BY <1>5, <1>6, LeadsWeaken
  <2> QED
    BY <2>1 DEF parts

\* Before the one switch of its outputs is thrown, every channel of the plan is
\* programmed.
LEMMA PrestageLeads ==
    ASSUME NEW p \in Plans, p.kind = "ramplist"
    PROVE  Prestage(p) \in Leads(p, Completed(0), Completed(0))
<1> DEFINE C == InOrder(PlanChannels(p))
           begin == Completed(0)
           staged == {a \in begin : \A c \in PlanChannels(p) : Programmed(p, a, c)}
           P == [n \in 0..Len(C) |-> {a \in begin : \A m \in 1..n : Programmed(p, a, C[m])}]
           limit(c) == Call("limit", c, <<0, 0>>)
           voltage(c) == Call("voltage", c, <<FirstSegment(p, c), 1>>)
           parts == [n \in 1..Len(C) |-> Poll \o On("limit", C[n]) \o Voltage(C[n], FirstSegment(p, C[n]), 1)]
<1>1. PlanChannels(p) \subseteq Channels
  BY FirstSegmentExists
<1>2. /\ C \in Seq(Channels) /\ Len(C) \in Nat
      /\ \A m \in 1..Len(C) : C[m] \in PlanChannels(p)
      /\ \A c \in PlanChannels(p) : \E m \in 1..Len(C) : c = C[m]
  BY <1>1, InOrderFacts, LenProperties
<1>3. C[1] \in Channels /\ C[1] \in PlanChannels(p) /\ Head(C) = C[1]
  <2>1. Len(p.segments) \in Nat \ {0}
    BY PlanFacts
  <2>2. 1 \in 1..Len(p.segments)
    BY <2>1
  <2>3. 1 \in 1..Len(p.segments[1].channels) /\ p.segments[1].channels[1] \in SegmentChannels(p, 1)
    <3>1. Len(p.segments[1].channels) \in Nat \ {0}
          /\ SegmentChannels(p, 1) = {p.segments[1].channels[j] : j \in 1..Len(p.segments[1].channels)}
      BY <2>2, SegmentFacts
    <3> QED
      BY <3>1
  <2>4. p.segments[1].channels[1] \in PlanChannels(p)
    BY <2>2, <2>3 DEF PlanChannels
  <2>5. 1 \in 1..Len(C)
    <3> HIDE DEF C
    <3> QED
      BY <1>2, <2>4
  <2> QED
    BY <1>1, <1>2, <2>5
<1>4. begin \subseteq Progress /\ Steady(begin) /\ Steady(staged)
      /\ \A n \in 0..Len(C) : P[n] \subseteq Progress /\ Steady(P[n])
  <2>1. begin \subseteq Progress /\ Steady(begin)
    BY DEF Completed, Steady, Later
  <2>2. Steady(staged)
    BY DEF Completed, Steady, Later, Programmed
  <2>3. ASSUME NEW n \in 0..Len(C) PROVE P[n] \subseteq Progress /\ Steady(P[n])
    <3> DEFINE Q == {a \in begin : \A m \in 1..n : Programmed(p, a, C[m])}
    <3>1. P[n] = Q
      OBVIOUS
    <3> HIDE DEF P, C
    <3>2. Q \subseteq Progress /\ Steady(Q)
      BY DEF Completed, Steady, Later, Programmed
    <3> HIDE DEF Q
    <3> QED
      BY <3>1, <3>2
  <2> QED
    BY <2>1, <2>2, <2>3
<1>5. ASSUME NEW n \in 1..Len(C) PROVE parts[n] \in Leads(p, P[n - 1], P[n])
  <2> DEFINE c == C[n]
             A0 == P[n - 1]
             A1 == {a \in A0 : a.limited[c]}
  <2>1. n \in 0..Len(C) /\ n - 1 \in 0..Len(C) /\ c \in PlanChannels(p) /\ c \in Channels
        /\ FirstSegment(p, c) \in Nat
    <3>1. n \in 0..Len(C) /\ n - 1 \in 0..Len(C) /\ c \in PlanChannels(p)
      <4> HIDE DEF C
      <4> QED
        BY <1>2
    <3>2. FirstSegment(p, c) \in 1..Len(p.segments) /\ Len(p.segments) \in Nat
      BY <3>1, FirstSegmentExists, PlanFacts
    <3> HIDE DEF c
    <3> QED
      BY <1>1, <3>1, <3>2
  <2>2. /\ limit(c) \in Calls /\ limit(c).op = "limit" /\ limit(c).ch = c
        /\ voltage(c) \in Calls /\ voltage(c).op = "voltage" /\ voltage(c).ch = c
        /\ voltage(c).val = <<FirstSegment(p, c), 1>>
    <3>1. "limit" \in Ops /\ "voltage" \in Ops
      BY DEF Ops, Addressed
    <3>2. <<0, 0>> \in Nat \X Nat /\ <<FirstSegment(p, c), 1>> \in Nat \X Nat
      <4> HIDE DEF c
      <4> QED
        BY <2>1
    <3> HIDE DEF c
    <3> QED
      BY <2>1, <3>1, <3>2, ChannelCall
  <2>3. \A a \in A0 : a \in begin /\ a \in Progress /\ \A m \in 1..n - 1 : Programmed(p, a, C[m])
    BY <1>4, <2>1
  <2> HIDE DEF limit, voltage, c, C
  <2>4. ASSUME NEW a \in A0
        PROVE  Sound(p, a, limit(c)) /\ Does(a, limit(c)) \in A1 /\ Does(a, limit(c)) \in Progress
    <3> DEFINE b == Does(a, limit(c))
    <3>1. a \in Progress /\ DOMAIN a.limited = Channels
      BY <2>3 DEF Progress
    <3>2. b \in Progress
      BY <2>2, <3>1, DoesType
    <3>3. b.units = a.units /\ b.level = a.level /\ b.limited = [a.limited EXCEPT ![c] = TRUE]
      BY <2>2 DEF Does
    <3>4. \A d : a.limited[d] /\ d \in Channels => b.limited[d]
      BY <3>1, <3>3
    <3>5. b.limited[c]
      BY <2>1, <3>1, <3>3
    <3>6. Sound(p, a, limit(c))
      BY <2>2 DEF Sound
    <3>7. \A m \in 1..n - 1 : C[m] \in Channels
      BY <1>1, <1>2, <2>1
    <3> HIDE DEF b
    <3>8. b \in begin
      BY <2>3, <3>2, <3>3 DEF Completed
    <3>9. \A m \in 1..n - 1 : Programmed(p, b, C[m])
      BY <2>3, <3>3, <3>4, <3>7 DEF Programmed
    <3>10. b \in A0
      BY <2>1, <3>8, <3>9
    <3> QED
      BY <3>2, <3>5, <3>6, <3>10 DEF b
  <2>5. ASSUME NEW a \in A1
        PROVE  Sound(p, a, voltage(c)) /\ Does(a, voltage(c)) \in P[n] /\ Does(a, voltage(c)) \in Progress
    <3> DEFINE b == Does(a, voltage(c))
    <3>1. a \in Progress /\ DOMAIN a.level = Channels /\ a.limited[c]
      BY <2>3 DEF Progress
    <3>2. b \in Progress
      BY <2>2, <3>1, DoesType
    <3>3. b.units = a.units /\ b.limited = a.limited
          /\ b.level = [a.level EXCEPT ![c] = <<FirstSegment(p, c), 1>>]
      BY <2>2 DEF Does
    <3>4. Programmed(p, b, c)
      BY <2>1, <3>1, <3>3 DEF Programmed
    <3>5. \A d : Programmed(p, a, d) /\ d # c => Programmed(p, b, d)
      BY <3>1, <3>3 DEF Programmed
    <3>6. Sound(p, a, voltage(c))
      BY <2>2 DEF Sound
    <3> HIDE DEF b
    <3>7. b \in begin
      BY <2>3, <3>2, <3>3 DEF Completed
    <3>8. \A m \in 1..n : Programmed(p, b, C[m])
      <4> SUFFICES ASSUME NEW m \in 1..n PROVE Programmed(p, b, C[m])
        OBVIOUS
      <4>1. CASE C[m] = c
        BY <3>4, <4>1
      <4>2. CASE C[m] # c
        <5>1. m # n
          BY <4>2 DEF c
        <5>2. m \in 1..n - 1
          BY <2>1, <5>1
        <5> QED
          BY <2>3, <3>5, <4>2, <5>2
      <4> QED
        BY <4>1, <4>2
    <3>9. b \in P[n]
      BY <2>1, <3>7, <3>8
    <3> QED
      BY <3>2, <3>6, <3>9 DEF b
  <2>6. parts[n] = (Poll \o <<limit(c)>>) \o <<voltage(c)>>
    BY DEF On, Voltage, limit, voltage, c
  <2>7. A0 \subseteq Progress /\ Steady(A0) /\ A1 \subseteq Progress
    BY <1>4, <2>1
  <2> HIDE DEF A0, A1, P, parts
  <2>8. Poll \in Leads(p, A0, A0)
    BY <2>7, PlainQuiet DEF Poll
  <2>9. <<limit(c)>> \in Leads(p, A0, A1)
    BY <2>2, <2>4, <2>7, LeadsCall
  <2>10. <<voltage(c)>> \in Leads(p, A1, P[n])
    BY <2>2, <2>5, <2>7, LeadsCall
  <2>11. (Poll \o <<limit(c)>>) \o <<voltage(c)>> \in Leads(p, A0, P[n])
    BY <2>8, <2>9, <2>10, LeadsJoin
  <2> QED
    BY <2>6, <2>11 DEF A0
<1>6. FlattenSeq(parts) \in Leads(p, P[0], P[Len(C)])
  <2>1. Len(parts) = Len(C) /\ (Len(C) = 0 => parts = << >>)
    <3> HIDE DEF C
    <3> QED
      BY <1>2
  <2> DEFINE n == Len(C)
  <2>2. n \in Nat /\ (\A i \in 0..n : P[i] \subseteq Progress)
        /\ \A i \in 1..n : parts[i] \in Leads(p, P[i - 1], P[i])
    BY <1>2, <1>4, <1>5
  <2> HIDE DEF P, parts, n
  <2>3. FlattenSeq(parts) \in Leads(p, P[0], P[n])
    BY <2>1, <2>2, LeadsFlatten DEF n
  <2> QED
    BY <2>3 DEF n
<1>7. begin \subseteq P[0] /\ P[Len(C)] \subseteq staged /\ staged \subseteq begin
  <2>1. 0 \in 0..Len(C) /\ Len(C) \in 0..Len(C)
    <3> HIDE DEF C
    <3> QED
      BY <1>2
  <2>2. begin \subseteq P[0]
    BY <2>1
  <2>3. P[Len(C)] \subseteq staged
    <3> HIDE DEF C
    <3> QED
      BY <1>2, <2>1
  <2> QED
    BY <2>2, <2>3
<1>8. FlattenSeq(parts) \in Leads(p, begin, staged)
  <2> HIDE DEF P, parts, begin, staged, C
  <2> QED
    BY <1>6, <1>7, LeadsWeaken
<1>9. /\ Poll \in Leads(p, begin, begin) /\ Poll \in Leads(p, staged, staged)
      /\ On("on", Head(C)) \in Leads(p, staged, staged)
      /\ States(C) \in Leads(p, staged, begin)
  <2>1. \A a \in staged : \A d \in PlanChannels(p) \cap ActsOn(p, C[1]) : Programmed(p, a, d)
    OBVIOUS
  <2> HIDE DEF begin, staged, C
  <2>2. Poll \in Leads(p, begin, begin) /\ Poll \in Leads(p, staged, staged)
    BY <1>4, PlainQuiet DEF Poll
  <2>3. On("on", C[1]) \in Leads(p, staged, staged)
    BY <1>3, <1>4, <2>1, SwitchedOn
  <2>4. States(C) \in Leads(p, staged, staged \cap Seen({}))
    BY <1>2, <1>4, StatesRead
  <2>5. staged \cap Seen({}) \subseteq begin
    BY <1>7
  <2>6. States(C) \in Leads(p, staged, begin)
    BY <2>4, <2>5, LeadsWeaken
  <2> QED
    BY <1>3, <2>2, <2>3, <2>6
<1>10. Prestage(p) \in Leads(p, begin, begin)
  <2> DEFINE s1 == Poll \o FlattenSeq(parts)
             s2 == s1 \o Poll
             s3 == s2 \o On("on", Head(C))
             s4 == s3 \o States(C)
  <2>1. Prestage(p) = s4
    BY DEF Prestage, Each
  <2> HIDE DEF begin, staged, C, parts
  <2>2. s1 \in Leads(p, begin, staged)
    BY <1>8, <1>9, LeadsJoin
  <2> HIDE DEF s1
  <2>3. s2 \in Leads(p, begin, staged)
    BY <1>9, <2>2, LeadsJoin
  <2> HIDE DEF s2
  <2>4. s3 \in Leads(p, begin, staged)
    BY <1>9, <2>3, LeadsJoin
  <2> HIDE DEF s3
  <2>5. s4 \in Leads(p, begin, begin)
    BY <1>9, <2>4, LeadsJoin
  <2> QED
    BY <2>1, <2>5
<1> QED
  BY <1>10

\* The last part: the states of the enabled outputs, a poll, a pulse.
LEMMA ListEndLeads ==
    ASSUME NEW p \in Plans, p.kind = "ramplist"
    PROVE  /\ When(p.enable, States(InOrder(PlanChannels(p)))) \o When(p.pulse = "loop", Errors)
                  \in Leads(p, Completed(Total(p)) \cap Read, Finish(p))
           /\ When(p.pulse = "loop", Pulse) \in Leads(p, Finish(p), Finish(p))
           /\ Poll \in Leads(p, Finish(p), Finish(p))
<1> DEFINE C == InOrder(PlanChannels(p))
           X == Completed(Total(p)) \cap Read
           Y == Finish(p)
<1>1. PlanChannels(p) \subseteq Channels
  BY FirstSegmentExists
<1>2. C \in Seq(Channels) /\ \A c \in PlanChannels(p) : \E m \in 1..Len(C) : c = C[m]
  BY <1>1, InOrderFacts
<1>3. Steady(X) /\ Steady(Y) /\ Y \subseteq Progress /\ X \subseteq Progress
  <2>1. Steady(X)
    BY StageSteady, SteadySets, SteadyBoth
  <2>2. Steady(Y)
    BY DEF Steady, Later, Finish
  <2> QED
    BY <2>1, <2>2 DEF Steady
<1>4. When(p.enable, States(C)) \in Leads(p, X, Y)
  <2>1. CASE p.enable
    <3>1. X \cap Seen(PlanChannels(p)) \subseteq Y
      BY DEF Seen, Finish, Completed, Read
    <3>2. When(p.enable, States(C)) = States(C)
      BY <2>1 DEF When
    <3> HIDE DEF X, Y, C
    <3>3. States(C) \in Leads(p, X, X \cap Seen(PlanChannels(p)))
      BY <1>2, <1>3, StatesRead
    <3> QED
      BY <3>1, <3>2, <3>3, LeadsWeaken
  <2>2. CASE ~p.enable
    <3>1. X \subseteq Y /\ When(p.enable, States(C)) = << >>
      BY <2>2 DEF Finish, Completed, Read, When
    <3> HIDE DEF X, Y
    <3> QED
      BY <1>3, <3>1, LeadsNothing
  <2> QED
    BY <2>1, <2>2
<1>5. When(p.pulse = "loop", Errors) \in Leads(p, Y, Y) /\ Poll \in Leads(p, Y, Y)
      /\ When(p.pulse = "loop", Pulse) \in Leads(p, Y, Y)
  <2> HIDE DEF Y
  <2> QED
    BY <1>3, PlainQuiet, LeadsWhen DEF Errors, Poll, Pulse
<1>6. When(p.enable, States(C)) \o When(p.pulse = "loop", Errors) \in Leads(p, X, Y)
  <2> HIDE DEF X, Y, C
  <2> QED
    BY <1>4, <1>5, LeadsJoin
<1> QED
  BY <1>5, <1>6

\* A ramp list ends like a ramp.
LEMMA RampListLeads ==
    ASSUME NEW p \in Plans, p.kind = "ramplist"
    PROVE  RampList(p) \in Leads(p, {Start}, Finish(p))
<1> DEFINE begin == Completed(0)
           X == Completed(Total(p)) \cap Read
           loops == FlattenSeq([l \in 1..p.loops |->
                                    FlattenSeq([k \in 1..Len(p.segments) |-> Segment(p, k, l)])])
           s1 == When(p.enable, States(InOrder(PlanChannels(p)))) \o When(p.pulse = "loop", Errors)
           s2 == s1 \o Poll
           s3 == s2 \o When(p.pulse = "loop", Pulse)
<1>1. begin \subseteq Progress /\ {Start} \subseteq begin
  BY StartProgress DEF Completed, Start
<1>2. When(p.enable /\ p.model = "global", Prestage(p)) \in Leads(p, begin, begin)
  <2> HIDE DEF begin
  <2> QED
    BY <1>1, PrestageLeads, LeadsWhen DEF begin
<1>3. loops \in Leads(p, begin, X)
  BY ListLoopsLead
<1>4. s1 \in Leads(p, X, Finish(p)) /\ Poll \in Leads(p, Finish(p), Finish(p))
      /\ When(p.pulse = "loop", Pulse) \in Leads(p, Finish(p), Finish(p))
  BY ListEndLeads
<1>5. RampList(p) = (When(p.enable /\ p.model = "global", Prestage(p)) \o loops) \o Final(s3)
  BY DEF RampList, Repeat
<1> HIDE DEF begin, X, loops, s1
<1>6. s3 \in Leads(p, X, Finish(p))
  BY <1>4, LeadsJoin
<1> HIDE DEF s3
<1>7. Final(s3) \in Leads(p, X, Finish(p))
  BY <1>6, LeadsFinal
<1>8. RampList(p) \in Leads(p, begin, Finish(p))
  BY <1>2, <1>3, <1>5, <1>7, LeadsJoin
<1> QED
  BY <1>1, <1>8, LeadsWeaken

-----------------------------------------------------------------------------
(* All scripts *)

\* Every workflow starts with nothing written and ends with what it promises,
\* and every call comes where it may.
THEOREM ScriptLeads ==
    ASSUME NEW p \in Plans
    PROVE  Script[p] \in Leads(p, {Start}, Finish(p))
<1>1. CASE p.kind = "ramp"
  <2>1. Script[p] = Ramp(p)
    BY <1>1 DEF Script
  <2> QED
    BY <1>1, <2>1, RampLeads
<1>2. CASE p.kind = "ramplist"
  <2>1. Script[p] = RampList(p)
    BY <1>2 DEF Script
  <2> QED
    BY <1>2, <2>1, RampListLeads
<1>3. CASE p.kind = "sequence"
  <2>1. Script[p] = Sequence(p)
    BY <1>3 DEF Script
  <2> QED
    BY <1>3, <2>1, SequenceLeads
<1> QED
  BY <1>1, <1>2, <1>3, PlanFacts

HasPoll(s) == \E i \in 1..Len(s) : s[i].op = "poll"

\* A poll in a part is one in the whole.
LEMMA HasPollJoin ==
    ASSUME NEW s \in Seq(Calls), NEW t \in Seq(Calls), HasPoll(s) \/ HasPoll(t)
    PROVE  s \o t \in Seq(Calls) /\ HasPoll(s \o t)
<1>1. /\ s \o t \in Seq(Calls) /\ Len(s \o t) = Len(s) + Len(t)
      /\ Len(s) \in Nat /\ Len(t) \in Nat
      /\ \A i \in 1..Len(s) : (s \o t)[i] = s[i]
      /\ \A i \in 1..Len(t) : (s \o t)[Len(s) + i] = t[i]
  BY JoinPositions, LenProperties
<1>2. CASE HasPoll(s)
  <2>1. PICK i \in 1..Len(s) : s[i].op = "poll"
    BY <1>2 DEF HasPoll
  <2>2. i \in 1..Len(s \o t) /\ (s \o t)[i].op = "poll"
    BY <1>1, <2>1
  <2> QED
    BY <1>1, <2>2 DEF HasPoll
<1>3. CASE HasPoll(t)
  <2>1. PICK i \in 1..Len(t) : t[i].op = "poll"
    BY <1>3 DEF HasPoll
  <2>2. Len(s) + i \in 1..Len(s \o t) /\ (s \o t)[Len(s) + i].op = "poll"
    BY <1>1, <2>1
  <2> QED
    BY <1>1, <2>2 DEF HasPoll
<1> QED
  BY <1>2, <1>3

\* A ramp list has a last poll, which closes it after a failure.
LEMMA ClosingPollExists ==
    ASSUME plan \in Plans, plan.kind = "ramplist"
    PROVE  ClosingPoll \in 1..Len(Script[plan]) /\ Script[plan][ClosingPoll].op = "poll"
<1> DEFINE s == Script[plan]
           opening == When(plan.enable /\ plan.model = "global", Prestage(plan))
           loops == FlattenSeq([l \in 1..plan.loops |->
                                    FlattenSeq([k \in 1..Len(plan.segments) |-> Segment(plan, k, l)])])
           s1 == When(plan.enable, States(InOrder(PlanChannels(plan)))) \o When(plan.pulse = "loop", Errors)
           s2 == s1 \o Poll
           s3 == s2 \o When(plan.pulse = "loop", Pulse)
<1>1. /\ opening \in Seq(Calls) /\ loops \in Seq(Calls) /\ s1 \in Seq(Calls)
      /\ Poll \in Seq(Calls) /\ When(plan.pulse = "loop", Pulse) \in Seq(Calls)
      /\ s \in Seq(Calls)
  <2>1. opening \in Seq(Calls)
    <3>1. Completed(0) \subseteq Progress
      BY DEF Completed
    <3> QED
      BY <3>1, PrestageLeads, LeadsWhen DEF Leads
  <2>2. loops \in Seq(Calls)
    BY ListLoopsLead DEF Leads
  <2>3. s1 \in Seq(Calls) /\ Poll \in Seq(Calls) /\ When(plan.pulse = "loop", Pulse) \in Seq(Calls)
    BY ListEndLeads DEF Leads
  <2>4. s \in Seq(Calls)
    BY ScriptLeads DEF Leads
  <2> QED
    BY <2>1, <2>2, <2>3, <2>4
<1>2. HasPoll(Poll)
  BY DEF HasPoll, Poll, Plain, Call
<1>3. s = (opening \o loops) \o Final(s3)
  BY DEF Script, RampList, Repeat
<1> HIDE DEF opening, loops, s1, s
<1>4. s3 \in Seq(Calls) /\ HasPoll(s3)
  BY <1>1, <1>2, HasPollJoin
<1> HIDE DEF s3
<1>5. Final(s3) \in Seq(Calls) /\ HasPoll(Final(s3))
  <2>1. s3 \in Leads(plan, {}, {})
    BY <1>4 DEF Leads
  <2>2. Final(s3) \in Seq(Calls)
    <3>1. Final(s3) \in Leads(plan, {}, {})
      BY <2>1, LeadsFinal
    <3> QED
      BY <3>1 DEF Leads
  <2>3. Len(Final(s3)) = Len(s3) /\ \A i \in 1..Len(s3) : Final(s3)[i] = [s3[i] EXCEPT !.final = TRUE]
    <3>1. DOMAIN s3 = 1..Len(s3) /\ Len(s3) \in Nat
      BY <1>4, LenProperties
    <3> QED
      BY <3>1 DEF Final
  <2>4. PICK i \in 1..Len(s3) : s3[i].op = "poll"
    BY <1>4 DEF HasPoll
  <2>5. s3[i] \in Calls
    BY <1>4, ElementOfSeq
  <2>6. Final(s3)[i].op = "poll"
    BY <2>3, <2>4, <2>5 DEF Calls
  <2> QED
    BY <2>2, <2>3, <2>6 DEF HasPoll
<1>6. HasPoll(s)
  <2>1. opening \o loops \in Seq(Calls)
    BY <1>1, JoinPositions
  <2> QED
    BY <1>3, <1>5, <2>1, HasPollJoin
<1>7. Len(s) \in Nat
  BY <1>1, LenProperties
<1> DEFINE S == {n \in Nat : \E i \in 1..Len(s) : s[i].op = "poll" /\ n = Len(s) - i}
<1>8. S # {} /\ S \subseteq Nat
  <2>1. PICK i \in 1..Len(s) : s[i].op = "poll"
    BY <1>6 DEF HasPoll
  <2>2. Len(s) - i \in S
    BY <1>7, <2>1
  <2> QED
    BY <2>2
<1>9. PICK n \in S : \A m \in S : n <= m
  <2> HIDE DEF S
  <2> QED
    BY <1>8, LeastExists
<1>10. PICK i \in 1..Len(s) : s[i].op = "poll" /\ n = Len(s) - i
  OBVIOUS
<1>11. \A j \in i + 1..Len(s) : s[j].op # "poll"
  <2> SUFFICES ASSUME NEW j \in i + 1..Len(s), s[j].op = "poll" PROVE FALSE
    OBVIOUS
  <2>1. j \in 1..Len(s) /\ Len(s) - j \in S /\ Len(s) - j < n
    BY <1>7, <1>10
  <2> HIDE DEF S
  <2> QED
    BY <1>7, <1>8, <1>9, <2>1
<1> QED
  BY <1>10, <1>11 DEF ClosingPoll, s

-----------------------------------------------------------------------------
(* The outputs and the two cleanup loops *)

AllOff == \A c \in 1..Supported : ~on[c]

\* The first n channels are off, or the sequence's cleanup accounts for them.
AccountedFor(n) == \A c \in 1..n : on[c] => c \in cleanupErrors \cup ignored

Working == {"run", "finally", "off", "confirm", "drain", "cleanup"}
Closing == {"close", "done"}

CleanupTypes ==
    /\ on \in [Channels -> BOOLEAN] /\ ch \in 1..Supported
    /\ stageFailed \in BOOLEAN /\ pc \in Pcs
    /\ pending \in {"none", "failed", "cancelled"}

\* While the workflow runs it has no result, except the failure that a ramp
\* list or a sequence has caught.
NoEarlyResult ==
    /\ pc \in Working => result \in {"none", "step_failed"}
    /\ plan.kind = "sequence" /\ pc \in Working \ {"cleanup"} => result = "none"

\* How far the cleanup loops have come.
LoopProgress ==
    /\ pc = "cleanup" => AccountedFor(ch - 1)
    /\ pc = "confirm" => stageFailed \/ \A c \in 1..ch - 1 : ~on[c]
    /\ pc = "drain" => stageFailed \/ AllOff

CloseState ==
    /\ pc \in Closing /\ result = "cancelled" /\ Now.op # "firstpoll" =>
          ~stageFailed /\ AllOff
    /\ pc \in Closing /\ plan.kind = "sequence" /\ result = "step_failed" =>
          AccountedFor(Supported)

IInv == CleanupTypes /\ NoEarlyResult /\ LoopProgress /\ CloseState

-----------------------------------------------------------------------------
\* A supply has at least one channel, and no more than the instrument.
LEMMA SupportedBounds ==
    /\ Supported \in Nat \ {0} /\ Supported <= NumChannels /\ NumChannels \in Nat \ {0}
    /\ Supported' = IF plan'.model = "pair" THEN 1 ELSE NumChannels
BY BoundsAssumption DEF BoundsAssumption, Supported

\* A switch keeps the type of the outputs, and switching off switches none on.
LEMMA SwitchType ==
    ASSUME on \in [Channels -> BOOLEAN], NEW c \in Channels, NEW to \in BOOLEAN
    PROVE  Switched(c, to) \in [Channels -> BOOLEAN]
BY DEF Switched

\* The channel that is switched off is off.
LEMMA SwitchOff ==
    ASSUME on \in [Channels -> BOOLEAN], NEW c \in Channels
    PROVE  /\ ~Switched(c, FALSE)[c]
           /\ \A d \in Channels : Switched(c, FALSE)[d] => on[d]
BY DEF Switched

-----------------------------------------------------------------------------
(* The calls of the script *)

\* What holds after any call of the script or of a finally clause, however it
\* ends: a cleanup starts at its first channel, and the workflow is cancelled
\* without one only by the first poll of a ramp.
CallEnded ==
    /\ pc' \in {"run", "finally", "off", "cleanup", "close"}
    /\ ch' \in 1..Supported /\ (pc' = "cleanup" => ch' = 1)
    /\ pending' \in {"none", "failed", "cancelled"}
    /\ pc' # "close" => result' \in {"none", "step_failed"}
    /\ plan.kind = "sequence" /\ pc' \notin {"close", "cleanup"} => result' = "none"
    /\ plan.kind = "sequence" /\ pc' = "close" => result' # "step_failed"
    /\ pc' = "close" /\ result' = "cancelled" => at' = at /\ Now.op = "firstpoll"

\* A call that returns goes on in the script, or closes after the last one.
LEMMA ProceedEnds ==
    ASSUME IInv, pc = "run", Proceed
    PROVE  CallEnded
BY DEF IInv, CleanupTypes, NoEarlyResult, Working, Proceed, CallEnded

\* An exception that no finally clause delays goes to its except clause: a
\* cleanup, the closing poll, or the close.
LEMMA CatchEnds ==
    ASSUME IInv, pc \in {"run", "finally"}, NEW reason \in {"failed", "cancelled"},
           Catch(reason), pending' \in {"none", "failed", "cancelled"}
    PROVE  CallEnded
<1>1. 1 \in 1..Supported
  BY SupportedBounds
<1>2. result \in {"none", "step_failed"} /\ (plan.kind = "sequence" => result = "none")
  BY DEF IInv, NoEarlyResult, Working
<1>3. CASE pc' = "off"
  BY <1>1, <1>2, <1>3 DEF Catch, CallEnded
<1>4. CASE pc' = "cleanup"
  BY <1>1, <1>2, <1>4 DEF Catch, CallEnded
<1>5. CASE pc' = "run"
  BY <1>1, <1>2, <1>5 DEF Catch, Handler, CallEnded
<1>6. CASE pc' = "close"
  BY <1>1, <1>2, <1>6 DEF Catch, Handler, CallEnded
<1> QED
  BY <1>3, <1>4, <1>5, <1>6 DEF Catch, Handler

\* Inside a cycle-output step the exception waits for the finally clause.
LEMMA RaiseEnds ==
    ASSUME IInv, pc = "run", NEW reason \in {"failed", "cancelled"}, Raise(reason)
    PROVE  CallEnded
<1>1. CASE cycle = {}
  <2>1. Catch(reason) /\ pending' = pending
    BY <1>1 DEF Raise
  <2> QED
    BY <2>1, CatchEnds DEF IInv, CleanupTypes
<1>2. CASE cycle # {}
  BY <1>2 DEF Raise, CallEnded, IInv, CleanupTypes, NoEarlyResult, Working
<1> QED
  BY <1>1, <1>2

\* However a call on the instrument ends, it ends in one of these ways.
LEMMA EndEnds ==
    ASSUME IInv, pc = "run", NEW ok, End(ok)
    PROVE  CallEnded
BY ProceedEnds, RaiseEnds DEF End

\* A call that ends so, and leaves the outputs' type alone, keeps IInv.
LEMMA CallKeeps ==
    ASSUME IInv, CallEnded, plan' = plan, stageFailed' = stageFailed,
           on' \in [Channels -> BOOLEAN]
    PROVE  IInv'
<1>1. Supported' = Supported /\ Supported \in Nat \ {0}
  BY SupportedBounds DEF Supported
<1>2. CleanupTypes'
  BY <1>1 DEF IInv, CleanupTypes, CallEnded, Pcs
<1>3. NoEarlyResult'
  BY DEF NoEarlyResult, CallEnded, Working
<1>4. LoopProgress'
  <2>1. pc' \notin {"confirm", "drain"}
    BY DEF CallEnded
  <2>2. ASSUME pc' = "cleanup" PROVE AccountedFor(ch - 1)'
    <3>1. \A c \in 1..ch' - 1 : FALSE
      BY <2>2 DEF CallEnded
    <3> QED
      BY <3>1 DEF AccountedFor
  <2> QED
    BY <2>1, <2>2 DEF LoopProgress
<1>5. CloseState'
  BY DEF CloseState, CallEnded, Closing, Now
<1> QED
  BY <1>2, <1>3, <1>4, <1>5 DEF IInv

\* The calls of the script, and of a finally clause, end as CallEnded says.
ScriptCall ==
    \/ PollStop \/ CompleteUnit \/ EndCycle
    \/ \E ok, took \in BOOLEAN :
          \/ WriteSetpoint(ok, took) \/ SwitchOutput(ok, took) \/ CycleOn(ok, took)
          \/ CycleOff(ok, took) \/ FirePulse(ok, took)
    \/ \E ok \in BOOLEAN : ReadBack(ok) \/ ReadErrors(ok)

\* The calls of a script keep how far the cleanups have come: none has begun.
LEMMA ScriptKeeps == IInv /\ ScriptCall => IInv'
<1> SUFFICES ASSUME IInv, ScriptCall PROVE IInv'
  OBVIOUS
<1> USE DEF cleanup, instrument, history
<1>0. on \in [Channels -> BOOLEAN] /\ pending \in {"none", "failed", "cancelled"}
      /\ ch \in 1..Supported
  BY DEF IInv, CleanupTypes
<1>1. CASE PollStop
  BY <1>1, <1>0, ProceedEnds, RaiseEnds, CallKeeps DEF PollStop, AtCall
<1>2. CASE CompleteUnit
  BY <1>2, <1>0, ProceedEnds, CallKeeps DEF CompleteUnit, AtCall
<1>3. CASE EndCycle
  <2>1. CallEnded
    BY <1>3, <1>0 DEF EndCycle, AtCall, CallEnded, IInv, NoEarlyResult, Working
  <2> QED
    BY <1>3, <1>0, <2>1, CallKeeps DEF EndCycle
<1>4. ASSUME NEW ok \in BOOLEAN, NEW took \in BOOLEAN, WriteSetpoint(ok, took) PROVE IInv'
  BY <1>4, <1>0, EndEnds, CallKeeps DEF WriteSetpoint, AtCall
<1>5. ASSUME NEW ok \in BOOLEAN, NEW took \in BOOLEAN, SwitchOutput(ok, took) PROVE IInv'
  <2>1. CallEnded
    BY <1>5, EndEnds DEF SwitchOutput, AtCall
  <2>2. on' \in [Channels -> BOOLEAN]
    BY <1>5, <1>0 DEF SwitchOutput, Switched
  <2> QED
    BY <1>5, <2>1, <2>2, CallKeeps DEF SwitchOutput
<1>6. ASSUME NEW ok \in BOOLEAN, NEW took \in BOOLEAN, CycleOn(ok, took) PROVE IInv'
  <2>1. CallEnded
    <3>1. CASE ok
      BY <1>6, <1>0, <3>1 DEF CycleOn, AtCall, CallEnded, IInv, NoEarlyResult, Working
    <3>2. CASE ~ok
      BY <1>6, <3>2, RaiseEnds DEF CycleOn, AtCall
    <3> QED
      BY <3>1, <3>2
  <2>2. on' \in [Channels -> BOOLEAN]
    BY <1>6, <1>0 DEF CycleOn, Switched
  <2> QED
    BY <1>6, <2>1, <2>2, CallKeeps DEF CycleOn
<1>7. ASSUME NEW ok \in BOOLEAN, NEW took \in BOOLEAN, CycleOff(ok, took) PROVE IInv'
  <2>1. CallEnded
    <3>1. CASE ok /\ cycle' # {}
      BY <1>7, <1>0, <3>1 DEF CycleOff, CallEnded, IInv, NoEarlyResult, Working
    <3>2. CASE ~ok
      BY <1>7, <3>2, CatchEnds DEF CycleOff
    <3>3. CASE ok /\ cycle' = {} /\ pending # "none"
      BY <1>7, <1>0, <3>3, CatchEnds DEF CycleOff
    <3>4. CASE ok /\ cycle' = {} /\ pending = "none"
      BY <1>7, <1>0, <3>4 DEF CycleOff, CallEnded, IInv, NoEarlyResult, Working
    <3> QED
      BY <3>1, <3>2, <3>3, <3>4
  <2>2. on' \in [Channels -> BOOLEAN]
    BY <1>7, <1>0 DEF CycleOff, Switched
  <2> QED
    BY <1>7, <2>1, <2>2, CallKeeps DEF CycleOff
<1>8. ASSUME NEW ok \in BOOLEAN, NEW took \in BOOLEAN, FirePulse(ok, took) PROVE IInv'
  BY <1>8, <1>0, EndEnds, CallKeeps DEF FirePulse, AtCall
<1>9. ASSUME NEW ok \in BOOLEAN, ReadBack(ok) \/ ReadErrors(ok) PROVE IInv'
  BY <1>9, <1>0, EndEnds, CallKeeps DEF ReadBack, ReadErrors, AtCall
<1> QED
  BY <1>1, <1>2, <1>3, <1>4, <1>5, <1>6, <1>7, <1>8, <1>9 DEF ScriptCall

-----------------------------------------------------------------------------
(* The cleanup loops, the close and the environment *)

\* A call of a cleanup has dealt with its channel, or noted that it has not.
LEMMA CleanupKeeps ==
    ASSUME IInv, NEW ok \in BOOLEAN, NEW took \in BOOLEAN,
           \/ SafeOff(ok, took) \/ ConfirmOff(ok) \/ DrainErrors(ok)
           \/ SequenceSafeOff(ok, took)
    PROVE  IInv'
<1> USE DEF history, instrument
<1>0. /\ on \in [Channels -> BOOLEAN] /\ ch \in 1..Supported /\ ch \in Channels
      /\ stageFailed \in BOOLEAN /\ pending \in {"none", "failed", "cancelled"}
      /\ plan' = plan /\ Supported' = Supported /\ Supported \in Nat \ {0}
  <2>1. plan' = plan
    BY DEF SafeOff, ConfirmOff, DrainErrors, SequenceSafeOff
  <2>2. Supported' = Supported
    BY <2>1 DEF Supported
  <2> QED
    BY <2>1, <2>2, SupportedBounds DEF IInv, CleanupTypes, Channels
<1>1. CASE SafeOff(ok, took)
  <2>1. ch' \in 1..Supported /\ (pc' = "off" \/ (pc' = "confirm" /\ ch' = 1))
    <3>1. pc = "off" /\ Advance("confirm")
      BY <1>1 DEF SafeOff
    <3> QED
      BY <1>0, <3>1 DEF Advance
  <2>2. CleanupTypes'
    BY <1>0, <1>1, <2>1, SwitchType DEF SafeOff, CleanupTypes, Pcs
  <2>3. NoEarlyResult'
    BY <1>0, <1>1, <2>1 DEF SafeOff, IInv, NoEarlyResult, Working
  <2>4. pc' = "confirm" => \A c \in 1..ch' - 1 : FALSE
    BY <2>1
  <2>5. LoopProgress' /\ CloseState'
    BY <2>1, <2>4 DEF LoopProgress, CloseState, Closing
  <2> QED
    BY <2>2, <2>3, <2>5 DEF IInv
<1>2. CASE ConfirmOff(ok)
  <2>1. ch' \in 1..Supported
        /\ ((pc' = "confirm" /\ ch' = ch + 1) \/ (pc' = "drain" /\ ch = Supported))
    <3>1. pc = "confirm" /\ Advance("drain")
      BY <1>2 DEF ConfirmOff
    <3> QED
      BY <1>0, <3>1 DEF Advance
  <2>2. on' = on /\ result' = result /\ stageFailed' = (stageFailed \/ ~StateConfirmed(ok))
        /\ stageFailed' \in BOOLEAN /\ pc = "confirm" /\ pending' = pending
    BY <1>0, <1>2 DEF ConfirmOff
  <2>3. CleanupTypes'
    BY <1>0, <2>1, <2>2 DEF CleanupTypes, Pcs
  <2>4. NoEarlyResult'
    BY <1>0, <2>1, <2>2 DEF IInv, NoEarlyResult, Working
  <2>5. stageFailed' \/ \A c \in 1..ch : ~on[c]
    BY <1>0, <2>2 DEF IInv, LoopProgress, StateConfirmed
  <2>6. CASE pc' = "confirm"
    <3>1. ch' - 1 = ch
      BY <1>0, <2>1, <2>6
    <3> QED
      BY <2>2, <2>3, <2>4, <2>5, <2>6, <3>1 DEF IInv, LoopProgress, CloseState, Closing
  <2>7. CASE pc' = "drain"
    <3>1. AllOff' = \A c \in 1..ch : ~on[c]
      BY <1>0, <2>1, <2>2, <2>7 DEF AllOff
    <3> QED
      BY <2>2, <2>3, <2>4, <2>5, <2>7, <3>1 DEF IInv, LoopProgress, CloseState, Closing
  <2> QED
    BY <2>1, <2>6, <2>7
<1>3. CASE DrainErrors(ok)
  <2>1. CleanupTypes'
    BY <1>0, <1>3 DEF DrainErrors, CleanupTypes, Pcs
  <2>2. NoEarlyResult' /\ LoopProgress'
    BY <1>3 DEF DrainErrors, NoEarlyResult, Working, LoopProgress
  <2>3. CloseState'
    BY <1>0, <1>3 DEF DrainErrors, CloseState, Closing, IInv, LoopProgress, AllOff
  <2> QED
    BY <2>1, <2>2, <2>3 DEF IInv
<1>4. CASE SequenceSafeOff(ok, took)
  <2>1. ch' \in 1..Supported
        /\ ((pc' = "cleanup" /\ ch' = ch + 1) \/ (pc' = "close" /\ ch = Supported))
    <3>1. pc = "cleanup" /\ Advance("close")
      BY <1>4 DEF SequenceSafeOff, AdvanceCleanup
    <3> QED
      BY <1>0, <3>1 DEF Advance
  <2>2. CleanupTypes'
    BY <1>0, <1>4, <2>1, SwitchType DEF SequenceSafeOff, CleanupTypes, Pcs
  <2>3. NoEarlyResult'
    BY <1>0, <1>4, <2>1 DEF SequenceSafeOff, IInv, NoEarlyResult, Working
  <2>4. \A c \in 1..ch : on'[c] => c \in cleanupErrors' \cup ignored'
    <3>1. \A c \in 1..ch - 1 : on[c] => c \in cleanupErrors \cup ignored
      BY <1>4 DEF SequenceSafeOff, IInv, LoopProgress, AccountedFor
    <3>2. \A c \in 1..ch : c \in Channels /\ (c = ch \/ c \in 1..ch - 1)
      BY <1>0, SupportedBounds DEF Channels
    <3>3. cleanupErrors \cup ignored \subseteq cleanupErrors' \cup ignored'
      BY <1>4 DEF SequenceSafeOff
    <3>4. \A c \in 1..ch - 1 : on'[c] => on[c]
      <4>1. CASE took
        <5>1. \A d \in Channels : on'[d] => on[d]
          BY <1>0, <1>4, <4>1, SwitchOff DEF SequenceSafeOff
        <5> QED
          BY <3>2, <5>1, <1>0
      <4>2. CASE ~took
        BY <1>4, <4>2 DEF SequenceSafeOff
      <4> QED
        BY <4>1, <4>2
    <3>5. on'[ch] => ch \in cleanupErrors' \cup ignored'
      BY <1>0, <1>4, SwitchOff DEF SequenceSafeOff
    <3> QED
      BY <3>1, <3>2, <3>3, <3>4, <3>5
  <2>5. LoopProgress' /\ CloseState'
    <3>1. result' \in {"none", "step_failed"}
      BY <1>4 DEF SequenceSafeOff, IInv, NoEarlyResult, Working
    <3> QED
      <4>1. CASE pc' = "cleanup"
        <5>1. ch' - 1 = ch
          BY <1>0, <2>1, <4>1
        <5> QED
          BY <2>4, <4>1, <5>1 DEF LoopProgress, AccountedFor, CloseState, Closing
      <4>2. CASE pc' = "close"
        <5>1. ch = Supported' /\ result' # "cancelled"
          BY <1>0, <2>1, <3>1, <4>2
        <5> QED
          BY <2>4, <4>2, <5>1 DEF LoopProgress, AccountedFor, CloseState, Closing
      <4> QED
        BY <2>1, <4>1, <4>2
  <2> QED
    BY <2>2, <2>3, <2>5 DEF IInv
<1> QED
  BY <1>1, <1>2, <1>3, <1>4

\* The close, a stop, a trip, an instrument error and stuttering switch no
\* output on and move no cleanup.
LEMMA RestKeeps ==
    ASSUME IInv,
           \/ \E ok \in BOOLEAN : CloseSession(ok)
           \/ RequestStop \/ (\E c \in Channels : Trip(c)) \/ QueueError
           \/ UNCHANGED vars
    PROVE  IInv'
<1> USE DEF control, cleanup, history, instrument
<1>0. /\ on \in [Channels -> BOOLEAN] /\ ch \in 1..Supported
      /\ 1..Supported \subseteq Channels /\ 1..ch - 1 \subseteq Channels
  BY SupportedBounds DEF IInv, CleanupTypes, Channels
<1>1. ASSUME NEW ok \in BOOLEAN, CloseSession(ok) PROVE IInv'
  <2>1. Supported' = Supported /\ AllOff' = AllOff /\ AccountedFor(Supported)' = AccountedFor(Supported)
    BY <1>1 DEF CloseSession, Supported, AllOff, AccountedFor
  <2>2. CleanupTypes' /\ NoEarlyResult' /\ LoopProgress'
    BY <1>1, <2>1 DEF CloseSession, IInv, CleanupTypes, Pcs, NoEarlyResult, Working, LoopProgress
  <2>3. CloseState'
    BY <1>1, <2>1 DEF CloseSession, IInv, CloseState, Closing, Now
  <2> QED
    BY <2>2, <2>3 DEF IInv
<1>2. CASE RequestStop \/ QueueError \/ UNCHANGED vars
  BY <1>2 DEF RequestStop, QueueError, vars, IInv, CleanupTypes, NoEarlyResult, LoopProgress,
              CloseState, AllOff, AccountedFor, Supported, Now
<1>3. ASSUME NEW c \in Channels, Trip(c) PROVE IInv'
  <2>1. \A d \in Channels : on'[d] => on[d]
    BY <1>0, <1>3, SwitchOff DEF Trip
  <2>2. on' \in [Channels -> BOOLEAN] /\ Supported' = Supported /\ Now' = Now
    BY <1>0, <1>3, SwitchType DEF Trip, Supported, Now
  <2>3. CleanupTypes' /\ NoEarlyResult'
    BY <1>3, <2>2 DEF Trip, IInv, CleanupTypes, NoEarlyResult
  <2>4. LoopProgress'
    BY <1>0, <1>3, <2>1, <2>2 DEF Trip, IInv, LoopProgress, AllOff, AccountedFor
  <2>5. CloseState'
    BY <1>0, <1>3, <2>1, <2>2 DEF Trip, IInv, CloseState, AllOff, AccountedFor
  <2> QED
    BY <2>3, <2>4, <2>5 DEF IInv
<1> QED
  BY <1>1, <1>2, <1>3

-----------------------------------------------------------------------------
\* Before the first call no cleanup has begun.
LEMMA InitIInv == Init => IInv
<1> SUFFICES ASSUME Init PROVE IInv
  OBVIOUS
<1>1. 1 \in 1..Supported
  BY SupportedBounds
<1>2. CleanupTypes
  BY <1>1 DEF Init, CleanupTypes, Pcs
<1> QED
  BY <1>2 DEF Init, IInv, NoEarlyResult, Working, LoopProgress, CloseState, Closing

\* Every step keeps how far the cleanups have come.
LEMMA NextIInv == IInv /\ [Next]_vars => IInv'
BY ScriptKeeps, CleanupKeeps, RestKeeps DEF Next, ScriptCall, Finished

\* How far the cleanups have come, in every reachable state.
THEOREM Inductive == Spec => []IInv
BY InitIInv, NextIInv, PTL DEF Spec

\* A workflow reported as cancelled has passed every stage of its cleanup and
\* left every output of the supply off, unless it was a ramp stopped before
\* its first write.
THEOREM CancelledOutputsOff == Spec => []CancelledIsOff
<1>1. IInv => CancelledIsOff
  BY DEF IInv, CloseState, Closing, AllOff, CancelledIsOff
<1> QED
  BY <1>1, Inductive, PTL

\* A sequence that failed leaves on only outputs that its cleanup reports or
\* whose OFF the instrument ignored.
THEOREM FailedSequenceOutputsOff == Spec => []FailedSequenceIsOff
<1>1. IInv => FailedSequenceIsOff
  BY DEF IInv, CloseState, Closing, AccountedFor, FailedSequenceIsOff
<1> QED
  BY <1>1, Inductive, PTL
-----------------------------------------------------------------------------
(* A workflow on its course: the proof outline of its script, followed     *)
(* until something disturbs it.                                            *)

\* The outline of a plan's script: the progress before and after every call.
Course(p) ==
    CHOOSE f : Outline(p, Script[p], Start, f) /\ f[Len(Script[p])] \in Finish(p)

Here == Course(plan)[at - 1]
Next1 == Does(Here, Now)

\* Nothing has failed and no cancellation was raised.
Advancing == result = "none" /\ (pc = "run" \/ (pc = "finally" /\ pending = "none"))

\* Where the workflow is in its script, and in which part of the code.
InScript ==
    /\ plan \in Plans /\ at \in 1..Len(Script[plan])
    /\ pc = "run" /\ result # "none" => plan.kind = "ramplist" /\ Now.op = "poll"
    /\ pc = "finally" => HasCycle(plan)
    /\ pc = "finally" /\ pending = "none" => Now.op = "endcycle"
    /\ cycle # {} => HasCycle(plan)

\* What is written is what the outline says.
OnCourse ==
    /\ Advancing => units = Here.units /\ level = Here.level /\ limited = Here.limited
    /\ units \in Nat

\* A stop leaves room for one unit, for which the poll is past.
Stopping ==
    stop =>
        /\ stopUnits \in Nat /\ units <= stopUnits + 1
        /\ Advancing /\ units = stopUnits + 1 => ~Here.polled

\* The way of a raised cancellation to the caller.
Noting ==
    noticed =>
        /\ stop
        /\ \/ pc \in {"off", "confirm", "drain"}
           \/ pc = "finally" /\ pending = "cancelled"
           \/ pc = "cleanup" /\ result = "step_failed" /\ HasCycle(plan)
           \/ pc \in Closing /\ result \in {"cancelled", "cleanup_failed"}
           \/ pc \in Closing /\ result = "step_failed" /\ HasCycle(plan)

\* Of the outputs in a set, those that are not on tripped late.
StillOn(C) == lateTrip \/ \A c \in C : on[c]

\* What the reads of a ramp or ramp list have established so far, and at its
\* end.
Checked ==
    /\ errors \in Nat /\ earlyError \in BOOLEAN
    /\ Advancing /\ plan.kind # "sequence" =>
        /\ earlyError => errors > 0
        /\ Here.read /\ units = Total(plan) => ~earlyError
        /\ units = Total(plan) => StillOn(Here.seen)
    /\ pc \in Closing /\ result = "completed" /\ plan.kind # "sequence" =>
        /\ units = Total(plan) /\ ~earlyError
        /\ plan.enable => StillOn(PlanChannels(plan))

Track == IInv /\ InScript /\ OnCourse /\ Stopping /\ Noting /\ Checked

\* Every plan's script has such an outline.
LEMMA CourseExists ==
    ASSUME NEW p \in Plans
    PROVE  /\ Script[p] \in Seq(Calls) /\ Len(Script[p]) \in Nat
           /\ Outline(p, Script[p], Start, Course(p)) /\ Course(p)[Len(Script[p])] \in Finish(p)
<1>1. Script[p] \in Leads(p, {Start}, Finish(p))
  BY ScriptLeads
<1>2. Script[p] \in Seq(Calls) /\ \E f : Outline(p, Script[p], Start, f) /\ f[Len(Script[p])] \in Finish(p)
  BY <1>1 DEF Leads
<1> QED
  BY <1>2, LenProperties DEF Course

\* The next call is a call, may come here, and leads on along the outline.
LEMMA CallHere ==
    ASSUME plan \in Plans, at \in 1..Len(Script[plan])
    PROVE  /\ Now \in Calls /\ Now.op \in Ops /\ (Now.op \in Addressed => Now.ch \in Channels)
           /\ Here \in Progress /\ Next1 \in Progress
           /\ Sound(plan, Here, Now) /\ Course(plan)[at] = Next1
           /\ at = Len(Script[plan]) => Next1 \in Finish(plan)
<1> DEFINE s == Script[plan]
           f == Course(plan)
<1>1. s \in Seq(Calls) /\ Len(s) \in Nat /\ Outline(plan, s, Start, f) /\ f[Len(s)] \in Finish(plan)
  BY CourseExists
<1>2. f \in [0..Len(s) -> Progress]
      /\ \A i \in 1..Len(s) : Sound(plan, f[i - 1], s[i]) /\ f[i] = Does(f[i - 1], s[i])
  BY <1>1 DEF Outline
<1>3. s[at] \in Calls
  BY <1>1, ElementOfSeq
<1>4. f[at - 1] \in Progress /\ f[at] \in Progress
  BY <1>1, <1>2
<1>5. Now = s[at] /\ Here = f[at - 1] /\ Next1 = f[at]
  BY <1>2 DEF Now, Here, Next1
<1>6. Now.op \in Ops /\ (Now.op \in Addressed => Now.ch \in Channels)
  <2> HIDE DEF s
  <2> QED
    BY <1>3, <1>5 DEF Calls
<1>7. Now \in Calls /\ Here \in Progress /\ Next1 \in Progress /\ f[at] = Next1
  BY <1>3, <1>4, <1>5
<1>8. Sound(plan, Here, Now)
  <2>1. Sound(plan, f[at - 1], s[at])
    BY <1>2
  <2> QED
    BY <1>5, <2>1
<1>9. at = Len(s) => Next1 \in Finish(plan)
  <2> HIDE DEF f
  <2> QED
    BY <1>1, <1>5
<1> QED
  BY <1>6, <1>7, <1>8, <1>9

\* The last call of a sequence, joined on.
LEMMA LastOfJoin ==
    ASSUME NEW s \in Seq(Calls), NEW t \in Seq(Calls), Len(t) = 1
    PROVE  Len(s) \in Nat /\ Len(s \o t) = Len(s) + 1 /\ (s \o t)[Len(s) + 1] = t[1]
<1>1. Len(s) \in Nat /\ Len(s \o t) = Len(s) + Len(t)
      /\ \A i \in 1..Len(s) + Len(t) : (s \o t)[i] = IF i <= Len(s) THEN s[i] ELSE t[i - Len(s)]
  BY ConcatProperties, LenProperties
<1>2. /\ Len(s) + 1 \in 1..Len(s) + Len(t) /\ ~(Len(s) + 1 <= Len(s)) /\ Len(s) + 1 - Len(s) = 1
  BY <1>1
<1> QED
  BY <1>1, <1>2

\* A sequence ends with a poll, so it goes on after a cycle.
LEMMA CycleIsNotLast ==
    ASSUME plan \in Plans, at \in 1..Len(Script[plan]), Now.op \in {"cycleon", "endcycle"}
    PROVE  at + 1 \in 1..Len(Script[plan])
<1>1. Len(Script[plan]) \in Nat
  BY CourseExists
<1>2. HasCycle(plan)
  BY CallHere DEF Sound
<1>3. PICK s \in Leads(plan, Progress, Progress) : Script[plan] = s \o Poll
  BY <1>2, SequenceEndsWithPoll DEF Script, HasCycle
<1>4. s \in Seq(Calls)
  BY DEF Leads
<1>5. Poll \in Seq(Calls) /\ Len(Poll) = 1 /\ Poll[1].op = "poll"
  <2>1. Call("poll", 0, <<0, 0>>) \in Calls /\ Call("poll", 0, <<0, 0>>).op = "poll"
    BY PlainCall DEF Ops, Addressed
  <2> QED
    BY <2>1 DEF Poll, Plain
<1>6. Len(s \o Poll) = Len(s) + 1 /\ (s \o Poll)[Len(s) + 1] = Poll[1]
  BY <1>4, <1>5, LastOfJoin
<1>7. at # Len(Script[plan])
  BY <1>3, <1>5, <1>6 DEF Now
<1> QED
  BY <1>1, <1>7

-----------------------------------------------------------------------------
(* How a call leaves the course, or goes on                                *)

\* The call is done: the next one comes, or it was the last.
WentOn ==
    \/ pc' = "run" /\ at # Len(Script[plan]) /\ at' = at + 1 /\ result' = "none"
    \/ pc' = "close" /\ at = Len(Script[plan]) /\ at' = at /\ result' = "completed"

\* The call raised, and nothing continues but the last poll of a ramp list.
Disturbed ==
    /\ pc' \in {"run", "finally", "off", "cleanup", "close"} /\ at' \in 1..Len(Script[plan])
    /\ pc' = "run" => plan.kind = "ramplist" /\ Script[plan][at'].op = "poll" /\ result' # "none"
    /\ pc' = "finally" => HasCycle(plan) /\ pending' # "none"
    /\ pc' = "cleanup" => result' = "step_failed"
    /\ pc' = "close" => result' # "completed"

\* The cancellation that the call raised is on its way.
Cancelling ==
    \/ pc' = "off" \/ (pc' = "finally" /\ pending' = "cancelled")
    \/ pc' = "close" /\ result' \in {"cancelled", "cleanup_failed"}

\* The next call is one of the script.
LEMMA ProceedGoesOn ==
    ASSUME Track, pc = "run", Proceed
    PROVE  /\ Advancing => WentOn
           /\ ~Advancing => Disturbed
           /\ cycle' = cycle
<1>1. at \in 1..Len(Script[plan]) /\ result \in {"none", "step_failed"}
  BY DEF Track, InScript, IInv, NoEarlyResult, Working
<1> QED
  BY <1>1 DEF Proceed, Advancing, WentOn, Disturbed

\* What an except clause does is a disturbance; a cancellation goes to its own.
LEMMA CatchDisturbs ==
    ASSUME Track, pc \in {"run", "finally"}, NEW reason \in {"failed", "cancelled"},
           Catch(reason), reason = "cancelled" \/ pc = "run" \/ HasCycle(plan)
    PROVE  /\ Disturbed
           /\ reason = "cancelled" => Cancelling
           /\ HasCycle(plan) /\ reason = "failed" => pc' = "cleanup"
<1>1. plan \in Plans /\ at \in 1..Len(Script[plan])
  BY DEF Track, InScript
<1>2. plan.kind = "ramplist" => ClosingPoll \in 1..Len(Script[plan]) /\ Script[plan][ClosingPoll].op = "poll"
  BY <1>1, ClosingPollExists
<1>3. /\ pc' = Handler(reason)
      /\ at' = IF pc' = "run" THEN ClosingPoll ELSE at
      /\ pc' \in {"cleanup", "run"} => result' = "step_failed"
      /\ pc' = "close" => result' = reason
  BY DEF Catch, Handler
<1>4. /\ Handler(reason) \in {"close", "off", "cleanup", "run"}
      /\ Handler(reason) = "run" => plan.kind = "ramplist"
      /\ reason = "cancelled" => Handler(reason) \in {"close", "off"}
      /\ HasCycle(plan) /\ reason = "failed" => Handler(reason) = "cleanup"
  BY DEF Handler, HasCycle
<1> QED
  BY <1>1, <1>2, <1>3, <1>4 DEF Disturbed, Cancelling

\* A raise within a cycle-output step leaves it by its finally clause.
LEMMA RaiseDisturbs ==
    ASSUME Track, pc = "run", NEW reason \in {"failed", "cancelled"}, Raise(reason)
    PROVE  /\ Disturbed /\ cycle' = cycle
           /\ reason = "cancelled" => Cancelling
<1>1. CASE cycle = {}
  <2>1. Catch(reason) /\ cycle' = cycle
    BY <1>1 DEF Raise
  <2> QED
    BY <2>1, CatchDisturbs
<1>2. CASE cycle # {}
  BY <1>2 DEF Raise, Track, InScript, Disturbed, Cancelling
<1> QED
  BY <1>1, <1>2

\* A call on the instrument goes on, when it succeeds on course, or disturbs.
LEMMA EndDisturbs ==
    ASSUME Track, pc = "run", NEW ok, End(ok)
    PROVE  /\ cycle' = cycle
           /\ (ok /\ Advancing /\ WentOn) \/ Disturbed
BY ProceedGoesOn, RaiseDisturbs DEF End

-----------------------------------------------------------------------------
(* What either keeps *)

\* What a call that is done says of the reads of a ramp or ramp list.
LEMMA ChecksGoOn ==
    ASSUME Track, Advancing, plan.kind # "sequence",
           units' = Next1.units, earlyError' = earlyError, lateTrip' = lateTrip,
           earlyError => errors' > 0,
           Now.op = "errors" => ~earlyError,
           \A c \in Channels : on[c] => on'[c],
           Now.op = "state" => on'[Now.ch]
    PROVE  /\ earlyError' => errors' > 0
           /\ Next1.read /\ units' = Total(plan) => ~earlyError'
           /\ units' = Total(plan) => lateTrip' \/ \A c \in Next1.seen : on'[c]
<1>1. plan \in Plans /\ at \in 1..Len(Script[plan]) /\ units = Here.units
  BY DEF Track, InScript, OnCourse
<1>2. /\ Here.read /\ units = Total(plan) => ~earlyError
      /\ units = Total(plan) => StillOn(Here.seen)
  BY DEF Track, Checked
<1>3. Here \in Progress
  BY <1>1, CallHere
<1>4. CASE Now.op = "unit"
  BY <1>4 DEF Next1, Does, StillOn
<1>5. CASE Now.op # "unit"
  <2>1. units' = units /\ (Next1.read => Here.read \/ Now.op = "errors")
    BY <1>1, <1>5 DEF Next1, Does
  <2>2. \A c \in Next1.seen : c \in Here.seen \/ (Now.op = "state" /\ c = Now.ch)
    BY <1>5 DEF Next1, Does
  <2>3. Here.seen \subseteq Channels
    BY <1>3 DEF Progress
  <2>4. units' = Total(plan) => lateTrip' \/ \A c \in Next1.seen : on'[c]
    <3> SUFFICES ASSUME units' = Total(plan), ~lateTrip PROVE \A c \in Next1.seen : on'[c]
      OBVIOUS
    <3>1. \A c \in Here.seen : on[c]
      BY <1>2, <2>1 DEF StillOn
    <3> QED
      BY <2>2, <2>3, <3>1
  <2> QED
    BY <1>2, <2>1, <2>4
<1> QED
  BY <1>4, <1>5

\* A call that is done, and has done what the outline says, keeps the course.
LEMMA WentOnKeeps ==
    ASSUME Track, IInv', Advancing, WentOn, plan' = plan,
           cycle' # {} => HasCycle(plan),
           units' = Next1.units, level' = Next1.level, limited' = Next1.limited,
           stop' = stop, stopUnits' = stopUnits, stop => Now.op \notin Polls,
           ~noticed',
           errors' \in Nat, earlyError' = earlyError, lateTrip' = lateTrip,
           plan.kind # "sequence" =>
               /\ earlyError => errors' > 0
               /\ Now.op = "errors" => ~earlyError
               /\ \A c \in Channels : on[c] => on'[c]
               /\ Now.op = "state" => on'[Now.ch]
    PROVE  Track'
<1>1. /\ plan \in Plans /\ at \in 1..Len(Script[plan]) /\ Len(Script[plan]) \in Nat
      /\ units = Here.units /\ units \in Nat
  BY CourseExists DEF Track, InScript, OnCourse
<1>2. /\ Here \in Progress /\ Next1 \in Progress /\ Sound(plan, Here, Now)
      /\ at = Len(Script[plan]) => Next1 \in Finish(plan)
  BY <1>1, CallHere
<1>3. pc' = "run" => Here' = Next1 /\ at' \in 1..Len(Script[plan])
  <2> SUFFICES ASSUME pc' = "run" PROVE Here' = Next1 /\ at' \in 1..Len(Script[plan])
    OBVIOUS
  <2>1. at' = at + 1 /\ at # Len(Script[plan])
    BY DEF WentOn
  <2>2. at' - 1 = at /\ at' \in 1..Len(Script[plan])
    BY <1>1, <2>1
  <2> QED
    BY <1>1, <2>2, CallHere DEF Here
<1>4. at' \in 1..Len(Script[plan])
  BY <1>1, <1>3 DEF WentOn
<1>5. InScript'
  BY <1>1, <1>4 DEF InScript, WentOn
<1>6. OnCourse'
  <2>1. Next1.units \in Nat
    BY <1>2 DEF Progress
  <2> QED
    BY <1>3, <2>1 DEF OnCourse, WentOn, Advancing
<1>7. Stopping'
  <2> SUFFICES ASSUME stop
               PROVE  /\ stopUnits' \in Nat /\ units' <= stopUnits' + 1
                      /\ Advancing' /\ units' = stopUnits' + 1 => ~Here'.polled
    BY DEF Stopping
  <2>1. stopUnits \in Nat /\ units <= stopUnits + 1 /\ (units = stopUnits + 1 => ~Here.polled)
    BY DEF Track, Stopping
  <2>2. CASE Now.op = "unit"
    <3>1. Here.polled
      BY <1>2, <2>2 DEF Sound
    <3>2. units' = units + 1 /\ ~Next1.polled
      BY <1>1, <2>2 DEF Next1, Does
    <3>3. units # stopUnits + 1
      BY <2>1, <3>1
    <3> QED
      BY <1>1, <1>3, <2>1, <3>2, <3>3 DEF Advancing, WentOn
  <2>3. CASE Now.op # "unit"
    <3>1. units' = units /\ (Next1.polled <=> Here.polled)
      BY <1>1, <1>2, <2>3 DEF Next1, Does, Progress
    <3> QED
      BY <1>3, <2>1, <3>1 DEF Advancing, WentOn
  <2> QED
    BY <2>2, <2>3
<1>8. Noting'
  BY DEF Noting
<1>9. Checked'
  <2>1. earlyError' \in BOOLEAN
    BY DEF Track, Checked
  <2>2. CASE plan.kind = "sequence"
    BY <2>1, <2>2 DEF Checked
  <2>3. CASE plan.kind # "sequence"
    <3>1. /\ earlyError' => errors' > 0
          /\ Next1.read /\ units' = Total(plan) => ~earlyError'
          /\ units' = Total(plan) => lateTrip' \/ \A c \in Next1.seen : on'[c]
      BY <2>3, ChecksGoOn
    <3>2. CASE pc' = "run"
      BY <1>3, <2>1, <3>1, <3>2 DEF Checked, Closing, StillOn
    <3>3. CASE pc' = "close"
      <4>1. Next1 \in Finish(plan)
        BY <1>2, <3>3 DEF WentOn
      <4>2. units' = Total(plan) /\ Next1.read /\ (plan.enable => PlanChannels(plan) \subseteq Next1.seen)
        BY <2>3, <4>1 DEF Finish
      <4> QED
        BY <2>1, <3>1, <3>3, <4>2 DEF Checked, Advancing, StillOn
    <3> QED
      BY <3>2, <3>3 DEF WentOn
  <2> QED
    BY <2>2, <2>3
<1> QED
  BY <1>5, <1>6, <1>7, <1>8, <1>9 DEF Track

\* A call that raises completes no unit, and keeps what does not need the course.
LEMMA DisturbedKeeps ==
    ASSUME Track, IInv', Disturbed, plan' = plan,
           cycle' # {} => HasCycle(plan),
           units' = units, stop' = stop, stopUnits' = stopUnits,
           noticed' => stop /\ (Cancelling \/ (pc' = "cleanup" /\ HasCycle(plan))),
           errors' \in Nat, earlyError' = earlyError
    PROVE  Track'
<1>1. ~Advancing'
  BY DEF Disturbed, Advancing
<1>2. InScript'
  BY DEF Track, InScript, Disturbed, Now
<1>3. OnCourse'
  BY <1>1 DEF Track, OnCourse
<1>4. Stopping'
  BY <1>1 DEF Track, Stopping
<1>5. Noting'
  BY DEF Noting, Cancelling, Closing, Disturbed
<1>6. Checked'
  BY <1>1 DEF Track, Checked, Disturbed, Closing
<1> QED
  BY <1>2, <1>3, <1>4, <1>5, <1>6 DEF Track

-----------------------------------------------------------------------------
(* Every action keeps the course                                           *)

\* What a call of the script finds.
LEMMA AtACall ==
    ASSUME Track, NEW ops, AtCall(ops)
    PROVE  /\ pc = "run" /\ Now.op \in ops /\ ~noticed /\ (cycle # {} => HasCycle(plan))
           /\ errors \in Nat /\ on \in [Channels -> BOOLEAN] /\ Here \in Progress
           /\ Now.op \in Addressed => Now.ch \in Channels
           /\ Advancing => units = Here.units /\ level = Here.level /\ limited = Here.limited
           /\ Advancing /\ plan.kind # "sequence" /\ earlyError => errors > 0
           /\ Sound(plan, Here, Now)
           /\ ~Advancing => Now.op = "poll"
<1>1. pc = "run" /\ Now.op \in ops
  BY DEF AtCall
<1>2. plan \in Plans /\ at \in 1..Len(Script[plan])
  BY DEF Track, InScript
<1>3. /\ Now.op \in Addressed => Now.ch \in Channels
      /\ Here \in Progress /\ Sound(plan, Here, Now)
  BY <1>2, CallHere
<1>4. ~noticed
  BY <1>1 DEF Track, Noting, Closing
<1>5. (cycle # {} => HasCycle(plan)) /\ (~Advancing => Now.op = "poll")
  BY <1>1 DEF Track, InScript, Advancing
<1>6. on \in [Channels -> BOOLEAN] /\ errors \in Nat
      /\ (Advancing /\ plan.kind # "sequence" /\ earlyError => errors > 0)
  BY DEF Track, Checked, IInv, CleanupTypes
<1>7. Advancing => units = Here.units /\ level = Here.level /\ limited = Here.limited
  BY DEF Track, OnCourse
<1> QED
  BY <1>1, <1>3, <1>4, <1>5, <1>6, <1>7

\* A call of the script, but a poll and a unit, however it ends.
LEMMA EndKeeps ==
    ASSUME Track, IInv', NEW ops, AtCall(ops), NEW good, End(good), plan' = plan,
           Now.op \notin Polls, units' = units,
           good /\ Advancing =>
               Next1.units = units /\ level' = Next1.level /\ limited' = Next1.limited,
           stop' = stop, stopUnits' = stopUnits, noticed' = noticed,
           errors' \in Nat, earlyError' = earlyError, lateTrip' = lateTrip,
           good /\ Advancing /\ plan.kind # "sequence" =>
               /\ earlyError => errors' > 0
               /\ Now.op = "errors" => ~earlyError
               /\ \A c \in Channels : on[c] => on'[c]
               /\ Now.op = "state" => on'[Now.ch]
    PROVE  Track'
<1>1. pc = "run" /\ ~noticed /\ (cycle # {} => HasCycle(plan))
  BY AtACall
<1>2. cycle' = cycle /\ ((good /\ Advancing /\ WentOn) \/ Disturbed)
  BY <1>1, EndDisturbs
<1>3. CASE good /\ Advancing /\ WentOn
  BY <1>1, <1>2, <1>3, WentOnKeeps
<1>4. CASE Disturbed
  BY <1>1, <1>2, <1>4, DisturbedKeeps
<1> QED
  BY <1>2, <1>3, <1>4

\* A setpoint that is written is what the script is said to have written.
LEMMA WriteSetpointKeeps ==
    ASSUME Track, IInv', NEW ok \in BOOLEAN, NEW took \in BOOLEAN, WriteSetpoint(ok, took)
    PROVE  Track'
<1> DEFINE ops == {"limit", "voltage", "pair"}
<1>1. AtCall(ops) /\ End(ok)
  BY DEF WriteSetpoint
<1>2. /\ Now.op \in ops /\ errors \in Nat /\ Here \in Progress
      /\ Advancing => units = Here.units /\ level = Here.level /\ limited = Here.limited
      /\ Advancing /\ plan.kind # "sequence" /\ earlyError => errors > 0
  BY <1>1, AtACall
<1>3. /\ plan' = plan /\ units' = units /\ stop' = stop /\ stopUnits' = stopUnits
      /\ noticed' = noticed /\ errors' = errors /\ on' = on
      /\ earlyError' = earlyError /\ lateTrip' = lateTrip
      /\ ok => limited' = IF Now.op # "voltage" THEN [limited EXCEPT ![Now.ch] = TRUE] ELSE limited
      /\ ok => level' = IF Now.op # "limit" THEN [level EXCEPT ![Now.ch] = Now.val] ELSE level
  BY DEF WriteSetpoint, history
<1>4. Now.op \notin Polls /\ Now.op \notin {"errors", "state", "unit"}
  BY <1>2 DEF Polls
<1>5. ok /\ Advancing =>
          Next1.units = units /\ level' = Next1.level /\ limited' = Next1.limited
  BY <1>2, <1>3 DEF Next1, Does
<1> HIDE DEF ops
<1> QED
  BY <1>1, <1>2, <1>3, <1>4, <1>5, EndKeeps

\* A switch changes the outputs only; when a protection trips meanwhile, that
\* is remembered.
LEMMA SwitchOutputKeeps ==
    ASSUME Track, IInv', NEW ok \in BOOLEAN, NEW took \in BOOLEAN, SwitchOutput(ok, took)
    PROVE  Track'
<1> DEFINE ops == {"on", "off"}
<1>1. AtCall(ops) /\ End(ok)
  BY DEF SwitchOutput
<1>2. /\ Now.op \in ops /\ errors \in Nat /\ Here \in Progress /\ Sound(plan, Here, Now)
      /\ on \in [Channels -> BOOLEAN]
      /\ Advancing => units = Here.units /\ level = Here.level /\ limited = Here.limited
      /\ Advancing /\ plan.kind # "sequence" /\ earlyError => errors > 0
  BY <1>1, AtACall
<1>3. /\ plan' = plan /\ units' = units /\ stop' = stop /\ stopUnits' = stopUnits
      /\ noticed' = noticed /\ errors' = errors /\ level' = level /\ limited' = limited
      /\ earlyError' = earlyError /\ lateTrip' = lateTrip
      /\ on' = IF took THEN Switched(Now.ch, Now.op = "on") ELSE on
  BY DEF SwitchOutput, history
<1>4. Now.op \notin Polls /\ Now.op \notin {"errors", "state", "unit"}
  BY <1>2 DEF Polls
<1>5. Advancing => Next1.units = units /\ level' = Next1.level /\ limited' = Next1.limited
  BY <1>2, <1>3 DEF Next1, Does
<1>6. plan.kind # "sequence" => \A c \in Channels : on[c] => on'[c]
  <2> SUFFICES ASSUME plan.kind # "sequence" PROVE \A c \in Channels : on[c] => on'[c]
    OBVIOUS
  <2>1. (Now.op = "on") = TRUE
    BY <1>2 DEF Sound
  <2>2. on' = Switched(Now.ch, TRUE) \/ on' = on
    BY <1>3, <2>1
  <2> QED
    BY <1>2, <2>2 DEF Switched
<1> HIDE DEF ops
<1> QED
  BY <1>1, <1>2, <1>3, <1>4, <1>5, <1>6, EndKeeps

\* Reads compare; a read of the error queue, also that of a pulse, must find
\* it empty.
LEMMA ReadsKeep ==
    ASSUME Track, IInv', NEW ok \in BOOLEAN, NEW read \in BOOLEAN,
           ReadBack(ok) \/ ReadErrors(ok) \/ FirePulse(ok, read)
    PROVE  Track'
<1> DEFINE ops == {"state", "readback", "measure", "errors", "pulse"}
<1>1. AtCall(ops)
  BY DEF ReadBack, ReadErrors, FirePulse, AtCall
<1>2. PICK good \in BOOLEAN : End(good) /\ (good /\ Now.op \in {"errors", "pulse"} => errors = 0)
                              /\ (good /\ Now.op = "state" => on[Now.ch])
  <2>1. CASE ReadBack(ok)
    <3> DEFINE good == /\ ok
                       /\ Now.op = "state" => on[Now.ch]
                       /\ Now.op = "readback" => level[Now.ch] = Now.val
    <3>1. End(good) /\ Now.op \in {"state", "readback", "measure"}
      BY <2>1 DEF ReadBack, AtCall
    <3>2. good \in BOOLEAN /\ (good => (Now.op = "state" => on[Now.ch]))
      OBVIOUS
    <3> HIDE DEF good
    <3> QED
      BY <3>1, <3>2
  <2>2. CASE ReadErrors(ok)
    <3>1. End(ok /\ errors = 0) /\ Now.op = "errors"
      BY <2>2 DEF ReadErrors, AtCall
    <3> QED
      BY <3>1
  <2>3. CASE FirePulse(ok, read)
    <3>1. End(ok /\ errors = 0) /\ Now.op = "pulse"
      BY <2>3 DEF FirePulse, AtCall
    <3> QED
      BY <3>1
  <2> QED
    BY <2>1, <2>2, <2>3
<1>3. /\ Now.op \in ops /\ errors \in Nat /\ Here \in Progress
      /\ Advancing => units = Here.units /\ level = Here.level /\ limited = Here.limited
      /\ Advancing /\ plan.kind # "sequence" /\ earlyError => errors > 0
  BY <1>1, AtACall
<1>4. /\ plan' = plan /\ units' = units /\ stop' = stop /\ stopUnits' = stopUnits
      /\ noticed' = noticed /\ level' = level /\ limited' = limited /\ on' = on
      /\ earlyError' = earlyError /\ lateTrip' = lateTrip
      /\ errors' = errors
           \/ (Now.op \in {"errors", "pulse"} /\ errors' = errors - Least(errors, MaxReads))
  BY DEF ReadBack, ReadErrors, FirePulse, AtCall, history, instrument
<1>5. errors' \in Nat
  BY <1>3, <1>4, BoundsAssumption DEF Least
<1>6. Now.op \notin Polls /\ Now.op # "unit"
  BY <1>3 DEF Polls
<1>7. Advancing => Next1.units = units /\ level' = Next1.level /\ limited' = Next1.limited
  BY <1>3, <1>4 DEF Next1, Does
<1>8. good /\ Advancing /\ plan.kind # "sequence" =>
          /\ earlyError => errors' > 0
          /\ Now.op = "errors" => ~earlyError
          /\ Now.op = "state" => on'[Now.ch]
  BY <1>2, <1>3, <1>4
<1> HIDE DEF ops
<1> QED
  BY <1>1, <1>2, <1>4, <1>5, <1>6, <1>7, <1>8, EndKeeps

\* A poll goes on without a stop and cancels with one, which it has noticed.
LEMMA PollStopKeeps == ASSUME Track, IInv', PollStop PROVE Track'
<1>1. AtCall(Polls)
  BY DEF PollStop, AtCall, Polls
<1>2. /\ pc = "run" /\ Now.op \in Polls /\ (cycle # {} => HasCycle(plan))
      /\ errors \in Nat /\ Here \in Progress
      /\ Advancing => units = Here.units /\ level = Here.level /\ limited = Here.limited
      /\ Advancing /\ plan.kind # "sequence" /\ earlyError => errors > 0
  BY <1>1, AtACall
<1>3. /\ plan' = plan /\ units' = units /\ stop' = stop /\ stopUnits' = stopUnits
      /\ noticed' = stop /\ errors' = errors /\ level' = level /\ limited' = limited /\ on' = on
      /\ earlyError' = earlyError /\ lateTrip' = lateTrip
  BY DEF PollStop, instrument
<1>4. CASE stop
  <2>1. Raise("cancelled")
    BY <1>4 DEF PollStop
  <2>2. Disturbed /\ cycle' = cycle /\ Cancelling
    BY <1>2, <2>1, RaiseDisturbs
  <2> QED
    BY <1>2, <1>3, <1>4, <2>2, DisturbedKeeps
<1>5. CASE ~stop
  <2>1. Proceed
    BY <1>5 DEF PollStop
  <2>2. (Advancing => WentOn) /\ (~Advancing => Disturbed) /\ cycle' = cycle
    BY <1>2, <2>1, ProceedGoesOn
  <2>3. CASE Advancing
    <3>1. units = Next1.units /\ level = Next1.level /\ limited = Next1.limited
          /\ Now.op \notin {"errors", "state"}
      BY <1>2, <2>3 DEF Next1, Does, Polls
    <3> QED
      BY <1>2, <1>3, <1>5, <2>2, <2>3, <3>1, WentOnKeeps
  <2>4. CASE ~Advancing
    BY <1>2, <1>3, <1>5, <2>2, <2>4, DisturbedKeeps
  <2> QED
    BY <2>3, <2>4
<1> QED
  BY <1>4, <1>5

\* A completed unit is one that the script has come to, with its setpoints.
LEMMA CompleteUnitKeeps == ASSUME Track, IInv', CompleteUnit PROVE Track'
<1>1. AtCall({"unit"}) /\ Proceed
  BY DEF CompleteUnit
<1>2. /\ pc = "run" /\ Now.op = "unit" /\ (cycle # {} => HasCycle(plan)) /\ ~noticed
      /\ errors \in Nat /\ Here \in Progress /\ Advancing
      /\ units = Here.units /\ level = Here.level /\ limited = Here.limited
      /\ plan.kind # "sequence" /\ earlyError => errors > 0
  BY <1>1, AtACall
<1>3. /\ plan' = plan /\ units' = units + 1 /\ stop' = stop /\ stopUnits' = stopUnits
      /\ noticed' = noticed /\ errors' = errors /\ level' = level /\ limited' = limited /\ on' = on
      /\ earlyError' = earlyError /\ lateTrip' = lateTrip
  BY DEF CompleteUnit, instrument
<1>4. WentOn /\ cycle' = cycle
  BY <1>1, <1>2, ProceedGoesOn
<1>5. units + 1 = Next1.units /\ level = Next1.level /\ limited = Next1.limited
  BY <1>2 DEF Next1, Does
<1>6. Now.op \notin Polls /\ Now.op \notin {"errors", "state"}
  BY <1>2 DEF Polls
<1> QED
  BY <1>2, <1>3, <1>4, <1>5, <1>6, WentOnKeeps

\* Going on within a cycle, which only a sequence has.
LEMMA CycleGoesOn ==
    ASSUME Track, IInv', HasCycle(plan), Advancing, Now.op \in {"cycleon", "endcycle"},
           pc' = "run", at' = at + 1, result' = result, plan' = plan,
           units' = units, level' = level, limited' = limited, stop' = stop,
           stopUnits' = stopUnits, noticed' = noticed, errors' = errors,
           earlyError' = earlyError, lateTrip' = lateTrip
    PROVE  Track'
<1>1. /\ plan \in Plans /\ at \in 1..Len(Script[plan]) /\ errors \in Nat
      /\ units = Here.units /\ level = Here.level /\ limited = Here.limited
  BY DEF Track, InScript, OnCourse, Checked
<1>2. WentOn
  <2>1. at + 1 \in 1..Len(Script[plan])
    BY <1>1, CycleIsNotLast
  <2> QED
    BY <1>1, <2>1, CourseExists DEF WentOn, Advancing
<1>3. units = Next1.units /\ level = Next1.level /\ limited = Next1.limited
  BY <1>1 DEF Next1, Does
<1>4. ~noticed
  BY DEF Track, Noting, Advancing, Closing
<1>5. Now.op \notin Polls /\ plan.kind = "sequence"
  BY DEF Polls, HasCycle
<1> QED
  BY <1>1, <1>2, <1>3, <1>4, <1>5, WentOnKeeps

\* The first half of a cycle: what follows leaves by the finally clause.
LEMMA CycleOnKeeps ==
    ASSUME Track, IInv', NEW ok \in BOOLEAN, NEW took \in BOOLEAN, CycleOn(ok, took)
    PROVE  Track'
<1>1. AtCall({"cycleon"})
  BY DEF CycleOn
<1>2. /\ pc = "run" /\ Now.op = "cycleon" /\ ~noticed /\ Advancing /\ HasCycle(plan)
      /\ errors \in Nat
  BY <1>1, AtACall DEF Sound
<1>3. /\ plan' = plan /\ units' = units /\ stop' = stop /\ stopUnits' = stopUnits
      /\ noticed' = noticed /\ errors' = errors /\ level' = level /\ limited' = limited
      /\ earlyError' = earlyError /\ lateTrip' = lateTrip
  BY DEF CycleOn, history
<1>4. CASE ok
  BY <1>2, <1>3, <1>4, CycleGoesOn DEF CycleOn
<1>5. CASE ~ok
  <2>1. Raise("failed")
    BY <1>5 DEF CycleOn
  <2>2. Disturbed
    BY <1>2, <2>1, RaiseDisturbs
  <2> QED
    BY <1>2, <1>3, <2>2, DisturbedKeeps
<1> QED
  BY <1>4, <1>5

\* The finally clause is entered at the end of the step: the course is kept.
LEMMA EndCycleKeeps == ASSUME Track, IInv', EndCycle PROVE Track'
<1>1. AtCall({"endcycle"})
  BY DEF EndCycle
<1>2. pc = "run" /\ Now.op = "endcycle" /\ ~noticed /\ Advancing /\ HasCycle(plan)
  BY <1>1, AtACall DEF Sound
<1>3. pc' = "finally" /\ pending' = "none"
      /\ UNCHANGED <<plan, at, cycle, result, stop, instrument, history>>
  BY DEF EndCycle
<1>4. Advancing' /\ Here' = Here /\ Now' = Now
  BY <1>2, <1>3 DEF Advancing, Here, Now
<1>5. InScript'
  BY <1>2, <1>3, <1>4 DEF Track, InScript
<1>6. OnCourse' /\ Stopping'
  BY <1>2, <1>3, <1>4 DEF Track, OnCourse, Stopping, instrument, history
<1>7. Noting' /\ Checked'
  BY <1>2, <1>3 DEF Track, Noting, Checked, HasCycle, Closing, instrument, history
<1> QED
  BY <1>5, <1>6, <1>7 DEF Track

\* The finally clause of a cycle passes on what the cycle ended with.
LEMMA CycleOffKeeps ==
    ASSUME Track, IInv', NEW ok \in BOOLEAN, NEW took \in BOOLEAN, CycleOff(ok, took)
    PROVE  Track'
<1>1. pc = "finally" /\ HasCycle(plan) /\ errors \in Nat /\ pending \in {"none", "failed", "cancelled"}
      /\ plan.kind = "sequence" /\ result = "none"
  BY DEF CycleOff, Track, InScript, Checked, IInv, CleanupTypes, NoEarlyResult, Working, HasCycle
<1>2. /\ plan' = plan /\ units' = units /\ stop' = stop /\ stopUnits' = stopUnits
      /\ noticed' = noticed /\ errors' = errors /\ level' = level /\ limited' = limited
      /\ earlyError' = earlyError /\ lateTrip' = lateTrip
  BY DEF CycleOff, history
<1>3. noticed => stop /\ pending = "cancelled"
  BY <1>1 DEF Track, Noting, Closing
<1>4. CASE ok /\ cycle' # {}
  <2>1. UNCHANGED <<pc, at, pending, result>>
    BY <1>4 DEF CycleOff
  <2>2. Advancing' = Advancing /\ Here' = Here /\ Now' = Now
    BY <1>2, <2>1 DEF Advancing, Here, Now
  <2>3. InScript'
    BY <1>1, <1>2, <2>1, <2>2 DEF Track, InScript
  <2>4. OnCourse' /\ Stopping'
    BY <1>2, <2>1, <2>2 DEF Track, OnCourse, Stopping
  <2>5. Noting' /\ Checked'
    BY <1>1, <1>2, <2>1 DEF Track, Noting, Checked, Closing
  <2> QED
    BY <2>3, <2>4, <2>5 DEF Track
<1>5. CASE ~ok
  <2>1. Catch("failed")
    BY <1>5 DEF CycleOff
  <2>2. Disturbed /\ pc' = "cleanup"
    BY <1>1, <2>1, CatchDisturbs
  <2> QED
    BY <1>1, <1>2, <1>3, <2>2, DisturbedKeeps
<1>6. CASE ok /\ cycle' = {} /\ pending # "none"
  <2>1. Catch(pending)
    BY <1>6 DEF CycleOff
  <2>2. pending \in {"failed", "cancelled"}
    BY <1>1, <1>6
  <2>3. Disturbed /\ (pending = "cancelled" => Cancelling)
    BY <1>1, <2>1, <2>2, CatchDisturbs
  <2> QED
    BY <1>1, <1>2, <1>3, <2>3, DisturbedKeeps
<1>7. CASE ok /\ cycle' = {} /\ pending = "none"
  <2>1. pc' = "run" /\ at' = at + 1 /\ result' = result
    BY <1>7 DEF CycleOff
  <2>2. Advancing /\ Now.op = "endcycle"
    BY <1>1, <1>7 DEF Advancing, Track, InScript
  <2> QED
    BY <1>1, <1>2, <2>1, <2>2, CycleGoesOn
<1> QED
  BY <1>4, <1>5, <1>6, <1>7

\* The cleanups and the close come after the course.
LEMMA AfterCourseKeeps ==
    ASSUME Track, IInv', NEW ok \in BOOLEAN, NEW took \in BOOLEAN,
           \/ SafeOff(ok, took) \/ ConfirmOff(ok) \/ DrainErrors(ok)
           \/ SequenceSafeOff(ok, took) \/ CloseSession(ok)
    PROVE  Track'
<1> DEFINE Late == {"off", "confirm", "drain", "cleanup", "close", "done"}
<1>1. /\ pc \in Late /\ pc' \in Late
      /\ UNCHANGED <<plan, at, cycle, stop, level, limited, units, noticed, stopUnits, earlyError, lateTrip>>
  BY DEF SafeOff, ConfirmOff, DrainErrors, SequenceSafeOff, AdvanceCleanup, CloseSession,
         Advance, instrument, history
<1>2. ~Advancing' /\ pc' # "run" /\ pc' # "finally"
  BY <1>1 DEF Advancing
<1>3. InScript' /\ OnCourse' /\ Stopping'
  BY <1>1, <1>2 DEF Track, InScript, OnCourse, Stopping
<1>4. errors' \in Nat
  <2>1. errors \in Nat
    BY DEF Track, Checked
  <2>2. errors' = errors \/ errors' = errors - Least(errors, MaxReads)
    BY DEF SafeOff, ConfirmOff, DrainErrors, SequenceSafeOff, CloseSession, instrument
  <2> QED
    BY <2>1, <2>2, BoundsAssumption DEF Least
<1>5. pc \in Working => result \in {"none", "step_failed"}
  BY DEF Track, IInv, NoEarlyResult
<1>6. CASE SafeOff(ok, took) \/ ConfirmOff(ok)
  <2>1. pc \in {"off", "confirm"} /\ pc' \in {"off", "confirm", "drain"}
    BY <1>6 DEF SafeOff, ConfirmOff, Advance
  <2>2. Noting' /\ Checked'
    BY <1>1, <1>2, <1>4, <2>1 DEF Track, Noting, Checked, Closing
  <2> QED
    BY <1>3, <2>2 DEF Track
<1>7. CASE DrainErrors(ok)
  <2>1. pc = "drain" /\ pc' = "close" /\ result' \in {"cleanup_failed", "cancelled"}
    BY <1>7 DEF DrainErrors
  <2>2. Noting' /\ Checked'
    BY <1>1, <1>2, <1>4, <2>1 DEF Track, Noting, Checked, Closing
  <2> QED
    BY <1>3, <2>2 DEF Track
<1>8. CASE SequenceSafeOff(ok, took)
  <2>1. pc = "cleanup" /\ pc' \in {"cleanup", "close"} /\ result' = result
    BY <1>8 DEF SequenceSafeOff, AdvanceCleanup, Advance
  <2>2. Noting' /\ Checked'
    BY <1>1, <1>2, <1>4, <1>5, <2>1 DEF Track, Noting, Checked, Closing, Working
  <2> QED
    BY <1>3, <2>2 DEF Track
<1>9. CASE CloseSession(ok)
  <2>1. /\ pc = "close" /\ pc' = "done" /\ UNCHANGED <<on, errors>>
        /\ result' = result \/ result' = "cleanup_failed"
             \/ (~stop /\ result' = "failed")
    BY <1>9 DEF CloseSession, instrument
  <2>2. Noting'
    BY <1>1, <2>1 DEF Track, Noting, Closing
  <2>3. Checked'
    BY <1>1, <1>2, <1>4, <2>1 DEF Track, Checked, Closing, StillOn
  <2> QED
    BY <1>3, <2>2, <2>3 DEF Track
<1> QED
  BY <1>6, <1>7, <1>8, <1>9

\* The user and the instrument move no call.
LEMMA EnvironmentKeeps ==
    ASSUME Track, IInv',
           RequestStop \/ (\E c \in Channels : Trip(c)) \/ QueueError \/ UNCHANGED vars
    PROVE  Track'
<1> USE DEF control, cleanup, instrument, history
<1>1. UNCHANGED <<plan, pc, at, cycle, pending, result, level, limited, units, noticed>>
  BY DEF RequestStop, Trip, QueueError, vars
<1>2. Advancing' = Advancing /\ Here' = Here /\ Now' = Now
  BY <1>1 DEF Advancing, Here, Now
<1>3. InScript' /\ OnCourse'
  BY <1>1, <1>2 DEF Track, InScript, OnCourse
<1>4. units \in Nat /\ errors \in Nat /\ errors + 1 \in Nat /\ errors + 1 > 0 /\ earlyError \in BOOLEAN
  BY DEF Track, OnCourse, Checked
<1>5. CASE RequestStop
  <2>1. Stopping'
    BY <1>1, <1>4, <1>5 DEF RequestStop, Stopping
  <2>2. Noting' /\ Checked'
    BY <1>1, <1>2, <1>5 DEF RequestStop, Track, Noting, Checked, StillOn
  <2> QED
    BY <1>3, <2>1, <2>2 DEF Track
<1>6. CASE QueueError
  <2>1. Stopping' /\ Noting'
    BY <1>1, <1>2, <1>6 DEF QueueError, Track, Stopping, Noting
  <2>2. /\ errors' = errors + 1 /\ lateTrip' = lateTrip /\ on' = on
        /\ earlyError' = (earlyError \/ units < Total(plan))
    BY <1>6 DEF QueueError
  <2>3. units = Total(plan) => earlyError' = earlyError
    BY <1>4, <2>2
  <2>4. Checked'
    BY <1>1, <1>2, <1>4, <2>2, <2>3 DEF Track, Checked, StillOn
  <2> QED
    BY <1>3, <2>1, <2>4 DEF Track
<1>7. ASSUME NEW c \in Channels, Trip(c) PROVE Track'
  <2>1. Stopping' /\ Noting'
    BY <1>1, <1>2, <1>7 DEF Trip, Track, Stopping, Noting
  <2>2. errors' = errors /\ earlyError' = earlyError /\ (units = Total(plan) => lateTrip')
    BY <1>7 DEF Trip
  <2>3. Checked'
    BY <1>1, <1>2, <1>4, <2>2 DEF Track, Checked, StillOn
  <2> QED
    BY <1>3, <2>1, <2>3 DEF Track
<1>8. CASE UNCHANGED vars
  BY <1>1, <1>2, <1>3, <1>8 DEF Track, Stopping, Noting, Checked, StillOn, vars
<1> QED
  BY <1>5, <1>6, <1>7, <1>8

\* A script is not empty, and its outline starts where the workflow does.
\* A workflow starts at its first call, before anything was done.
LEMMA InitTrack == Init => Track
<1> SUFFICES ASSUME Init PROVE Track
  OBVIOUS
<1>1. IInv
  BY InitIInv
<1>2. plan \in Plans /\ at = 1 /\ pc = "run" /\ result = "none" /\ units = 0 /\ cycle = {}
      /\ stop = FALSE /\ noticed = FALSE /\ errors \in Nat
      /\ level = [c \in Channels |-> <<0, 0>>] /\ limited = [c \in Channels |-> FALSE]
  BY BoundsAssumption DEF Init
<1>3. /\ Script[plan] \in Seq(Calls) /\ Len(Script[plan]) \in Nat
      /\ Outline(plan, Script[plan], Start, Course(plan)) /\ Course(plan)[Len(Script[plan])] \in Finish(plan)
  BY <1>2, CourseExists
<1>4. Here = Start
  <2>1. at - 1 = 0
    BY <1>2
  <2> QED
    BY <1>3, <2>1 DEF Here, Outline
<1>5. Len(Script[plan]) # 0
  <2> SUFFICES ASSUME Len(Script[plan]) = 0 PROVE FALSE
    OBVIOUS
  <2>1. Start \in Finish(plan)
    BY <1>3 DEF Outline
  <2>2. plan.kind = "sequence"
    BY <2>1 DEF Finish, Start
  <2>3. PICK s \in Leads(plan, Progress, Progress) : Script[plan] = s \o Poll
    BY <1>2, <2>2, SequenceEndsWithPoll DEF Script
  <2>4. s \in Seq(Calls) /\ Poll \in Seq(Calls) /\ Len(Poll) = 1
    <3>1. Call("poll", 0, <<0, 0>>) \in Calls
      BY PlainCall DEF Ops, Addressed
    <3> QED
      BY <3>1 DEF Poll, Plain, Leads
  <2>5. Len(s) \in Nat /\ Len(s \o Poll) = Len(s) + 1
    BY <2>4, LastOfJoin
  <2> QED
    BY <2>3, <2>5
<1>6. InScript
  BY <1>2, <1>3, <1>5 DEF InScript
<1>7. OnCourse
  BY <1>2, <1>4 DEF OnCourse, Start
<1>8. Stopping /\ Noting
  BY <1>2 DEF Stopping, Noting
<1>9. Checked
  <2>0. earlyError \in BOOLEAN /\ (earlyError => errors > 0)
    <3>1. earlyError = (errors > 0) /\ (errors > 0) \in BOOLEAN
      <4> HIDE DEF Init
      <4>1. earlyError = (errors > 0)
        BY Zenon DEF Init
      <4>2. (errors > 0) \in BOOLEAN
        BY <1>2
      <4> QED
        BY <4>1, <4>2
    <3> QED
      BY <3>1
  <2>1. ~Here.read /\ Here.seen = {}
    BY <1>4 DEF Start
  <2> QED
    BY <1>2, <2>0, <2>1 DEF Checked, StillOn, Closing
<1> QED
  BY <1>1, <1>6, <1>7, <1>8, <1>9 DEF Track

\* Every step keeps a workflow on its course, or notes what disturbed it.
LEMMA NextTrack == Track /\ [Next]_vars => Track'
<1> SUFFICES ASSUME Track, [Next]_vars PROVE Track'
  OBVIOUS
<1>1. IInv'
  BY NextIInv DEF Track
<1> QED
  BY <1>1, PollStopKeeps, CompleteUnitKeeps, EndCycleKeeps, WriteSetpointKeeps, SwitchOutputKeeps,
     CycleOnKeeps, CycleOffKeeps, ReadsKeep, AfterCourseKeeps, EnvironmentKeeps DEF Next, Finished

-----------------------------------------------------------------------------
(* What the course gives *)

\* Where a workflow is in its script and what it has done, in every reachable
\* state.
THEOREM OnTrack == Spec => []Track
BY InitTrack, NextTrack, PTL DEF Spec

\* A cancellation that a poll raised reaches the caller, or the sequence whose
\* cycle-output step failed meanwhile has run its own cleanup.
THEOREM CancellationReachesCaller == Spec => []CancelNotLost
<1>1. Track => CancelNotLost
  BY DEF Track, Noting, Closing, HasCycle, CancelNotLost
<1> QED
  BY <1>1, OnTrack, PTL

\* A stop leaves at most the unit in progress to complete, for every plan:
\* between two units there is always a poll.
THEOREM StopLeavesOneUnit == Spec => []StopWithinUnit
<1>1. Track => StopWithinUnit
  BY DEF Track, Stopping, StopWithinUnit
<1> QED
  BY <1>1, OnTrack, PTL

\* Success of a ramp or ramp list means that no error was queued before its
\* last unit, and that the outputs it enabled are on, or tripped after it.
THEOREM SuccessIsSound == Spec => []CompletedIsSound
<1>1. Track => CompletedIsSound
  BY DEF Track, Checked, Closing, StillOn, CompletedIsSound
<1> QED
  BY <1>1, OnTrack, PTL

\* No ramp or ramp list switches on an output that is not its plan's, unless it
\* shares the one switch of an E3646A, and none before the limit and the first
\* voltage are written: its own, or those of every channel of the plan.
THEOREM OnlyProgrammedIsEnabled == Spec => EnabledProgrammed
<1> DEFINE Needed(c) == IF plan.model = "global" THEN PlanChannels(plan) ELSE {c}
           A == \A c \in Channels : plan.kind # "sequence" /\ ~on[c] /\ on'[c] =>
                   /\ plan.model = "global" \/ c \in PlanChannels(plan)
                   /\ \A d \in Needed(c) : limited[d] /\ level[d] = <<FirstSegment(plan, d), 1>>
<1>1. ASSUME Track, [Next]_vars PROVE A
  <2> SUFFICES ASSUME NEW c \in Channels, plan.kind # "sequence", ~on[c], on'[c]
               PROVE  /\ plan.model = "global" \/ c \in PlanChannels(plan)
                      /\ \A d \in Needed(c) : limited[d] /\ level[d] = <<FirstSegment(plan, d), 1>>
    OBVIOUS
  <2>1. on \in [Channels -> BOOLEAN]
    BY <1>1 DEF Track, IInv, CleanupTypes
  <2>2. PICK ok \in BOOLEAN, took \in BOOLEAN : SwitchOutput(ok, took) \/ CycleOn(ok, took)
    <3> SUFFICES ASSUME ~\E ok, took \in BOOLEAN : SwitchOutput(ok, took) \/ CycleOn(ok, took)
                 PROVE  FALSE
      OBVIOUS
    <3>1. on' # on /\ \A d : on' # Switched(d, FALSE)
      BY <2>1 DEF Switched
    <3>2. on' = on \/ \E d : on' = Switched(d, FALSE)
      <4>1. CASE \E ok, took \in BOOLEAN :
                   \/ WriteSetpoint(ok, took) \/ CycleOff(ok, took) \/ SafeOff(ok, took)
                   \/ SequenceSafeOff(ok, took) \/ FirePulse(ok, took)
        <5>1. PICK ok \in BOOLEAN, took \in BOOLEAN :
                   \/ WriteSetpoint(ok, took) \/ CycleOff(ok, took) \/ SafeOff(ok, took)
                   \/ SequenceSafeOff(ok, took) \/ FirePulse(ok, took)
          BY <4>1
        <5>2. CASE WriteSetpoint(ok, took)
          BY <5>2 DEF WriteSetpoint
        <5>3. CASE CycleOff(ok, took)
          BY <5>3 DEF CycleOff
        <5>4. CASE SafeOff(ok, took)
          BY <5>4 DEF SafeOff
        <5>5. CASE SequenceSafeOff(ok, took)
          BY <5>5 DEF SequenceSafeOff
        <5>6. CASE FirePulse(ok, took)
          BY <5>6 DEF FirePulse, instrument
        <5> QED
          BY <5>1, <5>2, <5>3, <5>4, <5>5, <5>6
      <4>2. CASE \/ \E ok \in BOOLEAN : ReadBack(ok) \/ ReadErrors(ok) \/ ConfirmOff(ok) \/ DrainErrors(ok)
                                        \/ CloseSession(ok)
                 \/ \E d \in Channels : Trip(d)
        BY <4>2 DEF instrument, ReadBack, ReadErrors, ConfirmOff, DrainErrors, CloseSession, Trip
      <4>3. CASE PollStop \/ CompleteUnit \/ EndCycle \/ RequestStop \/ QueueError \/ Finished \/ UNCHANGED vars
        BY <4>3 DEF instrument, vars, Finished, PollStop, CompleteUnit, EndCycle, RequestStop, QueueError
      <4>4. ~\E ok, took \in BOOLEAN : SwitchOutput(ok, took) \/ CycleOn(ok, took)
        OBVIOUS
      <4>5. \/ \E ok, took \in BOOLEAN :
                  \/ WriteSetpoint(ok, took) \/ CycleOff(ok, took) \/ SafeOff(ok, took)
                  \/ SequenceSafeOff(ok, took) \/ FirePulse(ok, took)
            \/ \E ok \in BOOLEAN : ReadBack(ok) \/ ReadErrors(ok) \/ ConfirmOff(ok) \/ DrainErrors(ok)
                                   \/ CloseSession(ok)
            \/ \E d \in Channels : Trip(d)
            \/ PollStop \/ CompleteUnit \/ EndCycle \/ RequestStop \/ QueueError \/ Finished \/ UNCHANGED vars
        BY <1>1, <4>4, Zenon DEF Next
      <4> QED
        BY <4>1, <4>2, <4>3, <4>5
    <3> QED
      BY <3>1, <3>2
  <2>3. PICK ops : AtCall(ops)
    BY <2>2 DEF SwitchOutput, CycleOn
  <2>4. Sound(plan, Here, Now) /\ (Advancing => level = Here.level /\ limited = Here.limited)
        /\ (~Advancing => Now.op = "poll")
    BY <1>1, <2>3, AtACall
  <2>5. SwitchOutput(ok, took) /\ Now.op = "on"
    BY <2>2, <2>4 DEF Sound, HasCycle, CycleOn, SwitchOutput, AtCall
  <2>6. level = Here.level /\ limited = Here.limited
    BY <2>4, <2>5
  <2>7. on' = Switched(Now.ch, TRUE)
    <3>1. on' # on /\ (Now.op = "on") = TRUE
      BY <2>5
    <3> QED
      BY <2>5, <3>1 DEF SwitchOutput
  <2>8. c \in ActsOn(plan, Now.ch)
    BY <2>1, <2>7 DEF Switched, ActsOn
  <2>9. Now.ch \in PlanChannels(plan)
        /\ \A d \in PlanChannels(plan) \cap ActsOn(plan, Now.ch) : Programmed(plan, Here, d)
    BY <2>4, <2>5 DEF Sound
  <2>10. PlanChannels(plan) \subseteq Channels
    <3>1. plan \in Plans
      BY <1>1 DEF Track, InScript
    <3> QED
      BY <3>1, FirstSegmentExists
  <2>11. plan.model # "global" => c = Now.ch
    BY <2>8 DEF ActsOn
  <2>12. Needed(c) \subseteq PlanChannels(plan) \cap ActsOn(plan, Now.ch)
    BY <2>9, <2>10, <2>11 DEF ActsOn
  <2> QED
    BY <2>6, <2>9, <2>11, <2>12 DEF Programmed
<1>2. Track /\ [Next]_vars => [A]_vars
  BY <1>1
<1> QED
  BY <1>2, OnTrack, PTL DEF Spec, EnabledProgrammed

\* A unit of a ramp or ramp list counts only with its voltage on its channels.
THEOREM UnitsAreWritten == Spec => UnitWritten
<1> DEFINE A == units' # units /\ plan.kind # "sequence" =>
          LET u == UnitsOfLoop(plan)[(units % Len(UnitsOfLoop(plan))) + 1]
          IN  \A c \in u.channels : level[c] = u.val
<1>1. ASSUME Track, [Next]_vars PROVE A
  <2> SUFFICES ASSUME units' # units, plan.kind # "sequence"
               PROVE  \A c \in UnitAt(plan, units).channels : level[c] = UnitAt(plan, units).val
    BY DEF UnitAt
  <2>1. CompleteUnit
    <3>1. ~UNCHANGED vars
      BY DEF vars, history
    <3>2. PollStop \/ EndCycle \/ RequestStop \/ QueueError \/ Finished => units' = units
      BY <3>1 DEF PollStop, EndCycle, RequestStop, QueueError, Finished, vars, history
    <3>3. \A c \in Channels : Trip(c) => units' = units
      BY DEF Trip
    <3>4. \A ok, took \in BOOLEAN :
            /\ WriteSetpoint(ok, took) \/ SwitchOutput(ok, took) => units' = units
            /\ CycleOn(ok, took) \/ CycleOff(ok, took) => units' = units
            /\ SafeOff(ok, took) \/ SequenceSafeOff(ok, took) \/ FirePulse(ok, took) => units' = units
      BY DEF history, WriteSetpoint, SwitchOutput, CycleOn, CycleOff, SafeOff, SequenceSafeOff, FirePulse
    <3>5. \A ok \in BOOLEAN :
            /\ ReadBack(ok) \/ ReadErrors(ok) => units' = units
            /\ ConfirmOff(ok) \/ DrainErrors(ok) \/ CloseSession(ok) => units' = units
      BY DEF history, ReadBack, ReadErrors, ConfirmOff, DrainErrors, CloseSession
    <3> QED
      BY <1>1, <3>1, <3>2, <3>3, <3>4, <3>5 DEF Next
  <2>2. AtCall({"unit"})
    BY <2>1 DEF CompleteUnit
  <2>3. Now.op = "unit"
    BY <2>2 DEF AtCall
  <2>4. /\ Sound(plan, Here, Now) /\ (~Advancing => Now.op = "poll")
        /\ Advancing => units = Here.units /\ level = Here.level
    BY <1>1, <2>2, AtACall
  <2>5. Sound(plan, Here, Now) /\ units = Here.units /\ level = Here.level
    BY <2>3, <2>4
  <2> QED
    BY <2>3, <2>5 DEF Sound
<1>2. Track /\ [Next]_vars => [A]_vars
  BY <1>1
<1> QED
  BY <1>2, OnTrack, PTL DEF Spec, UnitWritten
=============================================================================
