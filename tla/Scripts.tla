------------------------------- MODULE Scripts -------------------------------
(***************************************************************************)
(* How the handlers of powers_tool_core are written down: the calls that a *)
(* command makes on its session when nothing goes wrong, in blocks that    *)
(* say what an exception does.                                             *)
(*   plain     outside every try: the command ends                         *)
(*   try       the command is failing: the cleanup blocks follow           *)
(*   collect   one of a list of attempts whose errors are raised later     *)
(*   shrug     the exception is caught and forgotten                       *)
(*   waitfail  the handler of TriggerInterrupted and TriggerWaitTimeout    *)
(*   failure   the handler of every exception; its own are forgotten       *)
(*   cleanup   a finally: its exception replaces the first and ends it     *)
(*   effort    a finally whose exceptions are noted, and raised at the end *)
(***************************************************************************)
EXTENDS Instrument

\* A command: what a request asks for, with its parameters.  pulse is the
\* channel of its completion pulse, 0 for none.
Base == [name |-> "", model |-> "independent", channels |-> <<1>>,
         values |-> [k \in Settings |-> None], source |-> "bus",
         pins |-> {}, pulse |-> 0, flags |-> {}]

Has(cmd, flag) == flag \in cmd.flags
AllChannels(cmd) == [c \in ChannelsOf(cmd.model) |-> c]     \* in order

Call(op, c, key, val) == <<[op |-> op, ch |-> c, key |-> key, val |-> val]>>
On(op, c) == Call(op, c, "", 0)
Poll == On("poll", 0)            \* raise_if_cancelled, interruptible_sleep
Read(c) == On("read", c)         \* a query whose answer decides nothing
Errors == On("errors", 0)        \* _raise_on_instrument_errors
Drain == On("drain", 0)          \* read_error_queue: what it reads is reported

When(condition, calls) == IF condition THEN calls ELSE << >>
Each(s, F(_)) == FlattenSeq([i \in DOMAIN s |-> F(s[i])])

Block(kind, calls) == <<[kind |-> kind, calls |-> calls]>>
Plain(calls) == Block("plain", calls)
Try(calls) == Block("try", calls)
Cleanup(calls) == Block("cleanup", calls)
Effort(calls) == Block("effort", calls)

\* The script of a list of blocks: its calls in order, each with its block.
Script(blocks) ==
    FlattenSeq([b \in DOMAIN blocks |->
        [i \in DOMAIN blocks[b].calls |->
            [call |-> blocks[b].calls[i], kind |-> blocks[b].kind, block |-> b]]])
=============================================================================
