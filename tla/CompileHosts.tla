---------------------------- MODULE CompileHosts ----------------------------
(* compile_prepare_hosts and compile_restore_hosts: the step sequences that *)
(* MutationBatch runs, one group of steps per capture host.                 *)
EXTENDS Naturals, Sequences, SequencesExt

StepOf(h, op, independent) == [host |-> h, op |-> op, independent |-> independent]

\* One host's PREPARE: tap parameters when the inventory has them, input by
\* name, monitoring, output from candidates, and the sends that are not silent.
PrepareHost(h, taps, sends) ==
    [i \in 1..taps |-> StepOf(h, "value", FALSE)]
    \o <<StepOf(h, "input", FALSE), StepOf(h, "value", FALSE), StepOf(h, "output", FALSE)>>
    \o [i \in 1..sends |-> StepOf(h, "value", FALSE)]

\* One host's RESTORE from its baseline: the routings it recorded, then its
\* monitoring and sends. The first step of every host but the first is marked
\* independent.
RestoreHost(h, routings, values) ==
    [i \in 1..(routings + values) |->
        StepOf(h, IF i <= routings THEN "routing" ELSE "value", h > 1 /\ i = 1)]

compile_prepare_hosts(hosts, taps, sends) ==
    FlattenSeq([h \in 1..hosts |-> PrepareHost(h, taps, sends)])

compile_restore_hosts(hosts, routings, values) ==
    FlattenSeq([h \in 1..hosts |-> RestoreHost(h, routings, values)])
=============================================================================
