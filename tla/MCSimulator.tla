---------------------------- MODULE MCSimulator ----------------------------
(* Instances of Simulator for TLC: designs of three retirements.            *)
EXTENDS Simulator

Devices  == <<"alu", "dev", "dev">>
Trapped  == <<"dev", "intr", "alu">>

\* Every design: right or going wrong at its second instruction, hanging at
\* its end or decoding ebreak during its last instruction, with exit code 0
\* or 1.  One expression changes at two consecutive retirements.
Ends == {<<0, 0>>, <<3, 0>>, <<3, 1>>}
MCDuts ==
  {[kind |-> k, gap |-> 2, bad |-> b, halt |-> h[1], a0 |-> h[2],
    change |-> [e \in Exprs |-> IF e = 1 THEN {1, 2} ELSE {2}]] :
     k \in {Devices, Trapped}, b \in {0, 2}, h \in Ends}

\* Batch with everything on, the default build without waveforms, and the
\* monitor with everything on.
MCModes == {[batch |-> TRUE,  waveform |-> TRUE,  difftest |-> TRUE],
            [batch |-> TRUE,  waveform |-> FALSE, difftest |-> TRUE],
            [batch |-> FALSE, waveform |-> TRUE,  difftest |-> TRUE]}
=============================================================================
