------------------------------ MODULE MCXBar ------------------------------
(* Instances of XBar for TLC: one word of memory and two registers.         *)
EXTENDS XBar, TLC

MCClintReg == 16 :> "mtimecmph"
MCPlicReg == 32 :> "enable"
=============================================================================
