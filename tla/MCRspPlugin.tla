---------------------------- MODULE MCRspPlugin -----------------------------
(***************************************************************************)
(* RspPlugin with two registers and small timeouts.                        *)
(***************************************************************************)
EXTENDS RspPlugin, TLC

CONSTANTS t0, t1

MCRegs == {t0, t1}

=============================================================================
