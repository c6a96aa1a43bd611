------------------------------ MODULE MC_Queue ------------------------------
(***************************************************************************)
(* Queue for TLC: two units, a 2-bit size_t so the counters wrap every    *)
(* two trips round the ring, two unit values.                             *)
(***************************************************************************)
EXTENDS Queue

CONSTANTS a, b

MC_Values == {a, b}
=============================================================================
