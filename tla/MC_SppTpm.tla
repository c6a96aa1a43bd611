----------------------------- MODULE MC_SppTpm -----------------------------
(***************************************************************************)
(* SppTpm for TLC: one register address and one or two data byte values. *)
(***************************************************************************)
EXTENDS SppTpm

CONSTANTS A1, V1, V2

MC_Addrs == {A1}
MC_Values == {V1, V2}
MC_OneValue == {V1}
=============================================================================
