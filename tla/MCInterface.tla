----------------------------- MODULE MCInterface -----------------------------
(* Interface for TLC: a build without APNG, one translation installed, and  *)
(* a configuration file that may name another.                              *)
EXTENDS Interface

MCSupported == FormatNames \ {"APNG"}
=============================================================================
