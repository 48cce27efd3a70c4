---------------------------- MODULE MCConfigStore ----------------------------
(***************************************************************************)
(* A small instance of ConfigStore: two files that parse and one that does *)
(* not, one edit that checks over either file and one only over the first. *)
(***************************************************************************)
EXTENDS ConfigStore

CONSTANTS f, g, broken, d, e

MCFiles == {f, g, broken}
MCEdits == {d, e}
MCAccepts == {Config(f, f), Config(g, g), Config(f, d), Config(g, d), Config(f, e)}
=============================================================================
