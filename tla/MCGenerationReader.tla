-------------------------- MODULE MCGenerationReader --------------------------
(***************************************************************************)
(* GenerationReader for TLC, and what the documentation says of it.        *)
(***************************************************************************)
EXTENDS GenerationReader

AllBytes == Byte
FramingBytes == {"[", "]", "comma", "first", "last"}

(***************************************************************************)
(* docs/source-contract.md says that a file truncated before the consumed  *)
(* offset is reported.  drain compares sizes, so a file that was cut and   *)
(* has grown again in the meantime passes for the old one (currentSize).   *)
(***************************************************************************)
CutIsReported == [][(Stat /\ result' = "ok") => ~shrunk]_vars
=============================================================================
