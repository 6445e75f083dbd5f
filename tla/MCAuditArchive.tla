--------------------------- MODULE MCAuditArchive ---------------------------
(* Small instances of AuditArchive.  The archivers are model values; rows,  *)
(* times and segments are small intervals bounded by the .cfg.              *)
EXTENDS AuditArchive, TLC
CONSTANTS a1, a2

Interchangeable == Permutations(Archivers)
=============================================================================
