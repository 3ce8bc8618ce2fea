----------------------------- MODULE MCAuditChain -----------------------------
(***************************************************************************)
(* Small instances of AuditChain.  Hashes are sequences without repeats,   *)
(* so Seq is bounded by the number of writers; MaxAnchors bounds audits.   *)
(***************************************************************************)
EXTENDS AuditChain, TLC

CONSTANTS w1, w2, w3, v1, a1

\* The writers are interchangeable.
WriterSymmetry == Permutations(Writers)
=============================================================================
