--------------------------- MODULE MCRemediation ---------------------------
(* The keys are only compared, so permuting them changes nothing.            *)
EXTENDS Remediation

KeySymmetry == Permutations(Keys)
=============================================================================
