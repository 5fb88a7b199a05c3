------------------------------- MODULE MCQemu -------------------------------
(* Model constants: the runtime directories of run_validation, and the     *)
(* candidates that do nothing wrong, one thing, or two at once.            *)
EXTENDS QemuValidation

MCRuntimes == {"ssh-runtime", "stock", "candidate-present", "candidate-crash",
               "candidate-sd-absent"}

MCCandidates == {{}} \cup {{a, b} : a \in Flaws, b \in Flaws}

=============================================================================
