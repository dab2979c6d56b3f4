-------------------------- MODULE MCLifecycleJobs --------------------------
(* Small studios for TLC: each stresses some automations with the workers and *)
(* requests they need.                                                        *)
EXTENDS LifecycleJobs, TLC

CONSTANTS w1, w2, r1, r2, r3

Studio(used, workers, requests, changes) ==
    [uses |-> used, crew |-> workers, calls |-> requests, upsets |-> changes]

FewStudios ==
    { Studio({"waiver"}, {w1, w2}, {r1, r2}, 0),
      Studio({"waiver"}, {w1}, {r1, r2}, 1),
      Studio({"waiver"}, {w1}, {r1, r2, r3}, 0),
      Studio({"reminder", "followup"}, {w1}, {r1, r2}, 1),
      Studio({"confirmation"}, {w1, w2}, {r1, r2}, 1),
      Studio({"nudge"}, {w1, w2}, {r1, r2}, 1) }

Symmetry == Permutations({r1, r2})
=============================================================================
