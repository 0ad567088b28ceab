---------------------------- MODULE MCDomainWork ----------------------------
(* Small instances of DomainWork: one domain row, the wake row of its one  *)
(* dependency and two executors.                                           *)
EXTENDS DomainWork, TLC

CONSTANTS item, wake, dep, w1, w2

MCWork == {item, wake}
MCDeps == {dep}
MCWakeOf == dep :> wake
MCWorkers == {w1, w2}
MCSymmetry == Permutations(MCWorkers)
=============================================================================
