------------------------------ MODULE MCPackageRun ------------------------------
(***************************************************************************)
(* An instance of PackageRun for TLC: a released baseline, an IPFS build   *)
(* of the same version, and another release; either may be the candidate.  *)
(***************************************************************************)
EXTENDS PackageRun

Build(version, origin) == [version |-> version, origin |-> origin]

MCBaseline == Build("1.0.0", Registry)
MCCandidates == {Build("1.0.0", "cid"), Build("2.0.0", Registry)}
MCBuilds == {MCBaseline} \cup MCCandidates
================================================================================
