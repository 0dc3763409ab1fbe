-------------------------- MODULE EvidenceRegister --------------------------
(* What the registration of evidence promises, whatever happens to the calls  *)
(* and to the process: once a package and revision is registered it stays      *)
(* registered with the manifest it was registered with, and nothing but a      *)
(* sound package of that name ever is.                                         *)
EXTENDS PackageValidation

CONSTANT Packages  \* the packages that may be handed in

Keys == {p.manifest.key : p \in Packages}

VARIABLE registered  \* the package each key stands for, None if it is not registered

RegisterInit == registered = [k \in Keys |-> None]

\* A key is registered, or judged again with the manifest it has.
Accepts(k, p) ==
  /\ Sound(p)
  /\ p.manifest.key = k
  /\ registered[k] # None => registered[k].manifest.sum = p.manifest.sum

RegisterNext ==
  /\ registered' \in [Keys -> Packages \cup {None}]
  /\ \A k \in Keys : registered'[k] # registered[k] =>
       registered'[k] # None /\ Accepts(k, registered'[k])

RegisterSpec == RegisterInit /\ [][RegisterNext]_registered
=============================================================================
