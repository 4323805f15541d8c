----------------------------- MODULE MCMapConfig -----------------------------
(* Small instances of DeviceConfig, MapConfig and ConfigPages for TLC. *)
EXTENDS ConfigPages, TLC

\* Ids, names, addresses, codes and file names are only ever compared.
Symmetry == UNION {Permutations(S) : S \in {Ports, Controllers, Detectors, Names, Codes}}
=============================================================================
