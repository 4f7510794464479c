----------------------------- MODULE MCChecker -----------------------------
(* Two variants m and mt of one package of the main module, sharing a file. Each      *)
(* imports a variant of a dependency e, and those, like mt, a variant of a dependency d: *)
(* the same packages under two names in the load.                                     *)
EXTENDS Checker

CONSTANTS m, mt, e, et, d, dt, fm, ft, fd, fe

MCPackage == {m, mt, e, et, d, dt}
MCFaults == {{}, {dt}, {e}}
MCFile == {fm, ft, fe, fd}
MCImports == [p \in MCPackage |->
  CASE p = m -> {e} [] p = mt -> {et, dt} [] p = e -> {d} [] p = et -> {dt} [] OTHER -> {}]
MCFiles == [p \in MCPackage |->
  CASE p = m -> {fm} [] p = mt -> {fm, ft} [] p \in {e, et} -> {fe} [] OTHER -> {fd}]
MCContent == [p \in MCPackage |->
  IF p \in {d, dt} THEN d ELSE IF p \in {e, et} THEN e ELSE p]
=============================================================================
