--------------------------- MODULE MCPackageClaim ---------------------------
(***************************************************************************)
(* Instances of PackageClaim: three orders over two packages, one of them  *)
(* opened before claims existed, two of them asking for the same one.      *)
(***************************************************************************)
EXTENDS PackageClaim, TLC

CONSTANTS o1, o2, o3, p1, p2, r1, r2

OneOldFile == [o \in Orders |-> IF o = o1 THEN p1 ELSE None]
NoOldFile == [o \in Orders |-> None]
WishTwo == [o \in Orders |-> IF o = o1 THEN p1 ELSE p2]
=============================================================================
