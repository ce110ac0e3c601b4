-------------------------- MODULE MCLegacyIndexer --------------------------
(* The instance of PackageIndexer that TLC checks. *)
EXTENDS PackageIndexer

MCTrackerOf == [c \in Callers |-> IF c = "c3" THEN "t2" ELSE "t1"]
MCRequests == {<<2, 2>>}
MCMajor == <<1, 1, 2>>

=============================================================================
