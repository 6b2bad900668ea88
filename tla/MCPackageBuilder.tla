-------------------------- MODULE MCPackageBuilder ---------------------------
(* Instances of PackageBuilder for TLC. *)
EXTENDS BuilderProperties, MCResolver

NoFault == {{}}
OneFault == {{}} \cup {{p} : p \in Paths}

\* The theorem BuildFollowsOrder speaks of the projects of PackageBuilder_order.cfg.
ASSUME StraightAssumption == \A q \in AcyclicProjects : Straight(q)

=============================================================================
