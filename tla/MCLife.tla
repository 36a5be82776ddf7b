------------------------------- MODULE MCLife -------------------------------
(* Instances of the process life for TLC. *)
EXTENDS Life

CONSTANTS p1, p2, m1, k1, k2, w1

\* A single piece and a machine of which there are two.
MCCabinets == {"mk2", "tmnt"}
MCSeeded == [c \in MCCabinets |-> IF c = "mk2" THEN 1 ELSE 2]

\* README.md:120-142: `make compose-up` first, which runs the migrate container;
\* `make run-catalog` when it is done.
ComposeIsUp == \A m \in Tools : pc[m] = "down" /\ version[SearchPath(m)] = Latest
ComposedNext == Next /\ \A p \in Processes : pc[p] = "down" /\ pc'[p] # "down" => ComposeIsUp
ComposedSpec == Init /\ [][ComposedNext]_vars

\* README.md:133: "`make run-catalog` runs the same migrations again (no-op if already
\* applied)".  After compose-up they have been applied, so that no start of the catalog
\* (main.go:70) may find that an earlier one has left a dirty version behind.
RerunIsNoOp == \A p \in Processes : refused[p] # "dirty"
=============================================================================
