------------------------- MODULE MCSectionExchange --------------------------
(* Small instances of SectionExchange for TLC. *)
EXTENDS SectionExchange, TLC

CONSTANTS t1, t2, phase, planA, planB, r1

\* The walk: the top-level files first, then plans/; each draft after its file.
MCFiles == <<phase, planA, planB>>
MCWalkRank ==
    [e \in Entries |->
        2 * (CHOOSE i \in 1 .. 3 : MCFiles[i] = e[1])
            + (IF e[2] = "tmp" THEN 1 ELSE 0)]

\* Two groups with a plan each, or both plans in one group.
MCOwnerSplit == (planA :> t1) @@ (planB :> t2)
MCOwnerJoint == [f \in {planA, planB} |-> t1]

MCConfigAll == {{planA, planB}}
MCConfigShrinks == {{planA}, {planA, planB}}
=============================================================================
