---------------------------- MODULE MCUserListing ----------------------------
(* Small instances of UserListing: two seeders that race, or a client that    *)
(* reads the list while one seeder and others write.                          *)
EXTENDS UserListing

CONSTANTS s1, s2, admin, e1, e2

MCSizes == {-1, 1, 2, 3}

VARIABLE scenario

mcvars == <<listingvars, scenario>>

MCInit == ListingInit /\ scenario \in {"seeding", "reading"}

Within ==
    \/ scenario = "seeding" /\ walk' = "off" /\ now' = 0
    \/ /\ scenario = "reading"
       /\ pc'[s2] = "idle" /\ faults' = 0 /\ tried'[s1] =< 1
       /\ trouble' \in {{}, {"grew"}, {"deleted"}}

MCNext == ListingNext /\ Within /\ UNCHANGED scenario

\* Seeders need not end where reading is what matters.
MCSpec ==
    /\ MCInit /\ [][MCNext]_mcvars
    /\ \A s \in Seeders :
          WF_mcvars(scenario = "seeding" /\ Beside(SeederStep(s)) /\ Within
                    /\ UNCHANGED scenario)

\* A run of the seeder ends although every email it draws may be taken:
\* SeedingEnds, in the scenario that is about seeding.
SeedersEnd == scenario = "seeding" => SeedingEnds
=============================================================================
