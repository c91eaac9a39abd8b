------------------------------ MODULE MCJobFactory ------------------------------
(* Instances of the job factory.  Each run picks its messages from Catalogue.  *)
(* The rehearsal, a dry run of airlineDay, is fetched before the rows of the   *)
(* second flight arrive: it can account for the first flight only.             *)
EXTENDS JobFactory

Airline(day, dry) ==
    [day |-> day, airline |-> "AA", flight |-> None, jobId |-> None, table |-> None,
     met |-> "hres", dryRun |-> dry]
OneFlight ==
    [day |-> "d1", airline |-> None, flight |-> "f", jobId |-> None, table |-> None,
     met |-> "era5", dryRun |-> FALSE]
JobId ==
    [day |-> None, airline |-> None, flight |-> None, jobId |-> "j", table |-> "lut",
     met |-> "era5", dryRun |-> FALSE]
Ambiguous ==
    [day |-> "d1", airline |-> "AA", flight |-> "f", jobId |-> None, table |-> None,
     met |-> "hres", dryRun |-> FALSE]

Catalogue ==
    [airlineDay |-> Airline("d1", FALSE), rehearsal |-> Airline("d1", TRUE),
     nextDay |-> Airline("d2", FALSE), longDay |-> Airline("d3", FALSE),
     single |-> OneFlight, byJob |-> JobId,
     ambiguous |-> Ambiguous, garbage |-> OneFlight, toxic |-> Airline("d4", FALSE),
     tooSmall |-> Airline("d5", FALSE)]
Outcomes ==
    [airlineDay |-> <<"good", "good">>, rehearsal |-> <<"good">>,
     nextDay |-> <<"good">>, longDay |-> <<"good", "good", "good">>,
     single |-> <<"good">>, byJob |-> <<"good", "ejected", "unbuildable">>,
     ambiguous |-> <<"good">>, garbage |-> <<>>, toxic |-> <<"good", "poison", "good">>,
     tooSmall |-> <<>>]

MCDescriptor == [t \in Twjd |-> Catalogue[t]]
MCVerdicts == [t \in Twjd |-> Outcomes[t]]
MCAlone == {{t} : t \in Twjd}
MCTogether == MCAlone \cup {{"airlineDay", "rehearsal"}, {"nextDay", "rehearsal"}}
MCUndecodable == {"garbage"} \cap Twjd
MCUnfetchable == {"tooSmall"} \cap Twjd
===============================================================================
