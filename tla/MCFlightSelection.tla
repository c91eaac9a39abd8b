--------------------------- MODULE MCFlightSelection ---------------------------
(* Two flights of one aircraft, one with gaps in its airline and its reports.  *)
EXTENDS FlightSelection, TLC

Seen(f, a, times) ==
    {[flight |-> f, aircraft |-> "x", airline |-> a, day |-> h[1], hour |-> h[2]] : h \in times}

MCFlight == {"f1", "f2"}
MCAircraftOf == [f \in MCFlight |-> "x"]
MCReport ==
    Seen("f1", "AA", {<<0, 0>>, <<0, 1>>, <<1, 0>>, <<2, 0>>})
    \cup Seen("f1", Null, {<<1, 0>>, <<2, 0>>})
    \cup Seen("f2", Null, {<<1, 0>>, <<1, 1>>})
    \cup Seen(None, "AA", {<<1, 1>>})

Flags(day, until, airline, flights, jobs, table, src) ==
    [day |-> day, until |-> until, airline |-> airline, flights |-> flights,
     jobs |-> jobs, table |-> table, src |-> src]

MCFlaky == {<<1, 1>>}

MCLookup == <<"lut", "j">> :> [day |-> 1, flights |-> {"f1"}]

MCSubmission ==
    {Flags(1, 2, "AA", {}, None, None, "bq"),
     Flags(1, None, Null, {}, None, None, "gcs"),
     Flags(1, None, "AA", {}, None, None, "gcs"),
     Flags(1, None, None, {"f1"}, None, None, "bq"),
     Flags(1, None, None, {"f1"}, {"j"}, "lut", "bq"),
     Flags(None, None, None, {}, {"j", Blank}, "lut", "gcs"),
     Flags(None, None, "AA", {}, {"j"}, "lut", "bq")}
MCNullSubmission == {Flags(1, None, Null, {}, None, None, "gcs")}
===============================================================================
