---------------------------- MODULE MCVsbHwmon ----------------------------
(* Instances of VsbHwmon: inputs chosen so that ids repeat across schemas, *)
(* a batch names an unknown id, repeats an id or leaves a kind's range.    *)
EXTENDS VsbHwmon, TLC

Entry(id, v) == [id |-> id, value |-> v]

(* Ids that change their kind, as hostd's numbering by position makes them.*)
MCSchemas == {1 :> "temp", 1 :> "power" @@ 2 :> "temp"}

(* 75 W in microwatts is far beyond the temperature range, 2 kW beyond     *)
(* every range.                                                            *)
MCBatches ==
  { << Entry(1, 45000) >>, << Entry(1, 75000000) >>,
    << Entry(1, 2000000000) >>,
    << Entry(2, 45000), Entry(1, 75000000) >>,
    << Entry(1, 45000), Entry(1, 0) >> }

(* One batch that every schema takes, one refused at its second value.     *)
ApiBatches == {<< Entry(1, 45000) >>, << Entry(1, 75000000), Entry(2, 75000000) >>}

(* The serials do not depend on the data.                                  *)
OneSchema == {1 :> "temp"}
OneBatch == {<< Entry(1, 45000) >>}

MCThreads == Permutations(Callers) \cup Permutations(Objects)
=============================================================================
