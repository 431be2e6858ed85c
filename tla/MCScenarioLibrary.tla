--------------------------- MODULE MCScenarioLibrary ---------------------------
(***************************************************************************)
(* ScenarioLibrary on small sets; runs, verifies, levels, areas and tables *)
(* are only compared.                                                      *)
(***************************************************************************)
EXTENDS ScenarioLibrary, TLC

Interchangeable ==
    Permutations(Runs) \cup Permutations(Checks) \cup Permutations(Levels)
        \cup Permutations(Areas) \cup Permutations(Tables)

\* The lever's values are further apart than the hash rounds.
Apart(level) == level

\* All that is scored shows in the outcome, but on the first CBS file the two universes
\* have the same class and average.
AllShows(lever, universe, area, tables, file) ==
    <<lever, area, tables, IF universe = "populated" THEN file ELSE 1>>

Scored == {AllShows(lever, universe, area, tables, file) :
              lever \in Levels, universe \in Universe, area \in Places,
              tables \in Files, file \in Versions}

===============================================================================
