----------------------------- MODULE MCProfiles -----------------------------
(* Two profiles of every driver, and a configuration file for them. *)
EXTENDS Profiles

MCDrivers == {"Boomslang", "Copperhead", "Lachesis", "Imperator", "Lachesis5600"}
MCFreqs   == {125, 250}
MCRes     == {6500}

Section(fits, items) == [fits |-> fits, disabled |-> FALSE, items |-> items]
Says(item, profile, value) == [item |-> item, profile |-> profile, value |-> value]

(* Sections that fit several mice, one that is disabled and hides another, *)
(* one in two parts; items that change, repeat and undo each other, that   *)
(* name no profile, and that are wrong, ignored or meant for other mice.   *)
MCFile ==
  << Section({"Lachesis"},
       << Says("freq", 1, 125), Says("res", 2, 500), Says("res", 2, 1), Says("led", 1, TRUE),
          Says("led", 2, FALSE) >>),
     [Section({"Imperator"}, << Says("profile", 0, 2) >>) EXCEPT !.disabled = TRUE],
     Section({"Boomslang", "Copperhead", "Lachesis"},
       << Says("res", 1, 800), Says("res", 2, 700), Says("profile", 0, 2), Says("res", 0, 400),
          Says("led", 1, FALSE), Says("freq", 2, 250), Says("freq", 1, 125) >>),
     Section({"Imperator", "Lachesis5600"},
       << Says("freq", 1, 125), Says("res", 2, 600), Says("color", 2, "white"),
          Says("mode", 2, "static"), Says("led", 2, TRUE), Says("profile", 0, 2) >>),
     Section({"Lachesis"},
       << Says("profile", 0, 1), Says("profile", 0, 3), Says("led", 1, TRUE) >>),
     Section({"Imperator", "Lachesis5600"},
       << Says("res", 1, 1000), Says("res", 2, 500), Says("led", 2, FALSE) >>) >>

MCFiles == {<<>>, MCFile}
=============================================================================
