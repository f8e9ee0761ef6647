--------------------------- MODULE MCPreferences ---------------------------
(***************************************************************************)
(* Preferences for TLC: a mode, the system's, a preset with a palette of   *)
(* its own and one without; damaged and outdated values to start from.     *)
(***************************************************************************)
EXTENDS Preferences

MCChoices == {Mode("system"), Mode("dark"), Preset("ocean"), Preset("github-dark")}
MCOldSelections == {[kind |-> "corrupt", id |-> ""], Preset(""), Mode("sepia"), Preset("gone")}
Number(h) == [kind |-> "number", half |-> h]
MCOldWidths == {Missing, Number(-3), Number(99)}
MCOldLanguages == {<<>>, << <<"xx">> >>, << <<"ru", "RU">> >>}
MCCodes == {<<"en">>, <<"fr">>, <<"xx">>, <<"de">>, <<"ru", "RU">>, <<"es", "MX">>}
MCLanguages == {<<"en">>, <<"fr">>}
MCNavigator == << <<"de">>, <<"es", "MX">> >>

============================================================================
