----------------------------- MODULE MCImGuiMachine -----------------------------
(* Three machine configurations, each loadable or not.  The second and     *)
(* third are "Sony" and "SONY", a group that differs only in case; the     *)
(* first may join that group, or sit before or after it as "HB-F1",        *)
(* "Sony HB-F1" or its configuration name.  Ranks give the case-insensitive *)
(* order: HB-F1 < Sony = SONY < the configuration names.                  *)
EXTENDS ImGuiMachine

CONSTANTS c1, c2, c3
MCConfigs == {c1, c2, c3}
MCConfigName == (c1 :> Word("Sony_HB-F1", 4)) @@ (c2 :> Word("Sony_HB-F1XD", 5))
                    @@ (c3 :> Word("Sony_HB-F1II", 6))
\* c1's manufacturer and code may be empty; only c1 has a type.
MCMetas == (c1 :> [manufacturer : {EmptyWord, Word("Sony", 2)},
                   code : {EmptyWord, Word("HB-F1", 1)}, type : {Word("MSX2", 8)}])
        @@ (c2 :> [manufacturer : {Word("Sony", 2)}, code : {EmptyWord}, type : {EmptyWord}])
        @@ (c3 :> [manufacturer : {Word("SONY", 2)}, code : {EmptyWord}, type : {EmptyWord}])
(* No search, and "hb-f1 xd": "hb-f1" occurs in the code and in every      *)
(* configuration name (bare or in parentheses, rank - 100), "xd" only in   *)
(* c2's name.                                                             *)
MCFilterStrings == {<<>>, <<[text |-> "hb-f1", within |-> {1, 4, 5, 6, -96, -95, -94}],
                            [text |-> "xd", within |-> {5, -95}]>>}
==============================================================================
