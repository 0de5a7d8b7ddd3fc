------------------------- MODULE MCCommandLineParser -------------------------
(* Model-checking instance of CommandLineParser: every command line of up  *)
(* to four arguments over the five options, a Name and the file names.     *)
(* unsigned and size_t are both 8 bits wide: a 32-bit build, scaled.       *)
EXTENDS CommandLineParser

MCMaxArgs == 4
MCUBits   == 8
MCSizeBits == 8

(* The file names of the parse run: "r.r.g" (game.rom.gz), "r.g" (a .gz   *)
(* without an inner extension), "r.r,g" (an extension cut at a comma) and  *)
(* "r" (no dot, the text of an extension).                                 *)
MCFileNames == {<<"r", ".", "r", ".", "g">>, <<"r", ".", "g">>,
                <<"r", ".", "r", ",", "g">>, <<"r">>}

\* One registered ROM file, for the runs about the option handlers.
MCOneFileName == {<<"r", ".", "r">>}
==============================================================================
