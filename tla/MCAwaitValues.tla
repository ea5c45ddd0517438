-------------------------- MODULE MCAwaitValues --------------------------
(***************************************************************************)
(* Chunks of four bits instead of 32.  A behaviour has one net: the entries*)
(* of different nets do not meet.  "byte" fits into a chunk, "word" needs  *)
(* two and "wide" three, so the number of the last leaves out its lowest   *)
(* chunk.                                                                  *)
(***************************************************************************)
EXTENDS AwaitValues

MCDesigns == {{"byte"}, {"word"}, {"wide"}}
MCLength == [byte |-> 3, word |-> 6, wide |-> 9]

\* Known bits, unknown bits and a mixture of them, some shorter than the net.
MCStrings == [byte |-> {<<"z", "z", "z">>},
              word |-> {<<"0", "x", "x", "x", "x">>},
              wide |-> {<<"1", "x", "0", "1", "1">>}]

MCDriven == [byte |-> {<<"0", "1", "x">>, <<"1", "0", "1">>},
             word |-> {<<"1", "1", "0", "0", "1", "1">>},
             wide |-> {<<"1", "1", "0", "0", "0", "1", "0", "0", "0">>}]
=============================================================================
