---------------------------- MODULE MCOsc52Filter ----------------------------
(***************************************************************************)
(* Reads for Osc52Filter that cut an OSC 52 sequence at every place, and   *)
(* some that hold more than one thing.                                     *)
(***************************************************************************)
EXTENDS Osc52Filter

MCText == {"a", "b"}

\* Pieces of seven bit sequences (the only ones Texts knows), some with more
\* than one thing in them, and of eight bit ones.
MCChunks == { <<"ESC">>,
              <<"ESC", "bracket", "5">>,
              <<"bracket", "5", "2">>,
              <<"2", "semicolon", "a">>,
              <<"semicolon", "a", "b", "a", "BEL">>,
              <<"2", "semicolon", "a", "b", "a">>,
              <<"2", "semicolon", "b", "ESC">>,
              <<"ESC", "bracket", "5", "2", "semicolon", "b", "ESC">>,
              <<"backslash">>,
              <<"BEL">>,
              <<"a", "b">>,
              <<"OSC", "5">>,
              <<"2", "2", "semicolon", "a", "BEL">>,
              <<"OSC", "2", "semicolon", "a", "BEL">>,
              <<"ESC", "bracket", "5", "2", "semicolon", "b", "ESC", "backslash", "a">>,
              <<"ESC", "bracket", "5", "2", "semicolon", "a", "query", "b", "BEL">>,
              <<"OSC", "5", "2", "semicolon", "a", "b", "a", "b", "ST">> }

=============================================================================
