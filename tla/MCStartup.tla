------------------------------ MODULE MCStartup ------------------------------
(* The command lines TLC combines: each way of running, and the options that *)
(* stay set in the process that serves them.                                *)
EXTENDS Startup

MCCommandLines == { {"separate", "fork"}, {"session", "replace", "fullscreen"},
                    {"fork", "no command"}, {"fork", "maximise", "borderless"},
                    {"tab"} }
MCFewCommandLines == { {}, {"fork"} }
=============================================================================
