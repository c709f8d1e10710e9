--------------------------- MODULE MCColourSchemes ---------------------------
(* A scheme without colours and one whose text and background are those of  *)
(* a palette with a default entry, for TLC.                                 *)
EXTENDS ColourSchemes

Empty == [colour |-> [k \in Keys |-> Unset], size |-> 0]
Tracking == [colour |-> [k \in Keys |->
                CASE k \in {"foreground", "0"} -> "white"
                  [] k = "background" -> "7"
                  [] OTHER -> Unset],
             size |-> 8]

MCInitial == {Empty, Tracking}
=============================================================================
