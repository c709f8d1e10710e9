------------------------------ MODULE MCSession ------------------------------
(* A profile that names a colour scheme and hides the menu bar and one that *)
(* does neither, and files made by hand, for TLC.                           *)
EXTENDS Session

MCSchemeOf == [p \in Profiles |-> IF p = "dark" THEN "night" ELSE GTK]

Edited == [tag |-> "tab", profile |-> "dark", title |-> "own", current |-> FALSE,
           scheme |-> NoScheme]
Tag(t) == [tag |-> t]
OpenedWindow == <<Tag("session"), [tag |-> "window", look |-> {"menubar"}]>>
Finish == <<Tag("/window"), Tag("/session")>>

\* A window without tabs; a command without arguments, and two in one tab; a tab
\* in a tab; a window after another in which no tab is the current one.
MCForeign == { OpenedWindow \o Finish,
               OpenedWindow \o <<Edited, [tag |-> "command", argc |-> 1], Tag("/command"),
                                 Tag("/tab")>> \o Finish,
               OpenedWindow \o <<Edited, [tag |-> "command", argc |-> 1], Tag("/command"),
                                 [tag |-> "command", argc |-> 1], Tag("/command"),
                                 Tag("/tab")>> \o Finish,
               OpenedWindow \o <<Edited, Tag("/tab"), Edited, Edited, Tag("/tab"),
                                 Tag("/tab")>> \o Finish,
               OpenedWindow \o <<Edited, Tag("/tab"), [Edited EXCEPT !.current = TRUE],
                                 Tag("/tab"), Tag("/window"),
                                 [tag |-> "window", look |-> {"fullscreen"}],
                                 Edited, Tag("/tab")>> \o Finish }
=============================================================================
