---------------------------- MODULE ColourSchemes ----------------------------
(***************************************************************************)
(* Terminals that use the colour scheme of a ColourEditor (roxterm.c): what *)
(* they read from its file, what the editor's signals change and what they *)
(* make VTE show.                                                          *)
(***************************************************************************)
EXTENDS ColourEditor

CONSTANT Terms     \* terminals

VARIABLES
    users,       \* the terminals with this colour scheme
    scheme,      \* the Options they share
    shown        \* the colours VTE was given for each

vars == <<editorVars, bus, users, scheme, shown>>

Derived == "derived from text and background"

TypeOK == /\ EditorTypeOK
          /\ users \subseteq Terms
          /\ scheme \in Scheme
          /\ shown \in [Terms -> [Keys -> Colour \cup {Unset, Derived}]]

Init == /\ EditorInit
        /\ users = {}
        /\ scheme = file
        /\ shown = [t \in Terms |-> [k \in Keys |-> Unset]]

-----------------------------------------------------------------------------

\* roxterm_apply_colour_scheme
BoldColour(s) ==
    IF s.colour["bold"] = Unset /\ s.size = 0
         /\ s.colour["foreground"] # Unset /\ s.colour["background"] # Unset
    THEN Derived ELSE s.colour["bold"]

View(s) == [k \in Keys |->
              CASE k \in Pairs -> s.colour[k]
                [] k = "bold" -> BoldColour(s)
                [] k \in Entries -> IF SizeFor(k) <= s.size THEN Entry(s, k) ELSE Unset]

\* roxterm_change_colour_scheme: the first terminal to choose the scheme has it
\* read from its file.
Select(t) ==
    /\ t \notin users
    /\ users' = users \cup {t}
    /\ scheme' = IF users = {} THEN file ELSE scheme
    /\ shown' = [shown EXCEPT ![t] = View(scheme')]
    /\ UNCHANGED <<editorVars, bus>>

\* Another scheme is chosen, or the terminal is closed.
Leave(t) == /\ t \in users
            /\ users' = users \ {t}
            /\ UNCHANGED <<editorVars, bus, scheme, shown>>

\* roxterm_update_colour_option; a palette entry is compared with its default
\* if it is not set.
UpdateColour(s, k, c) ==
    IF c = (IF k \in Entries THEN Entry(s, k) ELSE s.colour[k])
    THEN s ELSE [s EXCEPT !.colour[k] = c]

\* roxterm_reflect_colour_change
Reflect(s, k) ==
    shown' = [t \in Terms |->
                IF t \notin users THEN shown[t]
                ELSE IF k \in {"cursor", "cursorfg", "bold"}
                     THEN [shown[t] EXCEPT ![k] = s.colour[k]]
                     ELSE View(s)]

\* Slip: a colour that is taken away stays.
ColourArrivesSet(s, signal) ==
    LET updated == IF signal.value = Unset THEN s
                   ELSE UpdateColour(s, signal.key, signal.value)
    IN  /\ scheme' = updated
        /\ IF updated = s THEN UNCHANGED shown ELSE Reflect(updated, signal.key)

\* roxterm_opt_signal_handler for "Colours/..."
ColourArrives(s, signal) ==
    LET updated == UpdateColour(s, signal.key, signal.value)
    IN  /\ scheme' = updated
        /\ IF updated = s THEN UNCHANGED shown ELSE Reflect(updated, signal.key)

\* roxterm_update_palette_size: the size goes to the cached data only, which
\* applying the scheme parses anew from the key file.
SizeArrives(s, signal) ==
    /\ scheme' = s
    /\ IF signal.size = s.size THEN UNCHANGED shown ELSE Reflect(s, "palette_size")

\* optsdbus_message_filter: with no terminal using it, the scheme is read for
\* the signal's sake and freed again.
Receive ==
    /\ bus # <<>>
    /\ IF users = {} THEN UNCHANGED <<scheme, shown>>
       ELSE IF Head(bus).key = "palette_size" THEN SizeArrives(scheme, Head(bus))
       ELSE ColourArrives(scheme, Head(bus))
    /\ bus' = Tail(bus)
    /\ UNCHANGED <<editorVars, users>>

Next == \/ EditorNext /\ UNCHANGED <<users, scheme, shown>>
        \/ Receive
        \/ \E t \in Terms : Select(t) \/ Leave(t)

Spec == Init /\ [][Next]_vars

-----------------------------------------------------------------------------
(* Properties.                                                             *)

\* The dialog says what is in the file: the toggle buttons which colours are
\* set, the colour buttons which they are.  (Revert may break this.)
DialogShowsFile ==
    editor.open /\ ~reverted =>
      /\ "set_fgbg" \in editor.on <=> \E k \in {"foreground", "background"} :
                                         file.colour[k] # Unset
      /\ "set_cursor_colour" \in editor.on <=> file.colour["cursor"] # Unset
      /\ "set_bold_colour" \in editor.on <=> file.colour["bold"] # Unset
      /\ "use_custom_colours" \in editor.on <=> file.size # 0
      /\ file.size \in {0, editor.radio}
      /\ \A k \in Keys : file.colour[k] \in {Unset, editor.button[k]}

\* While the text and background colours track the palette they are its
\* entries 0 and 7, in the file as well as in the dialog.
TrackedColoursAgree ==
    editor.open /\ "fgbg_track_palette" \in editor.on =>
      /\ file.size # 0
      /\ file.colour["foreground"] = Entry(file, "0")
      /\ file.colour["background"] = Entry(file, "7")

\* Once the signals have arrived, every terminal with the scheme shows what
\* the file says, whether it read the file or heard of each change.  (The size
\* of the palette does not arrive, and a bold colour taken away leaves VTE's
\* instead of the derived one.)
TerminalsShowFile ==
    bus = <<>> => \A t \in users, k \in Keys :
      \/ k \in Entries /\ (shown[t][k] = Unset \/ file.size < SizeFor(k))
      \/ k = "bold" /\ file.colour[k] = Unset
      \/ shown[t][k] = View(file)[k]
=============================================================================
