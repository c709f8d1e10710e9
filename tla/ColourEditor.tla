---------------------------- MODULE ColourEditor ----------------------------
(***************************************************************************)
(* The editor of one colour scheme in roxterm-config (colourgui.c), the    *)
(* scheme it edits (colourscheme.c) and the file it saves it in.           *)
(*                                                                         *)
(* Handlers call each other: setting a toggle button runs its handler,     *)
(* unless the code has silenced it, in the middle of the one that sets it, *)
(* and each may save and send.  So a handler here is an operator from one  *)
(* state of the editor to the next, and an action applies one of them.     *)
(*                                                                         *)
(* Of the palette, three entries stand for all sixteen: 0 and 7, which the *)
(* text and background may track, and 8 for those of the second row.  The  *)
(* colour a key has by default is written as the key.                      *)
(***************************************************************************)
EXTENDS Integers, Sequences

CONSTANTS Colours,     \* colours the user chooses from
          Initial,     \* what the file may hold at first
          MaxChanges   \* bound: how often the user changes the scheme

VARIABLES
    editor,      \* the ColourGUI and the Options it edits
    orig,        \* orig_scheme, for the Revert button
    file,        \* the scheme in the user's directory
    bus,         \* signals on their way to the terminals
    changes,     \* how many changes the user has made
    reverted     \* history: Revert has been used in this dialog

editorVars == <<editor, orig, file, changes, reverted>>

Unset == "unset"
Pairs == {"foreground", "background", "cursor", "cursorfg"}
Named == Pairs \cup {"bold"}
Entries == {"0", "7", "8"}
Keys == Named \cup Entries
Sizes == {0, 8, 16}
Toggles == {"set_fgbg", "fgbg_track_palette", "use_custom_colours",
            "set_cursor_colour", "set_bold_colour"}

Colour == Colours \cup Keys

\* The smallest palette with entry k.
SizeFor(k) == IF k = "8" THEN 16 ELSE 8

Scheme == [colour : [Keys -> Colour \cup {Unset}], size : Sizes]
Signal == [key : Keys \cup {"palette_size"}, value : Colour \cup {Unset}, size : Sizes]

Editor == [open : BOOLEAN,
           kf : Scheme,                               \* the key file
           cache : [Named -> Colour \cup {Unset}],    \* the ColourScheme
           button : [Keys -> Colour],                 \* the colour buttons
           on : SUBSET Toggles,                       \* the toggle buttons
           radio : {8, 16}, rows : Sizes,             \* the palette's size and
                                                      \* its sensitive buttons
           sent : Seq(Signal)]                        \* by this handler

ASSUME ColoursAssumption == Unset \notin Colours
ASSUME InitialAssumption == Initial \subseteq Scheme
ASSUME MaxChangesAssumption == MaxChanges \in Nat

EditorTypeOK == /\ editor \in Editor /\ editor.sent = <<>>
                /\ orig \in Scheme /\ file \in Scheme
                /\ bus \in Seq(Signal)
                /\ changes \in 0..MaxChanges
                /\ reverted \in BOOLEAN

Fresh(s) == [open |-> FALSE, kf |-> s, cache |-> [k \in Named |-> Unset],
             button |-> [k \in Keys |-> k], on |-> {}, radio |-> 8, rows |-> 0,
             sent |-> <<>>]

-----------------------------------------------------------------------------
(* The scheme; e is the editor.                                            *)

\* colour_scheme_get_palette: missing entries have their default.
Entry(s, k) == IF s.colour[k] = Unset THEN k ELSE s.colour[k]

\* colour_scheme_get_named_colour with allow_null: the key file is looked at
\* only as long as no colour is cached.
Get(e, k) == IF e.cache[k] # Unset THEN e.cache[k] ELSE e.kf.colour[k]

\* ... and without it.
GetOrDefault(e, k) == IF Get(e, k) = Unset THEN k ELSE Get(e, k)

Cache(e, k, c) == [e EXCEPT !.cache[k] = c]

\* capplet_set_string, which saves and sends.
SetString(e, k, c) ==
    [e EXCEPT !.kf.colour[k] = c,
              !.sent = Append(@, [key |-> k, value |-> c, size |-> 0])]

\* capplet_set_int
SetPaletteSize(e, n) ==
    [e EXCEPT !.kf.size = n,
              !.sent = Append(@, [key |-> "palette_size", value |-> Unset, size |-> n])]

\* colourgui_set_colour_option
SetColourOption(e, k, c) == SetString(Cache(e, k, c), k, c)

\* COLOURGUI_SET_COLOUR_OPTION(_FROM_WIDGET) for a key that a toggle button sets
\* or clears.
SetOrClear(e, toggle, k) ==
    SetColourOption(e, k, IF toggle \in e.on THEN e.button[k] ELSE Unset)

Ticked(e, toggle, state) ==
    [e EXCEPT !.on = IF state THEN @ \cup {toggle} ELSE @ \ {toggle}]

-----------------------------------------------------------------------------
(* Handlers.                                                               *)

\* on_color_set for a button that has been set to c.  A palette entry is in
\* the key file already when the tracking colours are saved.
OnColorSet(e, k, c) ==
    LET set == [e EXCEPT !.kf.colour[k] = c]
        track == "fgbg_track_palette" \in e.on
        follow(x, l) == SetString([x EXCEPT !.button[l] = c], l, c)
    IN  IF k \in Named THEN SetColourOption(e, k, c)
        ELSE SetString(CASE k = "7" /\ track -> follow(set, "background")
                         [] k = "0" /\ track -> follow(set, "foreground")
                         [] OTHER -> set,
                       k, c)

\* mirror_colour
Mirror(e, source, target) ==
    SetString([e EXCEPT !.button[target] = e.button[source]],
              target, e.button[source])

\* on_fgbg_track_palette_toggled
OnTrackToggled(e) ==
    IF "fgbg_track_palette" \in e.on
    THEN Mirror(Mirror(e, "7", "background"), "0", "foreground")
    ELSE e

\* colourgui_set_fgbg_track_toggle
SetTrackToggle(e, ignore) ==
    LET asks == "set_fgbg" \in e.on /\ e.kf.size # 0
        fg == Get(e, "foreground")
        bg == Get(e, "background")
        read == IF asks THEN Cache(Cache(e, "foreground", fg), "background", bg) ELSE e
        track == asks /\ fg = Entry(e.kf, "0") /\ bg = Entry(e.kf, "7")
        set == Ticked(read, "fgbg_track_palette", track)
    IN  IF ignore \/ set.on = e.on THEN set ELSE OnTrackToggled(set)

\* Slip: the background is forgotten when both are to be cleared.
OnSetFgbgHalf(e) ==
    LET text == SetOrClear(SetTrackToggle(e, FALSE), "set_fgbg", "foreground")
    IN  IF "set_fgbg" \in e.on THEN SetOrClear(text, "set_fgbg", "background") ELSE text

\* on_set_fgbg_toggled
OnSetFgbgToggled(e) ==
    LET text == SetOrClear(SetTrackToggle(e, FALSE), "set_fgbg", "foreground")
    IN  SetOrClear(text, "set_fgbg", "background")

\* on_set_cursor_colour_toggled
OnSetCursorToggled(e) ==
    SetOrClear(SetOrClear(e, "set_cursor_colour", "cursor"), "set_cursor_colour", "cursorfg")

\* on_set_bold_colour_toggled
OnSetBoldToggled(e) == SetOrClear(e, "set_bold_colour", "bold")

\* colourgui_set_palette_shading
ShadePalette(e) ==
    [e EXCEPT !.rows = IF "use_custom_colours" \in e.on THEN e.radio ELSE 0]

\* Slip: tracking goes on with no palette to track.
KeepTracking(e, size) == e

\* The text and background stop tracking a palette that is not used.
Untrack(e, size) == IF size = 0 THEN Ticked(e, "fgbg_track_palette", FALSE) ELSE e

\* An entry that comes into use and has no colour yet gets its button's.
FillEntry(e, k, size) ==
    IF e.kf.size < SizeFor(k) /\ SizeFor(k) <= size /\ e.kf.colour[k] = Unset
    THEN SetString(e, k, e.button[k]) ELSE e

\* on_use_custom_colours_toggled, on_palette_size_toggled
OnUseCustomToggled(e) ==
    LET size == IF "use_custom_colours" \in e.on THEN e.radio ELSE 0
        row == FillEntry(FillEntry(ShadePalette(Untrack(e, size)), "0", size), "7", size)
    IN  IF size = e.kf.size THEN e ELSE SetPaletteSize(FillEntry(row, "8", size), size)

-----------------------------------------------------------------------------
(* Filling the dialog in: silently when it opens, with the handlers running *)
(* when it is reverted.                                                    *)

\* gtk_toggle_button_set_active
SetToggle(e, toggle, state, ignore, Handler(_)) ==
    LET set == Ticked(e, toggle, state)
    IN  IF ignore \/ set.on = e.on THEN set ELSE Handler(set)

\* Slip: a palette of no colours has a radio button too.
SetPaletteTogglesAll(e, ignore) ==
    [SetToggle(e, "use_custom_colours", e.kf.size # 0, ignore, OnUseCustomToggled)
       EXCEPT !.radio = e.kf.size]

\* colourgui_set_palette_toggles: the radio buttons keep silent.
SetPaletteToggles(e, ignore) ==
    LET set == SetToggle(e, "use_custom_colours", e.kf.size # 0, ignore,
                         OnUseCustomToggled)
    IN  IF e.kf.size = 0 THEN set ELSE [set EXCEPT !.radio = e.kf.size]

IsSet(e, ks) == \E k \in ks : e.kf.colour[k] # Unset

\* colourgui_set_all_toggles
SetAllToggles(e, ignore) ==
    LET a == SetToggle(e, "set_fgbg", IsSet(e, {"foreground", "background"}),
                       ignore, OnSetFgbgToggled)
        b == SetTrackToggle(a, ignore)
        c == SetPaletteToggles(b, ignore)
        d == SetToggle(c, "set_cursor_colour", IsSet(c, {"cursor"}),
                       ignore, OnSetCursorToggled)
    IN  SetToggle(d, "set_bold_colour", IsSet(d, {"bold"}), ignore, OnSetBoldToggled)

\* The colour a button is filled in with, ...
ColourOf(e, k) == IF k \in Named THEN GetOrDefault(e, k) ELSE Entry(e.kf, k)

\* ... which looking a named colour up puts in the cache.
ShowColour(e, k) ==
    [IF k \in Named THEN Cache(e, k, ColourOf(e, k)) ELSE e
       EXCEPT !.button[k] = ColourOf(e, k)]

\* colourgui_set_colour_widget, for a colour looked up just before it.
SetColourWidget(e, k, ignore) ==
    IF ignore THEN ShowColour(e, k) ELSE OnColorSet(ShowColour(e, k), k, ColourOf(e, k))

\* colourgui_fill_in_dialog
FillInDialog(e, ignore) ==
    LET Fill(x, k) == SetColourWidget(x, k, ignore)
        palette == Fill(Fill(Fill(ShadePalette(SetAllToggles(e, ignore)), "0"), "7"), "8")
        text == Fill(Fill(palette, "foreground"), "background")
        cursor == Fill(Fill(text, "cursor"), "cursorfg")
    IN  Fill(cursor, "bold")

-----------------------------------------------------------------------------
(* What the user does.                                                     *)

\* The handler ends: what it saved and sent.
Finish(e) == /\ editor' = [e EXCEPT !.sent = <<>>]
             /\ file' = IF e.sent = <<>> THEN file ELSE e.kf
             /\ bus' = bus \o e.sent

Change(e) == /\ editor.open /\ changes < MaxChanges
             /\ changes' = changes + 1
             /\ Finish(e)
             /\ UNCHANGED orig

Edit(e) == Change(e) /\ UNCHANGED reverted

\* colourgui_open
Open == /\ ~editor.open
        /\ editor' = FillInDialog([Fresh(file) EXCEPT !.open = TRUE], TRUE)
        /\ orig' = file
        /\ reverted' = FALSE
        /\ UNCHANGED <<file, bus, changes>>

\* colourgui_delete
Close == /\ editor.open
         /\ editor' = Fresh(file)
         /\ UNCHANGED <<orig, file, bus, changes, reverted>>

\* The colour buttons that can be used.
Sensitive(e) ==
    {k \in Entries : SizeFor(k) <= e.rows}
      \cup (IF "set_fgbg" \in e.on /\ "fgbg_track_palette" \notin e.on
            THEN {"foreground", "background"} ELSE {})
      \cup (IF "set_cursor_colour" \in e.on THEN {"cursor", "cursorfg"} ELSE {})
      \cup (IF "set_bold_colour" \in e.on THEN {"bold"} ELSE {})

ChooseColour(k, c) ==
    /\ k \in Sensitive(editor)
    /\ Edit(OnColorSet([editor EXCEPT !.button[k] = c], k, c))

\* A click on a toggle button, which turns it over and runs its handler.
Clicked(toggle) == Ticked(editor, toggle, toggle \notin editor.on)

ClickFgbg == Edit(OnSetFgbgToggled(Clicked("set_fgbg")))
ClickTrack == /\ {"set_fgbg", "use_custom_colours"} \subseteq editor.on
              /\ Edit(OnTrackToggled(Clicked("fgbg_track_palette")))
ClickCustom == Edit(OnUseCustomToggled(Clicked("use_custom_colours")))
ClickCursor == Edit(OnSetCursorToggled(Clicked("set_cursor_colour")))
ClickBold == Edit(OnSetBoldToggled(Clicked("set_bold_colour")))
ClickSize(n) == /\ editor.rows > 0 /\ n # editor.radio
                /\ Edit(OnUseCustomToggled([editor EXCEPT !.radio = n]))

\* colourgui_revert
Revert == /\ Change(FillInDialog([editor EXCEPT !.kf = orig,
                                                !.cache = [k \in Named |-> Unset]],
                                 FALSE))
          /\ reverted' = TRUE

EditorInit == /\ file \in Initial
              /\ editor = Fresh(file) /\ orig = file
              /\ bus = <<>> /\ changes = 0 /\ reverted = FALSE

EditorNext == \/ Open \/ Close \/ Revert
              \/ ClickFgbg \/ ClickTrack \/ ClickCustom \/ ClickCursor \/ ClickBold
              \/ \E n \in {8, 16} : ClickSize(n)
              \/ \E k \in Keys, c \in Colours : ChooseColour(k, c)
=============================================================================
