------------------------- MODULE ClipboardIndicator -------------------------
(***************************************************************************)
(* OSC 52 clipboard writes as one roxterm window shows them: the handler   *)
(* of roxterm.c for the terminals of the window, and the indicator button  *)
(* of multitab.c that flashes for each write and, for terminals whose      *)
(* profile asks for confirmation, does the write when it is clicked.       *)
(***************************************************************************)
EXTENDS Integers

CONSTANTS Tab,       \* the terminals in the window
          Text,      \* what programs ask to write
          Empty,     \* a write of nothing, which clears the clipboard
          Selection, \* what the user copies
          NoText     \* a NULL pending_clipboard

ASSUME TextAssumption ==
    /\ Tab # {}
    /\ {Empty, Selection, NoText} \cap Text = {}
    /\ Empty # NoText /\ Selection # NoText /\ Empty # Selection

VARIABLES current,   \* win->current_tab
          mode,      \* roxterm->allow_osc52: 0 ignore, 1 ask, 2 write
          pending,   \* roxterm->pending_clipboard
          clipboard, \* the desktop's clipboard
          show,      \* win->show_clipboard_indicator
          frame,     \* win->clipboard_flash_frame
          ticking,   \* win->clipboard_flash_tag # 0
          visible,   \* the button is shown ...
          opaque,    \* ... and its opacity is 1
          late       \* history: the last frame of the flash was being shown
                     \* already when a write came that is to stay announced

flashVars == <<show, frame, ticking, visible, opaque, late>>

vars == <<current, mode, pending, clipboard, show, frame, ticking, visible,
          opaque, late>>

TypeOK == /\ current \in Tab
          /\ mode \in [Tab -> 0 .. 2]
          /\ pending \in [Tab -> Text \cup {Empty, NoText}]
          /\ clipboard \in Text \cup {Empty, Selection}
          /\ frame \in -1 .. 5
          /\ show \in BOOLEAN
          /\ ticking \in BOOLEAN
          /\ visible \in BOOLEAN
          /\ opaque \in BOOLEAN /\ late \in BOOLEAN

\* multi_win_new_blank hides the button; GTK widgets start opaque.
Init == /\ current \in Tab
        /\ mode \in [Tab -> 0 .. 2]
        /\ pending = [t \in Tab |-> NoText]
        /\ clipboard = Empty
        /\ show = FALSE /\ frame = 0 /\ ticking = FALSE
        /\ visible = FALSE /\ opaque = TRUE /\ late = FALSE

-----------------------------------------------------------------------------
\* What the history has to remember of a flash that is asked for.
Remembers(wanted, hidden) ==
    late' = (ticking /\ (late \/ (frame = 0 /\ wanted /\ ~hidden)))

(* Slips: a new flash starts over, or adds its frames to the running one.  *)
FlashRestarts(wanted, hidden) ==
    /\ show' = (wanted /\ ~hidden)
    /\ ticking' = TRUE
    /\ frame' = (IF show THEN 5 ELSE 4)
    /\ visible' = TRUE
    /\ UNCHANGED opaque
    /\ Remembers(wanted, hidden)

FlashAdds(wanted, hidden) ==
    /\ show' = (wanted /\ ~hidden)
    /\ ticking' = TRUE
    /\ frame' = (IF ticking THEN frame ELSE 0) + (IF show THEN 5 ELSE 4)
    /\ visible' = TRUE
    /\ UNCHANGED opaque
    /\ Remembers(wanted, hidden)

(* multi_win_flash_clipboard_indicator(wanted), then, when hidden,         *)
(* multi_win_hide_clipboard_indicator.  A flash that is running is left to *)
(* run on, and hiding waits for its end.                                   *)
Flash(wanted, hidden) ==
    /\ show' = (wanted /\ ~hidden)
    /\ ticking' = TRUE
    /\ IF ticking THEN UNCHANGED <<frame, visible>>
                  ELSE frame' = (IF show THEN 5 ELSE 4) /\ visible' = TRUE
    /\ UNCHANGED opaque
    /\ Remembers(wanted, hidden)

\* multi_win_hide_clipboard_indicator on its own
Hide == /\ show' = FALSE
        /\ visible' = (visible /\ ticking)
        /\ UNCHANGED <<frame, ticking, opaque, late>>

\* What follows the change of opacity in multi_win_toggle_clipboard_indicator
NextFrame ==
    /\ frame' = frame - 1
    /\ LET done == (frame' = 0 /\ show) \/ frame' < 0
       IN /\ ticking' = ~done
          /\ visible' = (visible /\ ~(done /\ ~show))
    /\ UNCHANGED <<current, mode, pending, clipboard, show, late>>

\* Slip: the frame is counted before its opacity is set.
TickEarly == ticking /\ NextFrame /\ opaque' = (frame' % 2 = 1)

\* multi_win_toggle_clipboard_indicator, every 200 ms while ticking
Tick == ticking /\ opaque' = (frame % 2 = 1) /\ NextFrame

-----------------------------------------------------------------------------
\* roxterm_write_clipboard: an empty write clears the clipboard and flashes
\* without leaving the indicator on.
Write(text, hidden) == /\ clipboard' = text
                       /\ Flash(text # Empty, hidden)

\* roxterm_cache_clipboard
Cache(text) == /\ pending' = [pending EXCEPT ![current] = text]
               /\ Flash(TRUE, FALSE)
               /\ UNCHANGED clipboard

\* Slip: the case for asking falls through to the one for writing.
Osc52FallsThrough ==
    \E text \in Text \cup {Empty} :
        /\ mode[current] # 0
        /\ pending' = [pending EXCEPT ![current] = NoText]
        /\ Write(text, FALSE)
        /\ UNCHANGED <<current, mode>>

\* roxterm_osc52_handler.  Only the terminal with the focus, which is in the
\* current tab, gets this far; one with a selection is ignored too.
Osc52 ==
    \E text \in Text \cup {Empty} :
        /\ \/ mode[current] = 1 /\ Cache(text)
           \/ /\ mode[current] = 2
              /\ pending' = [pending EXCEPT ![current] = NoText]
              /\ Write(text, FALSE)
        /\ UNCHANGED <<current, mode>>

\* multi_win_on_clipboard_button_clicked: roxterm_clipboard_button_handler
\* for the tab that is current now, then the indicator is hidden.
ClickIndicator ==
    /\ visible
    /\ IF mode[current] = 1 /\ pending[current] # NoText
       THEN /\ Write(pending[current], TRUE)
            /\ pending' = [pending EXCEPT ![current] = NoText]
       ELSE Hide /\ UNCHANGED <<clipboard, pending>>
    /\ UNCHANGED <<current, mode>>

\* roxterm_copy_clipboard_action, which copies only if text is selected.
Copy == /\ clipboard' \in {clipboard, Selection}
        /\ Hide
        /\ UNCHANGED <<current, mode, pending>>

\* multi_win_select_tab leaves the indicator alone.
SelectTab == /\ \E t \in Tab \ {current} : current' = t
             /\ UNCHANGED <<mode, pending, clipboard>> /\ UNCHANGED flashVars

\* roxterm_update_osc52_options, when the profile is edited or replaced
SetMode == /\ \E t \in Tab, m \in 0 .. 2 : mode' = [mode EXCEPT ![t] = m]
           /\ UNCHANGED <<current, pending, clipboard>> /\ UNCHANGED flashVars

Next == Tick \/ Osc52 \/ ClickIndicator \/ Copy \/ SelectTab \/ SetMode

\* GLib keeps dispatching a timer that is due while the main loop runs.
Spec == Init /\ [][Next]_vars /\ WF_vars(Tick)

-----------------------------------------------------------------------------
\* The button is on screen: in the tab bar, and not transparent.
OnScreen == visible /\ opaque

\* The button has its place in the tab bar while it flashes.  Between flashes
\* it is on screen exactly if a write is to stay announced: the frames that are
\* left end with an opaque one or with hiding, however writes, clears and
\* clicks change what the flash is to leave.  Only a write in the last frame
\* comes too late: the button keeps its place, but not its looks.
ShownWhileDue ==
    /\ ticking => visible
    /\ ~ticking => (visible <=> show) /\ (~late => (OnScreen <=> show))

\* Each flash comes to an end, however many writes arrive while it runs.
FlashEnds == ticking ~> ~ticking

\* A program's text reaches the clipboard only from the current terminal, at
\* once when its profile allows that and else as the confirmed pending text,
\* which cannot be confirmed twice, nor once the profile has come to ignore it.
WritesAreAllowed ==
    [][clipboard' # clipboard /\ clipboard' # Selection =>
          \/ mode[current] = 2
          \/ /\ mode[current] = 1
             /\ pending[current] = clipboard' /\ pending'[current] = NoText]_vars

\* No program changes the clipboard, or has text wait for it, unannounced.
ChangesAreAnnounced ==
    [][\/ clipboard' # clipboard /\ clipboard' # Selection
       \/ \E t \in Tab : pending'[t] \notin {pending[t], NoText}
       => ticking' /\ visible']_vars
=============================================================================
