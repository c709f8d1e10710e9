------------------------------- MODULE Session -------------------------------
(***************************************************************************)
(* Sessions (session-file.c and the parser in roxterm.c): the windows and  *)
(* tabs of a process are written to a file as nested elements, and a later *)
(* process opens windows as it meets the elements.  The writing may be cut *)
(* short, and whoever starts the later process may find half a file.       *)
(***************************************************************************)
EXTENDS Naturals, Sequences, SequencesExt

CONSTANTS
    Profiles,      \* names of profiles
    SchemeOf,      \* the colour scheme of each profile: one that names none
                   \* has the default, which depends on the desktop's theme
    NoScheme,      \* no attribute colour_scheme in the file
    HidesMenu,     \* the profiles that hide the menu bar
    Schemes,       \* names of colour schemes
    Foreign,       \* session files that were not written by roxterm
    MaxTabs,       \* bound: tabs open at a time
    MaxChanges     \* bound: what the user does and how often saving is cut

GTK == "GTK"       \* the scheme for tabs without one
Default == "Default"

ASSUME ProfilesAssumption == /\ Default \in Profiles /\ HidesMenu \subseteq Profiles
                             /\ SchemeOf \in [Profiles -> Schemes]
                             /\ GTK \in Schemes /\ NoScheme \notin Schemes
ASSUME BoundsAssumption == MaxTabs \in Nat /\ MaxChanges \in Nat

Look == SUBSET {"menubar", "fullscreen"}

\* The elements' start and end tags with the attributes that are modelled.
Element == [tag : {"session", "/session", "/window", "/tab", "/command"}]
           \cup [tag : {"window"}, look : Look]
           \cup [tag : {"tab"}, profile : Profiles, title : {"profile's", "own"},
                 current : BOOLEAN, scheme : Schemes \cup {NoScheme}]
           \cup [tag : {"command"}, argc : Nat]
           \cup [tag : {"arg"}, s : {"shell", "program"}]

ASSUME ForeignAssumption == Foreign \subseteq Seq(Element)

VARIABLES
    windows,    \* multi_win_all
    phase,      \* "running", "off", or what the parser is at
    rest,       \* elements the parser has yet to meet
    ctx,        \* _ROXTermParseContext
    file,       \* the session file, as the elements' tags
    changes,    \* how much of that has happened
    saved       \* the windows when the file was last saved

vars == <<windows, phase, rest, ctx, file, changes, saved>>

Tab == [profile : Profiles, scheme : Schemes, overridden : BOOLEAN,
        command : {"shell", "program"}, title : {"profile's", "own"}]

Window == [tabs : Seq(Tab), current : Nat, look : Look, shown : BOOLEAN]

NoCommand == "no command"

\* win and roxterm of the context, and what close_win_tag and close_tab_tag
\* will use: the tab, if there is one, and the number of active_tab.
Context == [session : BOOLEAN, win : BOOLEAN, look : Look, active : Nat,
            tab : Seq(Tab), current : BOOLEAN,
            command : {NoCommand, "argc", "shell", "program"}]

Blank == [session |-> FALSE, win |-> FALSE, look |-> {}, active |-> 0,
          tab |-> <<>>, current |-> FALSE, command |-> NoCommand]

TypeOK == /\ windows \in Seq(Window)
          /\ \A w \in ToSet(windows) : w.current \in 0 .. Len(w.tabs)
          /\ phase \in {"running", "off", "loading"}
          /\ ctx \in Context
          /\ file \in Seq(Element)
          /\ \E n \in 0 .. Len(file) : rest = SubSeq(file, n + 1, Len(file))
          /\ changes \in 0 .. MaxChanges
          /\ saved \in Seq(Window)

-----------------------------------------------------------------------------
(* Tabs.                                                                   *)

\* roxterm_data_new as roxterm_launch calls it: as the profile always has a
\* colour scheme, one given with --colour-scheme is not looked at.
NewTab(p) == [profile |-> p, scheme |-> SchemeOf[p], overridden |-> FALSE,
              command |-> "shell", title |-> "profile's"]

\* multi_tab_new with roxterm_multi_tab_filler for a template that is not in
\* a window: the menu bar is as the profile says, and so is the colour scheme
\* unless it is overridden.
Fill(win, t) ==
    LET scheme == IF t.overridden THEN t.scheme ELSE SchemeOf[t.profile]
    IN  [win EXCEPT !.tabs = Append(@, [t EXCEPT !.scheme = scheme]),
                    !.current = Len(win.tabs) + 1,
                    !.look = IF t.profile \in HidesMenu THEN @ \ {"menubar"}
                             ELSE @ \cup {"menubar"}]

BlankWindow(look) == [tabs |-> <<>>, current |-> 0, look |-> look, shown |-> FALSE]

\* roxterm_launch, not --tab
Launch(p) == Append(windows, [Fill(BlankWindow({}), NewTab(p)) EXCEPT !.shown = TRUE])

-----------------------------------------------------------------------------
(* The user.                                                               *)

TabCount == FoldSeq(LAMBDA w, n : Len(w.tabs) + n, 0, windows)

Act == /\ phase = "running" /\ changes < MaxChanges
       /\ changes' = changes + 1
       /\ UNCHANGED <<phase, rest, ctx, file, saved>>

\* Another command line for this process.
OpenWindow(p) == /\ Act /\ TabCount < MaxTabs
                 /\ windows' = Launch(p)

\* New Tab: a copy of the current one, next to it or behind all others as the
\* profile's new_tabs_adjacent says.
OpenTab(i) ==
    /\ Act /\ TabCount < MaxTabs
    /\ LET win == windows[i]
           t   == [win.tabs[win.current] EXCEPT !.command = "shell", !.title = "profile's"]
       IN  \E k \in {win.current, Len(win.tabs)} :
             windows' = [windows EXCEPT ![i].tabs = InsertAt(@, k + 1, t),
                                        ![i].current = k + 1]

SelectTab(i, k) == /\ Act /\ k # windows[i].current
                   /\ windows' = [windows EXCEPT ![i].current = k]

\* roxterm_colour_scheme_selected
SelectScheme(i, s) ==
    LET k == windows[i].current IN
    /\ Act /\ windows[i].tabs[k].scheme # s
    /\ windows' = [windows EXCEPT ![i].tabs[k].scheme = s,
                                  ![i].tabs[k].overridden = TRUE]

\* A name given in the Name Tab dialog, a command restarted or given with -e.
NameTab(i) == /\ Act
              /\ windows' = [windows EXCEPT ![i].tabs[windows[i].current].title = "own"]

RunProgram(i) ==
    /\ Act
    /\ windows' = [windows EXCEPT ![i].tabs[windows[i].current].command = "program"]

\* The items of the View menu.
ToggleLook(i, o) ==
    /\ Act
    /\ windows' = [windows EXCEPT ![i].look = IF o \in @ THEN @ \ {o} ELSE @ \cup {o}]

-----------------------------------------------------------------------------
(* Saving.                                                                 *)

\* save_tab_to_fp; roxterm_get_colour_scheme_name knows overridden ones only.
\* Every tab has its <command>: opening one includes the idle callback that
\* starts the command and so sets actual_commandv.
SaveTab(win, k) ==
    LET t == win.tabs[k] IN
    << [tag |-> "tab", profile |-> t.profile, title |-> t.title, current |-> k = win.current,
        scheme |-> IF t.overridden THEN t.scheme ELSE NoScheme],
       [tag |-> "command", argc |-> 1], [tag |-> "arg", s |-> t.command],
       [tag |-> "/command"], [tag |-> "/tab"] >>

SaveWindow(win) ==
    <<[tag |-> "window", look |-> win.look]>>
      \o FlattenSeq([k \in DOMAIN win.tabs |-> SaveTab(win, k)])
      \o <<[tag |-> "/window"]>>

\* Windows that the parser left without a tab have no user data.
HasTabs(win) == win.tabs # <<>>

WithTabs(ws) ==
    LET kept[n \in 0 .. Len(ws)] ==
          IF n = 0 THEN <<>>
          ELSE IF HasTabs(ws[n]) THEN Append(kept[n - 1], ws[n]) ELSE kept[n - 1]
    IN  kept[Len(ws)]

SessionOf(ws) == <<[tag |-> "session"]>>
                   \o FlattenSeq([i \in DOMAIN ws |-> SaveWindow(ws[i])])
                   \o <<[tag |-> "/session"]>>

\* save_session_to_fp
Saved == SessionOf(WithTabs(windows))

\* A window the user can choose Save Session in.
OnScreen == \E win \in ToSet(windows) : win.shown

\* multi_win_save_session_action: the file is written in place.
Save == /\ phase = "running" /\ OnScreen /\ file # Saved
        /\ file' = Saved
        /\ saved' = WithTabs(windows)
        /\ rest' = <<>>
        /\ UNCHANGED <<windows, phase, ctx, changes>>

\* The process ends, or its disk is full, before all is written.
SaveCut == /\ phase = "running" /\ OnScreen
           /\ changes < MaxChanges /\ changes' = changes + 1
           /\ \E n \in 0 .. Len(Saved) - 1 : file' = SubSeq(Saved, 1, n)
           /\ saved' = <<>> /\ rest' = <<>>
           /\ phase' \in {"running", "off"}
           /\ windows' = IF phase' = "off" THEN <<>> ELSE windows
           /\ UNCHANGED ctx

\* A file is put in the directory by hand.
PutFile(f) == /\ phase = "off"
              /\ file' = f /\ saved' = <<>> /\ rest' = <<>>
              /\ UNCHANGED <<windows, phase, ctx, changes>>

-----------------------------------------------------------------------------
(* Restoring.                                                              *)

Quit == /\ phase = "running"
        /\ phase' = "off" /\ windows' = <<>>
        /\ UNCHANGED <<rest, ctx, file, changes, saved>>

\* main() with roxterm_load_session
Start == /\ phase = "off"
         /\ phase' = "loading"
         /\ rest' = file /\ ctx' = Blank
         /\ UNCHANGED <<windows, file, changes, saved>>

\* What parse_start_element and parse_end_element accept; a <command> says how
\* many arguments it has.
Fits(e) ==
    CASE e.tag = "session"  -> ~ctx.win
      [] e.tag = "/session" -> ctx.session /\ ~ctx.win
      [] e.tag = "window"   -> ctx.session /\ ~ctx.win
      [] e.tag = "/window"  -> ctx.win /\ ctx.tab = <<>>
      [] e.tag = "tab"      -> ctx.win /\ ctx.tab = <<>>
      [] e.tag = "/tab"     -> ctx.tab # <<>>
      [] e.tag = "command"  -> ctx.tab # <<>> /\ ctx.command = NoCommand /\ e.argc # 0
      [] e.tag = "/command" -> ctx.command # NoCommand
      [] e.tag = "arg"      -> ctx.command = "argc"

\* The parser is at an element with this tag, and it fits.
At(tag) == /\ phase = "loading" /\ rest # <<>>
           /\ Head(rest).tag = tag /\ Fits(Head(rest))
           /\ rest' = Tail(rest)
           /\ UNCHANGED <<phase, file, changes, saved>>

\* The window of the context is the last one opened.
Win == Len(windows)

OpenSession == /\ At("session")
               /\ ctx' = [ctx EXCEPT !.session = TRUE]
               /\ UNCHANGED windows

CloseSession == /\ At("/session")
                /\ ctx' = [ctx EXCEPT !.session = FALSE]
                /\ UNCHANGED windows

\* Slip: the context remembers the active tab of the window before.
OpenWinStale ==
    /\ At("window")
    /\ ctx' = [ctx EXCEPT !.win = TRUE, !.look = Head(rest).look]
    /\ windows' = Append(windows, BlankWindow(Head(rest).look \cap {"menubar"}))

\* parse_open_win
OpenWin == /\ At("window")
           /\ ctx' = [ctx EXCEPT !.win = TRUE, !.look = Head(rest).look, !.active = 0]
           /\ windows' = Append(windows, BlankWindow(Head(rest).look \cap {"menubar"}))

\* close_win_tag
CloseWin ==
    /\ At("/window")
    /\ ctx' = [ctx EXCEPT !.win = FALSE]
    /\ windows' = IF ~HasTabs(windows[Win]) THEN Front(windows)
                  ELSE [windows EXCEPT
                          ![Win].shown = TRUE,
                          ![Win].look = @ \cup (ctx.look \cap {"fullscreen"}),
                          ![Win].current = IF ctx.active = 0 THEN @ ELSE ctx.active]

\* parse_open_tab
OpenTabTag ==
    /\ At("tab")
    /\ LET e == Head(rest)
           s == IF e.scheme = NoScheme THEN GTK ELSE e.scheme
       IN  ctx' = [ctx EXCEPT !.current = e.current,
                              !.tab = <<[NewTab(e.profile) EXCEPT !.scheme = s, !.title = e.title]>>]
    /\ UNCHANGED windows

\* Slip: the command is kept for the next tab.
CloseTabKeeping ==
    /\ At("/tab")
    /\ LET command == IF ctx.command \in {NoCommand, "argc"} THEN "shell" ELSE ctx.command
       IN  windows' = [windows EXCEPT ![Win] = Fill(@, [ctx.tab[1] EXCEPT !.command = command])]
    /\ ctx' = [ctx EXCEPT !.tab = <<>>,
                          !.active = IF ctx.current THEN Len(windows[Win].tabs) + 1 ELSE @]

\* close_tab_tag: a command without arguments is not used.
CloseTabTag ==
    /\ At("/tab")
    /\ LET command == IF ctx.command \in {NoCommand, "argc"} THEN "shell" ELSE ctx.command
       IN  windows' = [windows EXCEPT ![Win] = Fill(@, [ctx.tab[1] EXCEPT !.command = command])]
    /\ ctx' = [ctx EXCEPT !.tab = <<>>, !.command = NoCommand,
                          !.active = IF ctx.current THEN Len(windows[Win].tabs) + 1 ELSE @]

\* parse_open_command
OpenCommand == /\ At("command")
               /\ ctx' = [ctx EXCEPT !.command = "argc"]
               /\ UNCHANGED windows

\* parse_open_arg; one argument stands for all.
OpenArg == /\ At("arg")
           /\ ctx' = [ctx EXCEPT !.command = Head(rest).s]
           /\ UNCHANGED windows

\* </command> checks only; </arg> is left out.
CloseCommand == /\ At("/command")
                /\ UNCHANGED <<ctx, windows>>

Accepted == \/ OpenSession \/ CloseSession \/ OpenWin \/ CloseWin \/ OpenTabTag
            \/ CloseTabTag \/ OpenCommand \/ OpenArg \/ CloseCommand

\* The file is read to its end when its last element is the one that closes
\* the session.
Complete == file # <<>> /\ Last(file).tag = "/session"

\* Slip: windows that were opened count as success.
LoadFailsContent ==
    /\ phase = "loading" /\ (IF rest = <<>> THEN ~Complete ELSE ~Fits(Head(rest)))
    /\ phase' = "running" /\ rest' = <<>> /\ ctx' = Blank
    /\ windows' = IF windows = <<>> THEN Launch(Default) ELSE windows
    /\ UNCHANGED <<file, changes, saved>>

\* An element out of place, or the end too early: main() opens a terminal as if
\* there had been no session.  What was opened stays.
LoadFails ==
    /\ phase = "loading" /\ (IF rest = <<>> THEN ~Complete ELSE ~Fits(Head(rest)))
    /\ phase' = "running" /\ rest' = <<>> /\ ctx' = Blank
    /\ windows' = Launch(Default)
    /\ UNCHANGED <<file, changes, saved>>

LoadSucceeds ==
    /\ phase = "loading" /\ rest = <<>> /\ Complete
    /\ phase' = "running" /\ ctx' = Blank
    /\ UNCHANGED <<windows, rest, file, changes, saved>>

-----------------------------------------------------------------------------

Init == /\ windows = <<[Fill(BlankWindow({}), NewTab(Default)) EXCEPT !.shown = TRUE]>>
        /\ phase = "running" /\ rest = <<>> /\ ctx = Blank
        /\ file = <<>> /\ saved = <<>> /\ changes = 0

\* The user can see a window that is shown.
Next == \/ \E p \in Profiles : OpenWindow(p)
        \/ \E i \in DOMAIN windows : windows[i].shown /\
             \/ OpenTab(i) \/ NameTab(i) \/ RunProgram(i)
             \/ \E k \in DOMAIN windows[i].tabs : SelectTab(i, k)
             \/ \E s \in Schemes : SelectScheme(i, s)
             \/ \E o \in {"menubar", "fullscreen"} : ToggleLook(i, o)
        \/ Save \/ SaveCut \/ Quit \/ Start
        \/ \E f \in Foreign : PutFile(f)
        \/ Accepted \/ LoadFails \/ LoadSucceeds

Spec == Init /\ [][Next]_vars

-----------------------------------------------------------------------------
(* Properties.                                                             *)

\* The process has read its session.
Restored == phase = "loading" /\ phase' = "running" /\ saved # <<>>

\* A tab that gets its colour scheme back: it is the profile's anyway.
KeepsScheme(t) == t.scheme = SchemeOf[t.profile]

\* A session that was saved completely comes back without error: the same
\* windows on the screen with the same tabs, titles and programs, the same tab
\* on top, and colour schemes as far as KeepsScheme goes.
RestoredAsSaved ==
    [][Restored =>
         /\ Len(windows') = Len(saved)
         /\ \A i \in DOMAIN saved :
              /\ windows'[i].shown
              /\ windows'[i].current = saved[i].current
              /\ "fullscreen" \in windows'[i].look <=> "fullscreen" \in saved[i].look
              /\ Len(windows'[i].tabs) = Len(saved[i].tabs)
              /\ \A k \in DOMAIN saved[i].tabs :
                   LET t == windows'[i].tabs[k]
                       u == saved[i].tabs[k]
                   IN  /\ [t EXCEPT !.scheme = u.scheme, !.overridden = u.overridden] = u
                       /\ KeepsScheme(u) => t.scheme = u.scheme]_vars

\* Whatever is found in the file, the process does not run without a window
\* on the screen, unless the file has no tab in it but is complete.
AlwaysAWindow ==
    phase = "running" => \/ OnScreen
                         \/ Complete /\ \A e \in ToSet(file) : e.tag # "tab"

\* A restored session shows the windows and tabs as they were.
SessionRestores ==
    [][Restored => \A i \in DOMAIN saved :
         /\ windows'[i].look = saved[i].look
         /\ \A k \in DOMAIN saved[i].tabs :
              windows'[i].tabs[k].scheme = saved[i].tabs[k].scheme]_vars
=============================================================================
