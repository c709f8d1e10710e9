------------------------------ MODULE MultiTab ------------------------------
(***************************************************************************)
(* The windows and tabs of a roxterm process (multitab.c, with the parts   *)
(* of roxterm.c that create, close and move tabs).  GTK runs everything in *)
(* one thread, so each action is one whole event handler; TabWindow gives  *)
(* what it does to a window.  The interleaving that is left comes from     *)
(* gtk_dialog_run, which handles further events before it returns: a       *)
(* dialog is a frame on the stack `frames`, opened by the first half of a  *)
(* handler and consumed by the second half.  Every dialog is modal, so     *)
(* while one is open only children that exit and D-Bus requests act.       *)
(***************************************************************************)
EXTENDS TabWindow

CONSTANTS Win,       \* the MultiWin structures
          NoWin,     \* a NULL MultiWin pointer
          MaxDialogs \* bound: how deep questions about exits nest

ASSUME NoWinAssumption == NoWin \notin Win

ASSUME MaxDialogsAssumption == MaxDialogs \in Nat

VARIABLES winAll,    \* multi_win_all: the windows, last focused first
          win,       \* the contents of each window
          parent,    \* tab->parent
          life,      \* "free", "live" or "postponed" (postponed_free is set)
          frames,    \* the dialogs being run, the innermost last
          mainLoop,  \* FALSE once gtk_main_quit has been called
          fault      \* TRUE once freed memory has been used

vars == <<winAll, win, parent, life, frames, mainLoop, fault>>

DialogKind == {"name", "closeTab", "closeWindow", "ask"}

\* A running dialog: what it is about and whether its widget still exists.
Frame == [kind : DialogKind, win : Win, tab : Tab \cup {NoTab}, open : BOOLEAN]

TypeOK == /\ winAll \in Seq(Win)
          /\ win \in [Win -> Window]
          /\ parent \in [Tab -> Win \cup {NoWin}]
          /\ life \in [Tab -> {"free", "live", "postponed"}]
          /\ frames \in Seq(Frame)
          /\ mainLoop \in BOOLEAN
          /\ fault \in BOOLEAN

-----------------------------------------------------------------------------
Shown == ToSet(winAll)

Live == {t \in Tab : life[t] = "live"}

\* The memory of a structure is not handed out again while a dialog refers
\* to it, so that a stale reference stays recognisable.
FreshTab == {t \in Tab : life[t] = "free" /\ \A f \in ToSet(frames) : f.tab # t}

FreshWin == {w \in Win \ Shown : \A f \in ToSet(frames) : f.win # w}

\* The user can only reach the windows when no modal dialog is open; other
\* events need the innermost dialog, if any, to be waiting still.
UserCanAct == mainLoop /\ ~fault /\ frames = <<>>

EventCanArrive == /\ mainLoop
                  /\ ~fault
                  /\ frames # <<>> => Last(frames).open

-----------------------------------------------------------------------------
(* Dialogs.                                                                *)

Dialog(kind, w, t) == [kind |-> kind, win |-> w, tab |-> t, open |-> TRUE]

RunDialog(kind, w, t) ==
    /\ frames' = Append(frames, Dialog(kind, w, t))
    /\ UNCHANGED <<winAll, win, parent, life, mainLoop, fault>>

\* Deleting tabs destroys their Name Tab dialog (tab->rename_dialog), and
\* destroying a window destroys every dialog transient for it.
CloseDialogs(fs, ts, ws) ==
    [i \in DOMAIN fs |->
        IF (fs[i].kind = "name" /\ fs[i].tab \in ts) \/ fs[i].win \in ws
        THEN [fs[i] EXCEPT !.open = FALSE] ELSE fs[i]]

\* tab->rename_dialog
Renaming(fs, t) == \E f \in ToSet(fs) : f.kind = "name" /\ f.tab = t

\* Slip: the Name Tab dialog is not considered.
FreeTabsAtOnce(fs, ts) ==
    /\ life' = [t \in Tab |-> IF t \in ts THEN "free" ELSE life[t]]
    /\ parent' = [t \in Tab |-> IF t \in ts THEN NoWin ELSE parent[t]]

\* multi_tab_delete_without_notifying_parent, for the structures themselves:
\* one whose Name Tab dialog is running is freed when the dialog returns.
FreeTabs(fs, ts) ==
    /\ life' = [t \in Tab |-> IF t \notin ts THEN life[t]
                              ELSE IF Renaming(fs, t) THEN "postponed"
                              ELSE "free"]
    /\ parent' = [t \in Tab |-> IF t \in ts THEN NoWin ELSE parent[t]]

-----------------------------------------------------------------------------
(* Windows come and go.                                                    *)

\* Slip: gtk_main_quit one window too early.
SetWindowsEarly(list) == /\ winAll' = list
                         /\ mainLoop' = (mainLoop /\ Len(list) > 1)

\* The end of multi_win_destructor: gtk_main_quit after the last window.
SetWindows(list) == /\ winAll' = list
                    /\ mainLoop' = (mainLoop /\ list # <<>>)

\* multi_win_destructor for window w with all its tabs.
DestroyWindow(w, fs) ==
    LET ts == ToSet(win[w].tabs)
    IN /\ FreeTabs(fs, ts)
       /\ win' = [win EXCEPT ![w] = BlankWindow]
       /\ SetWindows(Without(winAll, w))
       /\ frames' = CloseDialogs(fs, ts, {w})
       /\ UNCHANGED fault

\* multi_tab_delete; a window left without tabs is destroyed with it.
DeleteTab(t, fs) ==
    LET w == parent[t]
        r == RemoveTab(win[w], t)
        emptied == r.ntabs = 0
    IN /\ FreeTabs(fs, {t})
       /\ win' = [win EXCEPT ![w] = IF emptied THEN BlankWindow ELSE r]
       /\ SetWindows(IF emptied THEN Without(winAll, w) ELSE winAll)
       /\ frames' = CloseDialogs(fs, {t}, IF emptied THEN {w} ELSE {})
       /\ UNCHANGED fault

\* multi_win_new_full: a window with one tab, last in multi_win_all.
OpenWindow(w, t) ==
    /\ win' = [win EXCEPT ![w] = AddTab(BlankWindow, t, -1, FALSE)]
    /\ winAll' = Append(winAll, w)
    /\ parent' = [parent EXCEPT ![t] = w]
    /\ life' = [life EXCEPT ![t] = "live"]
    /\ UNCHANGED <<frames, mainLoop, fault>>

\* multi_tab_new
OpenTab(w, t, adjacent) ==
    /\ win' = [win EXCEPT ![w] =
                  AddTab(@, t, NewTabPosition(@, adjacent), FALSE)]
    /\ parent' = [parent EXCEPT ![t] = w]
    /\ life' = [life EXCEPT ![t] = "live"]
    /\ UNCHANGED <<winAll, frames, mainLoop, fault>>

-----------------------------------------------------------------------------
(* main() launches one terminal before it enters the main loop.            *)
Init == \E w \in Win, t \in Tab :
    /\ winAll = <<w>>
    /\ win = [v \in Win |-> IF v = w THEN AddTab(BlankWindow, t, -1, FALSE)
                                     ELSE BlankWindow]
    /\ parent = [u \in Tab |-> IF u = t THEN w ELSE NoWin]
    /\ life = [u \in Tab |-> IF u = t THEN "live" ELSE "free"]
    /\ frames = <<>>
    /\ mainLoop = TRUE
    /\ fault = FALSE

\* roxterm_launch for a NewTerminal request, and New Window in the menus:
\* both end in multi_win_new_full, and only the first may come at any time.
LaunchWindow == /\ EventCanArrive
                /\ \E w \in FreshWin, t \in FreshTab : OpenWindow(w, t)

\* roxterm_launch with --tab: which window is picked depends on focus and
\* title; New Tab in the menus ends in the same multi_tab_new.
LaunchTab == /\ EventCanArrive
             /\ \E w \in Shown, t \in FreshTab, adjacent \in BOOLEAN :
                    OpenTab(w, t, adjacent)

\* multi_win_focus_in
FocusIn == /\ EventCanArrive
           /\ \E w \in Shown : winAll' = <<w>> \o Without(winAll, w)
           /\ UNCHANGED <<win, parent, life, frames, mainLoop, fault>>

-----------------------------------------------------------------------------
(* Selecting and reordering within one window.                             *)

ChangeWindow(w, r) ==
    /\ win' = [win EXCEPT ![w] = r]
    /\ UNCHANGED <<winAll, parent, life, frames, mainLoop, fault>>

\* A click on a tab, which GTK turns into switch-page.
ClickTab == /\ UserCanAct
            /\ \E w \in Shown : \E t \in ToSet(win[w].pages) :
                   ChangeWindow(w, SetCurrentPage(win[w], t))

\* multi_win_select_tab_action: the n-th item of the Tabs menu, which the
\* Select_Tab_n shortcuts reach too.
SelectFromMenu == /\ UserCanAct
                  /\ \E w \in Shown : \E t \in ToSet(win[w].menu) :
                         ChangeWindow(w, SelectTab(win[w], t))

\* multi_win_next_tab_action and multi_win_previous_tab_action
StepTab == /\ UserCanAct
           /\ \E w \in Shown, dir \in {-1, 1}, wrap \in BOOLEAN :
                  ChangeWindow(w, SetCurrentPage(win[w],
                                      StepTarget(win[w], dir, wrap)))

\* multi_win_move_tab_left_action and multi_win_move_tab_right_action
MoveTabByOne ==
    /\ UserCanAct
    /\ \E w \in Shown, dir \in {-1, 1}, wrap \in BOOLEAN :
           LET pos == ShiftedPosition(win[w], dir, wrap)
           IN /\ pos \in 0 .. win[w].ntabs - 1
              /\ ChangeWindow(w, MoveToPosition(win[w], win[w].current, pos))

\* A tab dragged along the bar of its window: GTK reorders its pages, then
\* page_reordered_callback follows.  GTK shows a tab when its drag starts.
DragAlong ==
    /\ UserCanAct
    /\ \E w \in Shown : \E t \in ToSet(win[w].pages), n \in 1 .. win[w].ntabs :
           ChangeWindow(w, GtkReorder(SetCurrentPage(win[w], t), t, n - 1))

\* roxterm_tab_received in the same window: a tab dropped on a terminal.
DropOnSibling ==
    /\ UserCanAct
    /\ \E w \in Shown : \E t, target \in ToSet(win[w].pages) :
           /\ t # target
           /\ ChangeWindow(w, MoveToPosition(win[w], t,
                                  PageNum(win[w].pages, target)))

-----------------------------------------------------------------------------
(* Moving a tab to another window.                                         *)

\* Slip: tab->parent is not set.
MoveTabUnparented(t, dst, pos, dragged, list) ==
    LET r == RemoveTab(win[parent[t]], t)
        dest == IF dragged THEN [win[dst] EXCEPT !.pages = With(@, t, pos)]
                           ELSE win[dst]
    IN /\ win' = [win EXCEPT ![parent[t]] = IF r.ntabs = 0 THEN BlankWindow ELSE r,
                             ![dst] = AddTab(dest, t, pos, dragged)]
       /\ SetWindows(IF r.ntabs = 0 THEN Without(list, parent[t]) ELSE list)
       /\ UNCHANGED <<parent, life, frames, fault>>

\* multi_tab_remove_from_parent and multi_win_add_tab.  When the user drags
\* the tab, GTK has moved the page before page_added_callback is called.
MoveTab(t, dst, pos, dragged, list) ==
    LET src == parent[t]
        r == RemoveTab(win[src], t)
        dest == IF dragged THEN [win[dst] EXCEPT !.pages = With(@, t, pos)]
                           ELSE win[dst]
    IN /\ win' = [win EXCEPT ![src] = IF r.ntabs = 0 THEN BlankWindow ELSE r,
                             ![dst] = AddTab(dest, t, pos, dragged)]
       /\ parent' = [parent EXCEPT ![t] = dst]
       /\ SetWindows(IF r.ntabs = 0 THEN Without(list, src) ELSE list)
       /\ UNCHANGED <<life, frames, fault>>

\* multi_win_detach_tab_action; the menu item is shaded for a lone tab.
DetachTab ==
    /\ UserCanAct
    /\ \E w \in Shown, dst \in FreshWin :
           /\ win[w].ntabs > 1
           /\ MoveTab(win[w].current, dst, -1, FALSE, Append(winAll, dst))

\* A tab dropped on the desktop: multi_win_notebook_creation_hook, then
\* page_added_callback.
DropOnDesktop ==
    /\ UserCanAct
    /\ \E t \in Live, dst \in FreshWin :
           MoveTab(t, dst, 0, TRUE, Append(winAll, dst))

\* A tab dropped in another window's tab bar: page_added_callback.
DropInTabBar ==
    /\ UserCanAct
    /\ \E t \in Live, dst \in Shown : \E pos \in 0 .. win[dst].ntabs :
           /\ dst # parent[t]
           /\ MoveTab(t, dst, pos, TRUE, winAll)

\* roxterm_tab_received in another window: a tab dropped on a terminal.
DropOnTerminal ==
    /\ UserCanAct
    /\ \E t, target \in Live :
           /\ parent[t] # parent[target]
           /\ MoveTab(t, parent[target],
                      PageNum(win[parent[target]].pages, target), FALSE, winAll)

-----------------------------------------------------------------------------
(* Closing.                                                                *)

\* roxterm_delete_handler: whether to ask first.  ntabs is 0 for one tab.
AsksFirst(warn, onlyRunning, ntabs, running) ==
    /\ ntabs = 0 => warn = 3
    /\ warn # 0
    /\ warn = 1 => ntabs > 1
    /\ onlyRunning => running

\* multi_win_close_tab_clicked: the button in a tab, a middle click, or
\* Close Tab in the menus.
CloseTab ==
    /\ UserCanAct
    /\ \E t \in Live, warn \in 0 .. 3, onlyRunning, running \in BOOLEAN :
           IF AsksFirst(warn, onlyRunning, 0, running)
           THEN RunDialog("closeTab", parent[t], t)
           ELSE DeleteTab(t, frames)

\* multi_win_close_window_action and multi_win_delete_event_cb
CloseWindow ==
    /\ UserCanAct
    /\ \E w \in Shown, warn \in 0 .. 3, onlyRunning, running \in BOOLEAN :
           IF AsksFirst(warn, onlyRunning, win[w].ntabs, running)
           THEN RunDialog("closeWindow", w, NoTab)
           ELSE DestroyWindow(w, frames)

\* multi_win_close_other_tabs_action, whose loop ends with the current tab.
CloseOtherTabs ==
    /\ UserCanAct
    /\ \E w \in Shown :
           /\ win[w].ntabs > 1
           /\ FreeTabs(frames, ToSet(win[w].tabs) \ {win[w].current})
           /\ win' = [win EXCEPT ![w] = KeepCurrent(@)]
           /\ UNCHANGED <<winAll, frames, mainLoop, fault>>

\* multi_win_name_tab_action, up to gtk_dialog_run
NameTab == /\ UserCanAct
           /\ \E w \in Shown : RunDialog("name", w, win[w].current)

\* The command in t ends: roxterm_child_exited and roxterm_post_child_exit,
\* or it never started: roxterm_command_failed.  With exit action Ask the
\* user is asked.  A timer that post_exit_tag has forgotten (TerminalChild)
\* may do either once more, under the question the tab has open.
ChildExits ==
    /\ EventCanArrive
    /\ \E t \in Live : \/ DeleteTab(t, frames)
                       \/ /\ Len(frames) < MaxDialogs
                          /\ RunDialog("ask", parent[t], t)

-----------------------------------------------------------------------------
(* gtk_dialog_run returns in the innermost handler, which carries on.      *)

Returns(kind) == /\ ~fault
                 /\ frames # <<>>
                 /\ Last(frames).kind = kind

Ignored == /\ frames' = Front(frames)
           /\ UNCHANGED <<winAll, win, parent, life, mainLoop, fault>>

\* multi_win_name_tab_action after gtk_dialog_run, whatever the response
FinishName ==
    /\ Returns("name")
    /\ frames' = Front(frames)
    /\ life' = [life EXCEPT ![Last(frames).tab] =
                   IF @ = "postponed" THEN "free" ELSE @]
    /\ UNCHANGED <<winAll, win, parent, mainLoop, fault>>

\* Yes is answered and multi_win_close_tab_clicked calls multi_tab_delete on
\* the tab it was given, which may have been freed since.
FinishCloseTab ==
    /\ Returns("closeTab")
    /\ \/ Ignored
       \/ /\ Last(frames).open
          /\ Last(frames).tab \in Live
          /\ DeleteTab(Last(frames).tab, Front(frames))
       \/ /\ Last(frames).open
          /\ Last(frames).tab \notin Live
          /\ fault' = TRUE
          /\ UNCHANGED <<winAll, win, parent, life, frames, mainLoop>>

FinishCloseWindow ==
    /\ Returns("closeWindow")
    /\ \/ Ignored
       \/ /\ Last(frames).open
          /\ DestroyWindow(Last(frames).win, Front(frames))

\* roxterm_post_child_exit after its question: Close, or one of the others.
\* Either way post_exit_tag is written first, gone or not.
FinishAsk ==
    /\ Returns("ask")
    /\ \/ /\ Last(frames).tab \in Live
          /\ Ignored \/ DeleteTab(Last(frames).tab, Front(frames))
       \/ /\ Last(frames).tab \notin Live
          /\ fault' = TRUE
          /\ UNCHANGED <<winAll, win, parent, life, frames, mainLoop>>

-----------------------------------------------------------------------------
Next == \/ LaunchWindow \/ LaunchTab \/ FocusIn
        \/ ClickTab \/ SelectFromMenu \/ StepTab
        \/ MoveTabByOne \/ DragAlong \/ DropOnSibling
        \/ DetachTab \/ DropOnDesktop \/ DropInTabBar \/ DropOnTerminal
        \/ CloseTab \/ CloseWindow \/ CloseOtherTabs \/ NameTab \/ ChildExits
        \/ FinishName \/ FinishCloseTab \/ FinishCloseWindow \/ FinishAsk

Spec == Init /\ [][Next]_vars
=============================================================================
