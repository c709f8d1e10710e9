------------------------- MODULE MultiTabProperties -------------------------
(***************************************************************************)
(* What MultiTab must satisfy between two events.                          *)
(***************************************************************************)
EXTENDS MultiTab

\* The notebook, win->tabs and the Tabs menu list the same tabs in the same
\* order in every window, though three libraries' lists are edited one after
\* another from nested signal handlers: "Move Tab Left", Select_Tab_n and the
\* tab the user sees mean the same tab.
TabOrderAgrees == \A w \in Shown : OneOrder(win[w])

\* current_tab is the page on display and user_data_template is the data of
\* that tab: it never points to a terminal that was closed or moved away.
CurrentAgrees == \A w \in Shown : OneCurrent(win[w])

\* Labels and window titles show the tab numbers and counts of the moment.
NumbersAgree == \A w \in Shown : NumbersFresh(win[w])

\* Every live tab is listed by its parent and by no other window, whatever
\* was dragged, detached or closed.
OwnedOnce == \A w \in Win : ToSet(win[w].tabs) = {t \in Live : parent[t] = w}

\* A window exists exactly as long as it has tabs, is listed once in
\* multi_win_all, and the main loop runs exactly as long as there is a window:
\* moving the only tab of the only window must not quit.
WindowsHaveTabs == /\ IsInjective(winAll)
                   /\ \A w \in Win : w \in Shown <=> win[w].tabs # <<>>
                   /\ mainLoop <=> winAll # <<>>

\* The Name Tab dialog returns to a structure that still exists, and one that
\* outlived its deletion for the dialog's sake has exactly that dialog left.
RenameKeepsTab ==
    /\ \A f \in ToSet(frames) : f.kind = "name" => life[f.tab] # "free"
    /\ \A t \in Tab : life[t] = "postponed" <=>
          \E f \in ToSet(frames) : f.kind = "name" /\ f.tab = t /\ ~f.open

\* A dialog that is still open belongs to a window that is still open.
DialogHasWindow == \A f \in ToSet(frames) : f.open => f.win \in Shown

\* No dialog about a tab is left open when its terminal has exited; the
\* question about that exit itself is left to TerminalChild.
NoDialogLeftOpen ==
    \A f \in ToSet(frames) :
        f.open /\ f.tab # NoTab /\ f.kind # "ask" => f.tab \in Live

-----------------------------------------------------------------------------
\* The promise of TabOwnership, kept through every handler: a tab that is
\* opened, moved or closed changes hands in one step, and the program ends with
\* the last tab and not before.
Ownership == INSTANCE TabOwnership WITH owner <- parent, up <- mainLoop

ImplementsOwnership == Ownership!Spec
=============================================================================
