----------------------------- MODULE TabWindow -----------------------------
(***************************************************************************)
(* One roxterm window (struct MultiWin, multitab.c) as a value, and the    *)
(* functions of multitab.c that change one window as operators on it.      *)
(*                                                                         *)
(* A window keeps the order of its tabs three times: win->tabs is          *)
(* roxterm's list, pages are the children of the GtkNotebook, menu are the *)
(* items of the Tabs menu.  GTK calls back into multitab.c while it        *)
(* changes the second one, so each operator below spells out the signal    *)
(* handlers that run inside the call it stands for.                        *)
(***************************************************************************)
EXTENDS Integers, SequencesExt

CONSTANTS Tab,       \* the MultiTab structures
          NoTab      \* a NULL MultiTab pointer

ASSUME NoTabAssumption == NoTab \notin Tab

(***************************************************************************)
(* tabs, ntabs, current_tab and user_data_template (named by the tab whose *)
(* ROXTermData it points to) are fields of MultiWin; pages and page are    *)
(* the GtkNotebook's children and current page; label[t] is the pair of    *)
(* numbers %t and %n last substituted in the label of t and title is the   *)
(* pair in the title of the window.                                        *)
(***************************************************************************)
Window == [tabs : Seq(Tab), pages : Seq(Tab), menu : Seq(Tab), ntabs : Nat,
           current : Tab \cup {NoTab}, page : Tab \cup {NoTab},
           template : Tab \cup {NoTab},
           label : [Tab -> Nat \X Nat], title : Nat \X Nat]

\* g_new0: a window that multi_win_new_blank has just made.
BlankWindow == [tabs |-> <<>>, pages |-> <<>>, menu |-> <<>>, ntabs |-> 0,
                current |-> NoTab, page |-> NoTab, template |-> NoTab,
                label |-> [t \in Tab |-> <<0, 0>>], title |-> <<0, 0>>]

-----------------------------------------------------------------------------
(* g_list_remove, g_list_insert and gtk_notebook_insert_page: positions    *)
(* count from 0 and -1 means the end.                                      *)

IndexOf(s, t) == CHOOSE i \in DOMAIN s : s[i] = t

PageNum(s, t) == IndexOf(s, t) - 1

Without(s, t) == IF t \in ToSet(s) THEN RemoveAt(s, IndexOf(s, t)) ELSE s

With(s, t, pos) == IF pos = -1 THEN Append(s, t) ELSE InsertAt(s, pos + 1, t)

-----------------------------------------------------------------------------
(* The numbers a title template's %t and %n stand for.                     *)
Numbers(r, t) == <<IndexOf(r.pages, t), r.ntabs>>

\* multi_win_set_full_title
SetTitle(r) ==
    [r EXCEPT !.title = IF r.current \in ToSet(r.pages)
                        THEN Numbers(r, r.current) ELSE <<1, r.ntabs>>]

\* renumber_tabs: refreshes every label, and the window's title with the
\* label of the current tab.
Renumber(r) ==
    LET named == [r EXCEPT !.label = [t \in Tab |->
                     IF t \in ToSet(r.tabs) THEN Numbers(r, t) ELSE <<0, 0>>]]
    IN IF r.current \in ToSet(r.tabs) THEN SetTitle(named) ELSE named

-----------------------------------------------------------------------------
(* Selecting a tab.  gtk_notebook_set_current_page emits switch-page again *)
(* from inside the handler, but multi_win_page_switched returns at once    *)
(* when current_tab is already the page's tab, so one level is enough.     *)

\* Slip: user_data_template is forgotten.
SelectTabOnly(r, t) ==
    IF t = r.current THEN r
    ELSE SetTitle([r EXCEPT !.current = t, !.page = t])

\* multi_win_select_tab
SelectTab(r, t) ==
    IF t = r.current THEN r
    ELSE SetTitle([r EXCEPT !.current = t, !.template = t, !.page = t])

\* multi_win_page_switched, then GTK's own handler, which comes last.
PageSwitched(r, t) == [SelectTab(r, t) EXCEPT !.page = t]

\* gtk_notebook_set_current_page
SetCurrentPage(r, t) == IF t = r.page THEN r ELSE PageSwitched(r, t)

-----------------------------------------------------------------------------
(* Adding and removing.                                                    *)

\* A page enters the notebook; the first one becomes the current page.
GtkInsertPage(r, t, pos) ==
    LET inserted == [r EXCEPT !.pages = With(@, t, pos)]
    IN IF r.page = NoTab THEN PageSwitched(inserted, t) ELSE inserted

\* The page GTK shows when t leaves: the next one, or the one before the end.
Neighbour(s, t) ==
    CASE IndexOf(s, t) < Len(s) -> s[IndexOf(s, t) + 1]
      [] IndexOf(s, t) = Len(s) /\ Len(s) > 1 -> s[Len(s) - 1]
      [] OTHER -> NoTab

\* A page leaves the notebook, because its widget is destroyed or detached.
GtkRemovePage(r, t) ==
    LET next == Neighbour(r.pages, t)
        removed == [r EXCEPT !.pages = Without(@, t)]
    IN IF r.page # t THEN removed
       ELSE IF next = NoTab THEN [removed EXCEPT !.page = NoTab]
       ELSE PageSwitched([removed EXCEPT !.page = NoTab], next)

\* multi_win_add_tab; GTK has inserted the page itself when gtkAdded.
AddTab(r, t, pos, gtkAdded) ==
    LET listed == [r EXCEPT !.tabs = With(@, t, pos), !.ntabs = @ + 1,
                            !.menu = With(@, t, pos)]
        paged  == IF gtkAdded THEN listed ELSE GtkInsertPage(listed, t, pos)
    IN SelectTab(Renumber(paged), t)

\* Slips: a handler for page-removed counts the tab off as well; the other
\* tabs are not renumbered.
NotifyTwice(r, t) ==
    LET gone == [r EXCEPT !.tabs = Without(@, t), !.ntabs = @ - 2,
                          !.current = IF @ = t THEN NoTab ELSE @]
    IN IF gone.ntabs = 0 THEN gone ELSE Renumber(gone)

NotifyUnnumbered(r, t) ==
    [r EXCEPT !.tabs = Without(@, t), !.ntabs = @ - 1,
              !.current = IF @ = t THEN NoTab ELSE @]

\* multi_win_notify_tab_removed, for a window that keeps other tabs
NotifyTabRemoved(r, t) ==
    LET gone == [r EXCEPT !.tabs = Without(@, t), !.ntabs = @ - 1,
                          !.current = IF @ = t THEN NoTab ELSE @]
    IN IF gone.ntabs = 0 THEN gone ELSE Renumber(gone)

\* The page, the menu items and then the list entry of t go, as in
\* multi_tab_delete and multi_tab_remove_from_parent.
RemoveTab(r, t) ==
    NotifyTabRemoved([GtkRemovePage(r, t) EXCEPT !.menu = Without(@, t)], t)

\* What the loop of multi_win_close_other_tabs_action leaves: each pass of it
\* is RemoveTab for the first tab that is not the current one.
KeepCurrent(r) ==
    Renumber([r EXCEPT !.tabs = <<r.current>>, !.pages = <<r.current>>,
                       !.menu = <<r.current>>, !.ntabs = 1])

-----------------------------------------------------------------------------
(* Moving a tab along the bar.                                             *)

\* Slip: the menu is forgotten.
MoveInListOnly(r, t, pos) ==
    Renumber([r EXCEPT !.tabs = With(Without(@, t), t, pos)])

\* multi_tab_move_to_position with reorder FALSE: what page-reordered runs.
MoveInLists(r, t, pos) ==
    LET listed == Renumber([r EXCEPT !.tabs = With(Without(@, t), t, pos)])
    IN [listed EXCEPT !.menu = With(Without(@, t), t, pos)]

\* gtk_notebook_reorder_child; page-reordered only fires for a real move.
GtkReorder(r, t, pos) ==
    IF PageNum(r.pages, t) = pos THEN r
    ELSE MoveInLists([r EXCEPT !.pages = With(Without(@, t), t, pos)], t, pos)

\* multi_tab_move_to_position with reorder TRUE.
MoveToPosition(r, t, pos) == MoveInLists(GtkReorder(r, t, pos), t, pos)

-----------------------------------------------------------------------------
(* Positions the callers compute.                                          *)

\* multi_tab_new_defer_connect: beside the current tab, or at the end.
NewTabPosition(r, adjacent) ==
    IF r.current # NoTab /\ adjacent /\ PageNum(r.pages, r.current) + 1 # r.ntabs
    THEN PageNum(r.pages, r.current) + 1 ELSE -1

\* multi_win_move_tab_by_one: any position outside 0 .. ntabs - 1 is refused.
ShiftedPosition(r, dir, wrap) ==
    LET pos == PageNum(r.pages, r.current) + dir
    IN CASE wrap /\ pos < 0        -> r.ntabs - 1
         [] wrap /\ pos >= r.ntabs -> 0
         [] OTHER                  -> pos

\* multi_win_next_tab and multi_win_previous_tab_action: the page shown next,
\* found at the ends of win->tabs and walked along the notebook.
StepTarget(r, dir, wrap) ==
    LET i == IndexOf(r.pages, r.current)
        atEnd == r.current = r.tabs[IF dir = 1 THEN Len(r.tabs) ELSE 1]
    IN CASE atEnd /\ wrap  -> r.pages[IF dir = 1 THEN 1 ELSE r.ntabs]
         [] atEnd /\ ~wrap -> r.current
         [] OTHER          -> r.pages[i + dir]

-----------------------------------------------------------------------------
(***************************************************************************)
(* What every window on the screen satisfies between two events.           *)
(***************************************************************************)

\* No tab is listed twice, and the three orders are one.
OneOrder(r) == IsInjective(r.tabs) /\ r.pages = r.tabs /\ r.menu = r.tabs

\* The tab roxterm acts on is the page the user sees, and new tabs copy it.
OneCurrent(r) == /\ r.current \in ToSet(r.tabs)
                 /\ r.page = r.current
                 /\ r.template = r.current

\* Every label and the title carry the number and count of the moment.
NumbersFresh(r) == /\ r.ntabs = Len(r.tabs)
                   /\ \A t \in ToSet(r.tabs) : r.label[t] = Numbers(r, t)
                   /\ r.title = Numbers(r, r.current)

WindowOK(r) == OneOrder(r) /\ OneCurrent(r) /\ NumbersFresh(r)
=============================================================================
