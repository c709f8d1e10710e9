---------------------------- MODULE TabOwnership ----------------------------
(***************************************************************************)
(* What the windows of roxterm promise about tabs, with everything about   *)
(* notebooks, menus, dialogs and numbering left out: a tab that is open is *)
(* in one window; it is opened once, moves as a whole, and goes only when  *)
(* it is closed with others of its window; the program runs while a tab is *)
(* open and ends with the last one, for good.                              *)
(***************************************************************************)
CONSTANTS Tab, Win, NoWin

VARIABLES owner,     \* the window a tab is in, NoWin when it is not open
          up         \* the main loop runs

vars == <<owner, up>>

Used(own) == \E t \in Tab : own[t] # NoWin

Init == /\ owner \in [Tab -> Win \cup {NoWin}]
        /\ \E t \in Tab : \A u \in Tab : owner[u] # NoWin <=> u = t
        /\ up = TRUE

Open(t, w) == /\ up
              /\ owner[t] = NoWin
              /\ owner' = [owner EXCEPT ![t] = w]
              /\ UNCHANGED up

Move(t, w) == /\ up
              /\ owner[t] \notin {NoWin, w}
              /\ owner' = [owner EXCEPT ![t] = w]
              /\ UNCHANGED up

\* Some tabs of w are closed, all that are left of it or not.
Close(ts, w) == /\ up
                /\ ts # {}
                /\ \A t \in ts : owner[t] = w
                /\ owner' = [t \in Tab |-> IF t \in ts THEN NoWin ELSE owner[t]]
                /\ up' = Used(owner')

Next == \/ \E t \in Tab, w \in Win : Open(t, w) \/ Move(t, w)
        \/ \E ts \in SUBSET Tab, w \in Win : Close(ts, w)

Spec == Init /\ [][Next]_vars
=============================================================================
