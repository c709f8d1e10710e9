---------------------- MODULE ClipboardIndicator_proofs ----------------------
(***************************************************************************)
(* The safety properties of ClipboardIndicator hold for any number of      *)
(* terminals and texts.                                                    *)
(***************************************************************************)
EXTENDS ClipboardIndicator, TLAPS

\* A running flash has a frame to show: the timer stops itself before the
\* frame counter leaves its range.
FrameLeft == ticking => frame >= 0

\* Frame 0 is only shown when the button is to be hidden after it, unless a
\* write has come since.
LastFrame == ticking /\ frame = 0 /\ show => late

IInv == TypeOK /\ FrameLeft /\ LastFrame /\ ShownWhileDue

LEMMA InitIInv == Init => IInv
<1> SUFFICES ASSUME Init PROVE IInv
    OBVIOUS
<1>1. TypeOK
    <2>1. /\ show \in BOOLEAN /\ ticking \in BOOLEAN
          /\ visible \in BOOLEAN /\ opaque \in BOOLEAN /\ late \in BOOLEAN
        BY Zenon DEF Init
    <2>2. frame \in -1 .. 5
        <3>1. frame = 0
            BY Zenon DEF Init
        <3> QED
            BY <3>1
    <2>3. /\ current \in Tab /\ mode \in [Tab -> 0 .. 2]
          /\ pending = [t \in Tab |-> NoText] /\ clipboard = Empty
        BY Zenon DEF Init
    <2> QED
        BY <2>1, <2>2, <2>3 DEF TypeOK
<1>2. FrameLeft /\ LastFrame
    BY Zenon DEF Init, FrameLeft, LastFrame
<1>3. ShownWhileDue
    BY Zenon DEF Init, ShownWhileDue, OnScreen
<1> QED
    BY <1>1, <1>2, <1>3 DEF IInv

\* The part of IInv that is about the indicator.
FlashOK ==
    /\ frame \in -1 .. 5
    /\ show \in BOOLEAN /\ ticking \in BOOLEAN /\ late \in BOOLEAN
    /\ visible \in BOOLEAN /\ opaque \in BOOLEAN
    /\ FrameLeft /\ LastFrame /\ ShownWhileDue

\* What a flash does to the indicator, whatever asked for it.
LEMMA FlashIInv ==
    ASSUME IInv, NEW wanted \in BOOLEAN, NEW hidden \in BOOLEAN,
           Flash(wanted, hidden)
    PROVE  FlashOK' /\ ticking' /\ visible'
<1>1. /\ show' \in BOOLEAN /\ ticking' \in BOOLEAN /\ late' \in BOOLEAN
      /\ visible' \in BOOLEAN /\ opaque' \in BOOLEAN
    BY Zenon DEF IInv, TypeOK, Flash, Remembers
<1>2. /\ frame' \in -1 .. 5 /\ frame' >= 0
      /\ frame' = 0 => ticking /\ frame = 0
    <2>1. CASE ticking
        BY <2>1 DEF IInv, TypeOK, FrameLeft, Flash
    <2>2. CASE ~ticking
        <3>1. frame' = 5 \/ frame' = 4
            BY <2>2, Zenon DEF Flash
        <3> QED
            BY <3>1
    <2> QED
        BY <2>1, <2>2
<1>3. ticking' /\ visible'
    BY Zenon DEF IInv, ShownWhileDue, Flash
<1>4. frame' = 0 /\ show' => late'
    BY <1>2, Zenon DEF Flash, Remembers
<1> QED
    BY <1>1, <1>2, <1>3, <1>4, Zenon
    DEF FlashOK, FrameLeft, LastFrame, ShownWhileDue

LEMMA HideIInv == ASSUME IInv, Hide PROVE FlashOK'
<1>1. /\ show' = FALSE /\ visible' = (visible /\ ticking)
      /\ UNCHANGED <<frame, ticking, opaque, late>>
    BY DEF Hide
<1>2. /\ frame' \in -1 .. 5
      /\ show' \in BOOLEAN /\ ticking' \in BOOLEAN /\ late' \in BOOLEAN
      /\ visible' \in BOOLEAN /\ opaque' \in BOOLEAN
    BY <1>1, Zenon DEF IInv, TypeOK
<1>3. FrameLeft' /\ LastFrame'
    BY <1>1, Zenon DEF IInv, FrameLeft, LastFrame
<1>4. ShownWhileDue'
    BY <1>1, Zenon DEF IInv, ShownWhileDue, OnScreen
<1> QED
    BY <1>2, <1>3, <1>4, Zenon DEF FlashOK

\* The button rests opaque after frame 1, and hidden or transparent after
\* frame 0.
LEMMA TickIInv == ASSUME IInv, Tick PROVE FlashOK'
<1> DEFINE done == (frame' = 0 /\ show) \/ frame' < 0
<1>1. ticking /\ visible
    BY Zenon DEF Tick, IInv, ShownWhileDue
<1>2. frame \in 0 .. 5 /\ frame' = frame - 1
    BY <1>1 DEF Tick, NextFrame, IInv, TypeOK, FrameLeft
<1>3. /\ frame' \in -1 .. 5
      /\ ~done => frame' >= 0
      /\ frame' < 0 => frame = 0
    BY <1>2
<1>4. /\ ticking' = ~done
      /\ visible' = (visible /\ ~(done /\ ~show))
      /\ show' = show /\ late' = late
    BY Zenon DEF Tick, NextFrame
<1>5. opaque' \in BOOLEAN /\ (frame' = 0 => opaque')
    <2>1. opaque' = (frame % 2 = 1)
        BY DEF Tick, NextFrame
    <2>2. frame' = 0 => frame % 2 = 1
        BY <1>2
    <2> QED
        BY <2>1, <2>2, Zenon
<1>6. /\ ticking' \in BOOLEAN /\ visible' \in BOOLEAN
      /\ show' \in BOOLEAN /\ late' \in BOOLEAN
    BY <1>4, Zenon DEF IInv, TypeOK
<1>7. FrameLeft' /\ LastFrame'
    BY <1>3, <1>4, Zenon DEF FrameLeft, LastFrame
<1>8. ShownWhileDue'
    <2>1. ASSUME done PROVE ~late => (frame' = 0 /\ show) \/ ~show
        BY <1>1, <1>3, <2>1, Zenon DEF IInv, LastFrame
    <2> QED
        BY <1>1, <1>4, <1>5, <2>1, Zenon DEF ShownWhileDue, OnScreen
<1> QED
    BY <1>3, <1>5, <1>6, <1>7, <1>8, Zenon DEF FlashOK

LEMMA StepIInv == IInv /\ [Next]_vars => IInv'
<1> SUFFICES ASSUME IInv, [Next]_vars PROVE IInv'
    OBVIOUS
<1>1. CASE Tick
    <2>1. UNCHANGED <<current, mode, pending, clipboard>>
        BY <1>1 DEF Tick, NextFrame
    <2> QED
        BY <1>1, <2>1, TickIInv DEF FlashOK, IInv, TypeOK
<1>2. CASE Osc52
    <2>1. PICK text \in Text \cup {Empty} :
              /\ \/ mode[current] = 1 /\ Cache(text)
                 \/ /\ mode[current] = 2
                    /\ pending' = [pending EXCEPT ![current] = NoText]
                    /\ Write(text, FALSE)
              /\ UNCHANGED <<current, mode>>
        BY <1>2 DEF Osc52
    <2>2. CASE Cache(text)
        <3>1. Flash(TRUE, FALSE)
            BY <2>2 DEF Cache
        <3> QED
            BY <2>1, <2>2, <3>1, FlashIInv DEF FlashOK, Cache, IInv, TypeOK
    <2>3. CASE /\ pending' = [pending EXCEPT ![current] = NoText]
               /\ Write(text, FALSE)
        <3>1. Flash(text # Empty, FALSE)
            BY <2>3 DEF Write
        <3> QED
            BY <2>1, <2>3, <3>1, FlashIInv DEF FlashOK, Write, IInv, TypeOK
    <2> QED
        BY <2>1, <2>2, <2>3
<1>3. CASE ClickIndicator
    <2>1. CASE mode[current] = 1 /\ pending[current] # NoText
        <3>1. Flash(pending[current] # Empty, TRUE)
            BY <1>3, <2>1 DEF ClickIndicator, Write
        <3> QED
            BY <1>3, <2>1, <3>1, FlashIInv
            DEF FlashOK, ClickIndicator, Write, IInv, TypeOK
    <2>2. CASE ~(mode[current] = 1 /\ pending[current] # NoText)
        BY <1>3, <2>2, HideIInv DEF FlashOK, ClickIndicator, IInv, TypeOK
    <2> QED
        BY <2>1, <2>2
<1>4. CASE Copy
    BY <1>4, HideIInv DEF FlashOK, Copy, IInv, TypeOK
<1>5. CASE SelectTab
    BY <1>5 DEF SelectTab, flashVars, IInv, TypeOK, FrameLeft, LastFrame,
                ShownWhileDue, OnScreen
<1>6. CASE SetMode
    BY <1>6 DEF SetMode, flashVars, IInv, TypeOK, FrameLeft, LastFrame,
                ShownWhileDue, OnScreen
<1>7. CASE UNCHANGED vars
    BY <1>7 DEF vars, IInv, TypeOK, FrameLeft, LastFrame, ShownWhileDue,
                OnScreen
<1> QED
    BY <1>1, <1>2, <1>3, <1>4, <1>5, <1>6, <1>7 DEF Next

THEOREM SpecIInv == Spec => []IInv
BY InitIInv, StepIInv, PTL DEF Spec

-----------------------------------------------------------------------------
\* The indicator's state stays well-typed; in particular the frame counter
\* never leaves -1 .. 5, whatever writes arrive while it counts.
THEOREM TypeCorrect == Spec => []TypeOK
BY SpecIInv, PTL DEF IInv

\* The button has its place while it flashes; between flashes it is on screen,
\* opacity included, exactly if a write is to stay announced, unless the write
\* came in the last frame (multi_win_toggle_clipboard_indicator).
THEOREM ShownExactlyWhileDue == Spec => []ShownWhileDue
BY SpecIInv, PTL DEF IInv

-----------------------------------------------------------------------------
LEMMA StepAllowed ==
    IInv /\ [Next]_vars =>
        (clipboard' # clipboard /\ clipboard' # Selection =>
            \/ mode[current] = 2
            \/ /\ mode[current] = 1
               /\ pending[current] = clipboard' /\ pending'[current] = NoText)
<1> SUFFICES ASSUME IInv, Next, clipboard' # clipboard, clipboard' # Selection
             PROVE  \/ mode[current] = 2
                    \/ /\ mode[current] = 1
                       /\ pending[current] = clipboard'
                       /\ pending'[current] = NoText
    BY DEF vars
<1>1. CASE Tick
    BY <1>1 DEF Tick, NextFrame
<1>2. CASE Osc52
    BY <1>2 DEF Osc52, Cache
<1>3. CASE ClickIndicator
    BY <1>3 DEF ClickIndicator, Write, IInv, TypeOK
<1>4. CASE Copy
    BY <1>4 DEF Copy
<1>5. CASE SelectTab \/ SetMode
    BY <1>5 DEF SelectTab, SetMode
<1> QED
    BY <1>1, <1>2, <1>3, <1>4, <1>5 DEF Next

\* Text reaches the clipboard only where the profile lets the current terminal
\* write (mode 2), or as the text the user has just confirmed, once and only
\* while the profile still asks (mode 1).
THEOREM OnlyAllowedWrites == Spec => WritesAreAllowed
BY SpecIInv, StepAllowed, PTL DEF Spec, WritesAreAllowed

LEMMA StepAnnounced ==
    IInv /\ [Next]_vars =>
        (\/ clipboard' # clipboard /\ clipboard' # Selection
         \/ \E t \in Tab : pending'[t] \notin {pending[t], NoText}
         => ticking' /\ visible')
<1> SUFFICES ASSUME IInv, Next,
                    \/ clipboard' # clipboard /\ clipboard' # Selection
                    \/ \E t \in Tab : pending'[t] \notin {pending[t], NoText}
             PROVE  ticking' /\ visible'
    BY DEF vars
<1>1. CASE Osc52
    BY <1>1, FlashIInv DEF Osc52, Cache, Write
<1>2. CASE ClickIndicator
    <2>1. mode[current] = 1 /\ pending[current] # NoText
        BY <1>2 DEF ClickIndicator
    <2> QED
        BY <1>2, <2>1, FlashIInv DEF ClickIndicator, Write
<1>3. CASE Tick \/ Copy \/ SelectTab \/ SetMode
    BY <1>3 DEF Tick, NextFrame, Copy, SelectTab, SetMode, IInv, TypeOK
<1> QED
    BY <1>1, <1>2, <1>3 DEF Next

\* Nothing a program writes, or leaves waiting for confirmation, goes without
\* a flash of the visible indicator.
THEOREM EveryChangeAnnounced == Spec => ChangesAreAnnounced
BY SpecIInv, StepAnnounced, PTL DEF Spec, ChangesAreAnnounced
=============================================================================
