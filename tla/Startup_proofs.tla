---------------------------- MODULE Startup_proofs ----------------------------
(***************************************************************************)
(* Proofs about Startup: types, that no command line is served twice or by *)
(* a process it was not sent to, that windows are as they were asked, and  *)
(* that running processes hear of changed options.                         *)
(***************************************************************************)
EXTENDS Startup, TLAPS

Fresh == {"new", "starting", "sending", "loading"}

\* A message about p waits in q's queue at place i.
Asks(p, q, i) == i \in DOMAIN inbox[q] /\ inbox[q][i] = NewTerminal(p)

\* A command line that is not yet past main() has nothing behind it: it was not
\* served, not sent, and its options are those of its process.
FreshUnserved ==
    \A p \in Procs : pc[p] \in Fresh =>
      /\ served[p] = <<>> /\ sentTo[p] = Nobody
      /\ statics[p] \subseteq args[p]
      /\ pc[p] = "new" => args[p] = {}

\* A message stands for a command line that was sent there, once, and waits.
AskedOnce ==
    \A p, q \in Procs : \A i \in DOMAIN inbox[q] :
      inbox[q][i] = NewTerminal(p) =>
        /\ served[p] = <<>> /\ sentTo[p] = q /\ pc[p] \notin Fresh
        /\ \A j \in DOMAIN inbox[q] : inbox[q][j] = NewTerminal(p) => j = i

\* Where an option of process p may come from.
Asker(p, o) == \E q \in Procs : o \in args[q] /\ (q = p \/ sentTo[q] = p)

StaticsAsked == \A p \in Procs : \A o \in statics[p] : Asker(p, o)

Inv == /\ TypeOK /\ FreshUnserved /\ AskedOnce /\ ServedOnce
       /\ StaticsAsked /\ WindowsAsAsked

-----------------------------------------------------------------------------
(* Types.                                                                  *)

LEMMA MessageTypes ==
    /\ Acquired \in Message
    /\ \A p \in Procs : NewTerminal(p) \in Message
    /\ \A v \in 1 .. MaxChanges : OptionChanged(v) \in Message
    /\ \A m \in Message : m.type = "NewTerminal" =>
                             m.from \in Procs /\ m = NewTerminal(m.from)
    /\ \A m \in Message : m.type = "OptionChanged" => m.value \in 1 .. MaxChanges
<1>1. Acquired \in Message
    BY DEF Message
<1>2. \A p \in Procs : NewTerminal(p) \in Message
    BY DEF Message
<1>3. \A v \in 1 .. MaxChanges : OptionChanged(v) \in Message
    BY DEF Message
<1>4. ASSUME NEW m \in Message
      PROVE  /\ m.type = "NewTerminal" => m.from \in Procs /\ m = NewTerminal(m.from)
             /\ m.type = "OptionChanged" => m.value \in 1 .. MaxChanges
    <2>1. CASE m = Acquired
        BY <2>1 DEF Acquired
    <2>2. ASSUME NEW p \in Procs, m = NewTerminal(p)
          PROVE  m.type = "NewTerminal" /\ m.from = p
        BY <2>2 DEF NewTerminal
    <2>3. ASSUME NEW v \in 1 .. MaxChanges, m = OptionChanged(v)
          PROVE  m.type = "OptionChanged" /\ m.value = v
        BY <2>3 DEF OptionChanged
    <2>4. \/ m = Acquired \/ \E p \in Procs : m = NewTerminal(p)
          \/ \E v \in 1 .. MaxChanges : m = OptionChanged(v)
        BY DEF Message
    <2> QED
        BY <2>1, <2>2, <2>3, <2>4
<1> QED
    BY <1>1, <1>2, <1>3, <1>4

LEMMA TypeOfName == \A m \in Message : m.type = "NameAcquired" <=> m = Acquired
BY DEF Message, Acquired, NewTerminal, OptionChanged

LEMMA NobodyIsNoProc == Nobody \notin Procs
BY NAssumption DEF Nobody, Procs

LEMMA LaunchTypes ==
    ASSUME TypeOK, NEW p \in Procs, NEW q \in Procs, NEW set \in SUBSET Statics,
           Launch(p, q, set)
    PROVE  /\ served' \in [Procs -> Seq(Procs)]
           /\ windows' \in [Procs -> Seq(Window)]
           /\ statics' \in [Procs -> SUBSET Statics]
<1> DEFINE mode == {o \in {"fullscreen", "maximise"} :
                      o \in set /\ (o = "fullscreen" \/ "fullscreen" \notin set)}
           win == [for |-> q, how |-> mode \cup (set \cap {"borderless"})]
<1>1. win \in Window
    BY DEF Window
<1>2. served' \in [Procs -> Seq(Procs)]
    BY DEF Launch, TypeOK
<1>3. windows' = windows \/ windows' = [windows EXCEPT ![p] = Append(@, win)]
    BY DEF Launch
<1>4. windows' \in [Procs -> Seq(Window)]
    <2>1. windows[p] \in Seq(Window)
        BY DEF TypeOK
    <2> HIDE DEF win
    <2>2. Append(windows[p], win) \in Seq(Window)
        BY <1>1, <2>1
    <2>3. windows' = windows \/ windows' = [windows EXCEPT ![p] = Append(windows[p], win)]
        BY <1>3
    <2> QED
        BY <2>2, <2>3 DEF TypeOK
<1>5. statics' \in [Procs -> SUBSET Statics]
    BY DEF Launch, TypeOK
<1> QED
    BY <1>2, <1>4, <1>5

LEMMA ForgetTypes ==
    ASSUME TypeOK, NEW p \in Procs, Forget(p)
    PROVE  /\ bus' \subseteq Procs /\ ready' \subseteq Procs /\ idle' \subseteq Procs
           /\ statics' \in [Procs -> SUBSET Statics]
           /\ windows' \in [Procs -> Seq(Window)]
           /\ known' \in [Procs -> 0 .. MaxChanges]
           /\ since' \in [Procs -> 0 .. MaxChanges]
BY MaxChangesAssumption DEF TypeOK, Forget

LEMMA EndTypes ==
    ASSUME TypeOK, NEW p \in Procs, NEW how \in Ended, End(p, how),
           UNCHANGED <<args, served, sentTo, option>>
    PROVE  TypeOK'
<1>1. /\ bus' \subseteq Procs /\ ready' \subseteq Procs /\ idle' \subseteq Procs
      /\ statics' \in [Procs -> SUBSET Statics]
      /\ windows' \in [Procs -> Seq(Window)]
      /\ known' \in [Procs -> 0 .. MaxChanges]
      /\ since' \in [Procs -> 0 .. MaxChanges]
    BY ForgetTypes DEF End
<1>2. /\ pc' \in [Procs -> {"new", "starting", "sending", "loading", "running",
                            "ended", "aborted"}]
      /\ owner' \in Procs \cup {Nobody}
      /\ inbox' \in [Procs -> Seq(Message)]
      /\ parent' \in [Procs -> {"none", "waiting", "returned", "aborted"}]
    BY DEF TypeOK, End, Ended
<1> QED
    BY <1>1, <1>2 DEF TypeOK

LEMMA StartTypes ==
    ASSUME TypeOK, NEW p \in Procs, NEW line \in CommandLines, Start(p, line)
    PROVE  TypeOK'
<1>1. line \in SUBSET Options
    BY CommandLinesAssumption
<1> QED
    BY <1>1 DEF TypeOK, Start, Statics, Options

LEMMA RequestTypes ==
    ASSUME TypeOK, NEW p \in Procs, NoBus(p) \/ RequestName(p) \/ Send(p)
    PROVE  TypeOK'
<1>1. CASE NoBus(p)
    BY <1>1 DEF TypeOK, NoBus, ReadOptions
<1>2. CASE RequestName(p)
    <2>1. inbox' \in [Procs -> Seq(Message)] /\ owner' \in Procs \cup {Nobody}
        <3>1. inbox[p] \in Seq(Message) /\ Append(inbox[p], Acquired) \in Seq(Message)
            BY MessageTypes DEF TypeOK
        <3>2. \/ inbox' = inbox /\ owner' = owner
              \/ inbox' = [inbox EXCEPT ![p] = Append(inbox[p], Acquired)] /\ owner' = p
            BY <1>2 DEF RequestName
        <3> QED
            BY <3>1, <3>2 DEF TypeOK
    <2>2. /\ ready' \subseteq Procs
          /\ pc' \in [Procs -> {"new", "starting", "sending", "loading", "running",
                                "ended", "aborted"}]
        BY <1>2 DEF TypeOK, RequestName
    <2> QED
        BY <1>2, <2>1, <2>2 DEF TypeOK, RequestName, ReadOptions
<1>3. CASE Send(p)
    <2>1. /\ bus' \subseteq Procs /\ ready' \subseteq Procs /\ idle' \subseteq Procs
          /\ statics' \in [Procs -> SUBSET Statics]
          /\ windows' \in [Procs -> Seq(Window)]
          /\ known' \in [Procs -> 0 .. MaxChanges]
          /\ since' \in [Procs -> 0 .. MaxChanges]
        BY <1>3, ForgetTypes DEF Send
    <2>2. inbox' \in [Procs -> Seq(Message)]
        BY <1>3, MessageTypes DEF TypeOK, Send
    <2>3. parent' \in [Procs -> {"none", "waiting", "returned", "aborted"}]
        BY <1>3 DEF TypeOK, Send, TellParent
    <2> QED
        BY <1>3, <2>1, <2>2, <2>3 DEF TypeOK, Send
<1> QED
    BY <1>1, <1>2, <1>3

LEMMA LoadTypes ==
    ASSUME TypeOK, NEW p \in Procs, Load(p)
    PROVE  TypeOK'
<1>1. /\ served' \in [Procs -> Seq(Procs)]
      /\ windows' \in [Procs -> Seq(Window)]
      /\ statics' \in [Procs -> SUBSET Statics]
    <2>1. CASE Launch(p, p, statics[p])
        <3>1. statics[p] \in SUBSET Statics
            BY DEF TypeOK
        <3> QED
            BY <2>1, <3>1, LaunchTypes
    <2>2. CASE LoadSession(p)
        <3> DEFINE win == [for |-> p, how |-> {}]
        <3>1. win \in Window /\ windows[p] \in Seq(Window)
            BY DEF Window, TypeOK
        <3>2. windows' = [windows EXCEPT ![p] = Append(windows[p], win)]
            BY <2>2 DEF LoadSession
        <3>3. UNCHANGED <<served, statics>>
            BY <2>2 DEF LoadSession
        <3> HIDE DEF win
        <3>4. Append(windows[p], win) \in Seq(Window)
            BY <3>1
        <3> QED
            BY <3>2, <3>3, <3>4 DEF TypeOK
    <2> QED
        BY <2>1, <2>2 DEF Load
<1> QED
    BY <1>1 DEF TypeOK, Load

LEMMA ServedMessage ==
    ASSUME TypeOK, NEW p \in Procs, inbox[p] # <<>>
    PROVE  /\ Head(inbox[p]) \in Message /\ Head(inbox[p]) = inbox[p][1]
           /\ Tail(inbox[p]) \in Seq(Message)
<1>1. inbox[p] \in Seq(Message)
    BY DEF TypeOK
<1> QED
    BY <1>1

LEMMA ListenerSet ==
    ASSUME TypeOK, NEW p \in Procs, NEW q \in Procs
    PROVE  Reset(statics[p]) \cup (args[q] \cap Statics) \in SUBSET Statics
BY DEF TypeOK, Reset

LEMMA DispatchTypes ==
    ASSUME TypeOK, NEW p \in Procs, Dispatch(p)
    PROVE  TypeOK'
<1> DEFINE m == Head(inbox[p])
<1>1. m \in Message /\ inbox' \in [Procs -> Seq(Message)]
    BY ServedMessage DEF Dispatch, TypeOK
<1>2. /\ served' \in [Procs -> Seq(Procs)]
      /\ windows' \in [Procs -> Seq(Window)]
      /\ statics' \in [Procs -> SUBSET Statics]
    <2>1. CASE m.type = "NewTerminal"
        <3>1. m.from \in Procs
            BY <1>1, <2>1, MessageTypes
        <3>2. Launch(p, m.from, Reset(statics[p]) \cup (args[m.from] \cap Statics))
            BY <2>1 DEF Dispatch, NewTermListener
        <3> HIDE DEF m
        <3> QED
            BY <3>1, <3>2, ListenerSet, LaunchTypes
    <2>2. CASE m.type # "NewTerminal"
        BY <2>2 DEF Dispatch, TypeOK
    <2> QED
        BY <2>1, <2>2
<1>3. /\ parent' \in [Procs -> {"none", "waiting", "returned", "aborted"}]
      /\ ready' \subseteq Procs
    BY DEF Dispatch, ServiceReady, TellParent, TypeOK
<1>4. known' \in [Procs -> 0 .. MaxChanges]
    <2>1. m.type = "OptionChanged" => m.value \in 0 .. MaxChanges
        BY <1>1, MessageTypes, MaxChangesAssumption
    <2>2. \/ known' = known
          \/ known' = [known EXCEPT ![p] = option]
          \/ m.type = "OptionChanged" /\ known' = [known EXCEPT ![p] = m.value]
        BY DEF Dispatch, ReadOptions
    <2> QED
        BY <2>1, <2>2 DEF TypeOK
<1>5. UNCHANGED <<args, pc, owner, bus, idle, sentTo, option, since>>
    BY DEF Dispatch
<1> QED
    BY <1>1, <1>2, <1>3, <1>4, <1>5 DEF TypeOK

LEMMA ChangeTypes ==
    ASSUME TypeOK, ChangeOption
    PROVE  TypeOK'
<1>1. option' \in 1 .. MaxChanges /\ option' \in 0 .. MaxChanges
    BY MaxChangesAssumption DEF TypeOK, ChangeOption
<1>2. OptionChanged(option') \in Message
    BY <1>1, MessageTypes
<1>3. inbox' \in [Procs -> Seq(Message)]
    BY <1>2 DEF TypeOK, ChangeOption
<1> QED
    BY <1>1, <1>3 DEF TypeOK, ChangeOption

LEMMA TypesInductive ==
    ASSUME TypeOK, [Next]_vars
    PROVE  TypeOK'
<1>1. ASSUME NEW p \in Procs, NoCommand(p) \/ Quit(p) PROVE TypeOK'
    BY <1>1, EndTypes DEF NoCommand, Quit, Ended
<1>2. ASSUME NEW p \in Procs, IdleOk(p) PROVE TypeOK'
    <2>1. CASE End(p, "aborted")
        BY <1>2, <2>1, EndTypes DEF IdleOk, Ended
    <2>2. CASE ~End(p, "aborted")
        BY <1>2, <2>2 DEF IdleOk, TellParent, TypeOK
    <2> QED
        BY <2>1, <2>2
<1>3. CASE UNCHANGED vars
    BY <1>3 DEF vars, TypeOK
<1> QED
    BY <1>1, <1>2, <1>3, StartTypes, RequestTypes, LoadTypes, DispatchTypes,
       ChangeTypes DEF Next, Runs

-----------------------------------------------------------------------------
(* What the actions have in common.                                        *)

\* No message is added but such as nobody asks with.
LEMMA AskedQuiet ==
    ASSUME TypeOK, AskedOnce, UNCHANGED <<served, sentTo>>,
           \A p \in Procs : pc'[p] \in Fresh => pc[p] \in Fresh,
           \A q \in Procs : \/ inbox'[q] = inbox[q]
                           \/ inbox'[q] = <<>>
                           \/ \E m \in Message : /\ \A p \in Procs : m # NewTerminal(p)
                                                 /\ inbox'[q] = Append(inbox[q], m)
    PROVE  AskedOnce'
<1> SUFFICES ASSUME NEW p \in Procs, NEW q \in Procs, NEW i \in DOMAIN inbox'[q],
                    inbox'[q][i] = NewTerminal(p)
             PROVE  /\ served[p] = <<>> /\ sentTo[p] = q /\ pc'[p] \notin Fresh
                    /\ \A j \in DOMAIN inbox'[q] : inbox'[q][j] = NewTerminal(p) => j = i
    BY DEF AskedOnce
<1>1. inbox[q] \in Seq(Message)
    BY DEF TypeOK
<1>2. \A k \in DOMAIN inbox'[q] : inbox'[q][k] = NewTerminal(p) =>
         k \in DOMAIN inbox[q] /\ inbox[q][k] = NewTerminal(p)
    <2>1. CASE inbox'[q] = inbox[q]
        BY <2>1
    <2>2. CASE inbox'[q] = <<>>
        BY <2>2
    <2>3. ASSUME NEW m \in Message, m # NewTerminal(p), inbox'[q] = Append(inbox[q], m)
          PROVE  \A k \in DOMAIN inbox'[q] : inbox'[q][k] = NewTerminal(p) =>
                    k \in DOMAIN inbox[q] /\ inbox[q][k] = NewTerminal(p)
        BY <1>1, <2>3
    <2> QED
        BY <2>1, <2>2, <2>3
<1> QED
    BY <1>2 DEF AskedOnce

\* Command lines and where they were sent are only ever added to.
AskersStay == /\ \A q \in Procs : args[q] \subseteq args'[q]
              /\ \A q \in Procs : sentTo[q] # Nobody => sentTo'[q] = sentTo[q]

LEMMA AskerStays ==
    ASSUME AskersStay, NEW p \in Procs, NEW o, Asker(p, o)
    PROVE  Asker(p, o)'
BY NobodyIsNoProc DEF AskersStay, Asker

\* Windows are closed at most, static options forgotten.
LEMMA WindowsQuiet ==
    ASSUME TypeOK, StaticsAsked, WindowsAsAsked, AskersStay,
           \A q \in Procs : windows'[q] = windows[q] \/ windows'[q] = <<>>,
           \A q \in Procs : \A o \in statics'[q] : o \in statics[q] \/ o \in args'[q]
    PROVE  StaticsAsked' /\ WindowsAsAsked'
<1>1. StaticsAsked'
    <2>1. ASSUME NEW q \in Procs, NEW o \in statics'[q] PROVE Asker(q, o)'
        <3>1. CASE o \in statics[q]
            BY <3>1, AskerStays DEF StaticsAsked
        <3>2. CASE o \in args'[q]
            BY <3>2 DEF Asker
        <3> QED
            BY <3>1, <3>2
    <2> QED
        BY <2>1 DEF StaticsAsked
<1>2. ASSUME NEW p \in Procs, NEW k \in DOMAIN windows'[p]
      PROVE  /\ "fullscreen" \in windows'[p][k].how =>
                   "fullscreen" \in args'[windows'[p][k].for]
             /\ \A o \in windows'[p][k].how : Asker(p, o)'
    <2>1. windows'[p] = windows[p] /\ k \in DOMAIN windows[p]
        BY <1>2
    <2>2. windows[p][k] \in Window
        BY <2>1 DEF TypeOK
    <2>3. /\ "fullscreen" \in windows[p][k].how =>
                "fullscreen" \in args[windows[p][k].for]
          /\ \A o \in windows[p][k].how : Asker(p, o)
        BY <2>1 DEF WindowsAsAsked, Asker
    <2>4. windows[p][k].for \in Procs
        BY <2>2 DEF Window
    <2>5. \A o \in windows[p][k].how : Asker(p, o)'
        BY <2>3, AskerStays
    <2> QED
        BY <2>1, <2>3, <2>4, <2>5 DEF AskersStay
<1> QED
    BY <1>1, <1>2 DEF WindowsAsAsked, Asker

\* A window is opened for command line q in process p with the options in set.
LEMMA LaunchAsked ==
    ASSUME TypeOK, StaticsAsked, WindowsAsAsked, UNCHANGED <<args, sentTo>>,
           NEW p \in Procs, NEW q \in Procs, NEW set \in SUBSET Statics,
           Launch(p, q, set), \A o \in set : Asker(p, o),
           "fullscreen" \in set => "fullscreen" \in args[q]
    PROVE  StaticsAsked' /\ WindowsAsAsked'
<1> DEFINE mode == {o \in {"fullscreen", "maximise"} :
                      o \in set /\ (o = "fullscreen" \/ "fullscreen" \notin set)}
           win == [for |-> q, how |-> mode \cup (set \cap {"borderless"})]
<1>1. \A r \in Procs : \A o : Asker(r, o)' <=> Asker(r, o)
    BY DEF Asker
<1>2. /\ \A r \in Procs : r # p => statics'[r] = statics[r]
      /\ statics'[p] \subseteq set
    BY DEF Launch, TypeOK
<1>3. StaticsAsked'
    BY <1>1, <1>2 DEF StaticsAsked
<1>4. win.for = q /\ win.how \subseteq set
    OBVIOUS
<1>5. windows' = windows \/ windows' = [windows EXCEPT ![p] = Append(@, win)]
    BY DEF Launch
<1> HIDE DEF win
<1>6. ASSUME NEW r \in Procs, NEW k \in DOMAIN windows'[r]
      PROVE  /\ "fullscreen" \in windows'[r][k].how =>
                   "fullscreen" \in args[windows'[r][k].for]
             /\ \A o \in windows'[r][k].how : Asker(r, o)
    <2>1. windows[r] \in Seq(Window)
        BY DEF TypeOK
    <2>2. CASE k \in DOMAIN windows[r] /\ windows'[r][k] = windows[r][k]
        BY <2>2 DEF WindowsAsAsked, Asker
    <2>3. CASE r = p /\ windows'[r][k] = win
        BY <1>4, <2>3
    <2>4. CASE windows'[r] = windows[r]
        BY <1>6, <2>2, <2>4
    <2>5. CASE r = p /\ windows'[r] = Append(windows[r], win)
        <3>1. k \in 1 .. Len(windows[r]) + 1
            BY <1>6, <2>1, <2>5
        <3>2. CASE k = Len(windows[r]) + 1
            BY <2>1, <2>3, <2>5, <3>2
        <3>3. CASE k \in 1 .. Len(windows[r])
            BY <2>1, <2>2, <2>5, <3>3
        <3> QED
            BY <2>1, <3>1, <3>2, <3>3
    <2> QED
        BY <1>5, <2>4, <2>5 DEF TypeOK
<1>7. WindowsAsAsked'
    BY <1>1, <1>6 DEF WindowsAsAsked, Asker
<1> QED
    BY <1>3, <1>7

-----------------------------------------------------------------------------
(* The actions.                                                            *)

LEMMA EndKeeps ==
    ASSUME Inv, NEW p \in Procs, NEW how \in Ended, End(p, how),
           UNCHANGED <<args, served, sentTo, option>>
    PROVE  Inv'
<1>1. TypeOK'
    BY EndTypes DEF Inv
<1>2. /\ pc'[p] = how /\ \A q \in Procs \ {p} : pc'[q] = pc[q]
      /\ \A q \in Procs : inbox'[q] = inbox[q] \/ inbox'[q] = <<>>
      /\ statics'[p] = {} /\ \A q \in Procs \ {p} : statics'[q] = statics[q]
      /\ \A q \in Procs : windows'[q] = windows[q] \/ windows'[q] = <<>>
    BY DEF End, Forget, Inv, TypeOK
<1>3. how \notin Fresh
    BY DEF Ended, Fresh
<1>4. FreshUnserved'
    BY <1>2, <1>3 DEF Inv, FreshUnserved
<1>5. AskedOnce'
    BY <1>2, <1>3, AskedQuiet DEF Inv
<1>6. StaticsAsked' /\ WindowsAsAsked'
    <2>1. AskersStay
        BY DEF AskersStay
    <2>2. \A q \in Procs : \A o \in statics'[q] : o \in statics[q]
        BY <1>2
    <2> QED
        BY <1>2, <2>1, <2>2, WindowsQuiet DEF Inv
<1> QED
    BY <1>1, <1>4, <1>5, <1>6 DEF Inv, ServedOnce

LEMMA StartKeeps ==
    ASSUME Inv, NEW p \in Procs, NEW line \in CommandLines, Start(p, line)
    PROVE  Inv'
<1>1. TypeOK'
    BY StartTypes DEF Inv
<1>2. /\ pc[p] = "new" /\ pc'[p] = "starting" /\ \A q \in Procs \ {p} : pc'[q] = pc[q]
      /\ args'[p] = line /\ \A q \in Procs \ {p} : args'[q] = args[q]
      /\ statics'[p] = line \cap Statics
      /\ \A q \in Procs \ {p} : statics'[q] = statics[q]
      /\ UNCHANGED <<inbox, windows, served, sentTo>>
    BY DEF Start, Inv, TypeOK
<1>3. pc[p] \in Fresh /\ args[p] = {}
    BY <1>2 DEF Inv, FreshUnserved, Fresh
<1>4. FreshUnserved'
    BY <1>2, <1>3 DEF Inv, FreshUnserved, Fresh
<1>5. AskedOnce'
    BY <1>2, <1>3, AskedQuiet DEF Inv
<1>6. StaticsAsked' /\ WindowsAsAsked'
    <2>1. AskersStay
        BY <1>2, <1>3 DEF AskersStay
    <2>2. \A q \in Procs : \A o \in statics'[q] : o \in statics[q] \/ o \in args'[q]
        BY <1>2
    <2>3. \A q \in Procs : windows'[q] = windows[q]
        BY <1>2
    <2> QED
        BY <2>1, <2>2, <2>3, WindowsQuiet DEF Inv
<1> QED
    BY <1>1, <1>2, <1>4, <1>5, <1>6 DEF Inv, ServedOnce

\* Steps that send nobody a request and open no window.
LEMMA QuietKeeps ==
    ASSUME Inv, TypeOK', UNCHANGED <<args, statics, windows, served, sentTo>>,
           \A p \in Procs : pc'[p] \in Fresh =>
               pc[p] \in Fresh /\ (pc'[p] = "new" => pc[p] = "new"),
           \A q \in Procs : \/ inbox'[q] = inbox[q]
                           \/ \E m \in Message : /\ \A p \in Procs : m # NewTerminal(p)
                                                 /\ inbox'[q] = Append(inbox[q], m)
    PROVE  Inv'
<1>1. FreshUnserved'
    BY DEF Inv, FreshUnserved
<1>2. AskedOnce'
    BY AskedQuiet DEF Inv
<1>3. StaticsAsked' /\ WindowsAsAsked'
    BY DEF Inv, StaticsAsked, Asker, WindowsAsAsked
<1> QED
    BY <1>1, <1>2, <1>3 DEF Inv, ServedOnce

LEMMA NotAsking ==
    /\ \A p \in Procs : Acquired # NewTerminal(p)
    /\ \A p \in Procs, v \in 1 .. MaxChanges : OptionChanged(v) # NewTerminal(p)
BY DEF Acquired, NewTerminal, OptionChanged

LEMMA RequestKeeps ==
    ASSUME Inv, NEW p \in Procs, NoBus(p) \/ RequestName(p)
    PROVE  Inv'
<1>1. TypeOK'
    BY RequestTypes DEF Inv
<1>2. UNCHANGED <<args, statics, windows, served, sentTo>>
    BY DEF NoBus, RequestName
<1>3. \A q \in Procs : pc'[q] \in Fresh =>
         pc[q] \in Fresh /\ (pc'[q] = "new" => pc[q] = "new")
    <2>1. pc[p] = "starting" /\ pc'[p] \in {"sending", "loading"}
        BY DEF NoBus, RequestName, Inv, TypeOK
    <2>2. \A q \in Procs \ {p} : pc'[q] = pc[q]
        BY DEF NoBus, RequestName, Inv, TypeOK
    <2> QED
        BY <2>1, <2>2 DEF Fresh
<1>4. \A q \in Procs : inbox'[q] = inbox[q] \/ inbox'[q] = Append(inbox[q], Acquired)
    <2>1. inbox' = inbox \/ inbox' = [inbox EXCEPT ![p] = Append(inbox[p], Acquired)]
        BY DEF NoBus, RequestName
    <2> QED
        BY <2>1 DEF Inv, TypeOK
<1> QED
    BY <1>1, <1>2, <1>3, <1>4, MessageTypes, NotAsking, QuietKeeps

LEMMA ChangeKeeps ==
    ASSUME Inv, ChangeOption
    PROVE  Inv'
<1>1. TypeOK'
    BY ChangeTypes DEF Inv
<1>2. option' \in 1 .. MaxChanges
    BY MaxChangesAssumption DEF Inv, TypeOK, ChangeOption
<1>3. OptionChanged(option') \in Message
      /\ \A p \in Procs : OptionChanged(option') # NewTerminal(p)
    BY <1>2, MessageTypes, NotAsking
<1>4. \A q \in Procs : \/ inbox'[q] = inbox[q]
                       \/ inbox'[q] = Append(inbox[q], OptionChanged(option'))
    BY DEF ChangeOption
<1>5. UNCHANGED <<args, pc, statics, windows, served, sentTo>>
    BY DEF ChangeOption
<1> QED
    BY <1>1, <1>3, <1>4, <1>5, QuietKeeps

LEMMA SendKeeps ==
    ASSUME Inv, NEW p \in Procs, Send(p)
    PROVE  Inv'
<1>1. TypeOK'
    BY RequestTypes DEF Inv
<1>2. /\ pc[p] = "sending" /\ pc'[p] = "ended"
      /\ \A q \in Procs \ {p} : pc'[q] = pc[q]
      /\ sentTo'[p] = owner /\ \A q \in Procs \ {p} : sentTo'[q] = sentTo[q]
      /\ statics'[p] = {} /\ \A q \in Procs \ {p} : statics'[q] = statics[q]
      /\ \A q \in Procs : windows'[q] = windows[q] \/ windows'[q] = <<>>
      /\ UNCHANGED <<args, served>>
    BY DEF Send, Forget, Inv, TypeOK
<1>3. pc[p] \in Fresh /\ served[p] = <<>> /\ sentTo[p] = Nobody /\ "ended" \notin Fresh
    BY <1>2 DEF Inv, FreshUnserved, Fresh
<1>4. FreshUnserved'
    BY <1>2, <1>3 DEF Inv, FreshUnserved
<1>5. \A q \in Procs : \/ inbox'[q] = inbox[q]
                       \/ q = owner /\ inbox'[q] = Append(inbox[q], NewTerminal(p))
    BY DEF Send, Inv, TypeOK
<1>6. ASSUME NEW r \in Procs, NEW q \in Procs, NEW i \in DOMAIN inbox'[q],
             inbox'[q][i] = NewTerminal(r)
      PROVE  /\ served'[r] = <<>> /\ sentTo'[r] = q /\ pc'[r] \notin Fresh
             /\ \A j \in DOMAIN inbox'[q] : inbox'[q][j] = NewTerminal(r) => j = i
    <2>1. inbox[q] \in Seq(Message)
        BY DEF Inv, TypeOK
    <2>2. CASE r # p
        <3>1. NewTerminal(r) # NewTerminal(p)
            BY <2>2 DEF NewTerminal
        <3>2. \A k \in DOMAIN inbox'[q] : inbox'[q][k] = NewTerminal(r) =>
                 k \in DOMAIN inbox[q] /\ inbox[q][k] = NewTerminal(r)
            <4>1. CASE inbox'[q] = inbox[q]
                BY <4>1
            <4>2. CASE inbox'[q] = Append(inbox[q], NewTerminal(p))
                <5>1. ASSUME NEW k \in DOMAIN inbox'[q], k \notin DOMAIN inbox[q]
                      PROVE  inbox'[q][k] = NewTerminal(p)
                    BY <2>1, <4>2, <5>1
                <5>2. \A k \in DOMAIN inbox[q] : inbox'[q][k] = inbox[q][k]
                    BY <2>1, <4>2
                <5> QED
                    BY <3>1, <5>1, <5>2
            <4> QED
                BY <1>5, <4>1, <4>2
        <3> QED
            BY <1>2, <1>6, <2>2, <3>2 DEF Inv, AskedOnce
    <2>3. CASE r = p
        <3>1. \A k \in DOMAIN inbox[q] : inbox[q][k] # NewTerminal(p)
            BY <1>3 DEF Inv, AskedOnce
        <3>2. /\ q = owner
              /\ \A k \in DOMAIN inbox'[q] : inbox'[q][k] = NewTerminal(p) =>
                    k = Len(inbox[q]) + 1
            <4>1. inbox'[q] # inbox[q]
                BY <1>6, <2>3, <3>1
            <4>2. q = owner /\ inbox'[q] = Append(inbox[q], NewTerminal(p))
                BY <1>5, <4>1
            <4>3. \A k \in DOMAIN inbox'[q] :
                     k # Len(inbox[q]) + 1 =>
                        k \in DOMAIN inbox[q] /\ inbox'[q][k] = inbox[q][k]
                BY <2>1, <4>2
            <4> QED
                BY <3>1, <4>2, <4>3
        <3> QED
            BY <1>2, <1>3, <1>6, <2>3, <3>2
    <2> QED
        BY <2>2, <2>3
<1>7. AskedOnce'
    BY <1>6 DEF AskedOnce
<1>8. StaticsAsked' /\ WindowsAsAsked'
    <2>1. AskersStay
        BY <1>2, <1>3 DEF AskersStay
    <2>2. \A q \in Procs : \A o \in statics'[q] : o \in statics[q]
        BY <1>2
    <2> QED
        BY <1>2, <2>1, <2>2, WindowsQuiet DEF Inv
<1>9. ServedOnce'
    BY <1>2, <1>3 DEF Inv, ServedOnce
<1> QED
    BY <1>1, <1>4, <1>7, <1>8, <1>9 DEF Inv

\* A process opens a terminal for a command line that has not got one.
LEMMA ServedByLaunch ==
    ASSUME Inv, NEW p \in Procs, NEW q \in Procs, NEW set, Launch(p, q, set),
           served[q] = <<>>, q = p \/ sentTo[q] = p, UNCHANGED sentTo
    PROVE  /\ ServedOnce'
           /\ \A r \in Procs \ {q} : served'[r] = served[r]
<1>1. served' = [served EXCEPT ![q] = Append(served[q], p)]
    BY DEF Launch
<1>2. Append(served[q], p) = <<p>>
    OBVIOUS
<1>3. served'[q] = <<p>> /\ \A r \in Procs \ {q} : served'[r] = served[r]
    BY <1>1, <1>2 DEF Inv, TypeOK
<1>4. /\ Len(served'[q]) <= 1
      /\ \A k \in DOMAIN served'[q] : served'[q][k] \in {q, sentTo[q]}
    BY <1>3
<1>5. ServedOnce'
    BY <1>3, <1>4 DEF Inv, ServedOnce
<1> QED
    BY <1>3, <1>5

\* A session's window is neither fullscreen, maximised nor borderless on any
\* command line's account.
LEMMA SessionAsked ==
    ASSUME TypeOK, WindowsAsAsked, NEW p \in Procs, LoadSession(p),
           UNCHANGED <<args, sentTo>>
    PROVE  WindowsAsAsked'
<1> DEFINE win == [for |-> p, how |-> {}]
           Good(w, q) == /\ "fullscreen" \in w.how => "fullscreen" \in args[w.for]
                         /\ \A o \in w.how : \E r \in Procs :
                              o \in args[r] /\ (r = q \/ sentTo[r] = q)
<1>1. windows' = [windows EXCEPT ![p] = Append(windows[p], win)]
    BY DEF LoadSession
<1>2. \A q \in Procs : q # p => windows'[q] = windows[q]
    BY <1>1 DEF TypeOK
<1>3. windows'[p] = Append(windows[p], win) /\ windows[p] \in Seq(Window)
    BY <1>1 DEF TypeOK
<1>4. \A k \in DOMAIN windows'[p] :
         windows'[p][k] = win \/ (k \in DOMAIN windows[p] /\ windows'[p][k] = windows[p][k])
    <2> HIDE DEF win
    <2> QED
        BY <1>3
<1>5. \A q \in Procs : \A k \in DOMAIN windows[q] : Good(windows[q][k], q)
    BY DEF WindowsAsAsked
<1>6. \A q \in Procs : Good(win, q)
    OBVIOUS
<1>7. \A q \in Procs : \A k \in DOMAIN windows'[q] : Good(windows'[q][k], q)
    <2> HIDE DEF Good, win
    <2> QED
        BY <1>2, <1>4, <1>5, <1>6
<1> QED
    BY <1>7 DEF WindowsAsAsked

LEMMA LoadKeeps ==
    ASSUME Inv, NEW p \in Procs, Load(p)
    PROVE  Inv'
<1>1. TypeOK'
    BY LoadTypes DEF Inv
<1>2. /\ pc[p] = "loading" /\ pc'[p] = "running"
      /\ \A q \in Procs \ {p} : pc'[q] = pc[q]
      /\ UNCHANGED <<args, inbox, sentTo>>
    BY DEF Load, Inv, TypeOK
<1>3. /\ pc[p] \in Fresh /\ "running" \notin Fresh
      /\ served[p] = <<>> /\ statics[p] \subseteq args[p]
    BY <1>2 DEF Inv, FreshUnserved, Fresh
<1>4. \A q \in Procs \ {p} : served'[q] = served[q] /\ statics'[q] = statics[q]
    BY DEF Load, LoadSession, Launch, Inv, TypeOK
<1>5. FreshUnserved'
    BY <1>2, <1>3, <1>4 DEF Inv, FreshUnserved
<1>6. \A q, r \in Procs : \A i \in DOMAIN inbox[q] :
         inbox[q][i] = NewTerminal(r) => r # p
    BY <1>3 DEF Inv, AskedOnce
<1>7. AskedOnce'
    BY <1>2, <1>4, <1>6 DEF Inv, AskedOnce
<1>8. ServedOnce' /\ StaticsAsked' /\ WindowsAsAsked'
    <2>1. CASE Launch(p, p, statics[p])
        <3>1. statics[p] \in SUBSET Statics
            BY DEF Inv, TypeOK
        <3>2. \A o \in statics[p] : Asker(p, o)
            BY DEF Inv, StaticsAsked
        <3>3. StaticsAsked' /\ WindowsAsAsked'
            BY <1>2, <1>3, <2>1, <3>1, <3>2, LaunchAsked DEF Inv
        <3> QED
            BY <1>2, <1>3, <2>1, <3>3, ServedByLaunch
    <2>2. CASE LoadSession(p)
        <3>1. ServedOnce' /\ StaticsAsked'
            BY <1>2, <2>2 DEF LoadSession, Inv, ServedOnce, StaticsAsked, Asker
        <3>2. WindowsAsAsked'
            BY <1>2, <2>2, SessionAsked DEF Inv
        <3> QED
            BY <3>1, <3>2
    <2> QED
        BY <2>1, <2>2 DEF Load
<1> QED
    BY <1>1, <1>5, <1>7, <1>8 DEF Inv

\* What is left in the queue of p when its first message is taken.
LEMMA TailAsks ==
    ASSUME TypeOK, NEW p \in Procs, inbox[p] # <<>>, NEW k \in DOMAIN Tail(inbox[p])
    PROVE  k + 1 \in DOMAIN inbox[p] /\ k + 1 # 1 /\ Tail(inbox[p])[k] = inbox[p][k + 1]
<1>1. inbox[p] \in Seq(Message)
    BY DEF TypeOK
<1> QED
    BY <1>1

LEMMA DispatchKeeps ==
    ASSUME Inv, NEW p \in Procs, Dispatch(p)
    PROVE  Inv'
<1> DEFINE m == Head(inbox[p])
<1>1. TypeOK'
    BY DispatchTypes DEF Inv
<1>2. /\ pc[p] = "running" /\ inbox[p] # <<>> /\ UNCHANGED <<args, pc, sentTo>>
      /\ inbox'[p] = Tail(inbox[p]) /\ \A q \in Procs \ {p} : inbox'[q] = inbox[q]
    BY DEF Dispatch, Inv, TypeOK
<1>3. m \in Message /\ m = inbox[p][1] /\ 1 \in DOMAIN inbox[p]
    <2>1. inbox[p] \in Seq(Message)
        BY DEF Inv, TypeOK
    <2> QED
        BY <1>2, <2>1
<1>4. ASSUME NEW r \in Procs, NEW q \in Procs, NEW i \in DOMAIN inbox'[q],
             inbox'[q][i] = NewTerminal(r)
      PROVE  /\ served[r] = <<>> /\ sentTo[r] = q /\ pc[r] \notin Fresh
             /\ m # NewTerminal(r)
             /\ \A j \in DOMAIN inbox'[q] : inbox'[q][j] = NewTerminal(r) => j = i
    <2>1. CASE q = p
        <3>1. /\ i + 1 \in DOMAIN inbox[p] /\ inbox[p][i + 1] = NewTerminal(r)
              /\ i + 1 # 1
            BY <1>2, <1>4, <2>1, TailAsks DEF Inv
        <3>2. \A j \in DOMAIN inbox'[p] : /\ j + 1 \in DOMAIN inbox[p]
                                         /\ inbox'[p][j] = inbox[p][j + 1]
            BY <1>2, TailAsks DEF Inv
        <3>3. /\ served[r] = <<>> /\ sentTo[r] = p /\ pc[r] \notin Fresh
              /\ \A j \in DOMAIN inbox[p] : inbox[p][j] = NewTerminal(r) => j = i + 1
            BY <3>1 DEF Inv, AskedOnce
        <3>4. m # NewTerminal(r)
            BY <1>3, <3>1, <3>3
        <3>5. \A j \in DOMAIN inbox'[p] : inbox'[p][j] = NewTerminal(r) => j = i
            <4>1. inbox'[p] \in Seq(Message)
                BY <1>1 DEF TypeOK
            <4>2. SUFFICES ASSUME NEW j \in DOMAIN inbox'[p],
                                  inbox'[p][j] = NewTerminal(r)
                           PROVE  j = i
                OBVIOUS
            <4>3. j + 1 = i + 1
                BY <3>2, <3>3, <4>2
            <4>4. j \in Nat /\ i \in Nat
                BY <2>1, <4>1, <4>2
            <4> QED
                BY <4>3, <4>4
        <3> QED
            BY <2>1, <3>3, <3>4, <3>5
    <2>2. CASE q # p
        <3>1. /\ served[r] = <<>> /\ sentTo[r] = q /\ pc[r] \notin Fresh
              /\ \A j \in DOMAIN inbox[q] : inbox[q][j] = NewTerminal(r) => j = i
            BY <1>2, <1>4, <2>2 DEF Inv, AskedOnce
        <3>2. m # NewTerminal(r)
            BY <1>3, <2>2, <3>1 DEF Inv, AskedOnce
        <3> QED
            BY <1>2, <2>2, <3>1, <3>2
    <2> QED
        BY <2>1, <2>2
<1>5. CASE m.type = "NewTerminal"
    <2> DEFINE q == m.from
               set == Reset(statics[p]) \cup (args[q] \cap Statics)
    <2>1. q \in Procs /\ m = NewTerminal(q)
        BY <1>3, <1>5, MessageTypes
    <2>2. served[q] = <<>> /\ sentTo[q] = p /\ pc[q] \notin Fresh
        BY <1>3, <2>1 DEF Inv, AskedOnce
    <2>3. Launch(p, q, set)
        BY <1>5 DEF Dispatch, NewTermListener
    <2>4. set \in SUBSET Statics
        BY <2>1, ListenerSet DEF Inv
    <2>5. /\ \A o \in set : Asker(p, o)
          /\ "fullscreen" \in set => "fullscreen" \in args[q]
        BY <2>1, <2>2 DEF Reset, Inv, StaticsAsked, Asker
    <2> HIDE DEF m, q, set
    <2>6. StaticsAsked' /\ WindowsAsAsked'
        BY <1>2, <2>1, <2>3, <2>4, <2>5, LaunchAsked DEF Inv
    <2>7. ServedOnce' /\ \A r \in Procs \ {q} : served'[r] = served[r]
        BY <1>2, <2>1, <2>2, <2>3, ServedByLaunch
    <2>8. \A r \in Procs \ {p} : statics'[r] = statics[r]
        BY <2>3 DEF Launch, Inv, TypeOK
    <2>9. FreshUnserved'
        <3>1. pc[p] \notin Fresh
            BY <1>2 DEF Fresh
        <3> QED
            BY <1>2, <2>2, <2>7, <2>8, <3>1 DEF Inv, FreshUnserved
    <2>10. AskedOnce'
        BY <1>2, <1>4, <2>1, <2>7 DEF AskedOnce
    <2> QED
        BY <1>1, <2>6, <2>7, <2>9, <2>10 DEF Inv
<1>6. CASE m.type # "NewTerminal"
    <2>1. UNCHANGED <<windows, served, statics>>
        BY <1>6 DEF Dispatch
    <2>2. AskedOnce'
        BY <1>2, <1>4, <2>1 DEF AskedOnce
    <2>3. FreshUnserved'
        BY <1>2, <2>1 DEF Inv, FreshUnserved
    <2>4. ServedOnce' /\ StaticsAsked' /\ WindowsAsAsked'
        BY <1>2, <2>1 DEF Inv, ServedOnce, StaticsAsked, Asker, WindowsAsAsked
    <2> QED
        BY <1>1, <2>2, <2>3, <2>4 DEF Inv
<1> QED
    BY <1>5, <1>6

LEMMA IdleKeeps ==
    ASSUME Inv, NEW p \in Procs, IdleOk(p)
    PROVE  Inv'
<1>1. CASE End(p, "aborted")
    BY <1>1, EndKeeps DEF IdleOk, Ended
<1>2. CASE ~End(p, "aborted")
    <2>1. UNCHANGED <<args, pc, inbox, statics, windows, served, sentTo>>
        BY <1>2 DEF IdleOk
    <2>2. TypeOK'
        BY <1>2 DEF IdleOk, TellParent, Inv, TypeOK
    <2> QED
        BY <2>1, <2>2, QuietKeeps
<1> QED
    BY <1>1, <1>2

LEMMA InvInductive == Inv /\ [Next]_vars => Inv'
<1> SUFFICES ASSUME Inv, [Next]_vars PROVE Inv'
    OBVIOUS
<1>1. ASSUME NEW p \in Procs, NoCommand(p) \/ Quit(p) PROVE Inv'
    BY <1>1, EndKeeps DEF NoCommand, Quit, Ended
<1>2. CASE UNCHANGED vars
    <2>1. TypeOK'
        BY <1>2 DEF vars, Inv, TypeOK
    <2> QED
        BY <1>2, <2>1, QuietKeeps DEF vars
<1> QED
    BY <1>1, <1>2, StartKeeps, RequestKeeps, SendKeeps, LoadKeeps, DispatchKeeps,
       IdleKeeps, ChangeKeeps DEF Next, Runs

LEMMA InvInitial == Init => Inv
<1> SUFFICES ASSUME Init PROVE Inv
    OBVIOUS
<1>1. TypeOK
    <2>1. 0 \in 0 .. MaxChanges
        BY MaxChangesAssumption
    <2> QED
        BY <2>1 DEF Init, TypeOK
<1>2. FreshUnserved
    BY DEF Init, FreshUnserved
<1>3. AskedOnce /\ ServedOnce
    BY DEF Init, AskedOnce, ServedOnce
<1>4. StaticsAsked /\ WindowsAsAsked
    BY DEF Init, StaticsAsked, WindowsAsAsked
<1> QED
    BY <1>1, <1>2, <1>3, <1>4 DEF Inv

LEMMA InvAlways == Spec => []Inv
BY InvInitial, InvInductive, PTL DEF Spec

-----------------------------------------------------------------------------
(* What a process knows of the options.                                    *)

IsChange(m) == m.type = "OptionChanged"

\* No change of an option waits in p's queue; NameAcquired does.
NoChange(p) == \A i \in DOMAIN inbox[p] : ~IsChange(inbox[p][i])
WaitsForName(p) == \E i \in DOMAIN inbox[p] : inbox[p][i] = Acquired

\* The name comes before any change, so that the filter takes none of those.
NameFirst(p) ==
    \A i, j \in DOMAIN inbox[p] :
      inbox[p][i] = Acquired /\ IsChange(inbox[p][j]) => i < j

\* The last change that waits is the last there was.
LastIsLatest(p) ==
    \A i \in DOMAIN inbox[p] :
      IsChange(inbox[p][i]) /\ (\A j \in DOMAIN inbox[p] : IsChange(inbox[p][j]) => j <= i)
        => inbox[p][i].value = option

\* The filter stays until the name comes; the parent waits for as long.
Filtered(p) ==
    pc[p] \in {"loading", "running"} /\ p \in ready =>
      /\ parent[p] = "waiting" /\ p \notin idle
      /\ WaitsForName(p) \/ args[p] \cap {"separate", "session"} # {}

\* A process that hears of changes knows of the latest one, unless its filter
\* waits for a name that does not come, or there was none since it listens.
Knows(p) == \/ known[p] = option \/ option = since[p] \/ p \notin bus
            \/ p \in ready /\ ~WaitsForName(p)

Hears(p) ==
    /\ pc[p] # "running" \/ p \notin bus => NoChange(p)
    /\ pc[p] \in {"new", "starting"} => p \notin ready
    /\ pc[p] \in Fresh => p \notin idle
    /\ pc[p] = "starting" /\ "fork" \in args[p] => parent[p] = "waiting"
    /\ Filtered(p)
    /\ NameFirst(p)
    /\ pc[p] = "running" =>
         /\ LastIsLatest(p)
         /\ NoChange(p) => Knows(p)

AllHear == \A p \in Procs : Hears(p)

\* What a message put at the end of a queue changes.
LEMMA Grown ==
    ASSUME TypeOK, NEW q \in Procs, NEW m, inbox'[q] = Append(inbox[q], m)
    PROVE  /\ DOMAIN inbox'[q] = DOMAIN inbox[q] \cup {Len(inbox[q]) + 1}
           /\ inbox'[q][Len(inbox[q]) + 1] = m
           /\ \A i \in DOMAIN inbox[q] :
                inbox'[q][i] = inbox[q][i] /\ i < Len(inbox[q]) + 1 /\ i \in Nat
<1>1. inbox[q] \in Seq(Message)
    BY DEF TypeOK
<1> QED
    BY <1>1

LEMMA GrownQuietly ==
    ASSUME TypeOK, NEW q \in Procs, NEW m, inbox'[q] = Append(inbox[q], m),
           ~IsChange(m), NoChange(q)
    PROVE  NoChange(q)'
BY Grown DEF NoChange

LEMMA NoOtherType ==
    /\ ~IsChange(Acquired)
    /\ \A p \in Procs : ~IsChange(NewTerminal(p)) /\ NewTerminal(p) # Acquired
    /\ \A v \in 1 .. MaxChanges : /\ IsChange(OptionChanged(v))
                                  /\ OptionChanged(v).value = v
                                  /\ OptionChanged(v) # Acquired
BY DEF IsChange, Acquired, NewTerminal, OptionChanged

\* A step that does not touch q but may send it a command line.
LEMMA UntouchedHears ==
    ASSUME TypeOK, NEW q \in Procs, Hears(q),
           pc'[q] = pc[q], parent'[q] = parent[q], args'[q] = args[q],
           known'[q] = known[q], since'[q] = since[q], option' = option,
           q \in bus' <=> q \in bus, q \in ready' <=> q \in ready, q \in idle' <=> q \in idle,
           \/ inbox'[q] = inbox[q]
           \/ \E r \in Procs : inbox'[q] = Append(inbox[q], NewTerminal(r))
    PROVE  Hears(q)'
<1>1. CASE inbox'[q] = inbox[q]
    BY <1>1 DEF Hears, Knows, NoChange, WaitsForName, NameFirst, LastIsLatest, Filtered
<1>2. ASSUME NEW r \in Procs, inbox'[q] = Append(inbox[q], NewTerminal(r))
      PROVE  Hears(q)'
    <2> DEFINE n == Len(inbox[q]) + 1
    <2>1. /\ DOMAIN inbox'[q] = DOMAIN inbox[q] \cup {n}
          /\ ~IsChange(inbox'[q][n]) /\ inbox'[q][n] # Acquired
          /\ \A i \in DOMAIN inbox[q] : inbox'[q][i] = inbox[q][i]
        BY <1>2, Grown, NoOtherType
    <2> HIDE DEF n
    <2>2. NoChange(q)' <=> NoChange(q)
        BY <2>1 DEF NoChange
    <2>3. WaitsForName(q)' <=> WaitsForName(q)
        BY <2>1 DEF WaitsForName
    <2>4. NameFirst(q)'
        BY <2>1 DEF NameFirst, Hears
    <2>5. LastIsLatest(q) => LastIsLatest(q)'
        BY <2>1 DEF LastIsLatest
    <2> QED
        BY <2>2, <2>3, <2>4, <2>5 DEF Hears, Knows, Filtered
<1> QED
    BY <1>1, <1>2

\* A process that has ended and has no changes to hear of.
LEMMA EndedHears ==
    ASSUME NEW p \in Procs, pc'[p] \in Ended, NoChange(p)'
    PROVE  Hears(p)'
BY DEF Hears, Ended, Fresh, NoChange, NameFirst, Filtered

LEMMA EndHears ==
    ASSUME TypeOK, AllHear, NEW p \in Procs, NEW how \in Ended, End(p, how),
           UNCHANGED <<args, served, sentTo, option>>
    PROVE  AllHear'
<1>1. ASSUME NEW q \in Procs, q # p PROVE Hears(q)'
    <2>1. /\ pc'[q] = pc[q] /\ parent'[q] = parent[q] /\ known'[q] = known[q]
          /\ since'[q] = since[q]
          /\ q \in bus' <=> q \in bus
          /\ q \in ready' <=> q \in ready
          /\ q \in idle' <=> q \in idle
          /\ inbox'[q] = inbox[q]
        BY <1>1 DEF End, Forget, TypeOK
    <2> QED
        BY <2>1, UntouchedHears DEF AllHear
<1>2. Hears(p)'
    <2>1. pc'[p] = how /\ inbox'[p] = <<>>
        BY DEF End, TypeOK
    <2>2. NoChange(p)'
        BY <2>1 DEF NoChange
    <2> QED
        BY <2>1, <2>2, EndedHears
<1> QED
    BY <1>1, <1>2 DEF AllHear

LEMMA StartHears ==
    ASSUME TypeOK, AllHear, NEW p \in Procs, NEW line \in CommandLines, Start(p, line)
    PROVE  AllHear'
<1>1. ASSUME NEW q \in Procs, q # p PROVE Hears(q)'
    <2>1. /\ pc'[q] = pc[q] /\ parent'[q] = parent[q] /\ args'[q] = args[q]
          /\ UNCHANGED <<known, since, bus, ready, idle, inbox, option>>
        BY <1>1 DEF Start, TypeOK
    <2> QED
        BY <2>1, UntouchedHears DEF AllHear
<1>2. Hears(p)'
    <2>1. /\ pc[p] = "new" /\ pc'[p] = "starting" /\ args'[p] = line
          /\ "fork" \in line => parent'[p] = "waiting"
          /\ UNCHANGED <<known, since, bus, ready, idle, inbox, option>>
        BY DEF Start, TypeOK
    <2>2. NoChange(p) /\ p \notin ready /\ p \notin idle /\ NameFirst(p)
        BY <2>1 DEF AllHear, Hears, Fresh
    <2>3. NoChange(p)' /\ NameFirst(p)'
        BY <2>1, <2>2 DEF NoChange, NameFirst
    <2> QED
        BY <2>1, <2>2, <2>3 DEF Hears, Filtered
<1> QED
    BY <1>1, <1>2 DEF AllHear

LEMMA RequestHears ==
    ASSUME TypeOK, AllHear, NEW p \in Procs, NoBus(p) \/ RequestName(p)
    PROVE  AllHear'
<1>1. ASSUME NEW q \in Procs, q # p PROVE Hears(q)'
    <2>1. /\ pc'[q] = pc[q] /\ inbox'[q] = inbox[q] /\ known'[q] = known[q]
          /\ q \in bus' <=> q \in bus
          /\ q \in ready' <=> q \in ready
          /\ UNCHANGED <<args, parent, since, idle, option>>
        <3>1. CASE NoBus(p)
            BY <1>1, <3>1 DEF NoBus, ReadOptions, TypeOK
        <3>2. CASE RequestName(p)
            <4>1. known'[q] = known[q] /\ pc'[q] = pc[q]
                BY <1>1, <3>2 DEF RequestName, ReadOptions, TypeOK
            <4>2. inbox'[q] = inbox[q]
                BY <1>1, <3>2 DEF RequestName, TypeOK
            <4> QED
                BY <1>1, <3>2, <4>1, <4>2 DEF RequestName
        <3> QED
            BY <3>1, <3>2
    <2> QED
        BY <2>1, UntouchedHears DEF AllHear
<1>2. Hears(p)'
    <2>1. /\ pc[p] = "starting" /\ pc'[p] \in {"sending", "loading"}
          /\ UNCHANGED <<args, parent, idle, option>>
        BY DEF NoBus, RequestName, TypeOK
    <2>2. /\ NoChange(p) /\ p \notin ready /\ p \notin idle
          /\ "fork" \in args[p] => parent[p] = "waiting"
        BY <2>1 DEF AllHear, Hears, Fresh
    <2>3. /\ inbox'[p] = inbox[p] \/ inbox'[p] = Append(inbox[p], Acquired)
          /\ p \in ready' => "fork" \in args[p]
          /\ pc'[p] = "loading" /\ p \in ready' =>
                \/ inbox'[p] = Append(inbox[p], Acquired)
                \/ args[p] \cap {"separate", "session"} # {}
        BY <2>2 DEF NoBus, RequestName, TypeOK
    <2>4. NoChange(p)'
        BY <2>2, <2>3, GrownQuietly, NoOtherType DEF NoChange
    <2>5. NameFirst(p)'
        BY <2>4 DEF NoChange, NameFirst
    <2>6. inbox'[p] = Append(inbox[p], Acquired) => WaitsForName(p)'
        BY Grown DEF WaitsForName
    <2> QED
        BY <2>1, <2>2, <2>3, <2>4, <2>5, <2>6 DEF Hears, Filtered
<1> QED
    BY <1>1, <1>2 DEF AllHear

LEMMA SendHears ==
    ASSUME TypeOK, AllHear, NEW p \in Procs, Send(p)
    PROVE  AllHear'
<1>1. \A q \in Procs : \/ inbox'[q] = inbox[q]
                       \/ inbox'[q] = Append(inbox[q], NewTerminal(p))
    BY DEF Send, TypeOK
<1>2. ASSUME NEW q \in Procs, q # p PROVE Hears(q)'
    <2>1. /\ pc'[q] = pc[q] /\ parent'[q] = parent[q] /\ known'[q] = known[q]
          /\ since'[q] = since[q]
          /\ q \in bus' <=> q \in bus
          /\ q \in ready' <=> q \in ready
          /\ q \in idle' <=> q \in idle
          /\ UNCHANGED <<args, option>>
        BY <1>2 DEF Send, Forget, TellParent, TypeOK
    <2> QED
        BY <1>1, <2>1, UntouchedHears DEF AllHear
<1>3. Hears(p)'
    <2>1. pc[p] = "sending" /\ pc'[p] = "ended"
        BY DEF Send, TypeOK
    <2>2. NoChange(p)
        BY <2>1 DEF AllHear, Hears
    <2>3. NoChange(p)'
        BY <1>1, <2>2, GrownQuietly, NoOtherType DEF NoChange
    <2> QED
        BY <2>1, <2>3, EndedHears DEF Ended
<1> QED
    BY <1>2, <1>3 DEF AllHear

LEMMA LoadHears ==
    ASSUME TypeOK, AllHear, NEW p \in Procs, Load(p)
    PROVE  AllHear'
<1>1. UNCHANGED <<args, parent, inbox, bus, ready, option, known>>
    BY DEF Load
<1>2. ASSUME NEW q \in Procs, q # p PROVE Hears(q)'
    <2>1. /\ pc'[q] = pc[q] /\ since'[q] = since[q]
          /\ q \in idle' <=> q \in idle
        BY <1>2 DEF Load, TypeOK
    <2> QED
        BY <1>1, <2>1, UntouchedHears DEF AllHear
<1>3. Hears(p)'
    <2>1. /\ pc[p] = "loading" /\ pc'[p] = "running" /\ since'[p] = option
          /\ p \in ready => idle' = idle
        BY DEF Load, TypeOK
    <2>2. NoChange(p) /\ Filtered(p) /\ NameFirst(p)
        BY <2>1 DEF AllHear, Hears
    <2>3. NoChange(p)' /\ NameFirst(p)' /\ WaitsForName(p)' = WaitsForName(p)
        BY <1>1, <2>2 DEF NoChange, NameFirst, WaitsForName
    <2>4. Filtered(p)'
        BY <1>1, <2>1, <2>2, <2>3 DEF Filtered
    <2>5. LastIsLatest(p)'
        BY <2>3 DEF NoChange, LastIsLatest
    <2> QED
        BY <1>1, <2>1, <2>3, <2>4, <2>5 DEF Hears, Knows, Fresh
<1> QED
    BY <1>2, <1>3 DEF AllHear

\* The messages after the first, each one place nearer.
LEMMA Shifted ==
    ASSUME NEW s \in Seq(Message), s # <<>>
    PROVE  /\ Head(s) = s[1] /\ 1 \in DOMAIN s
           /\ \A i \in DOMAIN Tail(s) : i \in Nat /\ i + 1 \in DOMAIN s /\ Tail(s)[i] = s[i + 1]
           /\ \A i \in DOMAIN s : i \in Nat /\ i >= 1
                                  /\ (i # 1 => i - 1 \in DOMAIN Tail(s)
                                               /\ Tail(s)[i - 1] = s[i])
OBVIOUS

LEMMA DispatchHears ==
    ASSUME TypeOK, AllHear, NEW p \in Procs, Dispatch(p)
    PROVE  AllHear'
<1> DEFINE m == Head(inbox[p])
<1>1. /\ pc[p] = "running" /\ UNCHANGED <<args, pc, bus, idle, option, since>>
      /\ inbox[p] # <<>> /\ inbox'[p] = Tail(inbox[p])
      /\ \A q \in Procs \ {p} : inbox'[q] = inbox[q]
    BY DEF Dispatch, TypeOK
<1>2. ASSUME NEW q \in Procs, q # p PROVE Hears(q)'
    <2>1. /\ parent'[q] = parent[q] /\ known'[q] = known[q]
          /\ q \in ready' <=> q \in ready
        BY <1>2 DEF Dispatch, ReadOptions, ServiceReady, TellParent, TypeOK
    <2> QED
        BY <1>1, <1>2, <2>1, UntouchedHears DEF AllHear
<1>3. Hears(p)'
    <2>1. /\ Filtered(p) /\ NameFirst(p) /\ LastIsLatest(p)
          /\ NoChange(p) => Knows(p)
          /\ p \notin bus => NoChange(p)
        BY <1>1 DEF AllHear, Hears
    <2>2. inbox[p] \in Seq(Message) /\ m \in Message /\ m = inbox[p][1]
        BY <1>1, ServedMessage DEF TypeOK
    <2>3. /\ m = Acquired /\ p \in ready => p \notin ready'
          /\ ~(m = Acquired /\ p \in ready) => ready' = ready /\ parent' = parent
          /\ IsChange(m) /\ p \notin ready => known'[p] = m.value
          /\ ~(IsChange(m) /\ p \notin ready) => known'[p] \in {known[p], option}
        <3>1. m.type = "NameAcquired" <=> m = Acquired
            BY <2>2, TypeOfName
        <3> QED
            BY <3>1 DEF Dispatch, ReadOptions, ServiceReady, IsChange, TypeOK
    <2> HIDE DEF m
    <2>4. /\ 1 \in DOMAIN inbox[p]
          /\ \A i \in DOMAIN inbox'[p] : i \in Nat /\ i + 1 \in DOMAIN inbox[p]
                                         /\ inbox'[p][i] = inbox[p][i + 1]
          /\ \A i \in DOMAIN inbox[p] : i \in Nat /\ i >= 1
                /\ (i # 1 => i - 1 \in DOMAIN inbox'[p] /\ inbox'[p][i - 1] = inbox[p][i])
        BY <1>1, <2>2, Shifted
    <2>5. NameFirst(p)'
        BY <2>1, <2>4 DEF NameFirst
    <2>6. LastIsLatest(p)'
        <3> SUFFICES ASSUME NEW i \in DOMAIN inbox'[p], IsChange(inbox'[p][i]),
                            \A j \in DOMAIN inbox'[p] : IsChange(inbox'[p][j]) => j <= i
                     PROVE  inbox'[p][i].value = option'
            BY DEF LastIsLatest
        <3>1. \A j \in DOMAIN inbox[p] : IsChange(inbox[p][j]) => j <= i + 1
            BY <2>4
        <3>2. i + 1 \in DOMAIN inbox[p] /\ inbox'[p][i] = inbox[p][i + 1]
            BY <2>4
        <3> QED
            BY <1>1, <2>1, <3>1, <3>2 DEF LastIsLatest
    <2>7. WaitsForName(p)' => WaitsForName(p)
        BY <2>4 DEF WaitsForName
    <2>8. WaitsForName(p) /\ m # Acquired => WaitsForName(p)'
        BY <2>2, <2>4 DEF WaitsForName
    <2>9. Filtered(p)'
        BY <1>1, <2>1, <2>3, <2>8 DEF Filtered
    <2>10. ASSUME NoChange(p)'
           PROVE  Knows(p)'
        <3>1. CASE IsChange(m)
            <4>1. ~WaitsForName(p)
                BY <2>1, <2>2, <2>4, <3>1, NoOtherType DEF NameFirst, WaitsForName
            <4>2. \A j \in DOMAIN inbox[p] : IsChange(inbox[p][j]) => j <= 1
                BY <2>4, <2>10 DEF NoChange
            <4>3. m.value = option
                BY <2>1, <2>2, <2>4, <3>1, <4>2 DEF LastIsLatest
            <4>4. m # Acquired
                BY <3>1, NoOtherType
            <4> QED
                BY <1>1, <2>3, <2>7, <3>1, <4>1, <4>3, <4>4 DEF Knows
        <3>2. CASE ~IsChange(m)
            <4>1. NoChange(p)
                BY <2>2, <2>4, <2>10, <3>2 DEF NoChange
            <4>2. m = Acquired => WaitsForName(p)
                BY <2>2, <2>4 DEF WaitsForName
            <4> QED
                BY <1>1, <2>1, <2>3, <2>7, <3>2, <4>1, <4>2 DEF Knows
        <3> QED
            BY <3>1, <3>2
    <2>11. p \notin bus => NoChange(p)'
        BY <2>1, <2>4 DEF NoChange
    <2> QED
        BY <1>1, <2>5, <2>6, <2>9, <2>10, <2>11 DEF Hears, Fresh
<1> QED
    BY <1>2, <1>3 DEF AllHear

LEMMA IdleHears ==
    ASSUME TypeOK, AllHear, NEW p \in Procs, IdleOk(p)
    PROVE  AllHear'
<1>1. CASE End(p, "aborted")
    BY <1>1, EndHears DEF IdleOk, Ended
<1>2. CASE ~End(p, "aborted")
    <2>1. /\ UNCHANGED <<args, pc, inbox, bus, ready, known, since, option>>
          /\ pc[p] = "running" /\ p \in idle /\ idle' = idle \ {p}
          /\ \A q \in Procs \ {p} : parent'[q] = parent[q]
        BY <1>2 DEF IdleOk, TellParent, TypeOK
    <2>2. ASSUME NEW q \in Procs, q # p PROVE Hears(q)'
        BY <2>1, <2>2, UntouchedHears DEF AllHear
    <2>3. Hears(p)'
        <3>1. Hears(p) /\ p \notin ready
            BY <2>1 DEF AllHear, Hears, Filtered
        <3> QED
            BY <2>1, <3>1 DEF Hears, Knows, Filtered, Fresh, NoChange, WaitsForName,
                              NameFirst, LastIsLatest
    <2> QED
        BY <2>2, <2>3 DEF AllHear
<1> QED
    BY <1>1, <1>2

LEMMA ChangeHears ==
    ASSUME TypeOK, AllHear, ChangeOption
    PROVE  AllHear'
<1>1. /\ option' \in 1 .. MaxChanges
      /\ UNCHANGED <<args, pc, parent, bus, ready, idle, known, since>>
    BY MaxChangesAssumption DEF TypeOK, ChangeOption
<1>2. ASSUME NEW p \in Procs PROVE Hears(p)'
    <2>1. Hears(p)
        BY DEF AllHear
    <2>2. CASE ~(pc[p] = "running" /\ p \in bus)
        <3>1. inbox'[p] = inbox[p]
            BY <2>2 DEF ChangeOption, TypeOK
        <3>2. NoChange(p)' /\ LastIsLatest(p)'
            BY <2>1, <2>2, <3>1 DEF Hears, NoChange, LastIsLatest
        <3> QED
            BY <1>1, <2>1, <2>2, <3>1, <3>2 DEF Hears, Knows, Filtered, WaitsForName,
                                                NameFirst
    <2>3. CASE pc[p] = "running" /\ p \in bus
        <3> DEFINE n == Len(inbox[p]) + 1
        <3>1. inbox'[p] = Append(inbox[p], OptionChanged(option'))
            BY <2>3 DEF ChangeOption, TypeOK
        <3>2. /\ DOMAIN inbox'[p] = DOMAIN inbox[p] \cup {n}
              /\ inbox'[p][n] = OptionChanged(option')
              /\ \A i \in DOMAIN inbox[p] : inbox'[p][i] = inbox[p][i] /\ i < n /\ i \in Nat
            BY <3>1, Grown
        <3>3. /\ IsChange(inbox'[p][n]) /\ inbox'[p][n].value = option'
              /\ inbox'[p][n] # Acquired
            BY <1>1, <3>2, NoOtherType
        <3>4. n \in Nat
            BY DEF TypeOK
        <3> HIDE DEF n
        <3>5. ~NoChange(p)'
            BY <3>2, <3>3 DEF NoChange
        <3>6. WaitsForName(p)' <=> WaitsForName(p)
            BY <3>2, <3>3 DEF WaitsForName
        <3>7. NameFirst(p)'
            BY <2>1, <3>2, <3>3 DEF Hears, NameFirst
        <3>8. LastIsLatest(p)'
            <4> SUFFICES ASSUME NEW i \in DOMAIN inbox'[p],
                                \A j \in DOMAIN inbox'[p] : IsChange(inbox'[p][j]) => j <= i
                         PROVE  inbox'[p][i].value = option'
                BY DEF LastIsLatest
            <4>1. n <= i
                BY <3>2, <3>3
            <4> QED
                BY <3>2, <3>3, <3>4, <4>1
        <3> QED
            BY <1>1, <2>1, <2>3, <3>5, <3>6, <3>7, <3>8 DEF Hears, Filtered, Fresh
    <2> QED
        BY <2>2, <2>3
<1> QED
    BY <1>2 DEF AllHear

LEMMA HearingInductive == TypeOK /\ AllHear /\ [Next]_vars => AllHear'
<1> SUFFICES ASSUME TypeOK, AllHear, [Next]_vars PROVE AllHear'
    OBVIOUS
<1>1. ASSUME NEW p \in Procs, NoCommand(p) \/ Quit(p) PROVE AllHear'
    BY <1>1, EndHears DEF NoCommand, Quit, Ended
<1>2. CASE UNCHANGED vars
    BY <1>2, UntouchedHears DEF AllHear, vars
<1> QED
    BY <1>1, <1>2, StartHears, RequestHears, SendHears, LoadHears, DispatchHears,
       IdleHears, ChangeHears DEF Next, Runs

LEMMA HearingInitial == Init => AllHear
BY DEF Init, AllHear, Hears, NoChange, NameFirst, Filtered, Fresh

-----------------------------------------------------------------------------
(* Results, for any number of processes, command lines and changes.        *)

\* Queues, windows and what the processes remember keep their types.
THEOREM TypeCorrect == Spec => []TypeOK
<1>1. Inv => TypeOK
    BY DEF Inv
<1> QED
    BY <1>1, InvAlways, PTL

\* No command line gets two terminals, nor one in a process it was not sent to,
\* however often the name changes hands between a request and its delivery.
THEOREM ServedCorrect == Spec => []ServedOnce
<1>1. Inv => ServedOnce
    BY DEF Inv
<1> QED
    BY <1>1, InvAlways, PTL

\* The static options of earlier command lines never make another one's window
\* fullscreen, and no window is maximised or borderless that no command line
\* of its process asked for.
THEOREM WindowsCorrect == Spec => []WindowsAsAsked
<1>1. Inv => WindowsAsAsked
    BY DEF Inv
<1> QED
    BY <1>1, InvAlways, PTL

\* Every process on the bus that has handled its messages knows of the latest
\* change of an option made since it listens, if its filter does not wait for a
\* name it will never have.
THEOREM HearingCorrect == Spec => []OptionsHeard
<1>1. TypeOK /\ AllHear => OptionsHeard
    <2> SUFFICES ASSUME TypeOK, AllHear, NEW p \in bus, pc[p] = "running",
                        inbox[p] = <<>>, ~Stranded(p), option # since[p]
                 PROVE  known[p] = option
        BY DEF OptionsHeard
    <2>1. p \in Procs /\ NoChange(p) /\ ~WaitsForName(p) /\ Acquired \notin ToSet(inbox[p])
        BY DEF TypeOK, NoChange, WaitsForName, ToSet
    <2>2. Knows(p) /\ Filtered(p)
        BY <2>1 DEF AllHear, Hears
    <2>3. p \notin ready
        BY <2>1, <2>2 DEF Filtered, Stranded
    <2> QED
        BY <2>2, <2>3 DEF Knows
<1> QED
    BY <1>1, HearingInitial, HearingInductive, TypeCorrect, PTL DEF Spec
=============================================================================
