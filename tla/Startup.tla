------------------------------- MODULE Startup -------------------------------
(***************************************************************************)
(* What becomes of a roxterm command line (main.c, rtdbus.c, globalopts.c, *)
(* roxterm_launch): a process asks the bus for roxterm's name; the one     *)
(* that gets it opens its own terminal and, later, those of the processes  *)
(* that found the name taken and only sent their arguments.  With --fork a *)
(* parent waits for a byte from the process that does all this.            *)
(***************************************************************************)
EXTENDS Naturals, Sequences, SequencesExt

CONSTANTS
    N,             \* bound: processes started, each by one command line
    CommandLines,  \* the command lines in use, as sets of options
    Unconnected,   \* bound: the processes that may get no connection to the bus
    MaxChanges     \* bound: options changed in the configuration tool

\* The processes, numbered as they are started.
Procs == 1 .. N
Nobody == 0

Options == {"fork", "separate", "session", "replace", "fullscreen", "maximise",
            "borderless", "tab", "no command"}

\* The options that are C variables of the process: the others live in the
\* option data, which is read anew for every command line.
Statics == {"fork", "fullscreen", "maximise", "borderless", "tab"}

ASSUME NAssumption == N \in Nat
ASSUME CommandLinesAssumption == CommandLines \subseteq SUBSET Options
ASSUME UnconnectedAssumption == Unconnected \subseteq Procs
ASSUME MaxChangesAssumption == MaxChanges \in Nat

VARIABLES
    args,      \* the command line of each process
    pc,        \* how far each has got in main()
    parent,    \* the process that forked it with --fork
    owner,     \* the owner of roxterm's name on the bus
    inbox,     \* messages from the bus to each process, not yet handled
    bus,       \* the processes with a connection to the bus (rtdbus_ok)
    ready,     \* the processes whose filter waits for NameAcquired
    idle,      \* the processes with an idle callback that tells the parent
    statics,   \* each process's static options that are set
    windows,   \* the windows each has opened: whom for, and how
    served,    \* where a command line has got its terminals
    sentTo,    \* who owned the name when a command line was sent
    option,    \* an option's value in its file
    known,     \* what each process believes it to be
    since      \* history: its value when a process began to listen for changes

vars == <<args, pc, parent, owner, inbox, bus, ready, idle, statics, windows, served,
          sentTo, option, known, since>>

Acquired == [type |-> "NameAcquired", from |-> Nobody, value |-> 0]
NewTerminal(p) == [type |-> "NewTerminal", from |-> p, value |-> 0]
OptionChanged(v) == [type |-> "OptionChanged", from |-> Nobody, value |-> v]

Message == {Acquired} \cup {NewTerminal(p) : p \in Procs}
             \cup {OptionChanged(v) : v \in 1 .. MaxChanges}

Window == [for : Procs, how : SUBSET {"fullscreen", "maximise", "borderless"}]

TypeOK ==
    /\ args \in [Procs -> SUBSET Options]
    /\ pc \in [Procs -> {"new", "starting", "sending", "loading", "running",
                         "ended", "aborted"}]
    /\ parent \in [Procs -> {"none", "waiting", "returned", "aborted"}]
    /\ owner \in Procs \cup {Nobody}
    /\ inbox \in [Procs -> Seq(Message)]
    /\ bus \subseteq Procs /\ ready \subseteq Procs /\ idle \subseteq Procs
    /\ statics \in [Procs -> SUBSET Statics]
    /\ windows \in [Procs -> Seq(Window)]
    /\ served \in [Procs -> Seq(Procs)]
    /\ sentTo \in [Procs -> Procs \cup {Nobody}]
    /\ option \in 0 .. MaxChanges
    /\ known \in [Procs -> 0 .. MaxChanges]
    /\ since \in [Procs -> 0 .. MaxChanges]

Init == /\ args = [p \in Procs |-> {}]
        /\ pc = [p \in Procs |-> "new"]
        /\ parent = [p \in Procs |-> "none"]
        /\ owner = Nobody
        /\ inbox = [p \in Procs |-> <<>>]
        /\ bus = {} /\ ready = {} /\ idle = {}
        /\ statics = [p \in Procs |-> {}]
        /\ windows = [p \in Procs |-> <<>>]
        /\ served = [p \in Procs |-> <<>>]
        /\ sentTo = [p \in Procs |-> Nobody]
        /\ option = 0
        /\ known = [p \in Procs |-> 0]
        /\ since = [p \in Procs |-> 0]

-----------------------------------------------------------------------------
(* Processes and the bus.                                                  *)

Ended == {"ended", "aborted"}

\* The memory of a process is given back, and its windows are closed.
Forget(p) == /\ bus' = bus \ {p}
             /\ ready' = ready \ {p}
             /\ idle' = idle \ {p}
             /\ statics' = [statics EXCEPT ![p] = {}]
             /\ windows' = [windows EXCEPT ![p] = <<>>]
             /\ known' = [known EXCEPT ![p] = 0]
             /\ since' = [since EXCEPT ![p] = 0]

\* The end of a process: the bus gives its name up, and a parent still waiting
\* reads nothing, which g_error() makes fatal (wait_for_child).
End(p, how) ==
    /\ pc' = [pc EXCEPT ![p] = how]
    /\ owner' = IF owner = p THEN Nobody ELSE owner
    /\ inbox' = [inbox EXCEPT ![p] = <<>>]
    /\ parent' = [parent EXCEPT ![p] = IF @ = "waiting" THEN "aborted" ELSE @]
    /\ Forget(p)

\* wait_for_child: the byte lets the parent return.
TellParent(p) == parent' = [parent EXCEPT ![p] = "returned"]

\* The command line is given to a shell; the C library and GTK come up.  With
\* --fork, which is looked for before anything else, main() forks first.
Start(p, line) ==
    /\ pc[p] = "new" /\ \A q \in 1 .. p - 1 : pc[q] # "new"
    /\ pc' = [pc EXCEPT ![p] = "starting"]
    /\ args' = [args EXCEPT ![p] = line]
    /\ parent' = [parent EXCEPT ![p] = IF "fork" \in line THEN "waiting" ELSE "none"]
    /\ statics' = [statics EXCEPT ![p] = line \cap Statics]
    /\ UNCHANGED <<owner, inbox, bus, ready, idle, windows, served, sentTo, option,
                   known, since>>

\* global_options_preparse_argv_for_execute failed.
NoCommand(p) ==
    /\ pc[p] = "starting" /\ "no command" \in args[p]
    /\ End(p, "ended")
    /\ UNCHANGED <<args, served, sentTo, option>>

\* global_options_init reads the options from their file.
ReadOptions(p) == known' = [known EXCEPT ![p] = option]

\* rtdbus_init failed: main() goes on alone, and will never hear a signal.
NoBus(p) ==
    /\ p \in Unconnected
    /\ pc[p] = "starting" /\ "no command" \notin args[p]
    /\ pc' = [pc EXCEPT ![p] = "loading"]
    /\ ReadOptions(p)
    /\ UNCHANGED <<args, parent, owner, inbox, bus, ready, idle, statics, windows, served,
                   sentTo, option, since>>

\* Slip: a replaced owner no longer serves what it has been sent.
RequestNameDeposing(p) ==
    /\ pc[p] = "starting" /\ "no command" \notin args[p]
    /\ bus' = bus \cup {p}
    /\ ready' = IF "fork" \in args[p] THEN ready \cup {p} ELSE ready
    /\ ReadOptions(p)
    /\ IF owner = Nobody \/ "replace" \in args[p]
       THEN /\ owner' = p
            /\ inbox' = [q \in Procs |-> IF q = p THEN <<Acquired>>
                                         ELSE IF q = owner THEN <<>> ELSE inbox[q]]
            /\ pc' = [pc EXCEPT ![p] = "loading"]
       ELSE /\ UNCHANGED <<owner, inbox>>
            /\ pc' = [pc EXCEPT ![p] = IF args[p] \cap {"separate", "session"} = {}
                                       THEN "sending" ELSE "loading"]
    /\ UNCHANGED <<args, parent, idle, statics, windows, served, sentTo, option, since>>

\* listen_for_new_term with rtdbus_start_service.
RequestName(p) ==
    /\ pc[p] = "starting" /\ "no command" \notin args[p]
    /\ bus' = bus \cup {p}
    /\ ready' = IF "fork" \in args[p] THEN ready \cup {p} ELSE ready
    /\ ReadOptions(p)
    /\ IF owner = Nobody \/ "replace" \in args[p]
       THEN /\ owner' = p
            /\ inbox' = [inbox EXCEPT ![p] = Append(@, Acquired)]
            /\ pc' = [pc EXCEPT ![p] = "loading"]
       ELSE /\ UNCHANGED <<owner, inbox>>
            /\ pc' = [pc EXCEPT ![p] = IF args[p] \cap {"separate", "session"} = {}
                                       THEN "sending" ELSE "loading"]
    /\ UNCHANGED <<args, parent, idle, statics, windows, served, sentTo, option, since>>

\* Slip: the process opens a terminal of its own, too.
SendAndGoOn(p) ==
    /\ pc[p] = "sending"
    /\ pc' = [pc EXCEPT ![p] = "loading"]
    /\ inbox' = IF owner = Nobody THEN inbox
                ELSE [inbox EXCEPT ![owner] = Append(@, NewTerminal(p))]
    /\ sentTo' = [sentTo EXCEPT ![p] = owner]
    /\ UNCHANGED <<args, parent, owner, bus, ready, idle, statics, windows, served, option,
                   known, since>>

\* run_via_dbus: the message goes to whoever has the name by now, or nowhere,
\* and the process ends content.
Send(p) ==
    /\ pc[p] = "sending"
    /\ pc' = [pc EXCEPT ![p] = "ended"]
    /\ inbox' = IF owner = Nobody THEN inbox
                ELSE [inbox EXCEPT ![owner] = Append(@, NewTerminal(p))]
    /\ sentTo' = [sentTo EXCEPT ![p] = owner]
    /\ IF "fork" \in statics[p] THEN TellParent(p) ELSE UNCHANGED parent
    /\ Forget(p)
    /\ UNCHANGED <<args, owner, served, option>>

-----------------------------------------------------------------------------
(* Terminals.                                                              *)

\* Slip: the statics are left as they are.
ResetNothing(set) == set

\* global_options_reset
Reset(set) == set \ {"fullscreen", "tab"}

\* roxterm_launch in process p for the command line of q, with these statics.
Launch(p, q, set) ==
    LET tab  == "tab" \in set /\ windows[p] # <<>>
        mode == {o \in {"fullscreen", "maximise"} :
                   o \in set /\ (o = "fullscreen" \/ "fullscreen" \notin set)}
    IN  /\ served' = [served EXCEPT ![q] = Append(@, p)]
        /\ IF tab THEN UNCHANGED windows
           ELSE windows' = [windows EXCEPT ![p] =
                    Append(@, [for |-> q, how |-> mode \cup (set \cap {"borderless"})])]
        /\ statics' = [statics EXCEPT ![p] =
                          set \ (IF tab THEN {"tab"} ELSE mode \cup {"tab"})]

\* load_session_from_file: the session of --session, or the default one if its
\* file is there, opens a window (Session.tla says what becomes of the file).
LoadSession(p) ==
    /\ windows' = [windows EXCEPT ![p] = Append(@, [for |-> p, how |-> {}])]
    /\ UNCHANGED <<served, statics>>

\* The rest of main(): roxterm_init begins to listen for changes of options,
\* which were read before the name was asked for; then there is a session or a
\* terminal as the command line says.
Load(p) ==
    /\ pc[p] = "loading"
    /\ pc' = [pc EXCEPT ![p] = "running"]
    /\ since' = [since EXCEPT ![p] = option]
    /\ idle' = IF p \in ready THEN idle ELSE idle \cup {p}
    /\ Launch(p, p, statics[p]) \/ LoadSession(p)
    /\ UNCHANGED <<args, parent, owner, inbox, bus, ready, sentTo, option, known>>

-----------------------------------------------------------------------------
(* The main loop.                                                          *)

\* Slip: the filter is left in place.
ServiceReadyOnce(p) ==
    /\ TellParent(p)
    /\ UNCHANGED ready

\* Slip: the filter goes without a word to the parent.
ServiceReadyQuiet(p) ==
    /\ ready' = ready \ {p}
    /\ UNCHANGED parent

\* roxterm_dbus_service_ready, for the name
ServiceReady(p) ==
    /\ TellParent(p)
    /\ ready' = ready \ {p}

\* Slip: the terminal is opened for whoever has the name by now.
NewTermListenerOwner(p, q) ==
    Launch(p, owner, Reset(statics[p]) \cup (args[q] \cap Statics))

\* new_term_listener
NewTermListener(p, q) ==
    Launch(p, q, Reset(statics[p]) \cup (args[q] \cap Statics))

\* libdbus hands over the next message.  While the filter for NameAcquired is
\* in place it takes every message whose first argument is a string.  The
\* options are read anew with every command line (global_options_reset).
Dispatch(p) ==
    LET message == Head(inbox[p]) IN
    /\ pc[p] = "running" /\ inbox[p] # <<>>
    /\ inbox' = [inbox EXCEPT ![p] = Tail(@)]
    /\ IF message.type = "NameAcquired" /\ p \in ready
       THEN ServiceReady(p) ELSE UNCHANGED <<parent, ready>>
    /\ IF message.type = "NewTerminal"
       THEN NewTermListener(p, message.from) /\ ReadOptions(p)
       ELSE /\ UNCHANGED <<windows, served, statics>>
            /\ known' = IF message.type = "OptionChanged" /\ p \notin ready
                        THEN [known EXCEPT ![p] = message.value] ELSE known
    /\ UNCHANGED <<args, pc, owner, bus, idle, sentTo, option, since>>

\* roxterm_idle_ok, when there is no message to be handled.  roxterm_exit
\* writes if the fork option is set; without a pipe that is fatal.
IdleOk(p) ==
    /\ pc[p] = "running" /\ p \in idle /\ inbox[p] = <<>>
    /\ IF "fork" \in statics[p] /\ "fork" \notin args[p]
       THEN End(p, "aborted")
       ELSE /\ idle' = idle \ {p}
            /\ IF "fork" \in args[p] THEN TellParent(p) ELSE UNCHANGED parent
            /\ UNCHANGED <<pc, owner, inbox, bus, ready, statics, windows, known, since>>
    /\ UNCHANGED <<args, served, sentTo, option>>

\* The user closes the last window.
Quit(p) ==
    /\ pc[p] = "running"
    /\ End(p, "ended")
    /\ UNCHANGED <<args, served, sentTo, option>>

\* An option is changed with roxterm-config, which tells all processes that
\* listen: those with a bus, once roxterm_init has added the rule for signals.
ChangeOption ==
    /\ option < MaxChanges
    /\ option' = option + 1
    /\ inbox' = [p \in Procs |-> IF pc[p] = "running" /\ p \in bus
                                 THEN Append(inbox[p], OptionChanged(option')) ELSE inbox[p]]
    /\ UNCHANGED <<args, pc, parent, owner, bus, ready, idle, statics, windows, served,
                   sentTo, known, since>>

Runs(p) == \/ NoCommand(p) \/ RequestName(p) \/ Send(p) \/ Load(p)
           \/ Dispatch(p) \/ IdleOk(p)

Next == \/ ChangeOption
        \/ \E p \in Procs :
             \/ \E line \in CommandLines : Start(p, line)
             \/ NoBus(p)
             \/ Runs(p)
             \/ Quit(p)

\* While processes can go on, one of them does; nobody need start or quit one.
Spec == Init /\ [][Next]_vars /\ WF_vars(\E p \in Procs : Runs(p))

-----------------------------------------------------------------------------
(* Properties.                                                             *)

\* A command line gets one terminal at most, in its own process or in the one
\* it was sent to, whatever happens to the name's owner meanwhile.
ServedOnce ==
    \A p \in Procs : /\ Len(served[p]) <= 1
                     /\ \A k \in DOMAIN served[p] : served[p][k] \in {p, sentTo[p]}

\* Every command line that was sent gets its terminal in the end, unless the
\* process it was sent to ends first.
RequestsServed ==
    <>[](\A p \in Procs : sentTo[p] # Nobody =>
           served[p] # <<>> \/ pc[sentTo[p]] \in Ended)

\* With --separate or --session a process goes on without the name: its filter
\* waits for a NameAcquired that does not come, and so does its parent.
Stranded(p) == /\ pc[p] = "running" /\ parent[p] = "waiting"
               /\ args[p] \cap {"separate", "session"} # {}
               /\ Acquired \notin ToSet(inbox[p])

\* The parent of --fork returns in the end, or its child ends, unless the
\* child is stranded.
ParentsReturn == <>[](\A p \in Procs : parent[p] = "waiting" => Stranded(p))

\* A process on the bus that has handled its messages knows of every change of
\* an option made since it listens, unless it is stranded: the filter takes the
\* signals, too.  A change made between its reading the options (main.c:311)
\* and its listening (main.c:342) may be lost on it.
OptionsHeard ==
    \A p \in bus :
      pc[p] = "running" /\ inbox[p] = <<>> /\ ~Stranded(p) /\ option # since[p]
        => known[p] = option

\* A window is fullscreen only as its own command line asked; it is maximised
\* or borderless if that or an earlier one asked.
WindowsAsAsked ==
    \A p \in Procs : \A k \in DOMAIN windows[p] :
      LET w == windows[p][k] IN
      /\ "fullscreen" \in w.how => "fullscreen" \in args[w.for]
      /\ \A o \in w.how : \E q \in Procs : o \in args[q] /\ (q = p \/ sentTo[q] = p)

\* The process that owns the name stays there to serve others: the one thing
\* that aborts a process, the idle callback, is not in its way.
MasterSurvives == \A p \in Procs : pc[p] # "aborted"
=============================================================================
