--------------------------- MODULE ProfileOptions ---------------------------
(***************************************************************************)
(* The profiles as the terminals use them (roxterm.c, dynopts.c,           *)
(* options.c), beside the tool that edits them (ConfigTool).               *)
(*                                                                         *)
(* The terminals of the process share one Options for each profile name,   *)
(* read from the file when the first of them takes it and freed with the   *)
(* last; after that only the tool's signals change it.  Options are read   *)
(* and written together but signalled and applied each by itself: the      *)
(* value of a profile is that of one option, whichever it is.              *)
(***************************************************************************)
EXTENDS ConfigTool

CONSTANTS
    Terms,       \* terminals
    Reflected    \* roxterm_reflect_profile_change knows the option: it does not
                 \* know colour_scheme_light and _dark, nor pixel_scrolling

ASSUME TermsAssumption == IsFiniteSet(Terms)
ASSUME ReflectedAssumption == Reflected \in BOOLEAN

VARIABLES
    options,     \* roxterm_profiles: the reference count and value for a name
    profile,     \* roxterm->profile of each terminal, by its name
    shown,       \* what the terminal's widget was last set to
    menu         \* the names in the Select Profile menu of a window

termVars == <<options, profile, shown, menu>>
vars == <<toolVars, termVars>>

Absent == [ref |-> 0, value |-> 0]

Live == {t \in Terms : profile[t] # NoName}

TypeOK == /\ ToolTypeOK
          /\ options \in [Names -> [ref : Nat, value : Value]]
          /\ profile \in [Terms -> Names \cup {NoName}]
          /\ shown \in [Terms -> Value]
          /\ menu \subseteq Names

Init == /\ ToolInit
        /\ options = [n \in Names |-> Absent]
        /\ profile = [t \in Terms |-> NoName]
        /\ shown = [t \in Terms |-> 0]
        /\ menu = Listed(files)

-----------------------------------------------------------------------------
(* Sharing options by name; `opts` is the table.                           *)

\* dynamic_options_lookup_and_ref
LookupAndRef(opts, n) ==
    [opts EXCEPT ![n] = IF @.ref = 0
                        THEN [ref |-> 1, value |-> Content(n)]
                        ELSE [ref |-> @.ref + 1, value |-> @.value]]

\* options_ref
Ref(opts, n) == [opts EXCEPT ![n].ref = @ + 1]

\* dynamic_options_unref, options_unref
Unref(opts, n) ==
    [opts EXCEPT ![n] = IF @.ref <= 1
                        THEN Absent
                        ELSE [ref |-> @.ref - 1, value |-> @.value]]

\* Slip: the caller's own reference is taken over even if nothing changes.
SelectTaken(opts, old, new) ==
    IF old = new THEN LookupAndRef(opts, new)
                 ELSE LookupAndRef(Unref(opts, old), new)

\* A reference for the handler, roxterm_change_profile, and the reference
\* given back.
Select(opts, old, new) ==
    LET looked == LookupAndRef(opts, new)
        changed == IF old = new THEN looked ELSE Ref(Unref(looked, old), new)
    IN  Unref(changed, new)

\* Terminal t shows what its options say.
Apply(t, opts, n) == shown' = [shown EXCEPT ![t] = opts[n].value]

-----------------------------------------------------------------------------
(* Terminals.                                                              *)

NewTerm(t, opts, n) ==
    /\ profile' = [profile EXCEPT ![t] = n]
    /\ options' = opts
    /\ Apply(t, opts, n)
    /\ UNCHANGED <<menu, toolVars>>

\* roxterm_launch: the default profile, as Global has it now, or a named one.
Launch(t, n) == /\ profile[t] = NoName
                /\ n = configured \/ n \in Listed(files)
                /\ NewTerm(t, LookupAndRef(options, n), n)

\* A new tab or window like terminal s: roxterm_data_clone looks its profile
\* up by name.
Clone(t, s) == /\ profile[t] = NoName /\ s \in Live
               /\ NewTerm(t, LookupAndRef(options, profile[s]), profile[s])

\* roxterm_new_term_with_profile: the terminal is cloned while the current one
\* lends it the chosen profile, with a reference for the time.
NewWithProfile(t, s, n) ==
    /\ profile[t] = NoName /\ s \in Live /\ n \in Listed(files)
    /\ NewTerm(t, Unref(LookupAndRef(LookupAndRef(options, n), n), n), n)

\* roxterm_data_delete
Close(t) == /\ t \in Live
            /\ options' = Unref(options, profile[t])
            /\ profile' = [profile EXCEPT ![t] = NoName]
            /\ UNCHANGED <<shown, menu, toolVars>>

ChangeTo(t, n) == /\ options' = Select(options, profile[t], n)
                  /\ profile' = [profile EXCEPT ![t] = n]
                  /\ IF n = profile[t] THEN UNCHANGED shown
                                       ELSE Apply(t, options', n)
                  /\ UNCHANGED <<menu, toolVars>>

\* roxterm_profile_selected
SelectProfile(t, n) == t \in Live /\ n \in menu /\ n # profile[t] /\ ChangeTo(t, n)

\* roxterm_set_profile_handler: any name a script may send, the terminal's own
\* included.
SetProfile(t, n) == t \in Live /\ ChangeTo(t, n)

-----------------------------------------------------------------------------
(* Signals from the tool.                                                  *)

\* Slip: only one of the terminals with that profile follows.
ReflectFirst(opts, n) ==
    LET ts == {t \in Live : profile[t] = n}
        one == IF ts = {} THEN {} ELSE {CHOOSE t \in ts : TRUE}
    IN  shown' = [t \in Terms |-> IF Reflected /\ t \in one
                                  THEN opts[n].value ELSE shown[t]]

\* roxterm_reflect_profile_change: a chain of tests for the names of options
Reflect(opts, n) ==
    shown' = [t \in Terms |-> IF Reflected /\ profile[t] = n
                              THEN opts[n].value ELSE shown[t]]

\* roxterm_opt_signal_handler, roxterm_update_option: a value that is there
\* already is not applied again.
OptionArrives(s) ==
    LET looked == LookupAndRef(options, s.name)
        updated == [looked EXCEPT ![s.name].value = s.value]
    IN  /\ options' = Unref(updated, s.name)
        /\ IF looked[s.name].value = s.value THEN UNCHANGED shown
                                             ELSE Reflect(updated, s.name)
        /\ UNCHANGED menu

\* roxterm_stuff_changed_handler, stuff_changed_do_menu: the options stay with
\* the terminals that use them, under the name they had.
MenuChanges(s) ==
    /\ menu' = CASE s.type = "OptionsDeleted" -> menu \ {s.name}
                 [] s.type = "OptionsAdded" -> menu \cup {s.name}
                 [] s.type = "OptionsRenamed" -> (menu \ {s.name}) \cup {s.new}
    /\ UNCHANGED <<options, shown>>

\* optsdbus_message_filter
Receive ==
    /\ bus # <<>>
    /\ LET s == Head(bus) IN
         IF s.type = "IntOption" THEN OptionArrives(s) ELSE MenuChanges(s)
    /\ bus' = Tail(bus)
    /\ UNCHANGED <<profile, files, configured, manager, edited, todo, history>>

ToolActs == ToolNext /\ UNCHANGED termVars

TermActs == \E t \in Terms :
    \/ Close(t)
    \/ t \in Live /\ EditFromTerminal(profile[t]) /\ UNCHANGED termVars
    \/ \E s \in Terms : Clone(t, s)
    \/ \E n \in Names : \/ Launch(t, n) \/ SelectProfile(t, n) \/ SetProfile(t, n)
                        \/ \E s \in Terms : NewWithProfile(t, s, n)

Next == ToolActs \/ TermActs \/ Receive

\* A handler runs to its end, and the bus delivers.
Fairness == /\ WF_vars((Save \/ Send) /\ UNCHANGED termVars)
            /\ WF_vars(Receive)

Spec == Init /\ [][Next]_vars /\ Fairness

-----------------------------------------------------------------------------
(* Properties.                                                             *)

\* dynopts.c counts by name and is told by name to let go: every count is
\* exactly the number of terminals with that profile, so options are neither
\* freed under a terminal nor kept, and read once, after the last has gone.
CountsAreHolders ==
    \A n \in Names : options[n].ref = Cardinality({t \in Terms : profile[t] = n})

\* docs/en/index.html:408-413: "All terminals using the named profile or colour
\* scheme are affected [...] To see which option names you can use, check the
\* config files".  Not so of an option that is not reflected.
AllAreAffected == \A t \in Live : shown[t] = options[profile[t]].value

\* What a terminal shows of an option that is reflected is what the options it
\* shares with others hold, also when one of those read the file before the
\* signal about the change came.
ShowsItsOptions == Reflected => AllAreAffected

\* The value n has after the signals in q, if it was v before.
After(q, n, v) ==
    LET about == {i \in DOMAIN q : q[i].type = "IntOption" /\ q[i].name = n}
    IN  IF about = {} THEN v ELSE q[Max(about)].value

\* Those of a handler's steps that do d, in their order.
Due(steps, d) == [i \in {j \in DOMAIN steps : steps[j].do = d} |-> steps[i].what]

\* Options are never read again while a terminal holds them: the signals in
\* flight must lead them to what the file says, whenever it was read.  (Not
\* so for a name that was copied, deleted or renamed.)
CacheFollowsFile ==
    \A n \in Names \ replaced :
      options[n].ref > 0 =>
        After(Due(todo, "send"), n, After(bus, n, options[n].value))
          = After(Due(todo, "save"), n, Content(n))

\* No profile of the user's is written over by a copy or a new name for
\* another one: only its own editor changes it.
OnlyEditorsOverwrite ==
    [][\A n \in Names :
         files[n] # None /\ files'[n] \notin {None, files[n]} => Save]_vars

\* When nothing is under way the menu has the profiles the user has files of.
\* (Not "Default" and the system's, which a new name takes out of the menu, nor
\* a file that an editor made.)
MenuFollowsFiles ==
    todo = <<>> /\ bus = <<>> =>
      \A n \in Names \ (System \cup {Default} \cup unlisted) :
        n \in menu <=> files[n] # None

\* Once the user stops changing profiles all terminals come to show what the
\* files say of an option that is reflected.
Settles ==
    <>[](\A t \in Live : Reflected /\ profile[t] \notin replaced
                         => shown[t] = Content(profile[t]))
=============================================================================
