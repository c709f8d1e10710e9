------------------------------ MODULE ConfigTool ------------------------------
(***************************************************************************)
(* roxterm-config and the profiles on disk: the list of profiles in the    *)
(* manager window (configlet.c), the profile editors (profilegui.c), what  *)
(* they save (capplet.c, optsfile.c) and the D-Bus signals they send about *)
(* it (optsdbus.c).                                                        *)
(*                                                                         *)
(* A handler changes a file first and then tells the terminals, which run  *)
(* in another process and may read the file in between: `todo` holds the   *)
(* saves and signals of the current handler that are still to be done.     *)
(* A profile's options are one value; 0 is what an absent or empty file    *)
(* stands for.                                                             *)
(***************************************************************************)
EXTENDS Integers, SequencesExt, FiniteSets

CONSTANTS Names,       \* names of profiles
          Default,     \* the name that dynamic_options_list always lists
          System,      \* names of profiles that the package installs
          Own,         \* those the user has a file of at first
          MaxValue,    \* bound: values of a profile's options
          MaxChanges   \* bound: how often the user changes a file

ASSUME NamesAssumption ==
    Default \in Names /\ System \subseteq Names /\ Own \subseteq Names
ASSUME BoundsAssumption == MaxValue \in Nat /\ MaxChanges \in Nat

VARIABLES
    files,       \* the files in the user's directory
    configured,  \* the key "profile" of Global: the default profile
    configlet,   \* the manager window is open
    rows,        \* the names in its list,
    radios,      \* and those with their radio button on
    edited,      \* profilegui_being_edited: the options each editor holds
    dialog,      \* the Copy or Rename dialog that on_copy_clicked or
                 \* on_rename_clicked waits for
    todo,        \* what the handler has still to save and to send
    bus,         \* signals on their way to the terminals
    changes,     \* how many changes the user has made
    replaced,    \* history: names whose file went or came other than by
                 \* being saved from an editor,
    unlisted     \* and names that an editor saved although they had no file

manager == <<configlet, rows, radios, dialog>>
history == <<changes, replaced, unlisted>>
toolVars == <<files, configured, manager, edited, todo, bus, history>>

Value == 0..MaxValue
None == -1
NoName == "no name"
ASSUME NoNameAssumption == NoName \notin Names
Closed == -1
NoDialog == [op |-> "none", old |-> NoName, existing |-> {}]

Option(n, v) == [type |-> "IntOption", name |-> n, value |-> v, new |-> NoName]
Deleted(n) == [type |-> "OptionsDeleted", name |-> n, value |-> 0, new |-> NoName]
Added(n) == [type |-> "OptionsAdded", name |-> n, value |-> 0, new |-> NoName]
Renamed(n, m) == [type |-> "OptionsRenamed", name |-> n, value |-> 0, new |-> m]

Signal ==
    [type : {"IntOption", "OptionsDeleted", "OptionsAdded"},
       name : Names, value : Value, new : {NoName}]
    \cup [type : {"OptionsRenamed"}, name : Names, value : Value, new : Names]
Step == [do : {"save", "send"}, what : Signal]

ToolTypeOK ==
    /\ files \in [Names -> Value \cup {None}]
    /\ configured \in Names
    /\ configlet \in BOOLEAN
    /\ rows \subseteq Names /\ radios \subseteq rows
    /\ edited \in [Names -> Value \cup {Closed}]
    /\ dialog \in {NoDialog} \cup
         [op : {"copy", "rename"}, old : Names, existing : SUBSET Names]
    /\ todo \in Seq(Step) /\ bus \in Seq(Signal)
    /\ changes \in 0..MaxChanges
    /\ replaced \subseteq Names /\ unlisted \subseteq Names

\* What options_file_open makes of the first file of that name on its path.
Content(n) == IF files[n] = None THEN 0 ELSE files[n]

\* dynamic_options_list_full
Listed(fs) == {Default} \cup System \cup {n \in Names : fs[n] # None}

Editors == {n \in Names : edited[n] # Closed}

ToolInit == /\ files = [n \in Names |-> IF n \in Own THEN 0 ELSE None]
            /\ configured = Default
            /\ configlet = FALSE
            /\ rows = {} /\ radios = {}
            /\ edited = [n \in Names |-> Closed] /\ dialog = NoDialog
            /\ todo = <<>> /\ bus = <<>>
            /\ changes = 0 /\ replaced = {} /\ unlisted = {}

\* The main loop dispatches events when no handler is at work.
Idle == todo = <<>>

\* The modal dialogs keep the user from the other windows.
UserCanAct == Idle /\ dialog = NoDialog

-----------------------------------------------------------------------------
(* Saving and sending.                                                     *)

\* Slip: the signal goes out before the file is written.
SetOptionSignalFirst(n, v) ==
    todo' = <<[do |-> "send", what |-> Option(n, v)], [do |-> "save", what |-> Option(n, v)]>>

\* capplet_set_int and its siblings: the whole key file, then the signal.
SetOption(n, v) ==
    todo' = <<[do |-> "save", what |-> Option(n, v)], [do |-> "send", what |-> Option(n, v)]>>

Tell(signal) == todo' = <<[do |-> "send", what |-> signal]>>

\* options_file_save; the saved file is the user's own.
Save == /\ todo # <<>> /\ Head(todo).do = "save"
        /\ LET s == Head(todo).what IN
             /\ files' = [files EXCEPT ![s.name] = s.value]
             /\ unlisted' = IF files[s.name] = None
                            THEN unlisted \cup {s.name} ELSE unlisted
        /\ todo' = Tail(todo)
        /\ UNCHANGED <<configured, manager, edited, bus, changes, replaced>>

\* rtdbus_send_message
Send == /\ todo # <<>> /\ Head(todo).do = "send"
        /\ bus' = Append(bus, Head(todo).what)
        /\ todo' = Tail(todo)
        /\ UNCHANGED <<files, configured, manager, edited, history>>

\* The bound on what the user does.
Change(names) == /\ changes < MaxChanges
                 /\ changes' = changes + 1
                 /\ replaced' = replaced \cup names
                 /\ UNCHANGED unlisted

-----------------------------------------------------------------------------
(* Starting, and the windows.                                              *)

\* configlet_open, configlet_list_build
OpenManager ==
    /\ UserCanAct /\ ~configlet
    /\ configlet' = TRUE
    /\ rows' = Listed(files)
    /\ radios' = {configured} \cap Listed(files)
    /\ UNCHANGED <<files, configured, dialog, edited, todo, bus, history>>

\* profilegui_open
OpenEditor(n) ==
    /\ n \notin Editors
    /\ edited' = [edited EXCEPT ![n] = Content(n)]
    /\ UNCHANGED <<files, configured, manager, todo, bus, history>>

\* "Edit Current Profile" of a terminal, whose profile may have no file: the
\* call reaches the process that runs, or a new one, also during a dialog.
EditFromTerminal(n) == Idle /\ OpenEditor(n)

\* on_profile_edit_clicked, on_row_activated
EditRow(n) == UserCanAct /\ n \in rows /\ OpenEditor(n)

\* A widget of an editor is changed.
EditOption(n, v) ==
    /\ UserCanAct /\ n \in Editors /\ v # edited[n]
    /\ edited' = [edited EXCEPT ![n] = v]
    /\ SetOption(n, v)
    /\ Change({})
    /\ UNCHANGED <<files, configured, manager, bus>>

\* profilegui_delete, which first saves the entries the user has changed.
CloseEditor(n) ==
    /\ UserCanAct /\ n \in Editors
    /\ edited' = [edited EXCEPT ![n] = Closed]
    /\ \/ UNCHANGED <<todo, history>>
       \/ \E v \in Value \ {edited[n]} : SetOption(n, v) /\ Change({})
    /\ UNCHANGED <<files, configured, manager, bus>>

\* Slip: the radio buttons outlive their rows.
CloseManagerHalf ==
    /\ UserCanAct /\ configlet
    /\ configlet' = FALSE /\ rows' = {}
    /\ UNCHANGED <<files, configured, radios, dialog, edited, todo, bus, history>>

\* configlet_delete
CloseManager ==
    /\ UserCanAct /\ configlet
    /\ configlet' = FALSE /\ rows' = {} /\ radios' = {}
    /\ UNCHANGED <<files, configured, dialog, edited, todo, bus, history>>

-----------------------------------------------------------------------------
(* The list of the manager window; n is the row the user selects.          *)

\* configlet_cell_toggled: saved, but no signal.
ToggleRadio(n) ==
    /\ UserCanAct /\ n \in rows \ radios
    /\ Change({})
    /\ radios' = {n} /\ configured' = n
    /\ UNCHANGED <<files, configlet, rows, dialog, edited, todo, bus>>

\* Slip: only the names with a file of the user's are compared with.
AskNameUserOnly(what, n) ==
    dialog' = [op |-> what, old |-> n, existing |-> {m \in rows : files[m] = None}]

\* getname_run_dialog with the names there are before it runs.
AskName(what, n) ==
    dialog' = [op |-> what, old |-> n, existing |-> Listed(files)]

\* The buttons for deleting and renaming are insensitive while a profile is
\* edited, and for profiles the user has no file of.
MayRemove(n) == Editors = {} /\ n \in rows /\ files[n] # None

CopyClicked(n) ==
    /\ UserCanAct /\ n \in rows
    /\ AskName("copy", n)
    /\ UNCHANGED <<files, configured, configlet, rows, radios, edited, todo,
                   bus, history>>

RenameClicked(n) ==
    /\ UserCanAct /\ MayRemove(n)
    /\ AskName("rename", n)
    /\ UNCHANGED <<files, configured, configlet, rows, radios, edited, todo,
                   bus, history>>

CancelName ==
    /\ Idle /\ dialog # NoDialog
    /\ dialog' = NoDialog
    /\ UNCHANGED <<files, configured, configlet, rows, radios, edited, todo,
                   bus, history>>

\* configlet_copy, options_file_copy_to_user_dir, add_name_to_list
Copy(new) ==
    /\ Idle /\ dialog.op = "copy" /\ new \in Names \ dialog.existing
    /\ Change({new})
    /\ dialog' = NoDialog
    /\ files' = [files EXCEPT ![new] = Content(dialog.old)]
    /\ rows' = rows \cup {new}
    /\ radios' = IF new = configured THEN radios \cup {new} ELSE radios
    /\ Tell(Added(new))
    /\ UNCHANGED <<configured, configlet, edited, bus>>

\* configlet_rename: the row keeps its radio button, Global its old name.
Rename(new) ==
    /\ Idle /\ dialog.op = "rename" /\ new \in Names \ dialog.existing
    /\ Change({dialog.old, new})
    /\ dialog' = NoDialog
    /\ files' = [files EXCEPT ![new] = files[dialog.old], ![dialog.old] = None]
    /\ rows' = (rows \ {dialog.old}) \cup {new}
    /\ radios' = IF dialog.old \in radios THEN (radios \ {dialog.old}) \cup {new}
                                          ELSE radios
    /\ Tell(Renamed(dialog.old, new))
    /\ UNCHANGED <<configured, configlet, edited, bus>>

\* Slip: the profiles are listed before the file has gone.
RemoveNameEarly(n, fs) == IF n \in Listed(files)
                          THEN UNCHANGED <<rows, todo>>
                          ELSE rows' = rows \ {n} /\ Tell(Deleted(n))

\* remove_name_from_list, with the files fs: a profile of the system's may
\* appear in place of the user's.
RemoveName(n, fs) == IF n \in Listed(fs)
                     THEN UNCHANGED <<rows, todo>>
                     ELSE rows' = rows \ {n} /\ Tell(Deleted(n))

\* on_delete_clicked
DeleteClicked(n) ==
    /\ UserCanAct /\ MayRemove(n) /\ n \notin radios
    /\ Change({n})
    /\ files' = [files EXCEPT ![n] = None]
    /\ RemoveName(n, files')
    /\ UNCHANGED <<configured, configlet, radios, dialog, edited, bus>>

ToolNext ==
    \/ Save \/ Send \/ OpenManager \/ CloseManager \/ CancelName
    \/ \E n \in Names : \/ EditRow(n) \/ CloseEditor(n) \/ ToggleRadio(n)
                        \/ CopyClicked(n) \/ Copy(n)
                        \/ RenameClicked(n) \/ Rename(n) \/ DeleteClicked(n)
    \/ \E n \in Names, v \in Value : EditOption(n, v)
=============================================================================
