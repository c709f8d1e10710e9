---------------------------- MODULE TerminalChild ----------------------------
(***************************************************************************)
(* The command that runs in one terminal (ROXTermData, roxterm.c): how it  *)
(* is started, what happens when it exits, and the dialogs about it.       *)
(*                                                                         *)
(* Starting is asynchronous, the action to take after an exit may wait for *)
(* a timer, failures are reported by an idle callback, and gtk_dialog_run  *)
(* dispatches all of these while a dialog waits.  `frames` is the stack of *)
(* dialogs that handlers of this terminal are running.                     *)
(***************************************************************************)
EXTENDS Integers, SequencesExt

CONSTANT MaxRuns     \* bound: how often a command is started

ASSUME RunsAssumption == MaxRuns \in Nat \ {0}

VARIABLES
    data,       \* ROXTermData: "live"; "postponed", its tab is deleted and
                \* postponed_free set; or "freed"
    running,    \* roxterm->running
    firstRun,   \* the idle callback run_child_when_idle is due
    parsed,     \* actual_commandv is set
    spawns,     \* calls of vte_terminal_spawn_async without an answer yet
    child,      \* VTE watches a process of this terminal
    failures,   \* idle callbacks roxterm_command_failed that are due
    tag,        \* post_exit_tag: 0 ("none"), the tag of a timer that is
                \* "pending", or of one that is "gone"
    orphans,    \* timers that are due and that no tag refers to
    frames,     \* the dialogs being run, the innermost last
    profile,    \* exit_action and whether exit_pause is not 0
    noRespawn,  \* roxterm->no_respawn
    runs,       \* history: how many commands were started,
    due,        \* whether an exit still has to be acted upon,
    fault       \* freed memory has been used

command == <<running, parsed, spawns, failures, runs>>
timers == <<tag, orphans>>
config == <<profile, noRespawn>>
vars == <<data, running, firstRun, parsed, spawns, child, failures, tag,
          orphans, frames, profile, noRespawn, runs, due, fault>>

Dialog == {"restart", "ask", "failed"}

Profile == [action : {"Close", "Hold", "Respawn", "Ask"}, pause : BOOLEAN]

TypeOK == /\ data \in {"live", "postponed", "freed"}
          /\ running \in BOOLEAN /\ firstRun \in BOOLEAN /\ parsed \in BOOLEAN
          /\ child \in BOOLEAN
          /\ spawns \in Nat /\ failures \in Nat /\ runs \in Nat
          /\ tag \in {"none", "pending", "gone"} /\ orphans \in Nat
          /\ frames \in Seq(Dialog)
          /\ profile \in Profile /\ noRespawn \in BOOLEAN
          /\ due \in BOOLEAN
          /\ fault \in BOOLEAN

\* roxterm_multi_tab_filler: the first command is left to an idle callback.
Init == /\ data = "live" /\ running = FALSE /\ firstRun = TRUE
        /\ parsed = FALSE /\ spawns = 0 /\ child = FALSE /\ failures = 0
        /\ tag = "none" /\ orphans = 0 /\ frames = <<>>
        /\ profile \in Profile /\ noRespawn \in BOOLEAN
        /\ runs = 0 /\ due = FALSE /\ fault = FALSE

-----------------------------------------------------------------------------
\* Everything still to come that may start a command, or lead to that.
Pending == Len(frames) + orphans + (IF tag = "pending" THEN 1 ELSE 0)
                                 + (IF firstRun THEN 1 ELSE 0)

\* The bound: where more commands are begun, there is room for the others.
MayContinue == runs + Pending < MaxRuns

\* A dialog is modal while it runs.
UserCanAct == ~fault /\ data = "live" /\ frames = <<>>

\* A callback uses a structure that is gone; what follows is undefined.
Fault == /\ fault' = TRUE
         /\ UNCHANGED <<data, firstRun, child, command, timers, frames,
                        config, due>>

\* roxterm_run_command: an asynchronous start, or a command line that can not
\* be parsed.
RunCommand ==
    /\ running' = TRUE
    /\ runs' = runs + 1
    /\ due' = FALSE
    /\ \/ spawns' = spawns + 1 /\ parsed' = TRUE /\ UNCHANGED failures
       \/ ~parsed /\ failures' = failures + 1 /\ UNCHANGED <<parsed, spawns>>

RunsNothing(stillRunning) ==
    running' = stillRunning /\ UNCHANGED <<parsed, spawns, failures, runs>>

\* Slip: the running Restart dialog is not considered.
DeleteAtOnce(fs) == /\ data' = "freed"
                    /\ frames' = fs
                    /\ due' = FALSE

\* multi_tab_delete, which ends in roxterm_data_delete, with the dialogs fs
\* still running.  A Restart dialog is destroyed; its handler frees the data.
Delete(fs) ==
    /\ data' = IF "restart" \in ToSet(fs) THEN "postponed" ELSE "freed"
    /\ frames' = fs
    /\ due' = FALSE

\* Where post_exit_tag is overwritten, with tag t and n orphans before.
SetTag(new, t, n) == /\ tag' = new
                     /\ orphans' = IF t = "pending" THEN n + 1 ELSE n

\* g_source_remove for post_exit_tag
RemoveTimer(new) == tag' = new /\ UNCHANGED orphans

-----------------------------------------------------------------------------
(* The exit of a command.                                                  *)

\* roxterm_post_child_exit from the switch on.
Perform(action, stillRunning, fs) ==
    \/ /\ action = "Close" \/ (action = "Respawn" /\ noRespawn)
       /\ Delete(fs)
       /\ RunsNothing(stillRunning)
    \/ /\ action \in {"Hold", "dismissed"}
       /\ frames' = fs
       /\ due' = FALSE
       /\ RunsNothing(stillRunning)
       /\ UNCHANGED data
    \/ /\ action = "Respawn" /\ ~noRespawn
       /\ frames' = fs
       /\ RunCommand
       /\ UNCHANGED data

\* roxterm_post_child_exit up to its question, if it has one.
PostChildExit(stillRunning, t, n) ==
    \/ /\ profile.action = "Ask"
       /\ frames' = Append(frames, "ask")
       /\ tag' = t /\ orphans' = n
       /\ due' = TRUE
       /\ RunsNothing(stillRunning)
       /\ UNCHANGED data
    \/ /\ profile.action # "Ask"
       /\ SetTag("none", t, n)
       /\ Perform(profile.action, stillRunning, frames)

\* A process that VTE watches ends.  It has run for some time, so that the
\* main loop has been idle since the terminal was made.
Exits == ~fault /\ data = "live" /\ child /\ ~firstRun /\ MayContinue

\* Slip: the command counts as running until its exit action is due.
ChildExitsLater ==
    /\ Exits
    /\ child' = FALSE
    /\ \/ /\ profile.pause /\ profile.action # "Ask"
          /\ SetTag("pending", tag, orphans)
          /\ due' = TRUE
          /\ RunsNothing(running)
          /\ UNCHANGED <<data, frames>>
       \/ /\ ~profile.pause \/ profile.action = "Ask"
          /\ PostChildExit(FALSE, tag, orphans)
    /\ UNCHANGED <<firstRun, config, fault>>

\* roxterm_child_exited
ChildExits ==
    /\ Exits
    /\ child' = FALSE
    /\ \/ /\ profile.pause /\ profile.action # "Ask"
          /\ SetTag("pending", tag, orphans)
          /\ due' = TRUE
          /\ RunsNothing(FALSE)
          /\ UNCHANGED <<data, frames>>
       \/ /\ ~profile.pause \/ profile.action = "Ask"
          /\ PostChildExit(FALSE, tag, orphans)
    /\ UNCHANGED <<firstRun, config, fault>>

\* Slip: every timer that fires is taken for a forgotten one.
TimerFiresUncounted ==
    /\ ~fault
    /\ tag = "pending" \/ orphans > 0
    /\ \/ data # "live" /\ Fault
       \/ /\ data = "live"
          /\ PostChildExit(running, tag, orphans - 1)
          /\ UNCHANGED <<firstRun, child, config, fault>>

\* The timer calls roxterm_post_child_exit.  While that runs, its tag refers
\* to a timer that is gone in all but name.
TimerFires ==
    /\ ~fault
    /\ tag = "pending" \/ orphans > 0
    /\ \/ data # "live" /\ Fault
       \/ /\ data = "live"
          /\ \/ tag = "pending" /\ PostChildExit(running, "gone", orphans)
             \/ orphans > 0 /\ PostChildExit(running, tag, orphans - 1)
          /\ UNCHANGED <<firstRun, child, config, fault>>

\* roxterm_post_child_exit after gtk_dialog_run.
AnswerAsk ==
    /\ ~fault /\ frames # <<>> /\ Last(frames) = "ask"
    /\ \/ data # "live" /\ Fault
       \/ /\ data = "postponed"     \* the question went with the window
          /\ SetTag("none", tag, orphans)
          /\ frames' = Front(frames)
          /\ UNCHANGED <<data, command, due,
                         firstRun, child, config, fault>>
       \/ /\ data = "live"
          /\ SetTag("none", tag, orphans)
          /\ \E answer \in {"Close", "Hold", "Respawn", "dismissed"} :
                Perform(answer, running, Front(frames))
          /\ UNCHANGED <<firstRun, child, config, fault>>

-----------------------------------------------------------------------------
(* Starting a command.                                                     *)

\* run_child_when_idle
RunFirst ==
    /\ ~fault /\ firstRun
    /\ \/ /\ data = "freed" \/ (data = "postponed" /\ ~running)
          /\ Fault
       \/ /\ data # "freed"
          /\ \/ running /\ UNCHANGED <<command, due>>
             \/ ~running /\ data = "live" /\ RunCommand
          /\ firstRun' = FALSE
          /\ UNCHANGED <<data, child, timers, frames, config, fault>>

\* roxterm_fork_callback.  VTE watches the new process instead of an older
\* one, and passes no terminal when that has been destroyed.
SpawnAnswered ==
    /\ ~fault /\ spawns > 0
    /\ \/ data = "freed" /\ Fault
       \/ /\ data # "freed"
          /\ spawns' = spawns - 1
          /\ \E started \in BOOLEAN :
                /\ child' = (started /\ data = "live")
                /\ failures' = IF started THEN failures ELSE failures + 1
          /\ UNCHANGED <<data, firstRun, running, parsed, runs, timers, frames,
                         config, due, fault>>

\* roxterm_command_failed, up to gtk_dialog_run in dlg_critical
CommandFailed ==
    /\ ~fault /\ failures > 0
    /\ \/ data # "live" /\ Fault
       \/ /\ data = "live"
          /\ failures' = failures - 1
          /\ frames' = Append(frames, "failed")
          /\ UNCHANGED <<data, firstRun, running, parsed, spawns, child, runs,
                         timers, config, due, fault>>

\* roxterm_command_failed after dlg_critical
AnswerFailed ==
    /\ ~fault /\ frames # <<>> /\ Last(frames) = "failed"
    /\ \/ data # "live" /\ Fault
       \/ /\ data = "live"
          /\ RemoveTimer("none")
          /\ Delete(Front(frames))
          /\ UNCHANGED <<command, firstRun, child, config, fault>>

-----------------------------------------------------------------------------
(* The user.                                                               *)

\* roxterm_respawn_action, up to gtk_dialog_run if the command runs
Restart ==
    /\ UserCanAct /\ MayContinue
    /\ RemoveTimer(IF tag = "none" THEN "none" ELSE "gone")
    /\ \/ /\ running
          /\ frames' = Append(frames, "restart")
          /\ UNCHANGED <<command, due>>
       \/ ~running /\ RunCommand /\ UNCHANGED frames
    /\ UNCHANGED <<data, firstRun, child, config, fault>>

\* Slip: the timer is removed when the dialog returns, whatever the answer.
AnswerRestartTidy ==
    /\ ~fault /\ frames # <<>> /\ Last(frames) = "restart"
    /\ frames' = Front(frames)
    /\ RemoveTimer(IF tag = "none" THEN "none" ELSE "gone")
    /\ \/ /\ data = "live"
          /\ RunCommand \/ UNCHANGED <<command, due>>
          /\ UNCHANGED data
       \/ /\ data # "live"
          /\ data' = "freed"
          /\ UNCHANGED <<command, due>>
    /\ UNCHANGED <<firstRun, child, config, fault>>

\* roxterm_respawn_action after gtk_dialog_run: OK, another answer, or the
\* dialog was destroyed with the tab.
AnswerRestart ==
    /\ ~fault /\ frames # <<>> /\ Last(frames) = "restart"
    /\ frames' = Front(frames)
    /\ \/ /\ data = "live"
          /\ RunCommand \/ UNCHANGED <<command, due>>
          /\ UNCHANGED data
       \/ /\ data # "live"
          /\ data' = "freed"
          /\ UNCHANGED <<command, due>>
    /\ UNCHANGED <<firstRun, child, timers, config, fault>>

\* The tab, or its window, is closed.
CloseTab == /\ UserCanAct
            /\ RemoveTimer("none")
            /\ Delete(frames)
            /\ UNCHANGED <<command, firstRun, child, config, fault>>

\* roxterm-config changes the profile, in another process.
Configure == /\ ~fault /\ data = "live"
             /\ profile' \in Profile \ {profile}
             /\ UNCHANGED <<data, firstRun, child, command, timers, frames,
                            noRespawn, due, fault>>

\* roxterm_spawn_command_line in a new window or tab marks this terminal,
\* which the new one is copied from, as not to be rerun.
SpawnElsewhere == /\ UserCanAct /\ ~noRespawn
                  /\ noRespawn' = TRUE
                  /\ UNCHANGED <<data, firstRun, child, command, timers, frames,
                                 profile, due, fault>>

Next == \/ ChildExits \/ TimerFires \/ AnswerAsk
        \/ RunFirst \/ SpawnAnswered \/ CommandFailed \/ AnswerFailed
        \/ Restart \/ AnswerRestart \/ CloseTab \/ Configure \/ SpawnElsewhere

\* The main loop, nested or not, dispatches every timer and idle callback that
\* is due.  Nothing makes commands exit, starts finish or users answer.
Fairness == WF_vars(TimerFires) /\ WF_vars(CommandFailed)

Spec == Init /\ [][Next]_vars /\ Fairness

-----------------------------------------------------------------------------
\* A terminal that counts as running has a command that runs, is being
\* started or is known to have failed, so that its end will be noticed: no
\* order of exits, restarts and failures leaves "running" set for good.
RunningIsReal == data = "live" /\ running =>
                     \/ child \/ spawns > 0 \/ failures > 0
                     \/ "failed" \in ToSet(frames)

\* The Restart dialog returns to a structure that still exists, and one that
\* outlives its tab for the dialog's sake has exactly one such dialog left to
\* free it, innermost or below others.
RestartKeepsData ==
    /\ "restart" \in ToSet(frames) => data # "freed"
    /\ data = "postponed" => "restart" \in ToSet(frames)
    /\ \A i, j \in DOMAIN frames :
          frames[i] = "restart" /\ frames[j] = "restart" => i = j

\* Every exit is acted upon, at once, by a timer or by a question, unless the
\* command is started again or the tab closed first: no timer is lost.
ExitsActedUpon == due ~> (~due \/ "ask" \in ToSet(frames) \/ fault)
=============================================================================
