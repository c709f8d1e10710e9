# A TLA+ verification of roxterm

roxterm is a tabbed terminal emulator for GTK+ 3 and VTE, written in C. One
process shows many windows, each with many tabs; nearly everything runs in one
thread, in handlers that GLib's main loop dispatches. That rules out data races
in the ordinary sense. What is left is harder to see: handlers that run *inside*
other handlers, because GTK emits a signal in the middle of a call or because
`gtk_dialog_run` dispatches further events before it returns; timers, idle
callbacks and asynchronous starts that come back to a tab that may be gone; and
input that arrives cut into pieces at arbitrary places. Around that process
there are others: the ones that later command lines start, which hand their
arguments over by D-Bus, and the configuration tool, which writes files and
sends signals about them.

This directory models those parts in TLA+, checks them with TLC on small
instances and proves the safety properties with TLAPS for all instances.

## Inventory

Paths are below `src/src/`. "Modelled by" is empty where nothing is modelled.

| Component | Files | State | Operations | Talks to | Modelled by |
|---|---|---|---|---|---|
| Windows and tabs | `multitab.c`, parts of `roxterm.c` | `multi_win_all`; per window `tabs`, `ntabs`, `current_tab`, `user_data_template`, the notebook, the Tabs menu, titles; per tab `parent`, `rename_dialog`, `postponed_free` | open, select, reorder, detach, drag and drop, rename, close | GTK (nested signals), terminals, sessions, D-Bus requests | `TabWindow`, `MultiTab`, `TabOwnership` |
| Clipboard indicator | `multitab.c`, `roxterm.c` | flash timer and frame, `show_clipboard_indicator`, `pending_clipboard`, `allow_osc52` | write, cache, confirm, clear, tick | OSC 52 filter, profile options | `ClipboardIndicator` |
| OSC 52 filter | `osc52filter.c`, `intptrmap.h` | scanner state, captured text, limit; map from descriptors to filters | intercept `read()`, capture, deferred copy | VTE (replaced `read`), terminals | `Osc52Filter` (scanner and capture) |
| Terminal child process | `roxterm.c` | `running`, `post_exit_tag`, `replace_task_dialog`, `postponed_free`, `actual_commandv`, `no_respawn` | start, exit, exit action after a pause or a question, rerun, report a failure | VTE (asynchronous), windows and tabs, profile options | `TerminalChild`; its effect on windows in `MultiTab` |
| Startup, single instance | `main.c`, `rtdbus.c` | pipe to the parent, bus name, queued requests, idle callbacks | `--fork`, own the name, forward `NewTerminal`, serve it | D-Bus, windows, global options | `Startup` |
| Global options | `globalopts.c` | static C variables; option data | parse a command line, reset | startup, windows | the static options, in `Startup` |
| Sessions | `session-file.c`, `roxterm.c` | session file, parse context | save, restore | windows and tabs, profiles | `Session` |
| Options and sharing | `options.c`, `dynopts.c`, `optsfile.c` | key files, reference counts by name | look up, reference, release, read, save | terminals, configuration tool | `ProfileOptions`, `ConfigTool` |
| Option signals | `optsdbus.c`, `roxterm.c` | messages on the bus | send and apply a change | configuration tool, terminals | `ProfileOptions`, `ColourSchemes` |
| Configuration tool | `configlet.c`, `capplet.c`, `profilegui.c`, `getname.c` | lists of profiles, open editors, name dialogs | edit, copy, rename, delete, choose the default | files, option signals | `ConfigTool` |
| Colour schemes | `colourscheme.c`, `colourgui.c`, `roxterm.c` | key file, cache of colours, widgets, `orig_scheme` | toggle, choose, resize the palette, revert, apply | files, option signals, VTE | `ColourEditor`, `ColourSchemes` |
| Menus, shortcuts | `menutree.c`, `shortcuts.c` | menu items, accelerators | build, rename an item | windows | the Tabs menu in `TabWindow`, the profile menu in `ProfileOptions` |
| Search, drag receiver, URIs, tab widgets, message boxes, resources, shim | `search.c`, `dragrcv.c`, `uri.c`, `multitab-label.c`, `dlg.c`, ... | widgets and data | | | |

### What is hard, and what correctness means

* **Windows and tabs.** The order of the tabs is kept three times (`win->tabs`,
  the notebook, the Tabs menu) and edited from signal handlers nested in one
  another. Correct: the three agree after every event, the tab roxterm acts on
  is the one shown, numbers in titles are those of the moment, every tab has one
  window, a window without tabs is gone, and the process ends with the last
  window. Dialogs wait in nested main loops meanwhile: what they return to must
  still exist.
* **Clipboard indicator.** One timer, three flags, and events that change them
  under it. Correct: the button is on screen between flashes exactly if there is
  something to show, a flash ends, text is written only as the profile allows, and never
  without notice.
* **OSC 52 filter.** A finite automaton over a stream cut anywhere. Correct:
  exactly the texts of OSC 52 sequences come out, the limit holds, and `read()`
  returns.
* **Terminal child process.** Asynchronous starts, a timer after the exit, two
  or three dialogs about it, and the user. Correct: `running` means that an end
  is still to come, every exit is acted upon, and no callback finds its terminal
  gone.
* **Startup.** Several processes, each at its own point of `main()`, a name that
  changes hands between the moment a process finds it taken and the moment it
  sends its arguments, a byte over a pipe that may be sent at three places or
  passed by at each, and C variables that outlive the command line that set
  them. Correct: every command line gets one terminal, with its own options, and
  the parent of `--fork` returns.
* **Profiles.** The file and the signal about it are two steps of the tool, and
  terminals read the file before, between or after them, but never again while
  they share it. References are counted by name while the names are copied,
  deleted and renamed elsewhere. Correct: counts are exact, terminals that share
  options show the same, and after the last signal they show the file.
* **Colour schemes.** Setting a toggle button runs the handler of that button in
  the middle of the handler that sets it, and each saves and sends. A colour may
  be in the key file, in a cache, in a button and in the terminals. Correct: the
  dialog, the file and the terminals tell the same.
* **Sessions.** One parse context is used for all windows and tabs in turn, the
  file may be cut anywhere, and windows are opened before the rest has been
  read. Correct: what was saved comes back, and there is always a window.

The hazards of the code, line by line, with the properties that would catch
them, are listed under `hazards` in `PROJECT.json`.

## The modules

| Module | What it is |
|---|---|
| `TabWindow` | one window as a record; the functions of `multitab.c` that change one window, with GTK's nested signals spelled out, as operators on it |
| `MultiTab` | EXTENDS `TabWindow`: all windows, tabs and dialogs of the process; one action per event handler |
| `TabOwnership` | the abstract specification: who owns a tab, and when the program ends |
| `MultiTabProperties` | what `MultiTab` must satisfy, the refinement of `TabOwnership` among it |
| `MCMultiTab` | `MultiTab` for TLC: symmetry |
| `ClipboardIndicator` | OSC 52 writes of the tabs of one window, and its indicator |
| `Osc52Filter`, `MCOsc52Filter` | the scanner in `read()`; chunks of input for TLC |
| `TerminalChild` | the command in one terminal |
| `Startup`, `MCStartup` | processes from `main()` to their end, the bus name, requests and the pipe of `--fork`; command lines for TLC |
| `ConfigTool` | the configuration tool and the profiles on disk |
| `ProfileOptions` | EXTENDS `ConfigTool`: the terminals that share what they read from those files |
| `ColourEditor` | the editor of one colour scheme: a handler is an operator from one state of the editor to the next |
| `ColourSchemes`, `MCColourSchemes` | EXTENDS `ColourEditor`: the terminals that use that scheme; schemes for TLC |
| `Session`, `MCSession` | windows and tabs, the session file, and the parser; files made by hand for TLC |
| `MultiTab_proofs`, `ClipboardIndicator_proofs`, `Osc52Filter_proofs`, `TerminalChild_proofs`, `ProfileOptions_proofs`, `ColourSchemes_proofs`, `Startup_proofs`, `Session_proofs` | theorems and their proofs |

`MultiTab` composes `TabWindow`'s windows; `TerminalChild` looks closely at one
terminal of which `MultiTab` only shows what its exit does to tabs and windows;
`Osc52Filter` produces the texts that `ClipboardIndicator` takes as its input.
`ProfileOptions` and `ColourSchemes` put two processes together, the tool and
the terminals, with the files and the bus between them. `Session` sees of a
window only what is saved of it.

Operators named "Slip" in a comment are plausible mistakes in the code next to
them. No specification uses them: put in the place of the operator they imitate,
each makes one property fail, and so shows that the property can.

### From code to model

* **Granularity.** GTK calls every handler from one thread, so an action is a
  whole handler, with every handler that is nested in it. A handler that calls
  `gtk_dialog_run` is two actions, before and after, with a frame on the stack
  `frames` between them, because other events are handled meanwhile. Only the
  innermost dialog can return.
* **`TabWindow`.** `SelectTab`, `AddTab`, `RemoveTab`, `MoveToPosition` and so on
  are the functions of those names in `multitab.c`. GTK's part (which page is
  shown after a removal, that `page-reordered` fires for a real move only, that
  the first page becomes the current one) is in operators marked external:
  `GtkInsertPage`, `GtkRemovePage`, `Neighbour`, `SetCurrentPage`.
* **`MultiTab`.** Where roxterm computes something from data the model leaves
  out (which window a title matches, what `warn_close` says), the action chooses.
  `life` says what the memory of a `MultiTab` is: a use of freed memory sets
  `fault` and ends the behaviour, since nothing can be said after it. An exit
  timer that `post_exit_tag` has forgotten may act on a tab once more while its
  question is open, so that a tab may have two questions, or lose its own to a
  deletion and return to freed data (`FinishAsk`).
* **`ClipboardIndicator`.** `Flash` joins `multi_win_flash_clipboard_indicator`
  and the hiding that follows it in one handler; `Tick` is the timer callback
  with its arithmetic on the frame counter. `OnScreen` is what a user sees: the
  button is visible and not transparent.
* **`Osc52Filter`.** A byte is one of those the scanner tells apart, or a member
  of `Text`. Each action is one turn of the loop in `read()`, so that "the byte is
  put back" (`osc52filter_unpeek`) is visible. `Read` delivers a chunk of
  `Chunk`. `Texts` is the reference: where in the whole stream the texts begin
  and end, found without the automaton. It takes one behaviour of the code for
  granted: an ESC right after an unfinished `ESC ] 52` is swallowed with it
  (`Swallowed`). Whether a text fitted depends on the limit that was in force
  while it came: the history variable `limits` remembers for each byte the lowest
  limit from its read to the next, since `osc52filter_set_buffer_size` also drops
  a text that waits between two reads.
* **`TerminalChild`.** `tag` and `orphans` stand for `post_exit_tag` and the
  timers it has forgotten. The tag may also be "gone": the number of a timer that
  no longer exists, which `g_source_remove` accepts with a warning. `frames` holds
  the Restart dialog, the question after an exit and the report of a failure.
  Assumed of VTE: it watches the old process until a new start is answered, and
  answers a start whose terminal is destroyed without the terminal. Assumed of
  the program: the main loop has been idle once before the first command exits.
  A callback that finds its structure freed, or its tab, takes the step `Fault`.
* **`Startup`.** `pc` says how far a process is in `main()`: "starting" up to
  `listen_for_new_term`, "sending" before `run_via_dbus`, "loading" before
  `roxterm_init`, and "running" in `gtk_main`. The bus keeps the name's owner and
  one queue for each process. `bus` are the processes for which `rtdbus_init`
  succeeded: the others (`NoBus`) install no rule and hear no signal. The global
  options are read before the name is asked for (`ReadOptions`), `Load` adds the
  rule for signals about them, and a change in between is lost on the process;
  a process that serves another's command line reads them again. `LoadSession`
  is possible for every command line, as there may be a session file of the name
  Default. `ready` is the filter for `NameAcquired`, which is
  there for `--fork` only and takes every message whose first argument is a
  string; `idle` the callback that main queues if it finds no such filter.
  `statics` are the options that are C variables: `Reset` is
  `global_options_reset`, which forgets two of them, and `Launch` clears those
  that `roxterm_launch` uses up. `served`, `sentTo` and `since` (the options'
  value when the rule was added) are history. The value an option gets from the
  question before closing, which saves it and sends no signal, is left out.
* **`ConfigTool`, `ProfileOptions`.** The tool's handlers save and then send:
  `todo` holds what the current one has still to do, so that terminals can read
  the file in between, and the tool dispatches no event before it is empty.
  A profile's options are one value, that of one option, and the bus delivers in
  order. `Reflected` says whether `roxterm_reflect_profile_change` has a test for
  that option's name: it has none for `colour_scheme_light`, `colour_scheme_dark`
  and `pixel_scrolling`. Options of the window are not in `shown`: `hide_menubar`
  is applied only while the tab is the current one (`roxterm.c:3654`). `LookupAndRef`,
  `Ref` and `Unref` act on the table of `dynopts.c`. The state of a name dialog is
  what `getname_run_dialog` was given before it ran. `replaced` and `unlisted` are
  history: names for which the code makes no promise, because their file was
  copied, renamed or deleted (no signal tells terminals of new contents) or was
  first made by an editor (no signal tells menus).
* **`ColourEditor`, `ColourSchemes`.** `SetToggle` runs the handler of a toggle
  button unless `ignore_changes` is set, as GTK does. Three palette entries stand
  for sixteen: the two that text and background may track, and one that only the
  large palette has. `cache` is the `ColourScheme` structure, `kf` the key file.
* **`Session`.** The file is a sequence of tags with the attributes that are
  modelled. `At` is the parser at the next tag; `Fits` is what the checks of
  `parse_open_*` and `parse_close_*` accept; `ctx` is `_ROXTermParseContext`.
  The action that opens a tab includes the idle callback that starts its command;
  a tab saved in between would have no `<command>`.
  `Fill` is `roxterm_multi_tab_filler` with what it does to the menu bar and to
  the colour scheme. `SaveCut` writes any beginning of the file.

## The runs

| Run | Module, configuration | Question | Answer |
|---|---|---|---|
| `windows` | `MCMultiTab`, `MCMultiTab.cfg` | Do windows, notebooks, menus, titles and tab structures agree after every sequence of events, and do they keep the promise of `TabOwnership`? | yes |
| `open_dialogs` | `MCMultiTab`, `MCMultiTabDialogs.cfg` | Is a dialog about a tab closed when its terminal exits? | no |
| `clipboard` | `ClipboardIndicator.cfg` | Only permitted writes, the button on screen between flashes exactly if a write is to stay announced (a write in the last frame excepted), and a flash that ends? | yes |
| `osc52` | `MCOsc52Filter`, `MCOsc52Filter.cfg` | Exactly the texts sent, wherever reads cut the sequences outside a text; nothing else taken for a text, the limit kept while it changes, and `read()` returning? | yes |
| `osc52_intact` | `MCOsc52Filter`, `MCOsc52FilterIntact.cfg` | And when a read ends inside a text? | no |
| `child` | `TerminalChild.cfg` | Is `running` true to the facts, is every exit acted upon, and the Restart dialog safe? | yes |
| `options` | `ProfileOptions.cfg` | Do the shared options, the terminals (for an option whose changes they apply) and their menu come to agree with the files, whatever is read between a save and its signal, and is no profile written over? | yes |
| `colours` | `MCColourSchemes`, `MCColourSchemes.cfg` | Do the editor's widgets, the file and the terminals agree? | yes |
| `startup` | `MCStartup`, `MCStartup.cfg` | Does each command line get its terminal once and with its own options, does each process on the bus follow the options that change since it listens, and does the parent of `--fork` return? | yes |
| `startup_abort` | `MCStartup`, `MCStartupAbort.cfg` | Does the process that owns the name stay to serve others? | no |
| `session` | `MCSession`, `MCSession.cfg` | Does a saved session come back, and is there a window whatever the file holds, unless it is complete and has no tab in it? | yes |
| `session_restores` | `MCSession`, `MCSessionRestores.cfg` | Does it come back with menu bars and colour schemes, too? | no |

The runs answered "no" each check one statement of the repository:

* **`NoDialogLeftOpen`.** `debian/changelog:799`: "Ensure no associated
  menus/dialogs are left open when a terminal exits." The question of
  `roxterm_delete_handler` is remembered nowhere, so it stays open when the
  command in that tab exits, and a Yes deletes the tab a second time.
* **`TextsIntact`.** `osc52filter.c:323-324`: `read` "pushes a chunk containing a
  copy of the data read". A capture that goes on in a further read loses that
  read's first byte, since the loop has taken it before it calls
  `osc52filter_capture_buffer`. In the run the
  byte is the BEL that should end the text. `TextsExact` and `TextsWereSent`
  exempt behaviours with such a read (`spanned`).
* **`MasterSurvives`.** `man/roxterm.1.xml.in:337-338`: "Usually the first
  instance stays in the foreground and subsequent invocations return once they
  have asked the master instance to handle their command." If the first was
  started without `--fork`, and a command line with it is served before the
  first's idle callback has run, that callback finds the option set in the
  static variable, writes to a pipe that does not exist, and aborts the process.
* **`SessionRestores`.** `docs/en/index.html:279-280`: "A session saves the state
  of current windows and tabs but not the terminals' text content." The file has
  the menu bar and the colour scheme, but `roxterm_multi_tab_filler` sets both
  again as the profile says. `RestoredAsSaved` states what does come back.

### What the passing properties leave out

Where the code has a known limit, the property names it, and nothing more:

* `NoDialogLeftOpen` leaves the question about the exit itself out, which comes
  after the exit.
* `ShownWhileDue` exempts a write in the last frame of a flash that was to end
  hidden (`late`): it sets `show_clipboard_indicator` only, and the last tick
  makes the button transparent and, as it is to stay, leaves it so
  (`multitab.c:2894`), although `README.md:67-69` says that the indicator "stays
  visible until cleared". TLC finds `~ticking /\ show => OnScreen` violated so.
* `ShowsItsOptions` and `Settles` speak of an option whose changes are applied
  (`Reflected`). `docs/en/index.html:407-410` says of all options that "All
  terminals using the named profile or colour scheme are affected"; of
  `colour_scheme_light`, `colour_scheme_dark` and `pixel_scrolling` the new value
  is stored, and no open terminal gets it. With `Reflected = FALSE` TLC finds
  `AllAreAffected` violated by the first change.
* `CacheFollowsFile` and `Settles` exempt the names in `replaced`,
  `MenuFollowsFiles` those in `unlisted`, the default and the system's profiles.
* `DialogShowsFile` exempts dialogs in which Revert was used: `colourgui_revert`
  refills the dialog with the handlers running, and colours that were not set
  come back as their default (`ChangeLog.old:1311`: "Colour schemes with empty
  keyfiles can be reverted."). What a Revert leaves is still what the terminals
  show, and colours that track the palette still agree with it.
* `TerminalsShowFile` exempts the size of the palette: the handler for
  `palette_size` stores it in the cached colours and applies the scheme, but
  applying it parses the size again from the process's key file, which still has
  the old one (`roxterm.c:3876-3882`).
* `AlwaysAWindow` exempts a complete session file without a tab: the process then
  runs without a window.
* `OptionsHeard` and `ParentsReturn` exempt the processes of `Stranded`: started
  with `--fork` and `--separate` or `--session` while another has the name, they
  wait for a `NameAcquired` that never comes. The parent stays, and the filter
  takes the signals about options for itself. `OptionsHeard` also speaks of
  processes on the bus only, and of changes since they listen: one made between
  `main.c:311` and `main.c:342` is lost on the process.
* `RequestsServed` exempts requests to a process that ends before it has handled
  them: the sender is content as soon as the message is sent.
* `TextsExact` speaks of streams with seven-bit introducers and of reads that do
  not end inside a text; `TextsWereSent` covers both forms of introducer.
* `WindowsAsAsked` lets `--borderless` and `--maximise` of one command line have
  their effect on a later one of the same process: `global_options_reset` does
  not reset them.

### Bounds

| Run | Bound | Why it is enough |
|---|---|---|
| `windows` | `Tab` 4, `Win` 3, symmetric, `MaxDialogs` 4 | four tabs give a window with a first, a last and two inner tabs; three windows allow a move between two with a third one to fall back on, and a fresh one to detach to. A question for each tab may be open at once, or several for one |
| `open_dialogs` | `Tab` 2, `Win` 2, `MaxDialogs` 2 | a tab to ask about and one that keeps the window |
| `clipboard` | 2 terminals, 2 texts | a text of another terminal, and a text replaced while it waits |
| `osc52`, `osc52_intact` | `MaxReads` 3, the chunks of `MCOsc52Filter`, limits 3 and 4 (`osc52_intact`: 3) | the chunks cut a sequence at every place and include whole ones, queries, both terminators, both introducers, other OSCs, and texts below and at the limit, which shrinks in mid-capture |
| `child` | `MaxRuns` 4 | three exits, so that a timer, a forgotten timer and a question can all be due at once. The guard `MayContinue` keeps the bound where an exit or a restart begins, never in the middle of a handler |
| `options` | 3 names, 2 terminals, 2 values, `MaxChanges` 2 | the default, a profile with a file and a name to copy or rename to; two terminals share, or lend to each other; two changes let one signal be on its way while the next save is made, or a name be taken away and made again |
| `colours` | 2 colours, 2 terminals, 2 schemes at first, `MaxChanges` 2 | two changes after any opening or closing of the dialog make each handler run in the state another one left, with the handlers it sets off; an empty scheme and one whose text and background track the palette begin in the two halves of the state space |
| `startup`, `startup_abort` | `N` 3, five or two command lines, `Unconnected` 1, `MaxChanges` 1 | one process to own the name, one to find it taken and one to take it away in between; the command lines have every way through `main()` and every static option. Only the first process may find itself without a bus, as such a process deals with no other; the theorems let any. 1.6 million states |
| `session`, `session_restores` | `MaxTabs` 3, `MaxChanges` 4 or 2, 5 files made by hand | two windows, one of them with two tabs and the first selected, need four changes; a profile that hides the menu bar and one that does not. Files by hand have what roxterm does not write: a window without tabs, a tab in a tab, a second or an empty command |

`CHECK_DEADLOCK FALSE` stands where the system may stop: the main loop of
`MultiTab` ends with the last window, the terminal of `TerminalChild` may be
closed, all processes of `Startup` may have ended, and the users of
`ProfileOptions`, `ColourSchemes` and `Session` have used up their changes. The
other systems must always be able to go on, and are checked for it; the scanner's
bound on reads does not stop it, as the limit may still be set.

### Fairness

* `ClipboardIndicator`: `WF(Tick)`. GLib dispatches a timer that is due.
* `Osc52Filter`: `WF(Scan)`. A loop that has input takes its next turn. Nothing
  makes data arrive.
* `TerminalChild`: `WF(TimerFires)` and `WF(CommandFailed)`. The main loop,
  nested or not, dispatches the timers and idle callbacks that are due. Nothing
  makes a command exit, VTE answer or a user click, so that no property relies
  on it.
* `ProfileOptions`: `WF` of `Save \/ Send`, since a handler runs to its end, and
  `WF(Receive)`, since the bus delivers and the terminals' main loop dispatches.
  That the user stops is a consequence of `MaxChanges`, not of fairness.
* `Startup`: `WF(\E p : Runs(p))`. While some process can go on, one of them
  does. It is weaker than fairness for each process, and enough because every
  process's steps are finitely many. Nobody need start or quit a process.
* `MultiTab`, `ColourSchemes` and `Session` have no liveness property and no
  fairness: their events are the user's, a program's, or steps of a parser whose
  result is a safety property.

## What is proved

Each theorem holds for every value of the constants: any number of tabs, windows,
texts, terminals, names and processes, any chunks, limits and command lines, any
number of runs, any colours and colour schemes, any session files. The assumptions are the named `ASSUME`s of the
modules: that NULL is no tab, window, text or name, that a chunk is a non-empty
sequence of bytes, that limits are positive, that there are finitely many
terminals, that a session file made by hand is a sequence of elements, that every
profile has a colour scheme, if only the default, and that no colour is the mark
for "not set".

**`MultiTab_proofs`** proves `TypeOK`, `TabOrderAgrees`, `CurrentAgrees`,
`NumbersAgree`, `OwnedOnce`, `WindowsHaveTabs`, `RenameKeepsTab`,
`DialogHasWindow` and the refinement `ImplementsOwnership`.
The inductive invariant has four parts:

* `WindowsGood`: listed windows are in order (`WindowOK` of `TabWindow`, with
  `TypeOK`'s part), all others blank;
* `TabsOwned`: `OwnedOnce`, and only live tabs have a parent;
* `LoopRuns`: the main loop runs iff there is a window;
* `Dialogs(frames)`: what the stack looks like. The named properties say nothing
  about its shape, but are not inductive without it: only questions about exits
  open on top of another dialog; the window of an open dialog is on the screen,
  and the tab of an open Name Tab dialog is in that window; a postponed deletion
  has a closed Name Tab dialog left.

The work on a single window comes first in the module: each operator of
`TabWindow` keeps `WindowOK`, although it passes through states in between (pages already without
the tab, list still with it) in which `WindowOK` fails. `AddTabProperties`,
`RemoveTabProperties` and `MoveToPositionProperties` say what comes out at the
end; `MovedInPlace` says why the second pass over the lists that
`page-reordered` causes does no harm. `MultiTabImplementsOwnership` maps
`owner` to `parent` and `up` to `mainLoop`: a lemma for each kind of step
(opening, moving, deleting a tab, destroying a window), then one step per action.

**`ClipboardIndicator_proofs`** proves `TypeOK`, `ShownWhileDue`,
`WritesAreAllowed` and `ChangesAreAnnounced`. The strengthening is `FrameLeft`,
while the timer runs the frame is not negative (without it a tick may leave
`-1 .. 5`), and `LastFrame`: frame 0 comes before the last tick only if the button
is to be hidden, or a write has changed that since. So the tick that makes the
button transparent is the last one for no other write.

**`Osc52Filter_proofs`** proves `TypeOK`, `CaptureFits`, `TextsWereSent` and
`TextsExact`. The invariant `IInv` locates the scanner in the whole stream: what is
left in the buffer is the end of `sent` (`BufIsRest`); in each state, the bytes
before the position are those that state stands for; the capture is the stretch
since the introducer, unless a read ended in it. From that, what is delivered
stands between an introducer and a terminator.

`TextsExact` needs the converse too, that no sequence is overlooked. That is
`TInv`, which relates state, capture and deliveries to the first `p` bytes of the
stream, `p` being the position (`Exact`):

* `Marks`: the state is the one that stands for a part of an introducer iff those
  bytes end with that part. `Follows` and `GoesTo` make one step of it: which part
  the next byte completes, and to which state the code goes with it;
* `Waits`: a text that goes on at byte `p` is being captured, or has had no room
  at some time (`TooLong`);
* `Halfway`: a text that ends with ESC is held until the byte after it is known;
* `InOrder`: the texts complete with byte `p` (`Complete`) are those delivered.

Two facts about streams carry the argument. At most one text goes on at a time
(`OneGoesOn`), for an introducer has the only ESC in it and its text. And whether
an ESC is swallowed is decided four bytes earlier (`SwallowedIs`: it follows an
unfinished introducer that begins with an ESC that is not), although `Swallowed`
counts the whole row before it. `QuietTurn`, `AgainTurn`, `BackslashTurn`,
`CaptureAllTurn`, `DropTurn`, `EscTurn` and `TerminatorTurn` say what each kind of
turn makes of `Exact`, and `ExactStill` that neither a further read nor a new
limit disturbs it. `TextsAreComplete` says that the texts complete at the end of a
read are those `TextsExact` speaks of.

**`TerminalChild_proofs`** proves `TypeOK`, `RunningIsReal`, `RestartKeepsData`,
and two facts about the exit timers that are stated in the proofs module only,
`ExitsAwaited` and `TimerNeedsTab`. The first strengthening is `Nested`: only
the outermost dialog can be a Restart dialog, since the menus are out of reach
while a dialog is open. So removing the innermost frame removes the only Restart
dialog or none, and the data it waits for are freed exactly once.

`ExitsAwaited` is the safety half of `ExitsActedUpon`, which adds that the main
loop dispatches timers. It is not inductive: Restart removes the timer before its
question, and would leave an exit without one if that were about a command that
runs again. `Awaited` adds what rules this out, that an exit of a terminal that
counts as running waits for a question only; and no dialog is open when Restart is
chosen. `TimerNeedsTab` narrows the timers that may find freed data to those that
`post_exit_tag` has forgotten.

**`ProfileOptions_proofs`** proves, whether changes of the option are applied or
not, `TypeOK`, `CountsAreHolders`, `ShowsItsOptions`,
`OnlyEditorsOverwrite`, `CacheFollowsFile` and `MenuFollowsFiles`. The first three
are inductive together (`Sharing`): that all holders show the shared value needs
the counts, as `Unref` forgets the value with what it takes for the last reference.
`LookupEffect`, `UnrefEffect`, `SelectEffect` and `SelectSame` say what the
operations of `dynopts.c` and `options.c` do to a table of options, and
`MoveCounts` what a terminal's change of profile does to the number of holders.
`OnlyEditorsOverwrite` is an action property and rests on `AskedKnows`: while a
name dialog is open no save is under way, so that the names it compares with
still include every file there is when the answer comes.

`CacheFollowsFile` and `MenuFollowsFiles` speak of the moments when nothing is on
its way. Their strengthening `Following` speaks of all others: `AllFollowed` says
that the last signal on the bus about a name, or else the value held now, is what
its file will hold when the handler at work is done, for every name and not only
those that are read at the moment; `MenuWillFollow` says the same of the menu.
`HandlerSteps` lists the three forms that what is left of a handler may have, and
`RenamedHasFile` keeps a profile's file while a dialog asks for its new name. What
a queue leads to (`After`, `Listing`) is decided by its last signal about a name;
`LastPlace`, `LastAppended` and `LastTail` say what sending and receiving do to
that place, and rest on the least number of a set instead of induction.

**`ColourSchemes_proofs`** proves `TypeOK`, `DialogShowsFile`, `TrackedColoursAgree`
and `TerminalsShowFile`. The invariant `IInv` speaks of the dialog and of the bus:

* `Settled` holds of an open dialog always: the buttons of palette entries have
  their colours (`EntriesShown`), the palette is used while its toggle button says
  so (`PaletteUsed`), and colours that track it are set and are its entries
  (`Tracks`). `Shows` is the rest of `DialogShowsFile`, which a Revert may break.
  `TrackedColoursAgree` is not inductive without `Settled`: a click on "track" copies
  the buttons of entries 0 and 7, so these must show the entries, and it is possible
  while the toggle button of the palette is on, so there must be a palette;
* `BusTells`: the last signal about a key that is on its way says what the file
  says; `SchemeFollows`: a key no signal is about is in the terminals' options as
  it is in the file; `ShownFollows`: the terminals show their options.

A handler saves and sends in the middle of others, so in between the key file, the
file and what has been sent differ. `Ok(e, f, K)` is what every operator keeps: for
each key but those in `K`, what is in the key file is in the file `f` or is the last
thing sent. `K` are the keys that have been changed and not sent yet; it is empty
when a handler ends. For each operator a lemma says so and names what it leaves alone
(`Keeps`, `OptionSet`, `CustomSet`, `EntryChosen`); for each click another says that
the dialog is settled again (`FgbgSettled`, `TrackSettled`, `CustomSettled`,
`ChosenSettled` and others).

Filling in is eight buttons in a fixed order, F0 to F8. When the dialog opens no
handler runs, and what has been filled in stays (`QuietFill`). When it is reverted
each button's handler runs and may change colours, the file and other buttons;
`LoudEntry` and `LoudNamed` say what survives that. It is `Guarded`: tracking is
switched on only with the cached text and background equal to entries 0 and 7, and
none of the later handlers changes these. So even a Revert leaves the dialog settled
(`RevertFills`), and what it saved has been sent: the terminals follow the file,
although it may not be the one the dialog was opened with.

**`Startup_proofs`** proves `TypeOK`, `ServedOnce`, `WindowsAsAsked` and
`OptionsHeard`. The invariant follows a command line on its way. `FreshUnserved`:
before it is past `main()` it has neither been sent nor served, and the static
variables of its process are its own. `AskedOnce`: a request in a queue is the
only one of its command line, waits where it was sent, and has not been served.
`StaticsAsked`: each static option set in a process was given by a command line
that is that process's or was sent there. `OptionsHeard` is strengthened to
`AllHear`, which speaks of processes with messages in their queue, too: the last
change that waits is the last there was (`LastIsLatest`); without one the process
knows the option, or its filter has taken the change and waits for a name that
does not come; `NameAcquired` stands before every change (`NameFirst`), so that
otherwise the filter is gone when they are dispatched. All of this is about the
changes made since the process listens; if there was none, nothing is claimed.

**`Session_proofs`** proves `TypeOK`, `AlwaysAWindow` and the action property
`RestoredAsSaved`. It first says what is where in a session file. A window with n
tabs is 2 + 5n elements, `Offset(ws)[i]` is the number of those before window
i + 1, and `SavedSession` gives the element at every place: from
`Flattened` (what `FlattenSeq` does, as a recursive function over the prefixes),
`JoinedPlaces` and `WithTabsType`, each by the least number for which it would
fail. The invariant has these parts:

* `Types`: `TypeOK` with `Sound` windows, and `Parsing`: the context names a window
  only while one is open, and a tab only inside it;
* `SavedInFile`: while `saved` is remembered, the file is `SessionOf(saved)`;
* `TabsMet`: once the parser has met a `<tab>`, that tab is on the screen, in the
  open window or in the context. At the end nothing is open, so it is on the
  screen; `AlwaysAWindow` alone says nothing while the file is being read;
* `Restoring`: where in the file the parser is, and what is back by then. It is
  before `<session>`, between two windows (`Between`), inside one behind k tabs
  (`Inside`, `BehindTab`) or behind m elements of the next tab (`InsideTab`), or
  behind everything (`AllBack`).

For each of those places a lemma (`AtBeginning`, `BeforeWindow`, `BeforeTab`,
`InTab`, `BehindCommand`, `BehindTabs`, `BehindAll`) says that the next element
fits and that meeting it leads to another of them (`Leads`). So the parser never
stops early in a session that was saved completely, and `RestoredStep` can only be
`LoadSucceeds` with everything back.

### Only model-checked

* `FlashEnds`, `ReadReturns`, `ExitsActedUpon`, `Settles`, `RequestsServed` and
  `ParentsReturn`: liveness under fairness is out of the prover's reach.
* `SessionRestores` and the other properties of the runs that expect a violation.

Properties of data that is built up step by step are within reach, although the
library's induction theorems are not: `LeastOf` (a non-empty set of numbers has a
least one) is applied to the set of numbers for which a claim fails.

## Not modelled, and what comes next

Parts of the components above that are left out:

* *Windows and tabs*: geometry, zoom (its index past the table,
  `multitab.c:1917`), the tab bar's position, title templates.
* *Terminal child*: environment, directory, the command line itself.
* *OSC 52 filter*: which descriptor a new terminal gets is the kernel's choice, so
  the map from descriptors to filters is not modelled, nor the idle callback that
  hands a text over and looks for its terminal by address.
* *Startup*: a bus that disconnects, and a reply that is an error. `run_via_dbus`
  then goes on as `--separate` does, which `NoBus` models for the first call only.
* *Sessions*: geometry, roles, title templates, working directories, and the
  choice of a file's name.
* *Options*: single keys and types of a profile, errors of key files. Two editors
  of different processes do not exist; the tool is one process.
* *Signals*: `SetColourScheme`, `SetShortcutScheme` and `OptionsChanged`.
* *Configuration tool*: the lists of colour and shortcut schemes, which share the
  code of the list of profiles, the single widgets of the profile editor and its
  SSH dialog.

Search, dropped data, URI patterns, tab widgets, message boxes and resources are
data and widgets without behaviour of their own over time. Menus and shortcuts
build GTK objects; what their state adds to that of windows and profiles is in
those modules.

Some things met while modelling contradict nothing the repository says, or were
left to the list of hazards: of two exit timers only the later one is removed with
its tab (`roxterm.c:2117`); a renamed default profile keeps its radio button while
Global keeps its old name (`configlet.c:562-604`); `--colour-scheme` is never
looked at, as a profile always has a scheme (`roxterm.c:4372-4380`); a session cut
short leaves a window without a tab off the screen.

Next:

1. An abstract specification for `ProfileOptions`, "an object lives exactly as
   long as somebody holds it", with `CountsAreHolders` as the heart of the
   refinement.
2. Zoom and the state of menu items, as a part of `TabWindow`.
