------------------------ MODULE TerminalChild_proofs ------------------------
(***************************************************************************)
(* The safety properties of TerminalChild that hold, for any number of     *)
(* commands, timers and nested dialogs.                                    *)
(***************************************************************************)
EXTENDS TerminalChild, SequenceTheorems, TLAPS

\* Only the first dialog may be a Restart dialog: the user can not reach the
\* menus while another one is open.
Nested(fs) == \A i \in DOMAIN fs : fs[i] = "restart" => i = 1

\* RestartKeepsData, for a stack that is Nested.
DataKept == /\ "restart" \in ToSet(frames) => data # "freed"
            /\ data = "postponed" => "restart" \in ToSet(frames)

IInv == TypeOK /\ Nested(frames) /\ DataKept /\ RunningIsReal

-----------------------------------------------------------------------------
(* The stack of dialogs.                                                   *)

LEMMA NoDialogs == Nested(<<>>) /\ ToSet(<<>>) = {}
BY DEF Nested, ToSet

LEMMA Pushed ==
    ASSUME NEW fs \in Seq(Dialog), NEW d \in Dialog, Nested(fs),
           d = "restart" => fs = <<>>
    PROVE  /\ Append(fs, d) \in Seq(Dialog)
           /\ ToSet(Append(fs, d)) = ToSet(fs) \cup {d}
           /\ Nested(Append(fs, d))
<1>1. /\ Append(fs, d) \in Seq(Dialog)
      /\ Len(Append(fs, d)) = Len(fs) + 1
      /\ \A i \in 1 .. Len(fs) : Append(fs, d)[i] = fs[i]
      /\ Append(fs, d)[Len(fs) + 1] = d
    BY AppendProperties
<1>2. Len(fs) \in Nat /\ DOMAIN fs = 1 .. Len(fs) /\ (fs = <<>> => Len(fs) = 0)
    BY LenProperties, EmptySeq
<1> DEFINE gs == Append(fs, d)
<1>3. DOMAIN gs = 1 .. Len(fs) + 1
    BY <1>1, <1>2, LenProperties
<1> HIDE DEF gs
<1>4. ToSet(gs) = ToSet(fs) \cup {d}
    BY <1>1, <1>2, <1>3 DEF ToSet, gs
<1>5. Nested(gs)
    <2>1. SUFFICES ASSUME NEW i \in DOMAIN gs, gs[i] = "restart" PROVE i = 1
        BY DEF Nested
    <2>2. CASE i = Len(fs) + 1
        BY <1>1, <1>2, <2>1, <2>2 DEF gs
    <2>3. CASE i # Len(fs) + 1
        BY <1>1, <1>2, <1>3, <2>1, <2>3 DEF gs, Nested
    <2> QED
        BY <2>2, <2>3
<1> QED
    BY <1>1, <1>4, <1>5 DEF gs

LEMMA Popped ==
    ASSUME NEW fs \in Seq(Dialog), fs # <<>>, Nested(fs)
    PROVE  /\ Front(fs) \in Seq(Dialog)
           /\ Last(fs) \in Dialog
           /\ ToSet(fs) = ToSet(Front(fs)) \cup {Last(fs)}
           /\ Nested(Front(fs))
           /\ Last(fs) = "restart" => "restart" \notin ToSet(Front(fs))
<1> DEFINE n == Len(fs)
           gs == Front(fs)
<1>1. n \in Nat /\ n > 0 /\ DOMAIN fs = 1 .. n
    BY LenProperties, EmptySeq
<1>2. /\ gs \in Seq(Dialog) /\ Len(gs) = n - 1
      /\ \A i \in 1 .. n - 1 : gs[i] = fs[i]
    BY <1>1, SubSeqProperties DEF Front
<1>3. DOMAIN gs = 1 .. n - 1 /\ Last(fs) = fs[n] /\ fs[n] \in Dialog
    BY <1>1, <1>2, LenProperties, ElementOfSeq DEF Last
<1> HIDE DEF gs, n
<1>4. ToSet(fs) = ToSet(gs) \cup {Last(fs)}
    BY <1>1, <1>2, <1>3 DEF ToSet
<1>5. Nested(gs)
    BY <1>1, <1>2, <1>3 DEF Nested
<1>6. ASSUME Last(fs) = "restart" PROVE "restart" \notin ToSet(gs)
    <2>1. n \in DOMAIN fs /\ fs[n] = "restart"
        BY <1>1, <1>3, <1>6
    <2>2. n = 1
        BY <2>1 DEF Nested
    <2> QED
        BY <1>3, <2>2 DEF ToSet
<1> QED
    BY <1>2, <1>3, <1>4, <1>5, <1>6 DEF gs

-----------------------------------------------------------------------------
(* The steps that several handlers have in common.                         *)

\* Everything in TypeOK that a step of one of these changes.
ChangedTypes ==
    /\ data \in {"live", "postponed", "freed"}
    /\ running \in BOOLEAN /\ parsed \in BOOLEAN /\ due \in BOOLEAN
    /\ spawns \in Nat /\ failures \in Nat /\ runs \in Nat
    /\ frames \in Seq(Dialog)

LEMMA RunCommandProperties ==
    ASSUME TypeOK, RunCommand
    PROVE  /\ running' \in BOOLEAN /\ parsed' \in BOOLEAN /\ due' \in BOOLEAN
           /\ spawns' \in Nat /\ failures' \in Nat /\ runs' \in Nat
           /\ spawns' > 0 \/ failures' > 0
<1>1. running' \in BOOLEAN /\ parsed' \in BOOLEAN /\ due' \in BOOLEAN
    BY Zenon DEF TypeOK, RunCommand
<1>2. spawns \in Nat /\ failures \in Nat /\ runs \in Nat
    BY DEF TypeOK
<1>3. /\ runs' = runs + 1
      /\ \/ spawns' = spawns + 1 /\ failures' = failures
         \/ spawns' = spawns /\ failures' = failures + 1
    BY Zenon DEF RunCommand
<1> QED
    BY <1>1, <1>2, <1>3

\* Deleting the tab leaves the data for the Restart dialog, if there is one.
LEMMA DeleteProperties ==
    ASSUME NEW fs \in Seq(Dialog), Nested(fs), Delete(fs)
    PROVE  /\ data' \in {"postponed", "freed"}
           /\ frames' \in Seq(Dialog) /\ due' \in BOOLEAN
           /\ Nested(frames)' /\ DataKept' /\ RunningIsReal'
BY DEF Delete, Nested, DataKept, RunningIsReal

LEMMA SetTagProperties ==
    ASSUME TypeOK, NEW new \in {"none", "pending", "gone"},
           NEW t, NEW n \in Nat, SetTag(new, t, n)
    PROVE  tag' \in {"none", "pending", "gone"} /\ orphans' \in Nat
BY DEF SetTag

\* The exit action, with the dialogs fs left running.
LEMMA PerformProperties ==
    ASSUME TypeOK, data = "live", NEW action, NEW r \in BOOLEAN,
           NEW fs \in Seq(Dialog), Nested(fs),
           r => child' \/ spawns > 0 \/ failures > 0 \/ "failed" \in ToSet(fs),
           Perform(action, r, fs)
    PROVE  ChangedTypes' /\ Nested(frames)' /\ DataKept' /\ RunningIsReal'
<1>1. CASE Delete(fs) /\ RunsNothing(r)
    BY <1>1, DeleteProperties DEF RunsNothing, TypeOK, ChangedTypes
<1>2. CASE /\ frames' = fs /\ due' = FALSE
           /\ RunsNothing(r)
           /\ UNCHANGED data
    BY <1>2 DEF RunsNothing, TypeOK, ChangedTypes, Nested, DataKept,
                RunningIsReal
<1>3. CASE /\ frames' = fs
           /\ RunCommand
           /\ UNCHANGED data
    BY <1>3, RunCommandProperties
    DEF TypeOK, ChangedTypes, Nested, DataKept, RunningIsReal
<1> QED
    BY <1>1, <1>2, <1>3 DEF Perform

LEMMA PostChildExitProperties ==
    ASSUME IInv, data = "live", NEW r \in BOOLEAN,
           NEW t \in {"none", "pending", "gone"}, NEW n \in Nat,
           r => child' \/ spawns > 0 \/ failures > 0 \/ "failed" \in ToSet(frames),
           PostChildExit(r, t, n)
    PROVE  /\ ChangedTypes' /\ Nested(frames)' /\ DataKept' /\ RunningIsReal'
           /\ tag' \in {"none", "pending", "gone"} /\ orphans' \in Nat
<1>1. CASE /\ frames' = Append(frames, "ask")
           /\ tag' = t /\ orphans' = n /\ due' = TRUE
           /\ RunsNothing(r)
           /\ UNCHANGED data
    <2>1. /\ frames' \in Seq(Dialog) /\ Nested(frames')
          /\ ToSet(frames') = ToSet(frames) \cup {"ask"}
        BY <1>1, Pushed DEF IInv, TypeOK, Dialog
    <2> QED
        BY <1>1, <2>1
        DEF IInv, TypeOK, RunsNothing, ChangedTypes, Nested, DataKept,
            RunningIsReal
<1>2. CASE SetTag("none", t, n) /\ Perform(profile.action, r, frames)
    BY <1>2, SetTagProperties, PerformProperties DEF IInv, TypeOK
<1> QED
    BY <1>1, <1>2 DEF PostChildExit

-----------------------------------------------------------------------------
(* One lemma for each action.                                              *)

\* The rest of TypeOK.
OtherTypes ==
    /\ firstRun \in BOOLEAN /\ child \in BOOLEAN /\ fault \in BOOLEAN
    /\ tag \in {"none", "pending", "gone"} /\ orphans \in Nat
    /\ profile \in Profile /\ noRespawn \in BOOLEAN

LEMMA Assembled ==
    ASSUME ChangedTypes', OtherTypes', Nested(frames)', DataKept', RunningIsReal'
    PROVE  IInv'
BY DEF ChangedTypes, OtherTypes, IInv, TypeOK

LEMMA FaultPreserves == ASSUME IInv, Fault PROVE IInv'
<1>1. fault' \in BOOLEAN
    BY DEF Fault
<1> QED
    BY <1>1 DEF Fault, command, timers, config, IInv, TypeOK, Nested, DataKept,
            RunningIsReal

LEMMA ChildExitsPreserves == ASSUME IInv, ChildExits PROVE IInv'
<1>1. TypeOK /\ data = "live" /\ child' = FALSE
    BY DEF IInv, ChildExits, Exits
<1>2. UNCHANGED <<firstRun, profile, noRespawn, fault>>
    BY DEF ChildExits, config
<1>3. CASE /\ SetTag("pending", tag, orphans)
           /\ due' = TRUE
           /\ RunsNothing(FALSE)
           /\ UNCHANGED <<data, frames>>
    <2>1. tag' \in {"none", "pending", "gone"} /\ orphans' \in Nat
        BY <1>1, <1>3, SetTagProperties DEF TypeOK
    <2>2. ChangedTypes' /\ Nested(frames)' /\ DataKept' /\ RunningIsReal'
        BY <1>3 DEF IInv, TypeOK, RunsNothing, ChangedTypes, Nested, DataKept,
                    RunningIsReal
    <2>3. OtherTypes'
        BY <1>1, <1>2, <2>1 DEF TypeOK, OtherTypes
    <2> QED
        BY <2>2, <2>3, Assembled
<1>4. CASE PostChildExit(FALSE, tag, orphans)
    <2>1. /\ ChangedTypes' /\ Nested(frames)' /\ DataKept' /\ RunningIsReal'
          /\ tag' \in {"none", "pending", "gone"} /\ orphans' \in Nat
        BY <1>1, <1>4, PostChildExitProperties DEF TypeOK
    <2>2. OtherTypes'
        BY <1>1, <1>2, <2>1 DEF TypeOK, OtherTypes
    <2> QED
        BY <2>1, <2>2, Assembled
<1> QED
    BY <1>3, <1>4 DEF ChildExits

LEMMA TimerFiresPreserves == ASSUME IInv, TimerFires PROVE IInv'
<1>1. CASE Fault
    BY <1>1, FaultPreserves
<1>2. CASE /\ data = "live"
           /\ \/ PostChildExit(running, "gone", orphans)
              \/ orphans > 0 /\ PostChildExit(running, tag, orphans - 1)
           /\ UNCHANGED <<firstRun, child, config, fault>>
    <2>1. TypeOK /\ (running => child' \/ spawns > 0 \/ failures > 0
                                  \/ "failed" \in ToSet(frames))
        BY <1>2 DEF IInv, RunningIsReal
    <2>2. orphans > 0 => orphans - 1 \in Nat
        BY <2>1 DEF TypeOK
    <2>3. /\ ChangedTypes' /\ Nested(frames)' /\ DataKept' /\ RunningIsReal'
          /\ tag' \in {"none", "pending", "gone"} /\ orphans' \in Nat
        <3>1. CASE PostChildExit(running, "gone", orphans)
            BY <1>2, <2>1, <3>1, PostChildExitProperties DEF TypeOK
        <3>2. CASE orphans > 0 /\ PostChildExit(running, tag, orphans - 1)
            BY <1>2, <2>1, <2>2, <3>2, PostChildExitProperties DEF TypeOK
        <3> QED
            BY <1>2, <3>1, <3>2
    <2>4. OtherTypes'
        BY <1>2, <2>1, <2>3 DEF TypeOK, OtherTypes, config
    <2> QED
        BY <2>3, <2>4, Assembled
<1> QED
    BY <1>1, <1>2 DEF TimerFires

LEMMA AnswerAskPreserves == ASSUME IInv, AnswerAsk PROVE IInv'
<1> DEFINE fs == Front(frames)
<1>1. /\ TypeOK
      /\ fs \in Seq(Dialog) /\ Nested(fs)
      /\ ToSet(frames) = ToSet(fs) \cup {"ask"}
    BY Popped DEF IInv, TypeOK, AnswerAsk
<1> HIDE DEF fs
<1>2. CASE Fault
    BY <1>2, FaultPreserves
<1>3. CASE /\ data = "postponed"
           /\ SetTag("none", tag, orphans)
           /\ frames' = fs
           /\ UNCHANGED <<data, command, due,
                          firstRun, child, config, fault>>
    <2>1. tag' \in {"none", "pending", "gone"} /\ orphans' \in Nat
        BY <1>1, <1>3, SetTagProperties DEF TypeOK
    <2>2. ChangedTypes' /\ OtherTypes'
        BY <1>1, <1>3, <2>1 DEF TypeOK, ChangedTypes, OtherTypes, command, config
    <2>3. Nested(frames)' /\ DataKept' /\ RunningIsReal'
        BY <1>1, <1>3 DEF IInv, Nested, DataKept, RunningIsReal
    <2> QED
        BY <2>2, <2>3, Assembled
<1>4. CASE /\ data = "live"
           /\ SetTag("none", tag, orphans)
           /\ \E answer \in {"Close", "Hold", "Respawn", "dismissed"} :
                 Perform(answer, running, fs)
           /\ UNCHANGED <<firstRun, child, config, fault>>
    <2>1. tag' \in {"none", "pending", "gone"} /\ orphans' \in Nat
        BY <1>1, <1>4, SetTagProperties DEF TypeOK
    <2>2. /\ running \in BOOLEAN
          /\ running => child' \/ spawns > 0 \/ failures > 0
                               \/ "failed" \in ToSet(fs)
        BY <1>1, <1>4 DEF IInv, TypeOK, RunningIsReal
    <2>3. ChangedTypes' /\ Nested(frames)' /\ DataKept' /\ RunningIsReal'
        BY <1>1, <1>4, <2>2, PerformProperties
    <2>4. OtherTypes'
        BY <1>1, <1>4, <2>1 DEF TypeOK, OtherTypes, config
    <2> QED
        BY <2>3, <2>4, Assembled
<1> QED
    BY <1>2, <1>3, <1>4 DEF AnswerAsk, fs

LEMMA RunFirstPreserves == ASSUME IInv, RunFirst PROVE IInv'
<1>1. CASE Fault
    BY <1>1, FaultPreserves
<1>2. CASE /\ UNCHANGED <<command, due>> \/ RunCommand
           /\ firstRun' = FALSE
           /\ UNCHANGED <<data, child, timers, frames, config, fault>>
    <2>1. OtherTypes'
        BY <1>2 DEF IInv, TypeOK, OtherTypes, timers, config
    <2>2. CASE UNCHANGED <<command, due>>
        <3>1. ChangedTypes' /\ Nested(frames)' /\ DataKept' /\ RunningIsReal'
            BY <1>2, <2>2 DEF IInv, TypeOK, ChangedTypes, Nested, DataKept,
                              RunningIsReal, command
        <3> QED
            BY <2>1, <3>1, Assembled
    <2>3. CASE RunCommand
        <3>1. ChangedTypes' /\ Nested(frames)' /\ DataKept' /\ RunningIsReal'
            BY <1>2, <2>3, RunCommandProperties
            DEF IInv, TypeOK, ChangedTypes, Nested, DataKept, RunningIsReal
        <3> QED
            BY <2>1, <3>1, Assembled
    <2> QED
        BY <1>2, <2>2, <2>3
<1> QED
    BY <1>1, <1>2 DEF RunFirst

LEMMA SpawnAnsweredPreserves == ASSUME IInv, SpawnAnswered PROVE IInv'
<1>1. CASE Fault
    BY <1>1, FaultPreserves
<1>2. CASE data # "freed" /\ ~Fault
    <2>1. PICK started \in BOOLEAN :
               /\ child' = (started /\ data = "live")
               /\ failures' = IF started THEN failures ELSE failures + 1
        BY <1>2 DEF SpawnAnswered
    <2>2. /\ spawns' = spawns - 1 /\ spawns > 0
          /\ UNCHANGED <<data, firstRun, running, parsed, runs, timers, frames,
                         config, due, fault>>
        BY <1>2 DEF SpawnAnswered
    <2>3. /\ child' \in BOOLEAN
          /\ data = "live" => child' \/ ~started
        BY <2>1, Zenon
    <2>4. TypeOK /\ spawns \in Nat /\ failures \in Nat
        BY DEF IInv, TypeOK
    <2>5. /\ spawns' \in Nat /\ failures' \in Nat
          /\ ~started => failures' > 0
        BY <2>1, <2>2, <2>4
    <2>6. ChangedTypes' /\ OtherTypes'
        BY <2>2, <2>3, <2>4, <2>5
        DEF TypeOK, ChangedTypes, OtherTypes, timers, config
    <2>7. Nested(frames)' /\ DataKept'
        BY <2>2 DEF IInv, Nested, DataKept
    <2>8. RunningIsReal'
        BY <2>2, <2>3, <2>5 DEF RunningIsReal
    <2> QED
        BY <2>6, <2>7, <2>8, Assembled
<1> QED
    BY <1>1, <1>2 DEF SpawnAnswered

LEMMA CommandFailedPreserves == ASSUME IInv, CommandFailed PROVE IInv'
<1>1. CASE Fault
    BY <1>1, FaultPreserves
<1>2. CASE data = "live"
    <2>1. /\ failures > 0 /\ failures' = failures - 1
          /\ frames' = Append(frames, "failed")
          /\ UNCHANGED <<data, firstRun, running, parsed, spawns, child, runs,
                         timers, config, due, fault>>
        BY <1>2, <1>1 DEF CommandFailed
    <2>2. /\ frames' \in Seq(Dialog) /\ Nested(frames')
          /\ ToSet(frames') = ToSet(frames) \cup {"failed"}
        BY <2>1, Pushed DEF IInv, TypeOK, Dialog
    <2>3. failures' \in Nat
        BY <2>1 DEF IInv, TypeOK
    <2>4. ChangedTypes' /\ OtherTypes'
        BY <2>1, <2>2, <2>3
        DEF IInv, TypeOK, ChangedTypes, OtherTypes, timers, config
    <2>5. Nested(frames)' /\ DataKept' /\ RunningIsReal'
        BY <1>2, <2>1, <2>2 DEF IInv, Nested, DataKept, RunningIsReal
    <2> QED
        BY <2>4, <2>5, Assembled
<1> QED
    BY <1>1, <1>2 DEF CommandFailed

LEMMA AnswerFailedPreserves == ASSUME IInv, AnswerFailed PROVE IInv'
<1>1. CASE Fault
    BY <1>1, FaultPreserves
<1>2. CASE /\ RemoveTimer("none")
           /\ Delete(Front(frames))
           /\ UNCHANGED <<command, firstRun, child, config, fault>>
    <2>1. Front(frames) \in Seq(Dialog) /\ Nested(Front(frames))
        BY Popped DEF IInv, TypeOK, AnswerFailed
    <2>2. /\ data' \in {"postponed", "freed"}
          /\ frames' \in Seq(Dialog) /\ due' \in BOOLEAN
          /\ Nested(frames)' /\ DataKept' /\ RunningIsReal'
        BY <1>2, <2>1, DeleteProperties
    <2>3. ChangedTypes' /\ OtherTypes'
        BY <1>2, <2>2 DEF IInv, TypeOK, ChangedTypes, OtherTypes, RemoveTimer,
                          command, config
    <2> QED
        BY <2>2, <2>3, Assembled
<1> QED
    BY <1>1, <1>2 DEF AnswerFailed

LEMMA RestartPreserves == ASSUME IInv, Restart PROVE IInv'
<1>1. /\ TypeOK /\ data = "live" /\ frames = <<>>
      /\ RemoveTimer(IF tag = "none" THEN "none" ELSE "gone")
      /\ UNCHANGED <<data, firstRun, child, config, fault>>
    BY DEF IInv, Restart, UserCanAct
<1>2. OtherTypes'
    BY <1>1 DEF TypeOK, OtherTypes, RemoveTimer, config
<1>3. CASE frames' = Append(frames, "restart") /\ UNCHANGED <<command, due>>
    <2>1. /\ frames' \in Seq(Dialog) /\ Nested(frames')
          /\ ToSet(frames') = ToSet(frames) \cup {"restart"}
        BY <1>1, <1>3, Pushed DEF IInv, TypeOK, Dialog
    <2>2. ChangedTypes' /\ Nested(frames)' /\ DataKept' /\ RunningIsReal'
        BY <1>1, <1>3, <2>1 DEF IInv, TypeOK, ChangedTypes, Nested, DataKept,
                                RunningIsReal, command
    <2> QED
        BY <1>2, <2>2, Assembled
<1>4. CASE RunCommand /\ UNCHANGED frames
    <2>1. ChangedTypes' /\ Nested(frames)' /\ DataKept' /\ RunningIsReal'
        BY <1>1, <1>4, RunCommandProperties
        DEF IInv, TypeOK, ChangedTypes, Nested, DataKept, RunningIsReal
    <2> QED
        BY <1>2, <2>1, Assembled
<1> QED
    BY <1>3, <1>4 DEF Restart

LEMMA AnswerRestartPreserves == ASSUME IInv, AnswerRestart PROVE IInv'
<1>1. /\ TypeOK /\ Last(frames) = "restart" /\ frames' = Front(frames)
      /\ UNCHANGED <<firstRun, child, timers, config, fault>>
    BY DEF IInv, AnswerRestart
<1>2. /\ frames' \in Seq(Dialog) /\ Nested(frames')
      /\ ToSet(frames) = ToSet(frames') \cup {"restart"}
      /\ "restart" \notin ToSet(frames')
    BY <1>1, Popped DEF IInv, TypeOK, AnswerRestart
<1>3. OtherTypes'
    BY <1>1 DEF TypeOK, OtherTypes, timers, config
<1>4. CASE data = "live" /\ RunCommand /\ UNCHANGED data
    <2>1. ChangedTypes' /\ Nested(frames)' /\ DataKept' /\ RunningIsReal'
        BY <1>1, <1>2, <1>4, RunCommandProperties
        DEF TypeOK, ChangedTypes, Nested, DataKept, RunningIsReal
    <2> QED
        BY <1>3, <2>1, Assembled
<1>5. CASE data = "live" /\ UNCHANGED <<command, due, data>>
    <2>1. ChangedTypes' /\ Nested(frames)' /\ DataKept' /\ RunningIsReal'
        BY <1>1, <1>2, <1>5
        DEF IInv, TypeOK, ChangedTypes, Nested, DataKept, RunningIsReal, command
    <2> QED
        BY <1>3, <2>1, Assembled
<1>6. CASE data' = "freed" /\ UNCHANGED <<command, due>>
    <2>1. ChangedTypes' /\ Nested(frames)' /\ DataKept' /\ RunningIsReal'
        BY <1>1, <1>2, <1>6
        DEF TypeOK, ChangedTypes, Nested, DataKept, RunningIsReal, command
    <2> QED
        BY <1>3, <2>1, Assembled
<1> QED
    BY <1>4, <1>5, <1>6 DEF AnswerRestart

LEMMA CloseTabPreserves == ASSUME IInv, CloseTab PROVE IInv'
<1>1. /\ RemoveTimer("none") /\ Delete(frames)
      /\ UNCHANGED <<command, firstRun, child, config, fault>>
    BY DEF CloseTab
<1>2. /\ data' \in {"postponed", "freed"}
      /\ frames' \in Seq(Dialog) /\ due' \in BOOLEAN
      /\ Nested(frames)' /\ DataKept' /\ RunningIsReal'
    BY <1>1, DeleteProperties DEF IInv, TypeOK
<1>3. ChangedTypes' /\ OtherTypes'
    BY <1>1, <1>2 DEF IInv, TypeOK, ChangedTypes, OtherTypes, RemoveTimer,
                      command, config
<1> QED
    BY <1>2, <1>3, Assembled

\* The steps that change the settings only.
LEMMA SettingsPreserve ==
    ASSUME IInv, Configure \/ SpawnElsewhere \/ UNCHANGED vars
    PROVE  IInv'
<1>1. /\ profile' \in Profile /\ noRespawn' \in BOOLEAN
      /\ UNCHANGED <<data, firstRun, child, command, timers, frames, due, fault>>
    BY DEF IInv, TypeOK, Configure, SpawnElsewhere, vars, command, timers
<1>2. ChangedTypes' /\ OtherTypes'
    BY <1>1 DEF IInv, TypeOK, ChangedTypes, OtherTypes, command, timers
<1>3. Nested(frames)' /\ DataKept' /\ RunningIsReal'
    BY <1>1 DEF IInv, Nested, DataKept, RunningIsReal, command
<1> QED
    BY <1>2, <1>3, Assembled

-----------------------------------------------------------------------------
(* The invariant and what follows from it.                                 *)

LEMMA InitIInv == Init => IInv
<1> SUFFICES ASSUME Init PROVE IInv
    OBVIOUS
<1>1. TypeOK
    <2>1. frames \in Seq(Dialog)
        BY EmptySeq DEF Init
    <2> QED
        BY <2>1 DEF Init, TypeOK
<1>2. Nested(frames) /\ DataKept /\ RunningIsReal
    BY NoDialogs DEF Init, DataKept, RunningIsReal
<1> QED
    BY <1>1, <1>2 DEF IInv

LEMMA StepIInv == IInv /\ [Next]_vars => IInv'
<1> SUFFICES ASSUME IInv, [Next]_vars PROVE IInv'
    OBVIOUS
<1>1. CASE ChildExits \/ TimerFires \/ AnswerAsk
    BY <1>1, ChildExitsPreserves, TimerFiresPreserves, AnswerAskPreserves
<1>2. CASE RunFirst \/ SpawnAnswered \/ CommandFailed \/ AnswerFailed
    BY <1>2, RunFirstPreserves, SpawnAnsweredPreserves,
       CommandFailedPreserves, AnswerFailedPreserves
<1>3. CASE Restart \/ AnswerRestart \/ CloseTab
    BY <1>3, RestartPreserves, AnswerRestartPreserves, CloseTabPreserves
<1>4. CASE Configure \/ SpawnElsewhere \/ UNCHANGED vars
    BY <1>4, SettingsPreserve
<1> QED
    BY <1>1, <1>2, <1>3, <1>4 DEF Next

LEMMA SpecIInv == Spec => []IInv
BY InitIInv, StepIInv, PTL DEF Spec

\* Every variable keeps its type, however often commands are started and
\* however many dialogs are nested.
THEOREM TypeCorrect == Spec => []TypeOK
<1>1. IInv => TypeOK
    BY DEF IInv
<1> QED
    BY SpecIInv, <1>1, PTL

\* A terminal that counts as running (roxterm->running) has a command whose
\* end or failure will still be noticed.
THEOREM RunningCorrect == Spec => []RunningIsReal
<1>1. IInv => RunningIsReal
    BY DEF IInv
<1> QED
    BY SpecIInv, <1>1, PTL

\* roxterm_respawn_action finds its structure again when the dialog returns,
\* and a structure that outlives its tab has one dialog left to free it.
THEOREM RestartCorrect == Spec => []RestartKeepsData
<1>1. IInv => RestartKeepsData
    BY DEF IInv, DataKept, Nested, RestartKeepsData
<1> QED
    BY SpecIInv, <1>1, PTL
-----------------------------------------------------------------------------
(* What an exit that has not been acted upon waits for.                    *)

\* An exit that has not been acted upon has a timer or a question that will:
\* Restart, which removes the timer before its own question, never takes the
\* last one away from an exit whose command is not started again.
ExitsAwaited == due => \/ tag = "pending" \/ orphans > 0
                       \/ "ask" \in ToSet(frames)

\* The timer that post_exit_tag refers to never outlives the tab, on any of
\* the ways a tab is deleted: the timers that find freed data are those that
\* the tag has forgotten.
TimerNeedsTab == tag = "pending" => data = "live"

\* An exit of a terminal that counts as running again was of an earlier
\* command, and only a question can have kept it waiting: this is why Restart,
\* which asks about a running command only, takes the timer of none.
Awaited == /\ ExitsAwaited /\ TimerNeedsTab
           /\ due => data = "live"
           /\ due /\ running => "ask" \in ToSet(frames)

\* The steps after which no exit waits, and that start no timer.
LEMMA NothingAwaited ==
    ASSUME due' = FALSE, tag' # "pending" \/ data' = "live"
    PROVE  Awaited'
BY DEF Awaited, ExitsAwaited, TimerNeedsTab

\* The steps that leave alone what Awaited is about, dialogs of another kind
\* excepted.
LEMMA StillAwaited ==
    ASSUME Awaited, UNCHANGED <<data, running, timers, due>>,
           "ask" \in ToSet(frames) => "ask" \in ToSet(frames')
    PROVE  Awaited'
BY DEF Awaited, ExitsAwaited, TimerNeedsTab, timers

LEMMA PerformAwaits ==
    ASSUME NEW action, NEW r, NEW fs, Perform(action, r, fs)
    PROVE  due' = FALSE
BY Zenon DEF Perform, Delete, RunCommand

LEMMA PostChildExitAwaits ==
    ASSUME IInv, data = "live", NEW r, NEW t, NEW n, PostChildExit(r, t, n)
    PROVE  Awaited'
<1>1. CASE /\ frames' = Append(frames, "ask")
           /\ UNCHANGED data
    <2>1. "ask" \in ToSet(frames')
        BY <1>1, Pushed DEF IInv, TypeOK, Dialog
    <2> QED
        BY <1>1, <2>1 DEF Awaited, ExitsAwaited, TimerNeedsTab
<1>2. CASE SetTag("none", t, n) /\ Perform(profile.action, r, frames)
    BY <1>2, PerformAwaits, NothingAwaited DEF SetTag
<1> QED
    BY <1>1, <1>2 DEF PostChildExit

LEMMA ChildExitsAwaits == ASSUME IInv, ChildExits PROVE Awaited'
<1>1. data = "live"
    BY DEF ChildExits, Exits
<1>2. CASE /\ SetTag("pending", tag, orphans)
           /\ RunsNothing(FALSE)
           /\ UNCHANGED data
    BY <1>1, <1>2
    DEF SetTag, RunsNothing, Awaited, ExitsAwaited, TimerNeedsTab
<1>3. CASE PostChildExit(FALSE, tag, orphans)
    BY <1>1, <1>3, PostChildExitAwaits
<1> QED
    BY <1>2, <1>3 DEF ChildExits

LEMMA FaultAwaits == ASSUME Awaited, Fault PROVE Awaited'
BY StillAwaited DEF Fault, command

LEMMA TimerFiresAwaits == ASSUME IInv, Awaited, TimerFires PROVE Awaited'
<1>1. CASE Fault
    BY <1>1, FaultAwaits
<1>2. CASE /\ data = "live"
           /\ \/ PostChildExit(running, "gone", orphans)
              \/ PostChildExit(running, tag, orphans - 1)
    BY <1>2, PostChildExitAwaits
<1> QED
    BY <1>1, <1>2 DEF TimerFires

\* An answer settles every exit that waits, in this question or in another;
\* with the tab deleted, none waits.
LEMMA AnswerAskAwaits == ASSUME IInv, Awaited, AnswerAsk PROVE Awaited'
<1>1. CASE Fault
    BY <1>1, FaultAwaits
<1>2. CASE data = "postponed" /\ SetTag("none", tag, orphans) /\ due' = due
    <2>1. ~due /\ due \in BOOLEAN
        BY <1>2 DEF IInv, TypeOK, Awaited
    <2> QED
        BY <1>2, <2>1, NothingAwaited DEF SetTag
<1>3. CASE /\ SetTag("none", tag, orphans)
           /\ \E answer \in {"Close", "Hold", "Respawn", "dismissed"} :
                 Perform(answer, running, Front(frames))
    BY <1>3, PerformAwaits, NothingAwaited DEF SetTag
<1> QED
    BY <1>1, <1>2, <1>3 DEF AnswerAsk

LEMMA RunFirstAwaits == ASSUME Awaited, RunFirst PROVE Awaited'
<1>1. CASE Fault
    BY <1>1, FaultAwaits
<1>2. CASE UNCHANGED <<command, due, data, timers, frames>>
    BY <1>2, StillAwaited DEF command
<1>3. CASE data = "live" /\ RunCommand /\ UNCHANGED data
    BY <1>3, NothingAwaited DEF RunCommand
<1> QED
    BY <1>1, <1>2, <1>3 DEF RunFirst

LEMMA SpawnAnsweredAwaits == ASSUME Awaited, SpawnAnswered PROVE Awaited'
<1>1. CASE Fault
    BY <1>1, FaultAwaits
<1>2. CASE UNCHANGED <<data, running, timers, frames, due>>
    BY <1>2, StillAwaited
<1> QED
    BY <1>1, <1>2 DEF SpawnAnswered

LEMMA CommandFailedAwaits ==
    ASSUME IInv, Awaited, CommandFailed
    PROVE  Awaited'
<1>1. CASE Fault
    BY <1>1, FaultAwaits
<1>2. CASE /\ frames' = Append(frames, "failed")
           /\ UNCHANGED <<data, running, timers, due>>
    <2>1. ToSet(frames') = ToSet(frames) \cup {"failed"}
        BY <1>2, Pushed DEF IInv, TypeOK, Dialog
    <2> QED
        BY <1>2, <2>1, StillAwaited
<1> QED
    BY <1>1, <1>2 DEF CommandFailed

LEMMA AnswerFailedAwaits == ASSUME Awaited, AnswerFailed PROVE Awaited'
<1>1. CASE Fault
    BY <1>1, FaultAwaits
<1>2. CASE RemoveTimer("none") /\ Delete(Front(frames))
    BY <1>2, NothingAwaited DEF RemoveTimer, Delete
<1> QED
    BY <1>1, <1>2 DEF AnswerFailed

\* Restart removes the timer before it asks, and asks only about a command
\* that runs: no dialog is open yet, so that no exit waits.
LEMMA RestartAwaits == ASSUME IInv, Awaited, Restart PROVE Awaited'
<1>1. /\ data = "live" /\ data' = data /\ frames = <<>>
      /\ RemoveTimer(IF tag = "none" THEN "none" ELSE "gone")
    BY DEF Restart, UserCanAct
<1>2. CASE running /\ due' = due
    <2>1. ~due /\ due \in BOOLEAN
        BY <1>1, <1>2, NoDialogs DEF IInv, TypeOK, Awaited
    <2> QED
        BY <1>1, <1>2, <2>1, NothingAwaited
<1>3. CASE RunCommand
    BY <1>1, <1>3, NothingAwaited DEF RunCommand
<1> QED
    BY <1>2, <1>3 DEF Restart

LEMMA AnswerRestartAwaits ==
    ASSUME IInv, Awaited, AnswerRestart
    PROVE  Awaited'
<1>1. /\ Last(frames) = "restart" /\ frames' = Front(frames)
      /\ UNCHANGED timers
    BY DEF AnswerRestart
<1>2. ToSet(frames) = ToSet(frames') \cup {"restart"}
    BY <1>1, Popped DEF IInv, TypeOK, AnswerRestart
<1>3. CASE data = "live" /\ RunCommand /\ UNCHANGED data
    BY <1>3, NothingAwaited DEF RunCommand
<1>4. CASE UNCHANGED <<command, due, data>>
    BY <1>1, <1>2, <1>4, StillAwaited DEF command
<1>5. CASE data # "live" /\ due' = due
    BY <1>1, <1>5, NothingAwaited
    DEF IInv, TypeOK, Awaited, TimerNeedsTab, timers
<1> QED
    BY <1>3, <1>4, <1>5 DEF AnswerRestart

LEMMA CloseTabAwaits == ASSUME CloseTab PROVE Awaited'
BY NothingAwaited DEF CloseTab, RemoveTimer, Delete

LEMMA SettingsAwait ==
    ASSUME Awaited, Configure \/ SpawnElsewhere \/ UNCHANGED vars
    PROVE  Awaited'
<1>1. UNCHANGED <<data, running, timers, frames, due>>
    BY Zenon DEF Configure, SpawnElsewhere, vars, command, timers
<1> QED
    BY <1>1, StillAwaited

LEMMA StepAwaited == IInv /\ Awaited /\ [Next]_vars => Awaited'
<1> SUFFICES ASSUME IInv, Awaited, [Next]_vars PROVE Awaited'
    OBVIOUS
<1>1. CASE ChildExits \/ TimerFires \/ AnswerAsk
    BY <1>1, ChildExitsAwaits, TimerFiresAwaits, AnswerAskAwaits
<1>2. CASE RunFirst \/ SpawnAnswered \/ CommandFailed \/ AnswerFailed
    BY <1>2, RunFirstAwaits, SpawnAnsweredAwaits, CommandFailedAwaits,
       AnswerFailedAwaits
<1>3. CASE Restart \/ AnswerRestart \/ CloseTab
    BY <1>3, RestartAwaits, AnswerRestartAwaits, CloseTabAwaits
<1>4. CASE Configure \/ SpawnElsewhere \/ UNCHANGED vars
    BY <1>4, SettingsAwait
<1> QED
    BY <1>1, <1>2, <1>3, <1>4 DEF Next

LEMMA SpecAwaited == Spec => []Awaited
<1>1. Init => Awaited
    BY DEF Init, Awaited, ExitsAwaited, TimerNeedsTab
<1> QED
    BY <1>1, StepAwaited, SpecIInv, PTL DEF Spec

\* Whatever the order of exits, timers, restarts and answers, an exit that is
\* still to be acted upon has a timer (post_exit_tag or a forgotten one) or an
\* open question that will do so.
THEOREM AwaitedCorrect == Spec => []ExitsAwaited
<1>1. Awaited => ExitsAwaited
    BY DEF Awaited
<1> QED
    BY SpecAwaited, <1>1, PTL

\* However a tab is deleted, its post_exit_tag names no timer that is due:
\* only timers the tag has forgotten can fire afterwards.
THEOREM TimerCorrect == Spec => []TimerNeedsTab
<1>1. Awaited => TimerNeedsTab
    BY DEF Awaited
<1> QED
    BY SpecAwaited, <1>1, PTL
=============================================================================
