------------------------ MODULE ProfileOptions_proofs ------------------------
(***************************************************************************)
(* Proofs about ProfileOptions: types, the reference counts of dynopts.c,  *)
(* what terminals show, that no copy or new name overwrites a profile, and *)
(* that signals lead shared options and menus to what the files say.       *)
(***************************************************************************)
EXTENDS ProfileOptions, FiniteSetTheorems, NaturalsInduction,
        WellFoundedInduction, TLAPS

USE DEF Value

\* What one handler of the tool leaves to be saved and sent.
LEMMA SignalTypes ==
    /\ \A n \in Names, v \in Value : Option(n, v) \in Signal
    /\ \A n \in Names : Deleted(n) \in Signal /\ Added(n) \in Signal
    /\ \A n, m \in Names : Renamed(n, m) \in Signal
BY BoundsAssumption DEF Option, Deleted, Added, Renamed, Signal

LEMMA StepsType ==
    ASSUME NEW s \in Signal
    PROVE  /\ <<[do |-> "send", what |-> s]>> \in Seq(Step)
           /\ <<[do |-> "save", what |-> s], [do |-> "send", what |-> s]>> \in Seq(Step)
BY DEF Step

LEMMA TailType ==
    ASSUME NEW S, NEW q \in Seq(S), q # <<>>
    PROVE  Tail(q) \in Seq(S) /\ Head(q) \in S
OBVIOUS

LEMMA ContentType == ASSUME ToolTypeOK, NEW n \in Names PROVE Content(n) \in Value
BY BoundsAssumption DEF ToolTypeOK, Content, None

-----------------------------------------------------------------------------
(* Types.                                                                  *)

LEMMA SaveTypes == ToolTypeOK /\ Save => ToolTypeOK'
<1> SUFFICES ASSUME ToolTypeOK, Save PROVE ToolTypeOK'
    OBVIOUS
<1>1. Head(todo) \in Step /\ todo' \in Seq(Step)
    BY TailType DEF ToolTypeOK, Save
<1>2. Head(todo).what.name \in Names /\ Head(todo).what.value \in Value
    BY <1>1 DEF Step, Signal
<1> QED
    BY <1>1, <1>2 DEF ToolTypeOK, Save, manager

LEMMA SendTypes == ToolTypeOK /\ Send => ToolTypeOK'
<1> SUFFICES ASSUME ToolTypeOK, Send PROVE ToolTypeOK'
    OBVIOUS
<1>1. Head(todo) \in Step /\ todo' \in Seq(Step)
    BY TailType DEF ToolTypeOK, Send
<1>2. bus' \in Seq(Signal)
    BY <1>1 DEF Step, Send, ToolTypeOK
<1> QED
    BY <1>1, <1>2 DEF ToolTypeOK, Send, manager, history

\* The windows are opened and closed, dialogs asked and cancelled.
LEMMA WindowTypes ==
    ASSUME ToolTypeOK, NEW n \in Names,
           \/ OpenManager \/ CloseManager \/ CancelName
           \/ OpenEditor(n) \/ CopyClicked(n) \/ RenameClicked(n)
    PROVE  ToolTypeOK'
<1>0. Listed(files) \subseteq Names
    BY NamesAssumption DEF Listed
<1>1. CASE OpenManager
    BY <1>0, <1>1 DEF ToolTypeOK, OpenManager, history
<1>2. CASE CloseManager
    BY <1>2 DEF ToolTypeOK, CloseManager, history
<1>3. CASE CancelName
    BY <1>3 DEF ToolTypeOK, CancelName, history, NoDialog
<1>4. CASE OpenEditor(n)
    BY <1>4, ContentType DEF ToolTypeOK, OpenEditor, history, manager
<1>5. CASE CopyClicked(n)
    BY <1>0, <1>5 DEF ToolTypeOK, CopyClicked, AskName, history
<1>6. CASE RenameClicked(n)
    BY <1>0, <1>6 DEF ToolTypeOK, RenameClicked, AskName, history
<1> QED
    BY <1>1, <1>2, <1>3, <1>4, <1>5, <1>6

LEMMA ChangeTypes ==
    ASSUME ToolTypeOK, NEW ns \in SUBSET Names, Change(ns)
    PROVE  /\ changes' \in 0..MaxChanges
           /\ replaced' \subseteq Names /\ unlisted' \subseteq Names
BY BoundsAssumption DEF ToolTypeOK, Change

LEMMA EditTypes ==
    ASSUME ToolTypeOK, NEW n \in Names, NEW v \in Value,
           EditOption(n, v) \/ CloseEditor(n)
    PROVE  ToolTypeOK'
<1>1. CASE EditOption(n, v)
    <2>1. todo' \in Seq(Step)
        BY <1>1, SignalTypes, StepsType DEF EditOption, SetOption
    <2>2. /\ changes' \in 0..MaxChanges
          /\ replaced' \subseteq Names /\ unlisted' \subseteq Names
        BY <1>1, ChangeTypes DEF EditOption
    <2> QED
        BY <1>1, <2>1, <2>2 DEF ToolTypeOK, EditOption, manager
<1>2. CASE CloseEditor(n)
    <2>1. /\ todo' \in Seq(Step)
          /\ changes' \in 0..MaxChanges
          /\ replaced' \subseteq Names /\ unlisted' \subseteq Names
        <3>1. CASE UNCHANGED <<todo, history>>
            BY <3>1 DEF ToolTypeOK, history
        <3>2. ASSUME NEW u \in Value, SetOption(n, u), Change({})
              PROVE  /\ todo' \in Seq(Step)
                     /\ changes' \in 0..MaxChanges
                     /\ replaced' \subseteq Names /\ unlisted' \subseteq Names
            BY <3>2, SignalTypes, StepsType, ChangeTypes DEF SetOption
        <3> QED
            BY <1>2, <3>1, <3>2 DEF CloseEditor
    <2> QED
        BY <1>2, <2>1 DEF ToolTypeOK, CloseEditor, manager
<1> QED
    BY <1>1, <1>2

LEMMA ListTypes ==
    ASSUME ToolTypeOK, NEW n \in Names,
           ToggleRadio(n) \/ Copy(n) \/ Rename(n) \/ DeleteClicked(n)
    PROVE  ToolTypeOK'
<1>1. CASE ToggleRadio(n)
    <2>1. /\ changes' \in 0..MaxChanges
          /\ replaced' \subseteq Names /\ unlisted' \subseteq Names
        BY <1>1, ChangeTypes DEF ToggleRadio
    <2> QED
        BY <1>1, <2>1 DEF ToolTypeOK, ToggleRadio
<1>2. CASE Copy(n)
    <2>1. dialog.old \in Names
        BY <1>2 DEF ToolTypeOK, Copy, NoDialog
    <2>2. /\ changes' \in 0..MaxChanges
          /\ replaced' \subseteq Names /\ unlisted' \subseteq Names
        BY <1>2, ChangeTypes DEF Copy
    <2>3. todo' \in Seq(Step)
        BY <1>2, SignalTypes, StepsType DEF Copy, Tell
    <2>4. files' \in [Names -> Value \cup {None}]
        BY <1>2, <2>1, ContentType DEF ToolTypeOK, Copy
    <2>5. rows' \subseteq Names /\ radios' \subseteq rows'
        BY <1>2 DEF ToolTypeOK, Copy
    <2> QED
        BY <1>2, <2>2, <2>3, <2>4, <2>5 DEF ToolTypeOK, Copy
<1>3. CASE Rename(n)
    <2>1. dialog.old \in Names
        BY <1>3 DEF ToolTypeOK, Rename, NoDialog
    <2>2. /\ changes' \in 0..MaxChanges
          /\ replaced' \subseteq Names /\ unlisted' \subseteq Names
        BY <1>3, <2>1, ChangeTypes DEF Rename
    <2>3. todo' \in Seq(Step)
        BY <1>3, <2>1, SignalTypes, StepsType DEF Rename, Tell
    <2>4. files' \in [Names -> Value \cup {None}]
        BY <1>3, <2>1 DEF ToolTypeOK, Rename
    <2>5. rows' \subseteq Names /\ radios' \subseteq rows'
        BY <1>3 DEF ToolTypeOK, Rename
    <2> QED
        BY <1>3, <2>2, <2>3, <2>4, <2>5 DEF ToolTypeOK, Rename
<1>4. CASE DeleteClicked(n)
    <2>1. /\ changes' \in 0..MaxChanges
          /\ replaced' \subseteq Names /\ unlisted' \subseteq Names
        BY <1>4, ChangeTypes DEF DeleteClicked
    <2>2. /\ todo' \in Seq(Step)
          /\ rows' \subseteq Names /\ radios' \subseteq rows'
        <3>1. CASE UNCHANGED <<rows, todo>>
            BY <1>4, <3>1 DEF ToolTypeOK, DeleteClicked
        <3>2. CASE rows' = rows \ {n} /\ Tell(Deleted(n))
            <4>1. todo' \in Seq(Step)
                BY <3>2, SignalTypes, StepsType DEF Tell
            <4>2. radios' = radios /\ n \notin radios
                BY <1>4 DEF DeleteClicked
            <4> QED
                BY <3>2, <4>1, <4>2 DEF ToolTypeOK
        <3> QED
            BY <1>4, <3>1, <3>2 DEF DeleteClicked, RemoveName
    <2> QED
        BY <1>4, <2>1, <2>2 DEF ToolTypeOK, DeleteClicked
<1> QED
    BY <1>1, <1>2, <1>3, <1>4

LEMMA ToolTypes == ToolTypeOK /\ ToolNext => ToolTypeOK'
<1> SUFFICES ASSUME ToolTypeOK, ToolNext PROVE ToolTypeOK'
    OBVIOUS
<1>1. Default \in Names
    BY NamesAssumption
<1>2. CASE Save \/ Send
    BY <1>2, SaveTypes, SendTypes
<1>3. CASE OpenManager \/ CloseManager \/ CancelName
    BY <1>1, <1>3, WindowTypes
<1>4. ASSUME NEW n \in Names,
             EditRow(n) \/ CopyClicked(n) \/ RenameClicked(n)
      PROVE  ToolTypeOK'
    BY <1>4, WindowTypes DEF EditRow
<1>5. ASSUME NEW n \in Names, CloseEditor(n) PROVE ToolTypeOK'
    <2>1. 0 \in Value
        BY BoundsAssumption
    <2> QED
        BY <1>5, <2>1, EditTypes
<1>6. ASSUME NEW n \in Names,
             ToggleRadio(n) \/ Copy(n) \/ Rename(n) \/ DeleteClicked(n)
      PROVE  ToolTypeOK'
    BY <1>6, ListTypes
<1>7. ASSUME NEW n \in Names, NEW v \in Value, EditOption(n, v)
      PROVE  ToolTypeOK'
    BY <1>7, EditTypes
<1> QED
    BY <1>2, <1>3, <1>4, <1>5, <1>6, <1>7 DEF ToolNext

-----------------------------------------------------------------------------
(* What the operations of dynopts.c and options.c do to the table.         *)

Table == [Names -> [ref : Nat, value : Value]]

LEMMA LookupEffect ==
    ASSUME ToolTypeOK, NEW opts \in Table, NEW n \in Names
    PROVE  /\ LookupAndRef(opts, n) \in Table
           /\ LookupAndRef(opts, n)[n].ref = opts[n].ref + 1
           /\ opts[n].ref > 0 => LookupAndRef(opts, n)[n].value = opts[n].value
           /\ opts[n].ref = 0 => LookupAndRef(opts, n)[n].value = Content(n)
           /\ \A m \in Names \ {n} : LookupAndRef(opts, n)[m] = opts[m]
<1> DEFINE one == IF opts[n].ref = 0
                  THEN [ref |-> 1, value |-> Content(n)]
                  ELSE [ref |-> opts[n].ref + 1, value |-> opts[n].value]
<1>1. LookupAndRef(opts, n) = [opts EXCEPT ![n] = one]
    BY DEF LookupAndRef
<1>2. opts[n] \in [ref : Nat, value : Value]
    BY DEF Table
<1>3. /\ one \in [ref : Nat, value : Value]
      /\ one.ref = opts[n].ref + 1
      /\ opts[n].ref > 0 => one.value = opts[n].value
      /\ opts[n].ref = 0 => one.value = Content(n)
    BY <1>2, ContentType
<1> HIDE DEF one
<1> QED
    BY <1>1, <1>3 DEF Table

LEMMA RefEffect ==
    ASSUME NEW opts \in Table, NEW n \in Names
    PROVE  /\ Ref(opts, n) \in Table
           /\ Ref(opts, n)[n].ref = opts[n].ref + 1
           /\ Ref(opts, n)[n].value = opts[n].value
           /\ \A m \in Names \ {n} : Ref(opts, n)[m] = opts[m]
BY DEF Table, Ref

LEMMA UnrefEffect ==
    ASSUME NEW opts \in Table, NEW n \in Names, opts[n].ref > 0
    PROVE  /\ Unref(opts, n) \in Table
           /\ Unref(opts, n)[n].ref = opts[n].ref - 1
           /\ opts[n].ref > 1 => Unref(opts, n)[n].value = opts[n].value
           /\ \A m \in Names \ {n} : Unref(opts, n)[m] = opts[m]
<1> DEFINE one == IF opts[n].ref <= 1
                  THEN Absent
                  ELSE [ref |-> opts[n].ref - 1, value |-> opts[n].value]
<1>1. Unref(opts, n) = [opts EXCEPT ![n] = one]
    BY DEF Unref
<1>2. opts[n] \in [ref : Nat, value : Value]
    BY DEF Table
<1>3. /\ one \in [ref : Nat, value : Value]
      /\ one.ref = opts[n].ref - 1
      /\ opts[n].ref > 1 => one.value = opts[n].value
    BY <1>2, BoundsAssumption DEF Absent
<1> HIDE DEF one
<1> QED
    BY <1>1, <1>3 DEF Table

\* A terminal goes from one profile to another that is not the same.
LEMMA SelectEffect ==
    ASSUME ToolTypeOK, NEW opts \in Table, NEW old \in Names, NEW new \in Names,
           old # new, opts[old].ref > 0
    PROVE  /\ Select(opts, old, new) \in Table
           /\ Select(opts, old, new)[old].ref = opts[old].ref - 1
           /\ Select(opts, old, new)[new].ref = opts[new].ref + 1
           /\ opts[old].ref > 1 => Select(opts, old, new)[old].value = opts[old].value
           /\ opts[new].ref > 0 => Select(opts, old, new)[new].value = opts[new].value
           /\ opts[new].ref = 0 => Select(opts, old, new)[new].value = Content(new)
           /\ \A m \in Names \ {old, new} : Select(opts, old, new)[m] = opts[m]
<1> DEFINE looked == LookupAndRef(opts, new)
           left == Unref(looked, old)
           taken == Ref(left, new)
<1>1. /\ looked \in Table
      /\ looked[new].ref = opts[new].ref + 1
      /\ opts[new].ref > 0 => looked[new].value = opts[new].value
      /\ opts[new].ref = 0 => looked[new].value = Content(new)
      /\ \A m \in Names \ {new} : looked[m] = opts[m]
    BY LookupEffect
<1>2. /\ left \in Table
      /\ left[old].ref = opts[old].ref - 1
      /\ opts[old].ref > 1 => left[old].value = opts[old].value
      /\ \A m \in Names \ {old} : left[m] = looked[m]
    BY <1>1, UnrefEffect
<1>3. /\ taken \in Table
      /\ taken[new].ref = left[new].ref + 1
      /\ taken[new].value = left[new].value
      /\ \A m \in Names \ {new} : taken[m] = left[m]
    BY <1>2, RefEffect
<1>4. opts[new].ref \in Nat /\ opts[old].ref \in Nat
    BY DEF Table
<1>5. taken[new].ref = opts[new].ref + 2
    BY <1>1, <1>2, <1>3, <1>4
<1>6. /\ Unref(taken, new) \in Table
      /\ Unref(taken, new)[new].ref = taken[new].ref - 1
      /\ Unref(taken, new)[new].value = taken[new].value
      /\ \A m \in Names \ {new} : Unref(taken, new)[m] = taken[m]
    BY <1>3, <1>4, <1>5, UnrefEffect
<1>7. Select(opts, old, new) = Unref(taken, new)
    BY DEF Select
<1> HIDE DEF looked, left, taken
<1> QED
    BY <1>1, <1>2, <1>3, <1>4, <1>5, <1>6, <1>7

\* Selecting the profile a terminal has already changes nothing.
LEMMA SelectSame ==
    ASSUME ToolTypeOK, NEW opts \in Table, NEW n \in Names, opts[n].ref > 0
    PROVE  Select(opts, n, n) = opts
<1> DEFINE looked == LookupAndRef(opts, n)
<1>1. opts[n].ref \in Nat
    BY DEF Table
<1>2. /\ looked \in Table
      /\ looked[n].ref = opts[n].ref + 1
      /\ looked[n].value = opts[n].value
      /\ \A m \in Names \ {n} : looked[m] = opts[m]
    BY LookupEffect
<1> HIDE DEF looked
<1>3. /\ Unref(looked, n) \in Table
      /\ Unref(looked, n)[n].ref = opts[n].ref
      /\ Unref(looked, n)[n].value = opts[n].value
      /\ \A m \in Names \ {n} : Unref(looked, n)[m] = opts[m]
    <2>1. /\ looked[n].ref > 0 /\ looked[n].ref > 1
          /\ looked[n].ref - 1 = opts[n].ref
        BY <1>1, <1>2
    <2>2. /\ Unref(looked, n) \in Table
          /\ Unref(looked, n)[n].ref = looked[n].ref - 1
          /\ Unref(looked, n)[n].value = looked[n].value
          /\ \A m \in Names \ {n} : Unref(looked, n)[m] = looked[m]
        BY <1>2, <2>1, UnrefEffect
    <2> QED
        BY <1>2, <2>1, <2>2
<1>4. Unref(looked, n)[n] = opts[n]
    <2>1. /\ Unref(looked, n)[n] \in [ref : Nat, value : Value]
          /\ opts[n] \in [ref : Nat, value : Value]
        BY <1>3 DEF Table
    <2> DEFINE a == Unref(looked, n)[n]
               b == opts[n]
    <2>2. /\ a \in [ref : Nat, value : Value] /\ b \in [ref : Nat, value : Value]
          /\ a.ref = b.ref /\ a.value = b.value
        BY <1>3, <2>1
    <2> HIDE DEF a, b
    <2>3. a = b
        BY <2>2
    <2> QED
        BY <2>3 DEF a, b
<1>5. \A m \in Names : Unref(looked, n)[m] = opts[m]
    BY <1>3, <1>4
<1>6. Unref(looked, n) = opts
    BY <1>3, <1>5 DEF Table
<1> QED
    BY <1>6 DEF Select, looked

-----------------------------------------------------------------------------
(* The terminals that hold a profile.                                      *)

Holders(pr, n) == {t \in Terms : pr[t] = n}

LEMMA HoldersFinite ==
    ASSUME NEW pr, NEW n
    PROVE  IsFiniteSet(Holders(pr, n)) /\ Cardinality(Holders(pr, n)) \in Nat
BY TermsAssumption, FS_Subset, FS_CardinalityType DEF Holders

\* A terminal goes from what it had to `new`, either of which may be none.
LEMMA MoveCounts ==
    ASSUME TypeOK, NEW t \in Terms, NEW new, NEW n \in Names,
           profile' = [profile EXCEPT ![t] = new]
    PROVE  /\ profile[t] # n /\ new = n =>
                Cardinality(Holders(profile', n)) = Cardinality(Holders(profile, n)) + 1
           /\ profile[t] = n /\ new # n =>
                Cardinality(Holders(profile', n)) = Cardinality(Holders(profile, n)) - 1
           /\ (profile[t] = n <=> new = n) => Holders(profile', n) = Holders(profile, n)
<1> DEFINE before == Holders(profile, n)
           after == Holders(profile', n)
<1>1. IsFiniteSet(before)
    BY HoldersFinite
<1>2. CASE profile[t] # n /\ new = n
    <2>1. after = before \cup {t} /\ t \notin before
        BY <1>2 DEF TypeOK, Holders
    <2> HIDE DEF before, after
    <2>2. Cardinality(after) = Cardinality(before) + 1
        BY <1>1, <2>1, FS_AddElement
    <2> QED
        BY <1>2, <2>2 DEF before, after
<1>3. CASE profile[t] = n /\ new # n
    <2>1. after = before \ {t} /\ t \in before
        BY <1>3 DEF TypeOK, Holders
    <2> HIDE DEF before, after
    <2>2. Cardinality(after) = Cardinality(before) - 1
        BY <1>1, <2>1, FS_RemoveElement
    <2> QED
        BY <1>3, <2>2 DEF before, after
<1>4. CASE profile[t] = n <=> new = n
    BY <1>4 DEF TypeOK, Holders
<1> QED
    BY <1>2, <1>3, <1>4

\* A profile that a terminal has is referred to, and once more if another
\* terminal has it too.
LEMMA Referred ==
    ASSUME TypeOK, CountsAreHolders, NEW t \in Live
    PROVE  /\ t \in Terms /\ profile[t] \in Names
           /\ options[profile[t]].ref > 0
           /\ \A s \in Live \ {t} : profile[s] = profile[t]
                                    => options[profile[t]].ref > 1
<1> DEFINE n == profile[t]
           H == Holders(profile, n)
<1>1. t \in Terms /\ n \in Names
    BY DEF Live, TypeOK
<1>2. options[n].ref = Cardinality(H) /\ t \in H
    BY <1>1 DEF CountsAreHolders, Holders
<1>3. IsFiniteSet(H) /\ Cardinality(H) \in Nat
    BY HoldersFinite
<1>4. /\ IsFiniteSet(H \ {t}) /\ Cardinality(H \ {t}) \in Nat
      /\ Cardinality(H \ {t}) = Cardinality(H) - 1
    <2> HIDE DEF H
    <2> QED
        BY <1>2, <1>3, FS_RemoveElement, FS_CardinalityType
<1>5. ASSUME NEW s \in Live \ {t}, profile[s] = n PROVE Cardinality(H \ {t}) > 0
    <2>1. s \in H \ {t}
        BY <1>5 DEF Live, Holders
    <2> DEFINE K == H \ {t}
    <2>2. K # {} /\ IsFiniteSet(K) /\ Cardinality(K) \in Nat
        BY <1>4, <2>1
    <2> HIDE DEF K
    <2>3. Cardinality(K) # 0
        BY <2>2, FS_EmptySet
    <2>4. Cardinality(K) > 0
        BY <2>2, <2>3
    <2> QED
        BY <2>4 DEF K
<1> HIDE DEF H
<1> QED
    BY <1>1, <1>2, <1>3, <1>4, <1>5

-----------------------------------------------------------------------------
(* The steps of the terminals.                                             *)

Sharing == TypeOK /\ CountsAreHolders /\ ShowsItsOptions

\* opts is the table of options with one more reference to n.
Taken(opts, n) == /\ opts \in Table
                  /\ opts[n].ref = options[n].ref + 1
                  /\ options[n].ref > 0 => opts[n].value = options[n].value
                  /\ \A m \in Names \ {n} : opts[m] = options[m]

LEMMA NewTermSharing ==
    ASSUME Sharing, NEW t \in Terms, NEW n \in Names, NEW opts,
           profile[t] = NoName, Taken(opts, n), NewTerm(t, opts, n)
    PROVE  Sharing'
<1>1. /\ profile' = [profile EXCEPT ![t] = n] /\ options' = opts
      /\ shown' = [shown EXCEPT ![t] = opts[n].value]
      /\ UNCHANGED menu /\ UNCHANGED toolVars
    BY DEF NewTerm, Apply
<1>2. NoName \notin Names /\ profile[t] \notin Names
    BY NoNameAssumption
<1>3. opts[n] \in [ref : Nat, value : Value]
    BY DEF Taken, Table
<1>4. ToolTypeOK'
    BY <1>1 DEF Sharing, TypeOK, ToolTypeOK, toolVars, manager, history
<1>5. TypeOK'
    BY <1>1, <1>3, <1>4 DEF Sharing, TypeOK, Taken, Table
<1>6. ASSUME NEW m \in Names
      PROVE  options'[m].ref = Cardinality(Holders(profile', m))
    <2>1. options[m].ref = Cardinality(Holders(profile, m))
        BY DEF Sharing, CountsAreHolders, Holders
    <2>2. CASE m = n
        <3>1. Cardinality(Holders(profile', m)) = Cardinality(Holders(profile, m)) + 1
            BY <1>1, <1>2, <2>2, MoveCounts DEF Sharing
        <3> QED
            BY <1>1, <2>1, <2>2, <3>1 DEF Taken
    <2>3. CASE m # n
        <3>1. Holders(profile', m) = Holders(profile, m)
            <4>1. profile[t] # m /\ n # m
                BY <1>2, <2>3
            <4> QED
                BY <1>1, <4>1, MoveCounts DEF Sharing
        <3> QED
            BY <1>1, <2>1, <2>3, <3>1 DEF Taken
    <2> QED
        BY <2>2, <2>3
<1>7. CountsAreHolders'
    BY <1>6 DEF CountsAreHolders, Holders
<1>8. ASSUME Reflected, NEW s \in Terms, profile'[s] # NoName
      PROVE  shown'[s] = options'[profile'[s]].value
    <2>1. CASE s = t
        BY <1>1, <2>1 DEF Sharing, TypeOK
    <2>2. CASE s # t
        <3>1. profile'[s] = profile[s] /\ shown'[s] = shown[s]
            BY <1>1, <2>2 DEF Sharing, TypeOK
        <3>2. s \in Live
            BY <1>8, <3>1 DEF Live
        <3>3. shown[s] = options[profile[s]].value /\ options[profile[s]].ref > 0
            BY <1>8, <3>2, Referred DEF Sharing, ShowsItsOptions, AllAreAffected
        <3>4. opts[profile[s]].value = options[profile[s]].value
            BY <3>2, <3>3, Referred DEF Sharing, Taken
        <3> QED
            BY <1>1, <3>1, <3>3, <3>4
    <2> QED
        BY <2>1, <2>2
<1>9. ShowsItsOptions'
    BY <1>8 DEF ShowsItsOptions, AllAreAffected, Live
<1> QED
    BY <1>5, <1>7, <1>9 DEF Sharing

LEMMA CloseSharing ==
    ASSUME Sharing, NEW t \in Terms, Close(t)
    PROVE  Sharing'
<1> DEFINE n == profile[t]
<1>1. /\ profile' = [profile EXCEPT ![t] = NoName] /\ options' = Unref(options, n)
      /\ UNCHANGED <<shown, menu>> /\ UNCHANGED toolVars /\ t \in Live
    BY DEF Close
<1>2. /\ n \in Names /\ n # NoName /\ options[n].ref > 0
      /\ \A s \in Live \ {t} : profile[s] = n => options[n].ref > 1
    BY <1>1, NoNameAssumption, Referred DEF Sharing
<1>3. /\ options' \in Table
      /\ options'[n].ref = options[n].ref - 1
      /\ options[n].ref > 1 => options'[n].value = options[n].value
      /\ \A m \in Names \ {n} : options'[m] = options[m]
    BY <1>1, <1>2, UnrefEffect DEF Sharing, TypeOK, Table
<1>4. ToolTypeOK'
    BY <1>1 DEF Sharing, TypeOK, ToolTypeOK, toolVars, manager, history
<1>5. TypeOK'
    BY <1>1, <1>3, <1>4 DEF Sharing, TypeOK, Table
<1>6. ASSUME NEW m \in Names
      PROVE  options'[m].ref = Cardinality(Holders(profile', m))
    <2>1. options[m].ref = Cardinality(Holders(profile, m)) /\ NoName # m
        BY NoNameAssumption DEF Sharing, CountsAreHolders, Holders
    <2>2. CASE m = n
        <3>1. Cardinality(Holders(profile', m)) = Cardinality(Holders(profile, m)) - 1
            BY <1>1, <2>1, <2>2, MoveCounts DEF Sharing
        <3> QED
            BY <1>3, <2>1, <2>2, <3>1
    <2>3. CASE m # n
        <3>1. Holders(profile', m) = Holders(profile, m)
            BY <1>1, <2>1, <2>3, MoveCounts DEF Sharing
        <3> QED
            BY <1>3, <2>1, <2>3, <3>1
    <2> QED
        BY <2>2, <2>3
<1>7. CountsAreHolders'
    BY <1>6 DEF CountsAreHolders, Holders
<1>8. ASSUME Reflected, NEW s \in Terms, profile'[s] # NoName
      PROVE  shown'[s] = options'[profile'[s]].value
    <2>1. s # t /\ profile'[s] = profile[s] /\ shown'[s] = shown[s]
        BY <1>1, <1>8 DEF Sharing, TypeOK
    <2>2. s \in Live \ {t} /\ profile[s] \in Names
        BY <1>8, <2>1 DEF Live, Sharing, TypeOK
    <2>3. shown[s] = options[profile[s]].value
        BY <1>8, <2>2 DEF Sharing, ShowsItsOptions, AllAreAffected
    <2>4. options'[profile[s]].value = options[profile[s]].value
        BY <1>2, <1>3, <2>2
    <2> QED
        BY <2>1, <2>3, <2>4
<1>9. ShowsItsOptions'
    BY <1>8 DEF ShowsItsOptions, AllAreAffected, Live
<1> QED
    BY <1>5, <1>7, <1>9 DEF Sharing

LEMMA ChangeToSharing ==
    ASSUME Sharing, NEW t \in Live, NEW n \in Names, ChangeTo(t, n)
    PROVE  Sharing'
<1> DEFINE old == profile[t]
<1>1. /\ profile' = [profile EXCEPT ![t] = n]
      /\ options' = Select(options, old, n)
      /\ UNCHANGED menu /\ UNCHANGED toolVars
    BY DEF ChangeTo
<1>2. /\ t \in Terms /\ old \in Names /\ options[old].ref > 0
      /\ \A s \in Live \ {t} : profile[s] = old => options[old].ref > 1
    BY Referred DEF Sharing
<1>3. options \in Table
    BY DEF Sharing, TypeOK, Table
<1>4. ToolTypeOK'
    BY <1>1 DEF Sharing, TypeOK, ToolTypeOK, toolVars, manager, history
<1>5. CASE n = old
    <2>1. options' = options
        BY <1>1, <1>2, <1>3, <1>5, SelectSame DEF Sharing, TypeOK
    <2>2. profile' = profile /\ shown' = shown
        BY <1>1, <1>2, <1>5 DEF ChangeTo, Sharing, TypeOK
    <2> QED
        BY <1>1, <1>4, <2>1, <2>2
           DEF Sharing, TypeOK, CountsAreHolders, ShowsItsOptions, AllAreAffected, Live
<1>6. CASE n # old
    <2>1. shown' = [shown EXCEPT ![t] = options'[n].value]
        BY <1>6 DEF ChangeTo, Apply
    <2>2. /\ options' \in Table
          /\ options'[old].ref = options[old].ref - 1
          /\ options'[n].ref = options[n].ref + 1
          /\ options[old].ref > 1 => options'[old].value = options[old].value
          /\ options[n].ref > 0 => options'[n].value = options[n].value
          /\ \A m \in Names \ {old, n} : options'[m] = options[m]
        BY <1>1, <1>2, <1>3, <1>6, SelectEffect DEF Sharing, TypeOK
    <2>3. options'[n] \in [ref : Nat, value : Value]
        BY <2>2 DEF Table
    <2>4. TypeOK'
        BY <1>1, <1>4, <2>1, <2>2, <2>3 DEF Sharing, TypeOK, Table
    <2>5. ASSUME NEW m \in Names
          PROVE  options'[m].ref = Cardinality(Holders(profile', m))
        <3>1. options[m].ref = Cardinality(Holders(profile, m))
            BY DEF Sharing, CountsAreHolders, Holders
        <3>2. CASE m = n
            <4>1. Cardinality(Holders(profile', m)) = Cardinality(Holders(profile, m)) + 1
                BY <1>1, <1>2, <1>6, <3>2, MoveCounts DEF Sharing
            <4> QED
                BY <2>2, <3>1, <3>2, <4>1
        <3>3. CASE m = old
            <4>1. Cardinality(Holders(profile', m)) = Cardinality(Holders(profile, m)) - 1
                BY <1>1, <1>2, <1>6, <3>3, MoveCounts DEF Sharing
            <4> QED
                BY <2>2, <3>1, <3>3, <4>1
        <3>4. CASE m # n /\ m # old
            <4>1. Holders(profile', m) = Holders(profile, m)
                BY <1>1, <1>2, <3>4, MoveCounts DEF Sharing
            <4> QED
                BY <2>2, <3>1, <3>4, <4>1
        <3> QED
            BY <3>2, <3>3, <3>4
    <2>6. CountsAreHolders'
        BY <2>5 DEF CountsAreHolders, Holders
    <2>7. ASSUME Reflected, NEW s \in Terms, profile'[s] # NoName
          PROVE  shown'[s] = options'[profile'[s]].value
        <3>1. CASE s = t
            BY <1>1, <2>1, <3>1 DEF Sharing, TypeOK
        <3>2. CASE s # t
            <4>1. profile'[s] = profile[s] /\ shown'[s] = shown[s]
                BY <1>1, <2>1, <3>2 DEF Sharing, TypeOK
            <4>2. s \in Live \ {t}
                BY <2>7, <3>2, <4>1 DEF Live
            <4>3. /\ shown[s] = options[profile[s]].value
                  /\ profile[s] \in Names /\ options[profile[s]].ref > 0
                BY <2>7, <4>2, Referred DEF Sharing, ShowsItsOptions, AllAreAffected
            <4>4. options'[profile[s]].value = options[profile[s]].value
                BY <1>2, <2>2, <4>2, <4>3
            <4> QED
                BY <4>1, <4>3, <4>4
        <3> QED
            BY <3>1, <3>2
    <2>8. ShowsItsOptions'
        BY <2>7 DEF ShowsItsOptions, AllAreAffected, Live
    <2> QED
        BY <2>4, <2>6, <2>8 DEF Sharing
<1> QED
    BY <1>5, <1>6

\* A new value of one option of a profile.
LEMMA OptionSharing ==
    ASSUME Sharing, NEW s \in Signal, OptionArrives(s),
           UNCHANGED <<profile, files, configured, manager, edited, todo, history>>,
           bus' \in Seq(Signal)
    PROVE  Sharing'
<1> DEFINE n == s.name
           looked == LookupAndRef(options, n)
           updated == [looked EXCEPT ![n].value = s.value]
<1>1. n \in Names /\ s.value \in Value
    BY DEF Signal
<1>2. options \in Table /\ options[n].ref \in Nat
    BY <1>1 DEF Sharing, TypeOK, Table
<1>3. /\ looked \in Table
      /\ looked[n].ref = options[n].ref + 1
      /\ options[n].ref > 0 => looked[n].value = options[n].value
      /\ \A m \in Names \ {n} : looked[m] = options[m]
    BY <1>1, <1>2, LookupEffect DEF Sharing, TypeOK
<1>4. /\ options' = Unref(updated, n) /\ UNCHANGED menu
      /\ IF looked[n].value = s.value THEN UNCHANGED shown ELSE Reflect(updated, n)
    BY DEF OptionArrives
<1> HIDE DEF looked
<1>5. /\ updated \in Table
      /\ updated[n].ref = options[n].ref + 1 /\ updated[n].value = s.value
      /\ \A m \in Names \ {n} : updated[m] = options[m]
    BY <1>1, <1>3 DEF Table
<1> HIDE DEF updated
<1>6. updated[n].ref > 0 /\ (options[n].ref > 0 => updated[n].ref > 1)
    BY <1>2, <1>5
<1>7. /\ options' \in Table
      /\ options'[n].ref = updated[n].ref - 1
      /\ updated[n].ref > 1 => options'[n].value = updated[n].value
      /\ \A m \in Names \ {n} : options'[m] = updated[m]
    BY <1>1, <1>4, <1>5, <1>6, UnrefEffect
<1>8. \A m \in Names : options'[m].ref = options[m].ref
    BY <1>1, <1>2, <1>5, <1>7
<1>9. ToolTypeOK'
    BY DEF Sharing, TypeOK, ToolTypeOK, manager, history
<1>10. /\ shown' \in [Terms -> Value]
       /\ \A t \in Terms : profile[t] # n => shown'[t] = shown[t]
       /\ \A t \in Terms : Reflected /\ profile[t] = n =>
             IF looked[n].value = s.value THEN shown'[t] = shown[t]
                                          ELSE shown'[t] = s.value
    <2>1. CASE looked[n].value = s.value
        BY <1>4, <2>1 DEF Sharing, TypeOK
    <2>2. CASE looked[n].value # s.value
        BY <1>1, <1>4, <1>5, <2>2 DEF Sharing, TypeOK, Reflect
    <2> QED
        BY <2>1, <2>2
<1>11. TypeOK'
    BY <1>4, <1>7, <1>9, <1>10 DEF Sharing, TypeOK, Table
<1>12. CountsAreHolders'
    BY <1>8 DEF Sharing, CountsAreHolders
<1>13. ASSUME Reflected, NEW t \in Live
       PROVE  shown'[t] = options'[profile[t]].value
    <2>1. /\ t \in Terms /\ profile[t] \in Names /\ options[profile[t]].ref > 0
          /\ shown[t] = options[profile[t]].value
        BY <1>13, Referred DEF Sharing, ShowsItsOptions, AllAreAffected
    <2>2. CASE profile[t] = n
        <3>1. options'[n].value = s.value
            BY <1>5, <1>6, <1>7, <2>1, <2>2
        <3>2. looked[n].value = options[n].value
            BY <1>3, <2>1, <2>2
        <3> QED
            BY <1>10, <1>13, <2>1, <2>2, <3>1, <3>2
    <2>3. CASE profile[t] # n
        BY <1>5, <1>7, <1>10, <2>1, <2>3
    <2> QED
        BY <2>2, <2>3
<1>14. ShowsItsOptions'
    BY <1>13 DEF ShowsItsOptions, AllAreAffected, Live
<1> QED
    BY <1>11, <1>12, <1>14 DEF Sharing

LEMMA ReceiveSharing == Sharing /\ Receive => Sharing'
<1> SUFFICES ASSUME Sharing, Receive PROVE Sharing'
    OBVIOUS
<1> DEFINE s == Head(bus)
<1>1. s \in Signal /\ bus' \in Seq(Signal)
    BY TailType DEF Receive, Sharing, TypeOK, ToolTypeOK
<1>2. UNCHANGED <<profile, files, configured, manager, edited, todo, history>>
    BY DEF Receive
<1>3. CASE s.type = "IntOption"
    BY <1>1, <1>2, <1>3, OptionSharing DEF Receive
<1>4. CASE s.type # "IntOption"
    <2>1. MenuChanges(s)
        BY <1>4 DEF Receive
    <2>2. /\ s.name \in Names
          /\ s.type = "OptionsRenamed" => s.new \in Names
          /\ s.type \in {"OptionsDeleted", "OptionsAdded", "OptionsRenamed"}
        BY <1>1, <1>4 DEF Signal
    <2>3. menu' \subseteq Names /\ UNCHANGED <<options, shown>>
        <3> HIDE DEF s
        <3>1. CASE s.type = "OptionsDeleted"
            BY <2>1, <3>1 DEF MenuChanges, Sharing, TypeOK
        <3>2. CASE s.type = "OptionsAdded"
            <4>1. menu' = menu \cup {s.name} /\ UNCHANGED <<options, shown>>
                BY <2>1, <3>2 DEF MenuChanges
            <4> QED
                BY <2>2, <4>1 DEF Sharing, TypeOK
        <3>3. CASE s.type = "OptionsRenamed"
            <4>1. /\ menu' = (menu \ {s.name}) \cup {s.new}
                  /\ UNCHANGED <<options, shown>>
                BY <2>1, <3>3 DEF MenuChanges
            <4> QED
                BY <2>2, <3>3, <4>1 DEF Sharing, TypeOK
        <3> QED
            BY <2>2, <3>1, <3>2, <3>3
    <2>4. ToolTypeOK'
        BY <1>1, <1>2 DEF Sharing, TypeOK, ToolTypeOK, manager, history
    <2> QED
        BY <1>2, <2>3, <2>4
           DEF Sharing, TypeOK, CountsAreHolders, ShowsItsOptions, AllAreAffected, Live
<1> QED
    BY <1>3, <1>4

LEMMA TermSharing ==
    ASSUME Sharing, TermActs PROVE Sharing'
<1>1. options \in Table
    BY DEF Sharing, TypeOK, Table
<1>2. ASSUME NEW n \in Names PROVE Taken(LookupAndRef(options, n), n)
    BY <1>1, LookupEffect DEF Sharing, TypeOK, Taken
<1>3. ASSUME NEW n \in Names
      PROVE  Taken(Unref(LookupAndRef(LookupAndRef(options, n), n), n), n)
    <2> DEFINE once == LookupAndRef(options, n)
               twice == LookupAndRef(once, n)
    <2>1. /\ once \in Table /\ once[n].ref = options[n].ref + 1
          /\ options[n].ref > 0 => once[n].value = options[n].value
          /\ \A m \in Names \ {n} : once[m] = options[m]
        BY <1>1, LookupEffect DEF Sharing, TypeOK
    <2>2. options[n].ref \in Nat /\ once[n].ref > 0
        BY <1>1, <2>1 DEF Table
    <2> HIDE DEF once
    <2>3. /\ twice \in Table /\ twice[n].ref = once[n].ref + 1
          /\ twice[n].value = once[n].value
          /\ \A m \in Names \ {n} : twice[m] = once[m]
        BY <2>1, <2>2, LookupEffect DEF Sharing, TypeOK
    <2>4. twice[n].ref = options[n].ref + 2 /\ twice[n].ref > 0 /\ twice[n].ref > 1
        BY <2>1, <2>2, <2>3
    <2> HIDE DEF twice
    <2>5. /\ Unref(twice, n) \in Table
          /\ Unref(twice, n)[n].ref = twice[n].ref - 1
          /\ Unref(twice, n)[n].value = twice[n].value
          /\ \A m \in Names \ {n} : Unref(twice, n)[m] = twice[m]
        BY <2>3, <2>4, UnrefEffect
    <2>6. Taken(Unref(twice, n), n)
        BY <2>1, <2>2, <2>3, <2>4, <2>5 DEF Taken
    <2> QED
        BY <2>6 DEF twice, once
<1>4. ASSUME NEW t \in Terms, NEW n \in Names, Launch(t, n) PROVE Sharing'
    BY <1>2, <1>4, NewTermSharing DEF Launch
<1>5. ASSUME NEW t \in Terms, NEW s \in Terms, Clone(t, s) PROVE Sharing'
    <2>1. profile[s] \in Names
        BY <1>5 DEF Clone, Live, Sharing, TypeOK
    <2> QED
        BY <1>2, <1>5, <2>1, NewTermSharing DEF Clone
<1>6. ASSUME NEW t \in Terms, NEW s \in Terms, NEW n \in Names,
             NewWithProfile(t, s, n)
      PROVE  Sharing'
    BY <1>3, <1>6, NewTermSharing DEF NewWithProfile
<1>7. ASSUME NEW t \in Terms, Close(t) PROVE Sharing'
    BY <1>7, CloseSharing
<1>8. ASSUME NEW t \in Terms, NEW n \in Names, SelectProfile(t, n) \/ SetProfile(t, n)
      PROVE  Sharing'
    BY <1>8, ChangeToSharing DEF SelectProfile, SetProfile
<1>9. ASSUME NEW t \in Terms, t \in Live,
             EditFromTerminal(profile[t]), UNCHANGED termVars
      PROVE  Sharing'
    <2>1. profile[t] \in Names
        BY <1>9 DEF Live, Sharing, TypeOK
    <2>2. ToolTypeOK'
        BY <1>9, <2>1, WindowTypes DEF EditFromTerminal, Sharing, TypeOK
    <2> QED
        BY <1>9, <2>2
           DEF termVars, Sharing, TypeOK, CountsAreHolders, ShowsItsOptions, AllAreAffected, Live
<1> QED
    BY <1>4, <1>5, <1>6, <1>7, <1>8, <1>9 DEF TermActs

LEMMA SharingInductive ==
    /\ Init => Sharing
    /\ Sharing /\ [Next]_vars => Sharing'
<1>1. Init => Sharing
    <2> SUFFICES ASSUME Init PROVE Sharing
        OBVIOUS
    <2>1. ToolTypeOK
        <3>1. 0 \in Value /\ 0 \in 0..MaxChanges
            BY BoundsAssumption
        <3>2. files \in [Names -> Value \cup {None}]
            BY <3>1 DEF Init, ToolInit
        <3>3. edited \in [Names -> Value \cup {Closed}]
            BY DEF Init, ToolInit
        <3>4. /\ todo \in Seq(Step) /\ bus \in Seq(Signal)
              /\ changes \in 0..MaxChanges
            BY <3>1 DEF Init, ToolInit
        <3>5. /\ configured \in Names /\ configlet \in BOOLEAN
              /\ rows \subseteq Names /\ radios \subseteq rows
              /\ replaced \subseteq Names /\ unlisted \subseteq Names
            BY NamesAssumption DEF Init, ToolInit
        <3>6. dialog = NoDialog
            BY DEF Init, ToolInit
        <3> QED
            BY <3>2, <3>3, <3>4, <3>5, <3>6 DEF ToolTypeOK
    <2>2. TypeOK
        BY <2>1, NamesAssumption, BoundsAssumption DEF Init, TypeOK, Absent, Listed
    <2>3. \A n \in Names : {t \in Terms : profile[t] = n} = {}
        BY NoNameAssumption DEF Init
    <2>4. CountsAreHolders
        BY <2>3, FS_EmptySet DEF Init, CountsAreHolders, Absent
    <2>5. ShowsItsOptions
        BY DEF Init, ShowsItsOptions, AllAreAffected, Live
    <2> QED
        BY <2>2, <2>4, <2>5 DEF Sharing
<1>2. ASSUME Sharing, [Next]_vars PROVE Sharing'
    <2>1. CASE ToolActs
        <3>1. ToolTypeOK'
            BY <2>1, <1>2, ToolTypes DEF ToolActs, Sharing, TypeOK
        <3> QED
            BY <1>2, <2>1, <3>1 DEF ToolActs, termVars, Sharing, TypeOK,
               CountsAreHolders, ShowsItsOptions, AllAreAffected, Live
    <2>2. CASE TermActs
        BY <1>2, <2>2, TermSharing
    <2>3. CASE Receive
        BY <1>2, <2>3, ReceiveSharing
    <2>4. CASE UNCHANGED vars
        BY <1>2, <2>4 DEF vars, toolVars, manager, history, termVars, Sharing,
           TypeOK, ToolTypeOK, CountsAreHolders, ShowsItsOptions, AllAreAffected, Live
    <2> QED
        BY <1>2, <2>1, <2>2, <2>3, <2>4 DEF Next
<1> QED
    BY <1>1, <1>2

LEMMA SharingAlways == Spec => []Sharing
BY SharingInductive, PTL DEF Spec

\* Files, dialogs, tables, signals and menus have their types.
THEOREM TypeCorrect == Spec => []TypeOK
<1>1. Sharing => TypeOK
    BY DEF Sharing
<1> QED
    BY <1>1, SharingAlways, PTL

\* The counts of dynopts.c are exactly the terminals that use the options,
\* for any number of terminals and profiles and whatever the tool does.
THEOREM CountsCorrect == Spec => []CountsAreHolders
<1>1. Sharing => CountsAreHolders
    BY DEF Sharing
<1> QED
    BY <1>1, SharingAlways, PTL

\* All terminals show what the options they share hold, if the handler for
\* signals knows the option.
THEOREM ShownCorrect == Spec => []ShowsItsOptions
<1>1. Sharing => ShowsItsOptions
    BY DEF Sharing
<1> QED
    BY <1>1, SharingAlways, PTL

-----------------------------------------------------------------------------
(* What a dialog knows of the files.                                       *)

\* While a dialog waits for a name no handler is at work that could save a
\* file, and the names it compares with include all that have one.
AskedKnows ==
    dialog # NoDialog => /\ todo = <<>>
                         /\ \A n \in Names : files[n] # None => n \in dialog.existing

\* The actions that leave the files and the dialog alone either find no dialog
\* or leave todo alone too.
LEMMA AskedQuiet ==
    ASSUME AskedKnows, UNCHANGED <<files, dialog>>, dialog = NoDialog \/ todo' = todo
    PROVE  AskedKnows'
BY DEF AskedKnows

LEMMA AskedInductive ==
    ASSUME Sharing, AskedKnows, [Next]_vars
    PROVE  AskedKnows'
<1>1. CASE Save \/ Send
    <2>1. dialog' = NoDialog
        BY <1>1 DEF Save, Send, manager, AskedKnows
    <2> QED
        BY <2>1 DEF AskedKnows, NoDialog
<1>2. CASE OpenManager \/ CloseManager
    BY <1>2, AskedQuiet DEF OpenManager, CloseManager
<1>3. CASE CancelName
    BY <1>3 DEF CancelName, AskedKnows, NoDialog
<1>4. ASSUME NEW n \in Names, OpenEditor(n) PROVE AskedKnows'
    BY <1>4, AskedQuiet DEF OpenEditor, manager
<1>5. ASSUME NEW n \in Names, CloseEditor(n) PROVE AskedKnows'
    BY <1>5, AskedQuiet DEF CloseEditor, UserCanAct, manager
<1>6. ASSUME NEW n \in Names, NEW v \in Value, EditOption(n, v) PROVE AskedKnows'
    BY <1>6, AskedQuiet DEF EditOption, UserCanAct, manager
<1>7. ASSUME NEW n \in Names, ToggleRadio(n) PROVE AskedKnows'
    BY <1>7, AskedQuiet DEF ToggleRadio
<1>8. ASSUME NEW n \in Names, CopyClicked(n) \/ RenameClicked(n) PROVE AskedKnows'
    BY <1>8 DEF CopyClicked, RenameClicked, AskName, UserCanAct, Idle, Listed, AskedKnows
<1>9. ASSUME NEW n \in Names, Copy(n) \/ Rename(n) PROVE AskedKnows'
    BY <1>9 DEF Copy, Rename, AskedKnows, NoDialog
<1>10. ASSUME NEW n \in Names, DeleteClicked(n) PROVE AskedKnows'
    <2>1. dialog' = NoDialog
        BY <1>10 DEF DeleteClicked, UserCanAct
    <2> QED
        BY <2>1 DEF AskedKnows, NoDialog
<1>11. CASE ToolActs
    BY <1>1, <1>2, <1>3, <1>4, <1>5, <1>6, <1>7, <1>8, <1>9, <1>10, <1>11
       DEF ToolActs, ToolNext, EditRow
<1>12. CASE TermActs
    <2>1. ASSUME UNCHANGED toolVars PROVE AskedKnows'
        BY <2>1, AskedQuiet DEF toolVars, manager
    <2>2. ASSUME NEW t \in Terms, t \in Live, EditFromTerminal(profile[t])
          PROVE  AskedKnows'
        <3>1. profile[t] \in Names
            BY <2>2 DEF Live, Sharing, TypeOK
        <3> QED
            BY <1>4, <2>2, <3>1 DEF EditFromTerminal
    <2> QED
        BY <1>12, <2>1, <2>2 DEF TermActs, NewTerm, Launch, Clone, NewWithProfile,
           Close, ChangeTo, SelectProfile, SetProfile
<1>13. CASE Receive
    BY <1>13, AskedQuiet DEF Receive, manager
<1>14. CASE UNCHANGED vars
    BY <1>14, AskedQuiet DEF vars, toolVars, manager
<1> QED
    BY <1>11, <1>12, <1>13, <1>14 DEF Next

\* A step that is no save of an editor leaves a file as it is or removes it.
LEMMA OverwriteStep ==
    ASSUME Sharing, AskedKnows, [Next]_vars, ~Save, NEW n \in Names, files[n] # None
    PROVE  files'[n] \in {None, files[n]}
<1>1. files \in [Names -> Value \cup {None}]
    BY DEF Sharing, TypeOK, ToolTypeOK
<1>2. ASSUME NEW m \in Names, Copy(m) PROVE files'[n] \in {None, files[n]}
    <2>1. dialog # NoDialog
        BY <1>2 DEF Copy, NoDialog
    <2>2. m # n
        BY <1>2, <2>1 DEF Copy, AskedKnows
    <2> QED
        BY <1>1, <1>2, <2>2 DEF Copy
<1>3. ASSUME NEW m \in Names, Rename(m) PROVE files'[n] \in {None, files[n]}
    <2>1. dialog # NoDialog
        BY <1>3 DEF Rename, NoDialog
    <2>2. m # n
        BY <1>3, <2>1 DEF Rename, AskedKnows
    <2> QED
        BY <1>1, <1>3, <2>2 DEF Rename
<1>4. ASSUME NEW m \in Names, DeleteClicked(m) PROVE files'[n] \in {None, files[n]}
    BY <1>1, <1>4 DEF DeleteClicked
<1>5. CASE UNCHANGED files
    BY <1>5
<1>6. CASE ToolActs
    BY <1>2, <1>3, <1>4, <1>5, <1>6 DEF ToolActs, ToolNext, Send, OpenManager,
       CloseManager, CancelName, EditRow, OpenEditor, CloseEditor, ToggleRadio,
       CopyClicked, RenameClicked, EditOption
<1>7. CASE TermActs
    BY <1>5, <1>7 DEF TermActs, toolVars, NewTerm, Launch, Clone, NewWithProfile,
       Close, ChangeTo, SelectProfile, SetProfile, EditFromTerminal, OpenEditor
<1>8. CASE Receive \/ UNCHANGED vars
    BY <1>5, <1>8 DEF Receive, vars, toolVars
<1> QED
    BY <1>6, <1>7, <1>8 DEF Next

\* A copy or a new name never writes over a file the user has.
THEOREM OverwriteCorrect == Spec => OnlyEditorsOverwrite
<1>1. Init => AskedKnows
    BY DEF Init, ToolInit, AskedKnows, NoDialog
<1>2. Sharing /\ AskedKnows /\ [Next]_vars => AskedKnows'
    BY AskedInductive
<1>3. Sharing /\ AskedKnows /\ [Next]_vars
        => [\A n \in Names :
              files[n] # None /\ files'[n] \notin {None, files[n]} => Save]_vars
    BY OverwriteStep
<1> QED
    BY <1>1, <1>2, <1>3, SharingAlways, PTL DEF Spec, OnlyEditorsOverwrite
-----------------------------------------------------------------------------
(* The last element of a kind in a queue.                                  *)

LEMMA LeastOf ==
    ASSUME NEW A \in SUBSET Nat, A # {}
    PROVE  \E x \in A : \A y \in A : x <= y
<1> DEFINE R == OpToRel(<, Nat)
<1>1. \A x, y \in A : y < x => <<y, x>> \in R
    BY DEF OpToRel
<1>2. IsWellFoundedOn(R, Nat)
    BY NatLessThanWellFounded
<1> HIDE DEF R
<1>3. PICK x \in A : \A y \in A : <<y, x>> \notin R
    BY <1>2, WFMin
<1>4. \A y \in A : ~ (y < x)
    BY <1>1, <1>3
<1> QED
    BY <1>3, <1>4

LEMMA LargestOf ==
    ASSUME NEW k \in Nat, NEW A \in SUBSET (1..k), A # {}
    PROVE  Max(A) \in A /\ \A y \in A : y <= Max(A)
<1> DEFINE B == {k - x : x \in A}
<1>1. B \in SUBSET Nat /\ B # {}
    <2>1. \A x \in A : k - x \in Nat
        OBVIOUS
    <2> QED
        BY <2>1
<1>2. PICK b \in B : \A y \in B : b <= y
    BY <1>1, LeastOf
<1>3. PICK a \in A : b = k - a
    BY <1>2
<1>4. \A y \in A : k - y \in B /\ b <= k - y
    BY <1>2
<1>5. \A y \in A : a >= y
    BY <1>3, <1>4
<1>6. \E x \in A : \A y \in A : x >= y
    BY <1>5
<1>7. Max(A) \in A /\ \A y \in A : Max(A) >= y
    BY <1>6 DEF Max
<1> QED
    BY <1>7

\* The places of q where an element of T stands.
Places(q, T) == {i \in DOMAIN q : q[i] \in T}

LEMMA LastPlace ==
    ASSUME NEW S, NEW q \in Seq(S), NEW T, Places(q, T) # {}
    PROVE  /\ Max(Places(q, T)) \in Places(q, T) /\ Max(Places(q, T)) \in DOMAIN q
           /\ \A i \in Places(q, T) : i <= Max(Places(q, T))
<1>1. Places(q, T) \in SUBSET (1..Len(q)) /\ Len(q) \in Nat
    BY DEF Places
<1>2. /\ Max(Places(q, T)) \in Places(q, T)
      /\ \A i \in Places(q, T) : i <= Max(Places(q, T))
    BY <1>1, LargestOf
<1> QED
    BY <1>2 DEF Places

\* r is q with s at its end.
Joined(q, s, r) == r = Append(q, s)

\* An element that joins the end of a queue is its last one.
LEMMA LastAppended ==
    ASSUME NEW S, NEW q \in Seq(S), NEW s \in S, NEW T, NEW r,
           Joined(q, s, r)
    PROVE  /\ s \in T => Places(r, T) # {} /\ r[Max(Places(r, T))] = s
           /\ s \notin T => /\ Places(r, T) = Places(q, T)
                            /\ Places(q, T) # {} =>
                                 r[Max(Places(q, T))] = q[Max(Places(q, T))]
<1>1. /\ r \in Seq(S) /\ Len(r) = Len(q) + 1 /\ Len(q) \in Nat
      /\ DOMAIN r = 1..(Len(q) + 1) /\ DOMAIN q = 1..Len(q)
      /\ r[Len(q) + 1] = s /\ \A i \in DOMAIN q : r[i] = q[i]
    BY DEF Joined
<1>2. CASE s \in T
    <2>1. Len(q) + 1 \in Places(r, T)
        BY <1>1, <1>2 DEF Places
    <2>2. /\ Max(Places(r, T)) \in DOMAIN r
          /\ Len(q) + 1 <= Max(Places(r, T))
        BY <1>1, <2>1, LastPlace
    <2>3. Max(Places(r, T)) = Len(q) + 1
        BY <1>1, <2>2
    <2> QED
        BY <1>1, <1>2, <2>1, <2>3
<1>3. CASE s \notin T
    <2>1. Places(r, T) = Places(q, T)
        BY <1>1, <1>3 DEF Places
    <2>2. Places(q, T) # {} => Max(Places(q, T)) \in DOMAIN q
        BY LastPlace
    <2> QED
        BY <1>1, <1>3, <2>1, <2>2
<1> QED
    BY <1>2, <1>3

\* What leaves the front of a queue was its last element only if nothing is
\* left behind it.
LEMMA LastTail ==
    ASSUME NEW S, NEW q \in Seq(S), q # <<>>, NEW T
    PROVE  /\ Places(Tail(q), T) # {} =>
                /\ Places(q, T) # {}
                /\ Tail(q)[Max(Places(Tail(q), T))] = q[Max(Places(q, T))]
           /\ Places(Tail(q), T) = {} /\ Head(q) \in T =>
                /\ Places(q, T) # {}
                /\ q[Max(Places(q, T))] = Head(q)
           /\ Places(Tail(q), T) = {} /\ Head(q) \notin T => Places(q, T) = {}
<1> DEFINE r == Tail(q)
<1>1. /\ r \in Seq(S) /\ Len(q) \in Nat /\ Len(q) > 0 /\ Len(r) = Len(q) - 1
      /\ DOMAIN r = 1..(Len(q) - 1) /\ DOMAIN q = 1..Len(q)
      /\ q[1] = Head(q) /\ \A i \in DOMAIN r : r[i] = q[i + 1]
    OBVIOUS
<1> HIDE DEF r
<1>2. \A i \in Places(r, T) : i + 1 \in Places(q, T)
    BY <1>1 DEF Places
<1>3. \A j \in Places(q, T) : j # 1 => j - 1 \in Places(r, T)
    <2>1. \A j \in DOMAIN q : j # 1 => /\ j - 1 \in DOMAIN r
                                       /\ (j - 1) + 1 = j
                                       /\ r[j - 1] = q[(j - 1) + 1]
        BY <1>1
    <2> QED
        BY <2>1 DEF Places
<1>4. ASSUME Places(r, T) # {}
      PROVE  Places(q, T) # {} /\ r[Max(Places(r, T))] = q[Max(Places(q, T))]
    <2>1. /\ Max(Places(r, T)) \in Places(r, T) /\ Max(Places(r, T)) \in DOMAIN r
          /\ \A i \in Places(r, T) : i <= Max(Places(r, T))
        BY <1>1, <1>4, LastPlace
    <2>2. Max(Places(r, T)) + 1 \in Places(q, T)
        BY <1>2, <2>1
    <2>3. /\ Max(Places(q, T)) \in Places(q, T) /\ Max(Places(q, T)) \in DOMAIN q
          /\ \A i \in Places(q, T) : i <= Max(Places(q, T))
        BY <2>2, LastPlace
    <2>4. Max(Places(r, T)) + 1 <= Max(Places(q, T))
        BY <2>2, <2>3
    <2>5. Max(Places(q, T)) # 1
        BY <1>1, <2>1, <2>4
    <2>6. Max(Places(q, T)) - 1 <= Max(Places(r, T))
        BY <1>3, <2>1, <2>3, <2>5
    <2>7. Max(Places(q, T)) = Max(Places(r, T)) + 1
        BY <1>1, <2>1, <2>3, <2>4, <2>6
    <2> QED
        BY <1>1, <2>1, <2>2, <2>7
<1>5. ASSUME Places(r, T) = {} PROVE Places(q, T) \subseteq {1}
    BY <1>3, <1>5
<1>6. ASSUME Places(r, T) = {}, Head(q) \in T
      PROVE  Places(q, T) # {} /\ q[Max(Places(q, T))] = Head(q)
    <2>1. 1 \in Places(q, T)
        BY <1>1, <1>6 DEF Places
    <2>2. Max(Places(q, T)) \in Places(q, T)
        BY <2>1, LastPlace
    <2>3. Max(Places(q, T)) = 1
        BY <1>5, <1>6, <2>2
    <2> QED
        BY <1>1, <2>1, <2>3
<1>7. ASSUME Places(r, T) = {}, Head(q) \notin T PROVE Places(q, T) = {}
    BY <1>1, <1>5, <1>7 DEF Places
<1> QED
    BY <1>4, <1>6, <1>7 DEF r

-----------------------------------------------------------------------------
(* What the signals on their way lead to.                                  *)

\* A handler has nothing left to do, or a signal to send, or a value to save
\* and then to send.
Sends(s) == <<[do |-> "send", what |-> s]>>
SavesAndSends(s) == <<[do |-> "save", what |-> s], [do |-> "send", what |-> s]>>

HandlerSteps(steps) ==
    \/ steps = <<>>
    \/ \E s \in Signal : steps = Sends(s)
    \/ \E n \in Names, v \in Value : steps = SavesAndSends(Option(n, v))

\* The value of n once all signals have come, from v on, and that of its file
\* once the handler at work is done.
Coming(n, v) == After(Due(todo, "send"), n, After(bus, n, v))
Written(n) == After(Due(todo, "save"), n, Content(n))

\* What is known of n now, by a terminal or only by its file, comes to what
\* its file will say.
Followed(n) == /\ Coming(n, Content(n)) = Written(n)
               /\ options[n].ref > 0 => Coming(n, options[n].value) = Written(n)

AllFollowed == \A n \in Names \ replaced : Followed(n)

\* Signal s changes the place of n in the menu.
ForMenu(n) == {s \in Signal : s.type # "IntOption" /\ n \in {s.name, s.new}}
Adds(s, n) == \/ s.type = "OptionsAdded" /\ s.name = n
              \/ s.type = "OptionsRenamed" /\ s.new = n

\* Whether n is in the menu after the signals in q, if it was as b says.
Listing(q, n, b) ==
    LET about == {i \in DOMAIN q : q[i] \in ForMenu(n)}
    IN  IF about = {} THEN b ELSE Adds(q[Max(about)], n)

Tracked(n) == n \notin System \cup {Default} \cup unlisted

MenuWillFollow ==
    \A n \in Names : Tracked(n) =>
      (Listing(Due(todo, "send"), n, Listing(bus, n, n \in menu)) <=> files[n] # None)

\* A profile that a dialog gives a new name has a file as long as it is open.
RenamedHasFile == dialog.op = "rename" => files[dialog.old] # None

Following == /\ HandlerSteps(todo)
             /\ AllFollowed /\ MenuWillFollow /\ RenamedHasFile

\* The signals that say what n's options are.
Sets(n) == {s \in Signal : s.type = "IntOption" /\ s.name = n}

LEMMA AfterAlso ==
    ASSUME NEW q \in Seq(Signal), NEW n, NEW v
    PROVE  After(q, n, v) = IF Places(q, Sets(n)) = {}
                            THEN v ELSE q[Max(Places(q, Sets(n)))].value
<1>1. \A i \in DOMAIN q : q[i] \in Signal
    OBVIOUS
<1>2. {i \in DOMAIN q : q[i].type = "IntOption" /\ q[i].name = n} = Places(q, Sets(n))
    BY <1>1 DEF Places, Sets
<1> QED
    BY <1>2 DEF After

LEMMA AfterAppended ==
    ASSUME NEW q \in Seq(Signal), NEW s \in Signal, NEW r, Joined(q, s, r),
           NEW n, NEW v
    PROVE  After(r, n, v) = IF s \in Sets(n) THEN s.value
                                       ELSE After(q, n, v)
<1> DEFINE T == Sets(n)
<1>1. r \in Seq(Signal)
    BY DEF Joined
<1>2. /\ After(r, n, v) = IF Places(r, T) = {} THEN v ELSE r[Max(Places(r, T))].value
      /\ After(q, n, v) = IF Places(q, T) = {} THEN v ELSE q[Max(Places(q, T))].value
    BY <1>1, AfterAlso
<1> HIDE DEF T
<1>3. /\ s \in T => Places(r, T) # {} /\ r[Max(Places(r, T))] = s
      /\ s \notin T => /\ Places(r, T) = Places(q, T)
                       /\ Places(q, T) # {} => r[Max(Places(q, T))] = q[Max(Places(q, T))]
    BY LastAppended
<1>4. After(r, n, v) = IF s \in T THEN s.value ELSE After(q, n, v)
    BY <1>2, <1>3
<1> QED
    BY <1>4 DEF T

LEMMA AfterTail ==
    ASSUME NEW q \in Seq(Signal), q # <<>>, NEW n, NEW v
    PROVE  After(q, n, v) = After(Tail(q), n, IF Head(q) \in Sets(n)
                                              THEN Head(q).value ELSE v)
<1> DEFINE r == Tail(q)
           T == Sets(n)
           w == IF Head(q) \in T THEN Head(q).value ELSE v
<1>1. r \in Seq(Signal)
    OBVIOUS
<1>2. After(q, n, v) = IF Places(q, T) = {} THEN v ELSE q[Max(Places(q, T))].value
    BY AfterAlso
<1>3. After(r, n, w) = IF Places(r, T) = {} THEN w ELSE r[Max(Places(r, T))].value
    BY <1>1, AfterAlso
<1>4. /\ Places(r, T) # {} => /\ Places(q, T) # {}
                              /\ r[Max(Places(r, T))] = q[Max(Places(q, T))]
      /\ Places(r, T) = {} /\ Head(q) \in T => /\ Places(q, T) # {}
                                               /\ q[Max(Places(q, T))] = Head(q)
      /\ Places(r, T) = {} /\ Head(q) \notin T => Places(q, T) = {}
    BY LastTail
<1> HIDE DEF r, T
<1>5. After(q, n, v) = After(r, n, w)
    BY <1>2, <1>3, <1>4
<1> QED
    BY <1>5 DEF r, T

LEMMA ListingAlso ==
    ASSUME NEW q, NEW n, NEW b
    PROVE  Listing(q, n, b) = IF Places(q, ForMenu(n)) = {}
                              THEN b ELSE Adds(q[Max(Places(q, ForMenu(n)))], n)
BY DEF Listing, Places

LEMMA ListingAppended ==
    ASSUME NEW q \in Seq(Signal), NEW s \in Signal, NEW r, Joined(q, s, r),
           NEW n, NEW b
    PROVE  Listing(r, n, b) = IF s \in ForMenu(n) THEN Adds(s, n)
                                         ELSE Listing(q, n, b)
<1> DEFINE T == ForMenu(n)
<1>1. /\ Listing(r, n, b) = IF Places(r, T) = {} THEN b ELSE Adds(r[Max(Places(r, T))], n)
      /\ Listing(q, n, b) = IF Places(q, T) = {} THEN b ELSE Adds(q[Max(Places(q, T))], n)
    BY ListingAlso
<1> HIDE DEF T
<1>2. /\ s \in T => Places(r, T) # {} /\ r[Max(Places(r, T))] = s
      /\ s \notin T => /\ Places(r, T) = Places(q, T)
                       /\ Places(q, T) # {} => r[Max(Places(q, T))] = q[Max(Places(q, T))]
    BY LastAppended
<1>3. Listing(r, n, b) = IF s \in T THEN Adds(s, n) ELSE Listing(q, n, b)
    BY <1>1, <1>2
<1> QED
    BY <1>3 DEF T

LEMMA ListingEquiv ==
    ASSUME NEW q, NEW n, NEW b, NEW c, b <=> c
    PROVE  Listing(q, n, b) <=> Listing(q, n, c)
BY DEF Listing

LEMMA ListingNone ==
    ASSUME NEW q, DOMAIN q = {}, NEW n, NEW b
    PROVE  Listing(q, n, b) <=> b
BY DEF Listing

LEMMA ListingTail ==
    ASSUME NEW q \in Seq(Signal), q # <<>>, NEW n, NEW b, NEW c,
           c <=> IF Head(q) \in ForMenu(n) THEN Adds(Head(q), n) ELSE b
    PROVE  Listing(q, n, b) <=> Listing(Tail(q), n, c)
<1> DEFINE r == Tail(q)
           T == ForMenu(n)
<1>1. Listing(q, n, b) = IF Places(q, T) = {} THEN b ELSE Adds(q[Max(Places(q, T))], n)
    BY ListingAlso
<1>2. Listing(r, n, c) = IF Places(r, T) = {} THEN c ELSE Adds(r[Max(Places(r, T))], n)
    BY ListingAlso
<1>3. /\ Places(r, T) # {} => /\ Places(q, T) # {}
                              /\ r[Max(Places(r, T))] = q[Max(Places(q, T))]
      /\ Places(r, T) = {} /\ Head(q) \in T => /\ Places(q, T) # {}
                                               /\ q[Max(Places(q, T))] = Head(q)
      /\ Places(r, T) = {} /\ Head(q) \notin T => Places(q, T) = {}
    BY LastTail
<1>4. c <=> IF Head(q) \in T THEN Adds(Head(q), n) ELSE b
    OBVIOUS
<1> HIDE DEF r, T
<1>5. Listing(q, n, b) <=> Listing(r, n, c)
    BY <1>1, <1>2, <1>3, <1>4
<1> QED
    BY <1>5 DEF r, T

-----------------------------------------------------------------------------
(* What the steps of a handler come to.                                    *)

LEMMA NothingDue ==
    ASSUME NEW steps, steps = <<>>, NEW d, NEW n, NEW v
    PROVE  After(Due(steps, d), n, v) = v /\ Listing(Due(steps, d), n, v) = v
<1>1. DOMAIN Due(steps, d) = {}
    BY DEF Due
<1> QED
    BY <1>1 DEF After, Listing

LEMMA SendDue ==
    ASSUME NEW s \in Signal, NEW steps, steps = Sends(s), NEW n, NEW v
    PROVE  /\ After(Due(steps, "save"), n, v) = v
           /\ After(Due(steps, "send"), n, v) = IF s \in Sets(n) THEN s.value ELSE v
           /\ Listing(Due(steps, "send"), n, v) = IF s \in ForMenu(n) THEN Adds(s, n) ELSE v
<1>1. DOMAIN Due(steps, "save") = {}
    BY DEF Due, Sends
<1>2. DOMAIN Due(steps, "send") = {1} /\ Due(steps, "send")[1] = s
    BY DEF Due, Sends
<1>3. Max({1}) = 1
    BY DEF Max
<1> DEFINE q == Due(steps, "send")
<1> HIDE DEF q
<1>4. After(q, n, v) = IF s \in Sets(n) THEN s.value ELSE v
    <2>1. {i \in DOMAIN q : q[i].type = "IntOption" /\ q[i].name = n}
            = IF s \in Sets(n) THEN {1} ELSE {}
        BY <1>2 DEF Sets, q
    <2> QED
        BY <1>2, <1>3, <2>1 DEF After, q
<1>5. Listing(q, n, v) = IF s \in ForMenu(n) THEN Adds(s, n) ELSE v
    <2>1. {i \in DOMAIN q : q[i] \in ForMenu(n)} = IF s \in ForMenu(n) THEN {1} ELSE {}
        BY <1>2 DEF q
    <2> QED
        BY <1>2, <1>3, <2>1 DEF Listing, q
<1> QED
    BY <1>1, <1>4, <1>5 DEF After, q

LEMMA SaveDue ==
    ASSUME NEW m \in Names, NEW u \in Value,
           NEW steps, steps = SavesAndSends(Option(m, u)), NEW n, NEW v
    PROVE  /\ After(Due(steps, "save"), n, v) = IF m = n THEN u ELSE v
           /\ After(Due(steps, "send"), n, v) = IF m = n THEN u ELSE v
           /\ Listing(Due(steps, "send"), n, v) = v
<1> DEFINE s == Option(m, u)
           p == Due(steps, "save")
           q == Due(steps, "send")
<1>1. s.type = "IntOption" /\ s.name = m /\ s.value = u
    BY DEF Option
<1>2. /\ DOMAIN p = {1} /\ p[1] = s
      /\ DOMAIN q = {2} /\ q[2] = s
    BY DEF Due, SavesAndSends
<1>3. Max({1}) = 1 /\ Max({2}) = 2
    BY DEF Max
<1> HIDE DEF p, q, s
<1>4. After(p, n, v) = IF m = n THEN u ELSE v
    <2>1. {i \in DOMAIN p : p[i].type = "IntOption" /\ p[i].name = n}
            = IF m = n THEN {1} ELSE {}
        BY <1>1, <1>2
    <2> QED
        BY <1>1, <1>2, <1>3, <2>1 DEF After
<1>5. After(q, n, v) = IF m = n THEN u ELSE v
    <2>1. {i \in DOMAIN q : q[i].type = "IntOption" /\ q[i].name = n}
            = IF m = n THEN {2} ELSE {}
        BY <1>1, <1>2
    <2> QED
        BY <1>1, <1>2, <1>3, <2>1 DEF After
<1>6. Listing(q, n, v) = v
    <2>1. {i \in DOMAIN q : q[i] \in ForMenu(n)} = {}
        BY <1>1, <1>2 DEF ForMenu
    <2> QED
        BY <2>1 DEF Listing
<1> QED
    BY <1>4, <1>5, <1>6 DEF p, q

\* Signals in a queue say what n will be, whatever it is now, or nothing.
LEMMA FromFile ==
    ASSUME NEW steps, HandlerSteps(steps), NEW q \in Seq(Signal),
           NEW n, NEW v, NEW c,
           After(Due(steps, "send"), n, After(q, n, v)) = After(Due(steps, "save"), n, c)
    PROVE  After(Due(steps, "send"), n, After(q, n, c)) = After(Due(steps, "save"), n, c)
<1>1. After(q, n, c) = After(q, n, v) \/ After(q, n, c) = c
    BY AfterAlso
<1>2. CASE steps = <<>>
    BY <1>1, <1>2, NothingDue
<1>3. ASSUME NEW s \in Signal, steps = Sends(s)
      PROVE  After(Due(steps, "send"), n, After(q, n, c)) = After(Due(steps, "save"), n, c)
    <2>1. /\ After(Due(steps, "save"), n, c) = c
          /\ \A w : After(Due(steps, "send"), n, w) = IF s \in Sets(n) THEN s.value ELSE w
        BY <1>3, SendDue
    <2> QED
        BY <1>1, <2>1
<1>4. ASSUME NEW m \in Names, NEW u \in Value, steps = SavesAndSends(Option(m, u))
      PROVE  After(Due(steps, "send"), n, After(q, n, c)) = After(Due(steps, "save"), n, c)
    <2>1. /\ After(Due(steps, "save"), n, c) = IF m = n THEN u ELSE c
          /\ \A w : After(Due(steps, "send"), n, w) = IF m = n THEN u ELSE w
        BY <1>4, SaveDue
    <2> QED
        BY <1>1, <2>1
<1> QED
    BY <1>2, <1>3, <1>4 DEF HandlerSteps

-----------------------------------------------------------------------------
(* The steps.                                                              *)

\* Steps that leave files, signals, options and menu alone.
LEMMA QuietFollows ==
    ASSUME Following, UNCHANGED <<files, todo, bus, options, menu>>,
           replaced \subseteq replaced', unlisted' = unlisted,
           dialog'.op = "rename" => files[dialog'.old] # None
    PROVE  Following'
BY DEF Following, AllFollowed, Followed, Coming, Written, Content,
       MenuWillFollow, Tracked, RenamedHasFile

\* A new value is to be saved and sent.
LEMMA SetFollows ==
    ASSUME Following, NEW m \in Names, NEW u \in Value,
           todo = <<>>, SetOption(m, u), UNCHANGED <<files, bus, options, menu, dialog>>,
           replaced \subseteq replaced', unlisted' = unlisted
    PROVE  Following'
<1>1. todo' = SavesAndSends(Option(m, u))
    BY DEF SetOption, SavesAndSends
<1>2. \A n, v : /\ After(Due(todo', "save"), n, v) = IF m = n THEN u ELSE v
                /\ After(Due(todo', "send"), n, v) = IF m = n THEN u ELSE v
                /\ Listing(Due(todo', "send"), n, v) = v
    BY <1>1, SaveDue
<1>3. \A d, n, v : After(Due(todo, d), n, v) = v /\ Listing(Due(todo, d), n, v) = v
    BY NothingDue
<1>4. HandlerSteps(todo')
    BY <1>1 DEF HandlerSteps
<1>5. AllFollowed'
    BY <1>2, <1>3 DEF Following, AllFollowed, Followed, Coming, Written, Content
<1>6. MenuWillFollow'
    BY <1>2, <1>3 DEF Following, MenuWillFollow, Tracked
<1> QED
    BY <1>4, <1>5, <1>6 DEF Following, RenamedHasFile

\* A profile is copied, renamed or deleted, and the menus are told.
LEMMA TellFollows ==
    ASSUME Following, NEW s \in Signal, s.type # "IntOption",
           todo = <<>>, Tell(s), UNCHANGED <<bus, options, menu>>,
           \A n \in Names \ replaced' : n \notin replaced /\ files'[n] = files[n],
           \A n \in Names : Tracked(n) =>
             IF s \in ForMenu(n) THEN Adds(s, n) <=> files'[n] # None
                                 ELSE files'[n] # None <=> files[n] # None,
           unlisted' = unlisted, dialog'.op # "rename"
    PROVE  Following'
<1>1. todo' = Sends(s)
    BY DEF Tell, Sends
<1>2. \A n : s \notin Sets(n)
    BY DEF Sets
<1>3. \A n, v : /\ After(Due(todo', "save"), n, v) = v
                /\ After(Due(todo', "send"), n, v) = v
                /\ Listing(Due(todo', "send"), n, v)
                     = IF s \in ForMenu(n) THEN Adds(s, n) ELSE v
    BY <1>1, <1>2, SendDue
<1>4. \A d, n, v : After(Due(todo, d), n, v) = v /\ Listing(Due(todo, d), n, v) = v
    BY NothingDue
<1>5. HandlerSteps(todo')
    BY <1>1 DEF HandlerSteps
<1>6. AllFollowed'
    BY <1>3, <1>4 DEF Following, AllFollowed, Followed, Coming, Written, Content
<1>7. MenuWillFollow'
    BY <1>3, <1>4 DEF Following, MenuWillFollow, Tracked
<1> QED
    BY <1>5, <1>6, <1>7 DEF Following, RenamedHasFile

LEMMA NoneIsNoValue == \A v \in Value : v # None
BY BoundsAssumption DEF None

LEMMA SaveFollows ==
    ASSUME Sharing, AskedKnows, Following, Save, UNCHANGED <<options, menu>>
    PROVE  Following'
<1>1. PICK m \in Names, u \in Value : todo = SavesAndSends(Option(m, u))
    BY DEF Following, HandlerSteps, Save, Sends
<1> DEFINE s == Option(m, u)
<1>2. s \in Signal /\ s.name = m /\ s.value = u /\ s.type = "IntOption"
    BY SignalTypes DEF Option
<1>3. /\ todo' = Sends(s) /\ files' = [files EXCEPT ![m] = u]
      /\ unlisted' = IF files[m] = None THEN unlisted \cup {m} ELSE unlisted
      /\ UNCHANGED <<bus, replaced, dialog>>
    <2> HIDE DEF s
    <2>1. Head(todo).what = s /\ Tail(todo) = Sends(s)
        BY <1>1 DEF SavesAndSends, Sends, s
    <2> QED
        BY <1>2, <2>1 DEF Save, manager
<1>4. files \in [Names -> Value \cup {None}] /\ u # None
    <2>1. files \in [Names -> Value \cup {None}]
        BY DEF Sharing, TypeOK, ToolTypeOK
    <2>2. u # None
        BY <1>1, NoneIsNoValue
    <2> QED
        BY <2>1, <2>2
<1> HIDE DEF s
<1>5. \A n, v : /\ After(Due(todo, "save"), n, v) = IF m = n THEN u ELSE v
                /\ After(Due(todo, "send"), n, v) = IF m = n THEN u ELSE v
                /\ Listing(Due(todo, "send"), n, v) = v
    BY <1>1, SaveDue
<1>6. \A n \in Names : (s \in Sets(n) <=> m = n) /\ s \notin ForMenu(n)
    BY <1>2 DEF Sets, ForMenu
<1>7. \A n \in Names : \A v :
         /\ After(Due(todo', "save"), n, v) = v
         /\ After(Due(todo', "send"), n, v) = IF m = n THEN u ELSE v
         /\ Listing(Due(todo', "send"), n, v) = v
    BY <1>2, <1>3, <1>6, SendDue
<1>8. HandlerSteps(todo')
    BY <1>2, <1>3 DEF HandlerSteps
<1>9. /\ files'[m] = u /\ \A n \in Names \ {m} : files'[n] = files[n]
      /\ \A n \in Names : (Content(n))' = IF m = n THEN u ELSE Content(n)
    BY <1>3, <1>4 DEF Content
<1>10. AllFollowed'
    BY <1>3, <1>5, <1>7, <1>9 DEF Following, AllFollowed, Followed, Coming, Written
<1>11. MenuWillFollow'
    <2>1. \A n \in Names : (Tracked(n))' => Tracked(n) /\ (files'[n] # None <=> files[n] # None)
        BY <1>3, <1>4, <1>9 DEF Tracked
    <2> QED
        BY <1>3, <1>5, <1>7, <2>1 DEF Following, MenuWillFollow
<1>12. RenamedHasFile'
    <2>1. dialog' = NoDialog
        BY <1>3 DEF AskedKnows, Save
    <2> QED
        BY <2>1 DEF RenamedHasFile, NoDialog
<1> QED
    BY <1>8, <1>10, <1>11, <1>12 DEF Following

LEMMA SendFollows ==
    ASSUME Sharing, Following, Send, UNCHANGED <<options, menu>>
    PROVE  Following'
<1>1. PICK s \in Signal : todo = Sends(s)
    BY DEF Following, HandlerSteps, Send, SavesAndSends
<1>2. /\ todo' = <<>> /\ bus' = Append(bus, s) /\ bus \in Seq(Signal)
      /\ UNCHANGED <<files, dialog, replaced, unlisted>>
    BY <1>1 DEF Send, Sends, manager, history, Sharing, TypeOK, ToolTypeOK
<1>3. Joined(bus, s, bus')
    BY <1>2 DEF Joined
<1>4. \A n, v : /\ After(Due(todo, "save"), n, v) = v
                /\ After(Due(todo, "send"), n, v) = IF s \in Sets(n) THEN s.value ELSE v
                /\ Listing(Due(todo, "send"), n, v)
                     = IF s \in ForMenu(n) THEN Adds(s, n) ELSE v
    BY <1>1, SendDue
<1>5. \A d, n, v : After(Due(todo', d), n, v) = v /\ Listing(Due(todo', d), n, v) = v
    BY <1>2, NothingDue
<1>6. \A n, v : /\ After(bus', n, v) = IF s \in Sets(n) THEN s.value ELSE After(bus, n, v)
                /\ Listing(bus', n, v) = IF s \in ForMenu(n) THEN Adds(s, n)
                                         ELSE Listing(bus, n, v)
    BY <1>2, <1>3, AfterAppended, ListingAppended
<1>7. AllFollowed'
    BY <1>2, <1>4, <1>5, <1>6
       DEF Following, AllFollowed, Followed, Coming, Written, Content
<1>8. MenuWillFollow'
    BY <1>2, <1>4, <1>5, <1>6 DEF Following, MenuWillFollow, Tracked
<1> QED
    BY <1>2, <1>7, <1>8 DEF Following, HandlerSteps, RenamedHasFile

\* What a terminal knows of a profile it knew before or read from the file.
KnownOrRead(opts) ==
    \A n \in Names : opts[n].ref > 0 =>
      \/ options[n].ref > 0 /\ opts[n].value = options[n].value
      \/ opts[n].value = Content(n)

LEMMA ReadFollows ==
    ASSUME Following, KnownOrRead(options'),
           UNCHANGED <<files, todo, bus, menu, history, dialog>>
    PROVE  Following'
BY DEF Following, AllFollowed, Followed, Coming, Written, Content,
       MenuWillFollow, Tracked, RenamedHasFile, KnownOrRead, history

LEMMA TermFollows ==
    ASSUME Sharing, Following, TermActs
    PROVE  Following'
<1>1. options \in Table
    BY DEF Sharing, TypeOK, Table
<1>2. \A n \in Names : options[n].ref \in Nat
    BY <1>1 DEF Table
<1>3. ASSUME NEW n \in Names PROVE KnownOrRead(LookupAndRef(options, n))
    <2> DEFINE opts == LookupAndRef(options, n)
    <2>1. /\ options[n].ref > 0 => opts[n].value = options[n].value
          /\ options[n].ref = 0 => opts[n].value = Content(n)
          /\ \A m \in Names \ {n} : opts[m] = options[m]
        BY <1>1, LookupEffect DEF Sharing, TypeOK
    <2> HIDE DEF opts
    <2>2. KnownOrRead(opts)
        BY <1>2, <2>1 DEF KnownOrRead
    <2> QED
        BY <2>2 DEF opts
<1>4. ASSUME NEW n \in Names
      PROVE  KnownOrRead(Unref(LookupAndRef(LookupAndRef(options, n), n), n))
    <2> DEFINE once == LookupAndRef(options, n)
               twice == LookupAndRef(once, n)
    <2>1. /\ once \in Table /\ once[n].ref = options[n].ref + 1
          /\ options[n].ref > 0 => once[n].value = options[n].value
          /\ options[n].ref = 0 => once[n].value = Content(n)
          /\ \A m \in Names \ {n} : once[m] = options[m]
        BY <1>1, LookupEffect DEF Sharing, TypeOK
    <2>2. once[n].ref > 0
        BY <1>2, <2>1
    <2> HIDE DEF once
    <2>3. /\ twice \in Table /\ twice[n].ref = once[n].ref + 1
          /\ twice[n].value = once[n].value
          /\ \A m \in Names \ {n} : twice[m] = once[m]
        BY <2>1, <2>2, LookupEffect DEF Sharing, TypeOK
    <2>4. twice[n].ref > 0 /\ twice[n].ref > 1
        BY <1>2, <2>1, <2>3
    <2> HIDE DEF twice
    <2>5. /\ Unref(twice, n)[n].value = twice[n].value
          /\ \A m \in Names \ {n} : Unref(twice, n)[m] = twice[m]
        BY <2>3, <2>4, UnrefEffect
    <2>6. KnownOrRead(Unref(twice, n))
        BY <1>2, <2>1, <2>3, <2>5 DEF KnownOrRead
    <2> QED
        BY <2>6 DEF twice, once
<1>5. ASSUME NEW n \in Names, options[n].ref > 0 PROVE KnownOrRead(Unref(options, n))
    <2> DEFINE opts == Unref(options, n)
    <2>1. /\ opts[n].ref = options[n].ref - 1
          /\ options[n].ref > 1 => opts[n].value = options[n].value
          /\ \A m \in Names \ {n} : opts[m] = options[m]
        BY <1>1, <1>5, UnrefEffect
    <2> HIDE DEF opts
    <2>2. opts[n].ref > 0 => options[n].ref > 1
        BY <1>2, <2>1
    <2>3. KnownOrRead(opts)
        BY <1>5, <2>1, <2>2 DEF KnownOrRead
    <2> QED
        BY <2>3 DEF opts
<1>6. ASSUME NEW n \in Names, NEW old \in Names, options[old].ref > 0
      PROVE  KnownOrRead(Select(options, old, n))
    <2>1. CASE old = n
        <3>1. Select(options, old, n) = options
            BY <1>1, <1>6, <2>1, SelectSame DEF Sharing, TypeOK
        <3> QED
            BY <3>1 DEF KnownOrRead
    <2>2. CASE old # n
        <3> DEFINE opts == Select(options, old, n)
        <3>1. /\ opts[old].ref = options[old].ref - 1
              /\ options[old].ref > 1 => opts[old].value = options[old].value
              /\ options[n].ref > 0 => opts[n].value = options[n].value
              /\ options[n].ref = 0 => opts[n].value = Content(n)
              /\ \A m \in Names \ {old, n} : opts[m] = options[m]
            BY <1>1, <1>6, <2>2, SelectEffect DEF Sharing, TypeOK
        <3> HIDE DEF opts
        <3>2. opts[old].ref > 0 => options[old].ref > 1
            BY <1>2, <3>1
        <3>3. KnownOrRead(opts)
            BY <1>2, <1>6, <3>1, <3>2 DEF KnownOrRead
        <3> QED
            BY <3>3 DEF opts
    <2> QED
        BY <2>1, <2>2
<1>7. \A t \in Live : /\ t \in Terms /\ profile[t] \in Names
                      /\ options[profile[t]].ref > 0
    BY Referred DEF Sharing
<1>8. CASE UNCHANGED <<toolVars, menu>> /\ KnownOrRead(options')
    BY <1>8, ReadFollows DEF toolVars, manager
<1>9. ASSUME NEW t \in Terms, NEW n \in Names, NEW opts,
             KnownOrRead(opts), NewTerm(t, opts, n)
      PROVE  Following'
    BY <1>8, <1>9 DEF NewTerm
<1>10. ASSUME NEW t \in Terms, NEW n \in Names, Launch(t, n) PROVE Following'
    BY <1>3, <1>9, <1>10 DEF Launch
<1>11. ASSUME NEW t \in Terms, NEW s \in Terms, Clone(t, s) PROVE Following'
    BY <1>3, <1>7, <1>9, <1>11 DEF Clone
<1>12. ASSUME NEW t \in Terms, NEW s \in Terms, NEW n \in Names,
              NewWithProfile(t, s, n)
       PROVE  Following'
    BY <1>4, <1>9, <1>12 DEF NewWithProfile
<1>13. ASSUME NEW t \in Terms, Close(t) PROVE Following'
    BY <1>5, <1>7, <1>8, <1>13 DEF Close
<1>14. ASSUME NEW t \in Live, NEW n \in Names, ChangeTo(t, n) PROVE Following'
    BY <1>6, <1>7, <1>8, <1>14 DEF ChangeTo
<1>15. ASSUME NEW t \in Terms, NEW n \in Names, SelectProfile(t, n) \/ SetProfile(t, n)
       PROVE  Following'
    BY <1>14, <1>15 DEF SelectProfile, SetProfile
<1>16. ASSUME NEW n, EditFromTerminal(n), UNCHANGED termVars PROVE Following'
    BY <1>16, QuietFollows
       DEF EditFromTerminal, OpenEditor, manager, history, termVars, Following, RenamedHasFile
<1> QED
    BY <1>10, <1>11, <1>12, <1>13, <1>15, <1>16 DEF TermActs

\* What a signal about options does to the table.
LEMMA OptionEffect ==
    ASSUME Sharing, NEW s \in Signal, OptionArrives(s)
    PROVE  /\ UNCHANGED menu
           /\ \A n \in Names : options'[n].ref = options[n].ref
           /\ options[s.name].ref > 0 => options'[s.name].value = s.value
           /\ \A n \in Names \ {s.name} : options'[n] = options[n]
<1> DEFINE n == s.name
           looked == LookupAndRef(options, n)
           updated == [looked EXCEPT ![n].value = s.value]
<1>1. n \in Names /\ s.value \in Value
    BY DEF Signal
<1>2. options \in Table /\ options[n].ref \in Nat
    BY <1>1 DEF Sharing, TypeOK, Table
<1>3. /\ looked \in Table
      /\ looked[n].ref = options[n].ref + 1
      /\ \A m \in Names \ {n} : looked[m] = options[m]
    BY <1>1, <1>2, LookupEffect DEF Sharing, TypeOK
<1>4. options' = Unref(updated, n) /\ UNCHANGED menu
    BY DEF OptionArrives
<1> HIDE DEF looked
<1>5. /\ updated \in Table
      /\ updated[n].ref = options[n].ref + 1 /\ updated[n].value = s.value
      /\ \A m \in Names \ {n} : updated[m] = options[m]
    BY <1>1, <1>3 DEF Table
<1> HIDE DEF updated
<1>6. updated[n].ref > 0 /\ (options[n].ref > 0 => updated[n].ref > 1)
    BY <1>2, <1>5
<1>7. /\ options'[n].ref = updated[n].ref - 1
      /\ updated[n].ref > 1 => options'[n].value = updated[n].value
      /\ \A m \in Names \ {n} : options'[m] = updated[m]
    BY <1>1, <1>4, <1>5, <1>6, UnrefEffect
<1> QED
    BY <1>1, <1>2, <1>4, <1>5, <1>6, <1>7

LEMMA MenuEffect ==
    ASSUME NEW s \in Signal, s.type # "IntOption", MenuChanges(s), NEW n \in Names
    PROVE  n \in menu' <=> IF s \in ForMenu(n) THEN Adds(s, n) ELSE n \in menu
<1>1. s.type \in {"OptionsDeleted", "OptionsAdded", "OptionsRenamed"}
    BY DEF Signal
<1>2. s.type # "OptionsRenamed" => s.new # n
    BY NoNameAssumption DEF Signal
<1>3. s \in ForMenu(n) <=> n \in {s.name, s.new}
    BY DEF ForMenu
<1>4. CASE s.type = "OptionsDeleted"
    BY <1>2, <1>3, <1>4 DEF MenuChanges, Adds
<1>5. CASE s.type = "OptionsAdded"
    BY <1>2, <1>3, <1>5 DEF MenuChanges, Adds
<1>6. CASE s.type = "OptionsRenamed"
    BY <1>3, <1>6 DEF MenuChanges, Adds
<1> QED
    BY <1>1, <1>4, <1>5, <1>6

LEMMA ReceiveFollows ==
    ASSUME Sharing, Following, Receive
    PROVE  Following'
<1> DEFINE s == Head(bus)
<1>1. /\ bus \in Seq(Signal) /\ bus # <<>>
      /\ s \in Signal /\ bus' = Tail(bus) /\ Tail(bus) \in Seq(Signal)
    BY TailType DEF Receive, Sharing, TypeOK, ToolTypeOK
<1>2. UNCHANGED <<files, todo, dialog, history>>
    BY DEF Receive, manager
<1>3. \A n, v : After(bus, n, v) = After(bus', n, IF s \in Sets(n) THEN s.value ELSE v)
    BY <1>1, AfterTail
<1>4. ASSUME \A n \in Names : n \in menu' <=> IF s \in ForMenu(n) THEN Adds(s, n)
                                                              ELSE n \in menu
      PROVE  MenuWillFollow'
    <2>1. ASSUME NEW n \in Names, (Tracked(n))'
          PROVE  Listing(Due(todo, "send"), n, Listing(bus', n, n \in menu'))
                 <=> files[n] # None
        <3>1. Listing(bus, n, n \in menu) <=> Listing(bus', n, n \in menu')
            <4> DEFINE b == n \in menu
                       c == n \in menu'
            <4>1. c <=> IF s \in ForMenu(n) THEN Adds(s, n) ELSE b
                BY <1>4
            <4> HIDE DEF b, c
            <4>2. Listing(bus, n, b) <=> Listing(bus', n, c)
                BY <1>1, <4>1, ListingTail
            <4> QED
                BY <4>2 DEF b, c
        <3>2. Listing(Due(todo, "send"), n, Listing(bus, n, n \in menu))
              <=> Listing(Due(todo, "send"), n, Listing(bus', n, n \in menu'))
            BY <3>1, ListingEquiv
        <3>3. Tracked(n)
            BY <1>2, <2>1 DEF Tracked, history
        <3>4. Listing(Due(todo, "send"), n, Listing(bus, n, n \in menu)) <=> files[n] # None
            BY <3>3 DEF Following, MenuWillFollow
        <3> QED
            BY <3>2, <3>4
    <2> QED
        BY <1>2, <2>1 DEF MenuWillFollow
<1>5. CASE s.type = "IntOption"
    <2>1. /\ UNCHANGED menu
          /\ \A n \in Names : options'[n].ref = options[n].ref
          /\ options[s.name].ref > 0 => options'[s.name].value = s.value
          /\ \A n \in Names \ {s.name} : options'[n] = options[n]
        BY <1>1, <1>5, OptionEffect DEF Receive
    <2>2. \A n \in Names : (s \in Sets(n) <=> s.name = n) /\ s \notin ForMenu(n)
        BY <1>1, <1>5 DEF Sets, ForMenu
    <2> HIDE DEF s
    <2>3. ASSUME NEW n \in Names \ replaced PROVE (Followed(n))'
        <3> DEFINE to == Due(todo, "send")
                   w == After(Due(todo, "save"), n, Content(n))
        <3>1. /\ After(to, n, After(bus, n, Content(n))) = w
              /\ options[n].ref > 0 => After(to, n, After(bus, n, options[n].value)) = w
            BY DEF Following, AllFollowed, Followed, Coming, Written
        <3>2. After(to, n, After(bus', n, Content(n))) = w
            <4>1. \E v : After(to, n, After(bus', n, v)) = w
                BY <1>3, <3>1
            <4>2. HandlerSteps(todo) /\ bus' \in Seq(Signal)
                BY <1>1 DEF Following
            <4> QED
                BY <4>1, <4>2, FromFile
        <3>3. options'[n].ref > 0 => After(to, n, After(bus', n, options'[n].value)) = w
            BY <1>3, <2>1, <2>2, <3>1
        <3>4. (Content(n))' = Content(n)
            BY <1>2 DEF Content
        <3> QED
            BY <1>2, <3>2, <3>3, <3>4 DEF Followed, Coming, Written
    <2>4. MenuWillFollow'
        BY <1>4, <2>1, <2>2
    <2> QED
        BY <1>2, <2>3, <2>4 DEF Following, AllFollowed, RenamedHasFile, history
<1>6. CASE s.type # "IntOption"
    <2>1. MenuChanges(s)
        BY <1>6 DEF Receive
    <2>2. \A n : s \notin Sets(n)
        BY <1>6 DEF Sets
    <2> HIDE DEF s
    <2>3. /\ UNCHANGED options
          /\ \A n \in Names : n \in menu' <=> IF s \in ForMenu(n) THEN Adds(s, n)
                                                                ELSE n \in menu
        <3>1. UNCHANGED options
            BY <2>1 DEF MenuChanges
        <3>2. ASSUME NEW n \in Names
              PROVE  n \in menu' <=> IF s \in ForMenu(n) THEN Adds(s, n) ELSE n \in menu
            BY <1>1, <1>6, <2>1, MenuEffect
        <3> QED
            BY <3>1, <3>2
    <2>4. AllFollowed'
        BY <1>2, <1>3, <2>2, <2>3
           DEF Following, AllFollowed, Followed, Coming, Written, Content, history
    <2>5. MenuWillFollow'
        BY <1>4, <2>3
    <2> QED
        BY <1>2, <2>4, <2>5 DEF Following, RenamedHasFile, history
<1> QED
    BY <1>5, <1>6

LEMMA ToolFollows ==
    ASSUME Sharing, AskedKnows, Following, ToolActs
    PROVE  Following'
<1>1. UNCHANGED <<options, menu>>
    BY DEF ToolActs, termVars
<1>2. CASE Save
    BY <1>1, <1>2, SaveFollows
<1>3. CASE Send
    BY <1>1, <1>3, SendFollows
<1>4. CASE OpenManager \/ CloseManager \/ CancelName
    BY <1>1, <1>4, QuietFollows
       DEF OpenManager, CloseManager, CancelName, NoDialog, history, Following, RenamedHasFile
<1>5. ASSUME NEW n \in Names, EditRow(n) \/ ToggleRadio(n) PROVE Following'
    BY <1>1, <1>5, QuietFollows
       DEF EditRow, OpenEditor, ToggleRadio, Change, manager, history, Following, RenamedHasFile
<1>6. ASSUME NEW n \in Names, CopyClicked(n) \/ RenameClicked(n) PROVE Following'
    BY <1>1, <1>6, QuietFollows
       DEF CopyClicked, RenameClicked, AskName, MayRemove, history
<1>7. ASSUME NEW n \in Names, NEW v \in Value, EditOption(n, v) PROVE Following'
    BY <1>1, <1>7, SetFollows DEF EditOption, UserCanAct, Idle, Change, manager
<1>8. ASSUME NEW n \in Names, CloseEditor(n) PROVE Following'
    <2>1. CASE UNCHANGED <<todo, history>>
        BY <1>1, <1>8, <2>1, QuietFollows
           DEF CloseEditor, manager, history, Following, RenamedHasFile
    <2>2. ASSUME NEW v \in Value, SetOption(n, v), Change({}) PROVE Following'
        BY <1>1, <1>8, <2>2, SetFollows DEF CloseEditor, UserCanAct, Idle, Change, manager
    <2> QED
        BY <1>8, <2>1, <2>2 DEF CloseEditor
<1>9. files \in [Names -> Value \cup {None}]
    BY DEF Sharing, TypeOK, ToolTypeOK
<1>10. ASSUME NEW n \in Names, Copy(n) PROVE Following'
    <2> DEFINE s == Added(n)
    <2>1. /\ todo = <<>> /\ dialog # NoDialog /\ dialog' = NoDialog
          /\ n \in Names /\ n \notin dialog.existing
          /\ files' = [files EXCEPT ![n] = Content(dialog.old)]
          /\ replaced' = replaced \cup {n} /\ unlisted' = unlisted
          /\ Tell(s) /\ UNCHANGED bus
        BY <1>10 DEF Copy, Idle, Change, NoDialog
    <2>2. files[n] = None
        BY <2>1 DEF AskedKnows
    <2>3. dialog.old \in Names
        BY <2>1 DEF Sharing, TypeOK, ToolTypeOK
    <2>4. Content(dialog.old) # None
        BY <2>3, ContentType, NoneIsNoValue DEF Sharing, TypeOK
    <2>5. /\ s \in Signal /\ s.type # "IntOption"
          /\ \A m \in Names : (s \in ForMenu(m) <=> m = n) /\ (Adds(s, m) <=> m = n)
        <3>1. s \in Signal /\ s.type = "OptionsAdded" /\ s.name = n /\ s.new = NoName
            BY SignalTypes DEF Added
        <3> HIDE DEF s
        <3> QED
            BY <3>1, NoNameAssumption DEF ForMenu, Adds
    <2>6. files'[n] # None /\ \A m \in Names \ {n} : files'[m] = files[m]
        BY <1>9, <2>1, <2>4
    <2> HIDE DEF s
    <2> QED
        BY <1>1, <2>1, <2>5, <2>6, TellFollows DEF NoDialog
<1>11. ASSUME NEW n \in Names, Rename(n) PROVE Following'
    <2> DEFINE old == dialog.old
               s == Renamed(old, n)
    <2>1. /\ todo = <<>> /\ dialog # NoDialog /\ dialog' = NoDialog
          /\ dialog.op = "rename" /\ n \notin dialog.existing
          /\ files' = [files EXCEPT ![n] = files[old], ![old] = None]
          /\ replaced' = replaced \cup {old, n} /\ unlisted' = unlisted
          /\ Tell(s) /\ UNCHANGED bus
        BY <1>11 DEF Rename, Idle, Change, NoDialog
    <2>2. old \in Names /\ files[old] # None
        BY <2>1 DEF Sharing, TypeOK, ToolTypeOK, Following, RenamedHasFile
    <2>3. files[n] = None /\ n # old
        BY <2>1, <2>2 DEF AskedKnows
    <2> HIDE DEF old
    <2>4. /\ s \in Signal /\ s.type # "IntOption"
          /\ \A m \in Names : /\ s \in ForMenu(m) <=> m \in {old, n}
                              /\ Adds(s, m) <=> m = n
        <3>1. s \in Signal /\ s.type = "OptionsRenamed" /\ s.name = old /\ s.new = n
            BY <2>2, SignalTypes DEF Renamed
        <3> HIDE DEF s
        <3> QED
            BY <3>1 DEF ForMenu, Adds
    <2>5. /\ files'[n] # None /\ files'[old] = None
          /\ \A m \in Names \ {old, n} : files'[m] = files[m]
        BY <1>9, <2>1, <2>2, <2>3
    <2> HIDE DEF s
    <2> QED
        BY <1>1, <2>1, <2>3, <2>4, <2>5, TellFollows DEF NoDialog
<1>12. ASSUME NEW n \in Names, DeleteClicked(n) PROVE Following'
    <2> DEFINE s == Deleted(n)
    <2>1. /\ todo = <<>> /\ dialog = NoDialog /\ dialog' = dialog
          /\ files' = [files EXCEPT ![n] = None]
          /\ replaced' = replaced \cup {n} /\ unlisted' = unlisted /\ UNCHANGED bus
          /\ RemoveName(n, files')
        BY <1>12 DEF DeleteClicked, UserCanAct, Idle, Change
    <2>2. files'[n] = None /\ \A m \in Names \ {n} : files'[m] = files[m]
        BY <1>9, <2>1
    <2>3. n \in Listed(files') <=> n \in {Default} \cup System
        BY <2>2 DEF Listed
    <2>4. CASE n \in Listed(files')
        <3>1. UNCHANGED todo
            BY <2>1, <2>4 DEF RemoveName
        <3>2. AllFollowed'
            BY <1>1, <2>1, <2>2, <3>1
               DEF Following, AllFollowed, Followed, Coming, Written, Content
        <3>3. MenuWillFollow'
            BY <1>1, <2>1, <2>2, <2>3, <2>4, <3>1 DEF Following, MenuWillFollow, Tracked
        <3> QED
            BY <2>1, <3>1, <3>2, <3>3 DEF Following, RenamedHasFile, NoDialog
    <2>5. CASE n \notin Listed(files')
        <3>1. Tell(s)
            BY <2>1, <2>5 DEF RemoveName
        <3>2. /\ s \in Signal /\ s.type # "IntOption"
              /\ \A m \in Names : (s \in ForMenu(m) <=> m = n) /\ ~ Adds(s, m)
            <4>1. s \in Signal /\ s.type = "OptionsDeleted" /\ s.name = n /\ s.new = NoName
                BY SignalTypes DEF Deleted
            <4> HIDE DEF s
            <4> QED
                BY <4>1, NoNameAssumption DEF ForMenu, Adds
        <3> HIDE DEF s
        <3> QED
            BY <1>1, <2>1, <2>2, <3>1, <3>2, TellFollows DEF NoDialog
    <2> QED
        BY <2>4, <2>5
<1> QED
    BY <1>2, <1>3, <1>4, <1>5, <1>6, <1>7, <1>8, <1>10, <1>11, <1>12
       DEF ToolActs, ToolNext

LEMMA FollowingInductive ==
    /\ Init => Following
    /\ Sharing /\ AskedKnows /\ Following /\ [Next]_vars => Following'
<1>1. ASSUME Init PROVE Following
    <2>1. /\ todo = <<>> /\ bus = <<>> /\ dialog = NoDialog /\ menu = Listed(files)
          /\ \A n \in Names : options[n].ref = 0
        BY <1>1 DEF Init, ToolInit, Absent
    <2>2. /\ \A n, v : After(bus, n, v) = v
          /\ \A n, b : Listing(bus, n, b) <=> b
        <3>1. DOMAIN bus = {}
            BY <2>1
        <3> QED
            BY <3>1, ListingNone DEF After
    <2>3. /\ \A d, n, v : After(Due(todo, d), n, v) = v
          /\ \A d, n, b : Listing(Due(todo, d), n, b) <=> b
        BY <2>1, NothingDue
    <2>4. AllFollowed
        BY <2>1, <2>2, <2>3 DEF AllFollowed, Followed, Coming, Written
    <2>5. MenuWillFollow
        <3>1. ASSUME NEW n \in Names, Tracked(n)
              PROVE  Listing(Due(todo, "send"), n, Listing(bus, n, n \in menu))
                     <=> files[n] # None
            <4>1. Listing(Due(todo, "send"), n, Listing(bus, n, n \in menu)) <=> n \in menu
                BY <2>2, <2>3, ListingEquiv
            <4>2. n \in menu <=> files[n] # None
                BY <2>1, <3>1 DEF Tracked, Listed
            <4> QED
                BY <4>1, <4>2
        <3> QED
            BY <3>1 DEF MenuWillFollow
    <2> QED
        BY <2>1, <2>4, <2>5 DEF Following, HandlerSteps, RenamedHasFile, NoDialog
<1>2. ASSUME Sharing, AskedKnows, Following, [Next]_vars PROVE Following'
    <2>1. CASE UNCHANGED vars
        BY <1>2, <2>1, QuietFollows
           DEF vars, toolVars, termVars, manager, history, Following, RenamedHasFile
    <2> QED
        BY <1>2, <2>1, ToolFollows, TermFollows, ReceiveFollows DEF Next
<1> QED
    BY <1>1, <1>2

LEMMA FollowingAlways == Spec => []Following
<1>1. Init => AskedKnows
    BY DEF Init, ToolInit, AskedKnows, NoDialog
<1>2. Sharing /\ AskedKnows /\ [Next]_vars => AskedKnows'
    BY AskedInductive
<1> QED
    BY <1>1, <1>2, FollowingInductive, SharingAlways, PTL DEF Spec

\* Whatever was read between a save and its signal, the signals on their way
\* lead the options that terminals share to what the file says.
THEOREM CacheCorrect == Spec => []CacheFollowsFile
<1>1. Following => CacheFollowsFile
    BY DEF Following, AllFollowed, Followed, Coming, Written, CacheFollowsFile
<1> QED
    BY <1>1, FollowingAlways, PTL

\* The signals about profiles leave the menu with those that have a file.
THEOREM MenuCorrect == Spec => []MenuFollowsFiles
<1>1. Sharing /\ Following => MenuFollowsFiles
    <2> SUFFICES ASSUME Following, todo = <<>>, bus = <<>>, NEW n \in Names, Tracked(n)
                 PROVE  n \in menu <=> files[n] # None
        BY DEF MenuFollowsFiles, Tracked
    <2>1. Listing(bus, n, n \in menu) <=> n \in menu
        <3> DEFINE q == bus
                   b == n \in menu
        <3>1. DOMAIN q = {}
            OBVIOUS
        <3> HIDE DEF q, b
        <3>2. Listing(q, n, b) <=> b
            BY <3>1, ListingNone
        <3> QED
            BY <3>2 DEF q, b
    <2>2. Listing(Due(todo, "send"), n, Listing(bus, n, n \in menu))
          <=> Listing(bus, n, n \in menu)
        BY NothingDue
    <2>3. Listing(Due(todo, "send"), n, Listing(bus, n, n \in menu)) <=> files[n] # None
        BY DEF Following, MenuWillFollow
    <2> QED
        BY <2>1, <2>2, <2>3
<1> QED
    BY <1>1, SharingAlways, FollowingAlways, PTL
=============================================================================
