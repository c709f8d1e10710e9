--------------------------- MODULE MultiTab_proofs ---------------------------
(***************************************************************************)
(* The safety properties of MultiTab hold for any number of windows, tabs  *)
(* and dialogs, and MultiTab implements TabOwnership.  The first part says *)
(* what the operators of TabWindow do to one window that satisfies         *)
(* WindowOK, whatever its tabs and however many.                           *)
(***************************************************************************)
EXTENDS MultiTabProperties, SequenceTheorems, TLAPS

-----------------------------------------------------------------------------
(* Sequences without repetition.                                           *)

\* A list of tabs in which no tab occurs twice.
TabList(s) == s \in Seq(Tab) /\ IsInjective(s)

LEMMA ToSetMember ==
    ASSUME NEW S, NEW s \in Seq(S), NEW t
    PROVE  t \in ToSet(s) <=> \E i \in 1 .. Len(s) : s[i] = t
BY DEF ToSet

LEMMA ToSetTabs == ASSUME NEW s \in Seq(Tab) PROVE ToSet(s) \subseteq Tab
BY DEF ToSet

LEMMA ToSetEmpty ==
    ASSUME NEW s \in Seq(Tab)
    PROVE  /\ ToSet(s) = {} <=> s = <<>>
           /\ Len(s) = 0 <=> s = <<>>
BY EmptySeq DEF ToSet

\* g_list_index finds the one position of a listed element.
LEMMA IndexOfElement ==
    ASSUME NEW S, NEW s \in Seq(S), IsInjective(s), NEW t \in ToSet(s)
    PROVE  /\ IndexOf(s, t) \in 1 .. Len(s)
           /\ s[IndexOf(s, t)] = t
           /\ \A i \in 1 .. Len(s) : s[i] = t => i = IndexOf(s, t)
<1>1. \E i \in DOMAIN s : s[i] = t
    BY DEF ToSet
<1>2. IndexOf(s, t) \in DOMAIN s /\ s[IndexOf(s, t)] = t
    BY <1>1 DEF IndexOf
<1>3. DOMAIN s = 1 .. Len(s)
    OBVIOUS
<1> QED
    BY <1>2, <1>3 DEF IsInjective

LEMMA IndexOfProperties ==
    ASSUME NEW s, TabList(s), NEW t \in ToSet(s)
    PROVE  /\ IndexOf(s, t) \in 1 .. Len(s)
           /\ s[IndexOf(s, t)] = t
           /\ \A i \in 1 .. Len(s) : s[i] = t => i = IndexOf(s, t)
BY IndexOfElement DEF TabList

\* Taking out the element at position i.
LEMMA RemoveAtProperties ==
    ASSUME NEW S, NEW s \in Seq(S), NEW i \in 1 .. Len(s)
    PROVE  /\ RemoveAt(s, i) \in Seq(S)
           /\ Len(RemoveAt(s, i)) = Len(s) - 1
           /\ \A j \in 1 .. Len(s) - 1 :
                  RemoveAt(s, i)[j] = IF j < i THEN s[j] ELSE s[j + 1]
<1> DEFINE a == SubSeq(s, 1, i - 1)
           b == SubSeq(s, i + 1, Len(s))
<1>1. /\ a \in Seq(S) /\ Len(a) = i - 1
      /\ \A j \in 1 .. i - 1 : a[j] = s[j]
    BY SubSeqProperties
<1>2. /\ b \in Seq(S) /\ Len(b) = Len(s) - i
      /\ \A j \in 1 .. Len(s) - i : b[j] = s[i + j]
    BY SubSeqProperties
<1> HIDE DEF a, b
<1>3. RemoveAt(s, i) = a \o b
    BY DEF RemoveAt, a, b
<1>4. /\ a \o b \in Seq(S) /\ Len(a \o b) = Len(a) + Len(b)
      /\ \A j \in 1 .. Len(a) + Len(b) :
             (a \o b)[j] = IF j <= Len(a) THEN a[j] ELSE b[j - Len(a)]
    BY <1>1, <1>2, ConcatProperties
<1>5. ASSUME NEW j \in 1 .. Len(s) - 1
      PROVE  (a \o b)[j] = IF j < i THEN s[j] ELSE s[j + 1]
    <2>1. CASE j < i
        BY <1>1, <1>2, <1>4, <2>1
    <2>2. CASE ~(j < i)
        <3>1. (a \o b)[j] = b[j - (i - 1)]
            BY <1>1, <1>2, <1>4, <2>2
        <3>2. j - (i - 1) \in 1 .. Len(s) - i
            BY <2>2
        <3>3. b[j - (i - 1)] = s[i + (j - (i - 1))]
            BY <1>2, <3>2
        <3>4. i + (j - (i - 1)) = j + 1
            OBVIOUS
        <3> QED
            BY <2>2, <3>1, <3>3, <3>4
    <2> QED
        BY <2>1, <2>2
<1> QED
    BY <1>1, <1>2, <1>3, <1>4, <1>5

\* r is s with e put in front of the element at position i.
Inserted(r, s, i, e) ==
    \A j \in 1 .. Len(s) + 1 : r[j] = IF j < i THEN s[j]
                                       ELSE IF j = i THEN e ELSE s[j - 1]

LEMMA InsertAtProperties ==
    ASSUME NEW s \in Seq(Tab), NEW i \in 1 .. Len(s) + 1, NEW e \in Tab
    PROVE  /\ InsertAt(s, i, e) \in Seq(Tab)
           /\ Len(InsertAt(s, i, e)) = Len(s) + 1
           /\ Inserted(InsertAt(s, i, e), s, i, e)
<1> DEFINE a == SubSeq(s, 1, i - 1)
           b == SubSeq(s, i, Len(s))
           d == <<e>>
           c == a \o d
<1>1. /\ a \in Seq(Tab) /\ Len(a) = i - 1
      /\ \A j \in 1 .. i - 1 : a[j] = s[j]
    BY SubSeqProperties
<1>2. /\ b \in Seq(Tab) /\ Len(b) = Len(s) - i + 1
      /\ \A j \in 1 .. Len(s) - i + 1 : b[j] = s[i + j - 1]
    BY SubSeqProperties
<1>3. d \in Seq(Tab) /\ Len(d) = 1 /\ d[1] = e
    OBVIOUS
<1> HIDE DEF a, b, c, d
<1>4. /\ c \in Seq(Tab) /\ Len(c) = i
      /\ \A j \in 1 .. i : c[j] = IF j < i THEN s[j] ELSE e
    <2>1. /\ c \in Seq(Tab) /\ Len(c) = Len(a) + Len(d)
          /\ \A j \in 1 .. Len(a) + Len(d) :
                 c[j] = IF j <= Len(a) THEN a[j] ELSE d[j - Len(a)]
        BY <1>1, <1>3, ConcatProperties DEF c
    <2>2. ASSUME NEW j \in 1 .. i PROVE c[j] = IF j < i THEN s[j] ELSE e
        <3>1. CASE j < i
            BY <1>1, <1>3, <2>1, <3>1
        <3>2. CASE j = i
            <4>1. j - Len(a) = 1 /\ c[j] = d[j - Len(a)]
                BY <1>1, <1>3, <2>1, <3>2
            <4> QED
                BY <1>3, <3>2, <4>1
        <3> QED
            BY <3>1, <3>2
    <2> QED
        BY <1>1, <1>3, <2>1, <2>2
<1>5. InsertAt(s, i, e) = c \o b
    BY DEF InsertAt, a, b, c, d
<1>6. /\ c \o b \in Seq(Tab) /\ Len(c \o b) = Len(c) + Len(b)
      /\ \A j \in 1 .. Len(c) + Len(b) :
             (c \o b)[j] = IF j <= Len(c) THEN c[j] ELSE b[j - Len(c)]
    BY <1>2, <1>4, ConcatProperties
<1>7. ASSUME NEW j \in 1 .. Len(s) + 1
      PROVE  (c \o b)[j] = IF j < i THEN s[j]
                           ELSE IF j = i THEN e ELSE s[j - 1]
    <2>1. CASE j <= i
        BY <1>2, <1>4, <1>6, <2>1
    <2>2. CASE ~(j <= i)
        BY <1>2, <1>4, <1>6, <2>2
    <2> QED
        BY <2>1, <2>2
<1>8. Inserted(c \o b, s, i, e)
    BY <1>7 DEF Inserted
<1> QED
    BY <1>2, <1>4, <1>5, <1>6, <1>8

\* g_list_remove takes out exactly the element it is given.
LEMMA WithoutElement ==
    ASSUME NEW S, NEW s \in Seq(S), IsInjective(s), NEW t \in ToSet(s)
    PROVE  /\ Without(s, t) \in Seq(S) /\ IsInjective(Without(s, t))
           /\ ToSet(Without(s, t)) = ToSet(s) \ {t}
           /\ Len(Without(s, t)) = Len(s) - 1
<1> DEFINE i == IndexOf(s, t)
           r == RemoveAt(s, i)
<1>1. /\ s \in Seq(S) /\ i \in 1 .. Len(s) /\ s[i] = t
      /\ \A j \in 1 .. Len(s) : s[j] = t => j = i
    BY IndexOfElement
<1>2. Without(s, t) = r
    BY DEF Without
<1> HIDE DEF i
<1>3. /\ r \in Seq(S) /\ Len(r) = Len(s) - 1
      /\ \A j \in 1 .. Len(s) - 1 : r[j] = IF j < i THEN s[j] ELSE s[j + 1]
    BY <1>1, RemoveAtProperties
<1> HIDE DEF r
<1>4. \A j, k \in 1 .. Len(s) : s[j] = s[k] => j = k
    BY <1>1 DEF IsInjective
<1>5. IsInjective(r)
    <2> SUFFICES ASSUME NEW j \in 1 .. Len(r), NEW k \in 1 .. Len(r), r[j] = r[k]
                 PROVE  j = k
        BY <1>3 DEF IsInjective
    <2> DEFINE J == IF j < i THEN j ELSE j + 1
               K == IF k < i THEN k ELSE k + 1
    <2>1. /\ J \in 1 .. Len(s) /\ r[j] = s[J]
          /\ K \in 1 .. Len(s) /\ r[k] = s[K]
        BY <1>1, <1>3
    <2>2. J = K
        BY <1>4, <2>1
    <2> QED
        BY <1>1, <1>3, <2>2
<1>6. ASSUME NEW u \in ToSet(r) PROVE u \in ToSet(s) \ {t}
    <2>1. PICK j \in 1 .. Len(r) : r[j] = u
        BY <1>3, ToSetMember
    <2> DEFINE J == IF j < i THEN j ELSE j + 1
    <2>2. J \in 1 .. Len(s) /\ J # i /\ s[J] = u
        BY <1>1, <1>3, <2>1
    <2> QED
        BY <1>1, <2>2, ToSetMember
<1>7. ASSUME NEW u \in ToSet(s) \ {t} PROVE u \in ToSet(r)
    <2>1. PICK j \in 1 .. Len(s) : s[j] = u
        BY <1>1, ToSetMember
    <2>2. j # i
        BY <1>1, <2>1
    <2> DEFINE J == IF j < i THEN j ELSE j - 1
    <2>3. J \in 1 .. Len(r) /\ r[J] = u
        BY <1>1, <1>3, <2>1, <2>2
    <2> QED
        BY <1>3, <2>3, ToSetMember
<1> QED
    BY <1>2, <1>3, <1>5, <1>6, <1>7

LEMMA WithoutProperties ==
    ASSUME NEW s, TabList(s), NEW t \in ToSet(s)
    PROVE  /\ TabList(Without(s, t))
           /\ ToSet(Without(s, t)) = ToSet(s) \ {t}
           /\ Len(Without(s, t)) = Len(s) - 1
BY WithoutElement DEF TabList

\* A position g_list_insert and gtk_notebook_insert_page accept.
Position(s, pos) == pos \in -1 .. Len(s)

LEMMA WithProperties ==
    ASSUME NEW s, TabList(s), NEW t \in Tab \ ToSet(s), NEW pos, Position(s, pos)
    PROVE  /\ TabList(With(s, t, pos))
           /\ ToSet(With(s, t, pos)) = ToSet(s) \cup {t}
           /\ Len(With(s, t, pos)) = Len(s) + 1
<1> DEFINE i == IF pos = -1 THEN Len(s) + 1 ELSE pos + 1
           r == With(s, t, pos)
<1>1. s \in Seq(Tab) /\ i \in 1 .. Len(s) + 1
    BY DEF TabList, Position
<1>2. /\ r \in Seq(Tab) /\ Len(r) = Len(s) + 1
      /\ \A j \in 1 .. Len(s) + 1 : r[j] = IF j < i THEN s[j]
                                           ELSE IF j = i THEN t ELSE s[j - 1]
    <2>1. CASE pos = -1
        <3>1. r = Append(s, t)
            BY <2>1 DEF With
        <3> QED
            BY <1>1, <2>1, <3>1, AppendProperties
    <2>2. CASE pos # -1
        <3>1. r = InsertAt(s, i, t)
            BY <2>2 DEF With
        <3> HIDE DEF r, i
        <3>2. t \in Tab
            OBVIOUS
        <3>3. r \in Seq(Tab) /\ Len(r) = Len(s) + 1 /\ Inserted(r, s, i, t)
            BY <1>1, <3>1, <3>2, InsertAtProperties
        <3> QED
            BY <3>3 DEF Inserted
    <2> QED
        BY <2>1, <2>2
<1> HIDE DEF i, r
<1>3. \A j, k \in 1 .. Len(s) : s[j] = s[k] => j = k
    BY <1>1 DEF TabList, IsInjective
<1>4. \A j \in 1 .. Len(s) : s[j] # t
    BY <1>1, ToSetMember
<1>5. IsInjective(r)
    <2> SUFFICES ASSUME NEW j \in 1 .. Len(r), NEW k \in 1 .. Len(r), r[j] = r[k]
                 PROVE  j = k
        BY <1>2 DEF IsInjective
    <2> DEFINE Old(n) == IF n < i THEN n ELSE n - 1
    <2>1. CASE j = i \/ k = i
        <3>1. ASSUME NEW n \in 1 .. Len(r), n # i PROVE r[n] # t
            <4>1. Old(n) \in 1 .. Len(s) /\ r[n] = s[Old(n)]
                BY <1>1, <1>2, <3>1
            <4> QED
                BY <1>4, <4>1
        <3>2. r[i] = t
            BY <1>1, <1>2
        <3> QED
            BY <2>1, <3>1, <3>2
    <2>2. CASE j # i /\ k # i
        <3>1. /\ Old(j) \in 1 .. Len(s) /\ r[j] = s[Old(j)]
              /\ Old(k) \in 1 .. Len(s) /\ r[k] = s[Old(k)]
            BY <1>1, <1>2, <2>2
        <3>2. Old(j) = Old(k)
            BY <1>3, <3>1
        <3> QED
            BY <1>1, <1>2, <2>2, <3>2
    <2> QED
        BY <2>1, <2>2
<1>6. ASSUME NEW u \in ToSet(r) PROVE u \in ToSet(s) \cup {t}
    <2>1. PICK j \in 1 .. Len(r) : r[j] = u
        BY <1>2, ToSetMember
    <2>2. CASE j = i
        BY <1>1, <1>2, <2>1, <2>2
    <2>3. CASE j # i
        <3> DEFINE J == IF j < i THEN j ELSE j - 1
        <3>1. J \in 1 .. Len(s) /\ s[J] = u
            BY <1>1, <1>2, <2>1, <2>3
        <3> QED
            BY <1>1, <3>1, ToSetMember
    <2> QED
        BY <2>2, <2>3
<1>7. ASSUME NEW u \in ToSet(s) \cup {t} PROVE u \in ToSet(r)
    <2>1. CASE u = t
        <3>1. i \in 1 .. Len(r) /\ r[i] = t
            BY <1>1, <1>2
        <3> QED
            BY <1>2, <2>1, <3>1, ToSetMember
    <2>2. CASE u \in ToSet(s)
        <3>1. PICK j \in 1 .. Len(s) : s[j] = u
            BY <1>1, <2>2, ToSetMember
        <3> DEFINE J == IF j < i THEN j ELSE j + 1
        <3>2. J \in 1 .. Len(r) /\ r[J] = u
            BY <1>1, <1>2, <3>1
        <3> QED
            BY <1>2, <3>2, ToSetMember
    <2> QED
        BY <2>1, <2>2
<1> QED
    BY <1>2, <1>5, <1>6, <1>7 DEF TabList, r

\* When t goes, GTK shows another tab of the window, if there is one.
LEMMA NeighbourProperties ==
    ASSUME NEW s, TabList(s), NEW t \in ToSet(s)
    PROVE  IF Len(s) = 1 THEN Neighbour(s, t) = NoTab
                         ELSE Neighbour(s, t) \in ToSet(s) \ {t}
<1> DEFINE i == IndexOf(s, t)
<1>1. /\ s \in Seq(Tab) /\ i \in 1 .. Len(s) /\ s[i] = t
      /\ \A j \in 1 .. Len(s) : s[j] = t => j = i
    BY IndexOfProperties DEF TabList
<1>2. Neighbour(s, t) = CASE i < Len(s) -> s[i + 1]
                          [] i = Len(s) /\ Len(s) > 1 -> s[Len(s) - 1]
                          [] OTHER -> NoTab
    BY DEF Neighbour
<1> HIDE DEF i
<1>3. CASE i < Len(s)
    <2>1. Neighbour(s, t) = s[i + 1] /\ i + 1 \in 1 .. Len(s) /\ Len(s) # 1
        BY <1>1, <1>2, <1>3
    <2>2. s[i + 1] \in ToSet(s) /\ s[i + 1] # t
        BY <1>1, <2>1, ToSetMember
    <2> QED
        BY <2>1, <2>2
<1>4. CASE i = Len(s) /\ Len(s) > 1
    <2>1. Neighbour(s, t) = s[Len(s) - 1] /\ Len(s) - 1 \in 1 .. Len(s) /\ Len(s) # 1
        BY <1>1, <1>2, <1>4
    <2>2. s[Len(s) - 1] \in ToSet(s) /\ s[Len(s) - 1] # t
        BY <1>1, <1>4, <2>1, ToSetMember
    <2> QED
        BY <2>1, <2>2
<1>5. CASE i = Len(s) /\ ~(Len(s) > 1)
    BY <1>1, <1>2, <1>5
<1> QED
    BY <1>1, <1>3, <1>4, <1>5

-----------------------------------------------------------------------------
(* Numbering.                                                              *)

\* The fields that say which tabs there are, and those that say which is
\* selected.
SameTabs(q, r) == /\ q.tabs = r.tabs /\ q.pages = r.pages
                  /\ q.menu = r.menu /\ q.ntabs = r.ntabs

SameSelection(q, r) == /\ q.current = r.current
                       /\ q.page = r.page
                       /\ q.template = r.template

LabelsFresh(r) == \A t \in ToSet(r.tabs) : r.label[t] = Numbers(r, t)

TitleFresh(r) == r.title = Numbers(r, r.current)

\* A window whose notebook shows every tab it lists, in whatever order.
Numberable(r) == /\ r \in Window
                 /\ IsInjective(r.pages)
                 /\ ToSet(r.tabs) \subseteq ToSet(r.pages)

LEMMA NumbersType ==
    ASSUME NEW r \in Window, IsInjective(r.pages), NEW t \in ToSet(r.pages)
    PROVE  Numbers(r, t) \in Nat \X Nat
<1>1. r.pages \in Seq(Tab) /\ r.ntabs \in Nat
    BY DEF Window
<1>2. IndexOf(r.pages, t) \in 1 .. Len(r.pages)
    BY <1>1, IndexOfProperties DEF TabList
<1> QED
    BY <1>1, <1>2 DEF Numbers

LEMMA SetTitleProperties ==
    ASSUME NEW r, Numberable(r), r.current \in ToSet(r.pages)
    PROVE  /\ SetTitle(r) \in Window
           /\ SameTabs(SetTitle(r), r)
           /\ SameSelection(SetTitle(r), r)
           /\ SetTitle(r).label = r.label
           /\ TitleFresh(SetTitle(r))
<1>1. r \in Window /\ Numbers(r, r.current) \in Nat \X Nat
    BY NumbersType DEF Numberable
<1>2. SetTitle(r) = [r EXCEPT !.title = Numbers(r, r.current)]
    BY DEF SetTitle
<1>3. SetTitle(r) \in Window
    BY <1>1, <1>2 DEF Window
<1>4. /\ SameTabs(SetTitle(r), r) /\ SameSelection(SetTitle(r), r)
      /\ SetTitle(r).label = r.label
      /\ SetTitle(r).title = Numbers(r, r.current)
    BY <1>1, <1>2 DEF Window, SameTabs, SameSelection
<1> QED
    BY <1>3, <1>4 DEF TitleFresh, Numbers, SameTabs, SameSelection

\* renumber_tabs leaves the tabs and the selection alone.
LEMMA RenumberProperties ==
    ASSUME NEW r, Numberable(r)
    PROVE  /\ Renumber(r) \in Window
           /\ SameTabs(Renumber(r), r)
           /\ SameSelection(Renumber(r), r)
           /\ LabelsFresh(Renumber(r))
           /\ r.current \in ToSet(r.tabs) => TitleFresh(Renumber(r))
<1> DEFINE lab == [t \in Tab |-> IF t \in ToSet(r.tabs) THEN Numbers(r, t) ELSE <<0, 0>>]
           n == [r EXCEPT !.label = lab]
<1>1. r \in Window /\ ToSet(r.tabs) \subseteq Tab
    BY ToSetTabs DEF Numberable, Window
<1>2. lab \in [Tab -> Nat \X Nat]
    <2>1. ASSUME NEW t \in Tab PROVE lab[t] \in Nat \X Nat
        <3>1. CASE t \in ToSet(r.tabs)
            BY <1>1, <3>1, NumbersType DEF Numberable
        <3>2. CASE t \notin ToSet(r.tabs)
            BY <3>2
        <3> QED
            BY <3>1, <3>2
    <2> QED
        BY <2>1
<1>3. \A t \in ToSet(r.tabs) : lab[t] = Numbers(r, t)
    BY <1>1
<1> HIDE DEF lab
<1>4. /\ n \in Window /\ SameTabs(n, r) /\ SameSelection(n, r)
      /\ n.label = lab
    BY <1>1, <1>2 DEF Window, SameTabs, SameSelection
<1>5. Renumber(r) = IF r.current \in ToSet(r.tabs) THEN SetTitle(n) ELSE n
    BY DEF Renumber, lab
<1> HIDE DEF n
<1>6. Numberable(n)
    BY <1>4 DEF Numberable, SameTabs
<1>7. LabelsFresh(n)
    BY <1>3, <1>4 DEF LabelsFresh, SameTabs, Numbers
<1>8. CASE r.current \in ToSet(r.tabs)
    <2>1. Renumber(r) = SetTitle(n)
        BY <1>5, <1>8
    <2>2. n.current \in ToSet(n.pages)
        BY <1>4, <1>8 DEF Numberable, SameTabs, SameSelection
    <2>3. /\ SetTitle(n) \in Window /\ SameTabs(SetTitle(n), n)
          /\ SameSelection(SetTitle(n), n)
          /\ SetTitle(n).label = n.label /\ TitleFresh(SetTitle(n))
        BY <1>6, <2>2, SetTitleProperties
    <2>4. LabelsFresh(SetTitle(n))
        BY <1>7, <2>3 DEF LabelsFresh, SameTabs, Numbers
    <2> QED
        BY <1>4, <2>1, <2>3, <2>4 DEF SameTabs, SameSelection
<1>9. CASE r.current \notin ToSet(r.tabs)
    BY <1>4, <1>5, <1>7, <1>9
<1> QED
    BY <1>8, <1>9

-----------------------------------------------------------------------------
(* Selecting.                                                              *)

GoodWindow(r) == r \in Window /\ WindowOK(r)

\* A window that lists its tabs consistently, whatever is selected.
OrderedWindow(r) == /\ r \in Window
                    /\ OneOrder(r)
                    /\ r.ntabs = Len(r.tabs)

LEMMA OrderedNumberable == ASSUME NEW r, OrderedWindow(r) PROVE Numberable(r)
BY DEF OrderedWindow, OneOrder, Numberable

\* multi_win_select_tab makes t the one current tab.
LEMMA SelectTabProperties ==
    ASSUME NEW r, OrderedWindow(r), LabelsFresh(r), NEW t \in ToSet(r.tabs),
           t = r.current => OneCurrent(r) /\ TitleFresh(r)
    PROVE  /\ GoodWindow(SelectTab(r, t))
           /\ SameTabs(SelectTab(r, t), r)
           /\ SelectTab(r, t).current = t
<1>1. CASE t = r.current
    <2>1. SelectTab(r, t) = r
        BY <1>1 DEF SelectTab
    <2> QED
        BY <1>1, <2>1 DEF GoodWindow, WindowOK, OrderedWindow, NumbersFresh,
                          LabelsFresh, TitleFresh, SameTabs
<1>2. CASE t # r.current
    <2> DEFINE n == [r EXCEPT !.current = t, !.template = t, !.page = t]
               q == SetTitle(n)
    <2>1. r \in Window /\ t \in Tab
        BY ToSetTabs DEF OrderedWindow, Window
    <2>2. /\ n \in Window /\ SameTabs(n, r) /\ n.label = r.label
          /\ n.current = t /\ n.template = t /\ n.page = t
        BY <2>1 DEF Window, SameTabs
    <2>3. SelectTab(r, t) = q
        BY <1>2 DEF SelectTab
    <2> HIDE DEF n
    <2>4. Numberable(n) /\ n.current \in ToSet(n.pages)
        BY <2>2 DEF Numberable, OrderedWindow, OneOrder, SameTabs
    <2>5. /\ q \in Window /\ SameTabs(q, n) /\ SameSelection(q, n)
          /\ q.label = n.label /\ TitleFresh(q)
        BY <2>4, SetTitleProperties
    <2> HIDE DEF q
    <2>6. SameTabs(q, r) /\ q.label = r.label
        BY <2>2, <2>5 DEF SameTabs
    <2>7. /\ OneOrder(q) /\ q.ntabs = Len(q.tabs)
        BY <2>6 DEF OrderedWindow, OneOrder, SameTabs
    <2>8. LabelsFresh(q)
        BY <2>6 DEF LabelsFresh, SameTabs, Numbers
    <2>9. OneCurrent(q) /\ q.current = t
        BY <2>2, <2>5, <2>6 DEF OneCurrent, SameSelection, SameTabs
    <2> QED
        BY <2>3, <2>5, <2>6, <2>7, <2>8, <2>9
        DEF GoodWindow, WindowOK, NumbersFresh, LabelsFresh, TitleFresh
<1> QED
    BY <1>1, <1>2

\* gtk_notebook_set_current_page, through multi_win_page_switched.
LEMMA SetCurrentPageProperties ==
    ASSUME NEW r, GoodWindow(r), NEW t \in ToSet(r.tabs)
    PROVE  /\ GoodWindow(SetCurrentPage(r, t))
           /\ SameTabs(SetCurrentPage(r, t), r)
           /\ SetCurrentPage(r, t).current = t
<1> DEFINE q == SelectTab(r, t)
<1>1. OrderedWindow(r) /\ LabelsFresh(r) /\ OneCurrent(r) /\ TitleFresh(r)
    BY DEF GoodWindow, WindowOK, OrderedWindow, NumbersFresh, LabelsFresh, TitleFresh
<1>2. GoodWindow(q) /\ SameTabs(q, r) /\ q.current = t
    BY <1>1, SelectTabProperties
<1> HIDE DEF q
<1>3. CASE t = r.page
    BY <1>1, <1>3 DEF SetCurrentPage, OneCurrent, SameTabs
<1>4. CASE t # r.page
    <2>1. SetCurrentPage(r, t) = [q EXCEPT !.page = t]
        BY <1>4 DEF SetCurrentPage, PageSwitched, q
    <2>2. q.page = t
        BY <1>2 DEF GoodWindow, WindowOK, OneCurrent
    <2>3. [q EXCEPT !.page = t] = q
        BY <1>2, <2>2 DEF GoodWindow, Window
    <2> QED
        BY <1>2, <2>1, <2>3
<1> QED
    BY <1>3, <1>4

-----------------------------------------------------------------------------
(* Adding a tab.                                                           *)

LEMMA BlankWindowType == BlankWindow \in Window
BY DEF BlankWindow, Window

\* The window multi_win_add_tab finds: one on the screen or a new one; GTK may
\* have inserted the page already.
Receives(r, dest, t, pos, gtkAdded) ==
    /\ GoodWindow(r) \/ r = BlankWindow
    /\ t \in Tab \ ToSet(r.tabs)
    /\ Position(r.tabs, pos)
    /\ dest = IF gtkAdded THEN [r EXCEPT !.pages = With(@, t, pos)] ELSE r

\* multi_win_add_tab lists t, selects it and numbers everything afresh.
LEMMA AddTabProperties ==
    ASSUME NEW r, NEW dest, NEW t, NEW pos, NEW gtkAdded \in BOOLEAN,
           Receives(r, dest, t, pos, gtkAdded)
    PROVE  /\ GoodWindow(AddTab(dest, t, pos, gtkAdded))
           /\ AddTab(dest, t, pos, gtkAdded).tabs = With(r.tabs, t, pos)
           /\ AddTab(dest, t, pos, gtkAdded).current = t
<1> DEFINE tabs == With(r.tabs, t, pos)
           listed == [dest EXCEPT !.tabs = With(@, t, pos), !.ntabs = @ + 1,
                                  !.menu = With(@, t, pos)]
           both == [r EXCEPT !.tabs = tabs, !.pages = tabs, !.menu = tabs,
                             !.ntabs = @ + 1]
           paged == IF gtkAdded THEN listed ELSE GtkInsertPage(listed, t, pos)
<1>1. /\ r \in Window /\ IsInjective(r.tabs)
      /\ r.pages = r.tabs /\ r.menu = r.tabs /\ r.ntabs = Len(r.tabs)
      /\ t \in Tab /\ t # NoTab
    <2>1. CASE GoodWindow(r)
        BY <2>1, NoTabAssumption
        DEF GoodWindow, WindowOK, OneOrder, NumbersFresh, Receives
    <2>2. CASE r = BlankWindow
        <3>1. /\ r.tabs = <<>> /\ r.pages = <<>> /\ r.menu = <<>>
              /\ r.ntabs = 0
            BY <2>2 DEF BlankWindow
        <3>2. IsInjective(<<>>)
            BY DEF IsInjective
        <3>3. r \in Window
            BY <2>2, BlankWindowType
        <3> QED
            BY <3>1, <3>2, <3>3, EmptySeq, NoTabAssumption DEF Receives
    <2> QED
        BY <2>1, <2>2 DEF Receives
<1>2. /\ TabList(tabs) /\ ToSet(tabs) = ToSet(r.tabs) \cup {t}
      /\ Len(tabs) = Len(r.tabs) + 1
    BY <1>1, WithProperties DEF TabList, Window, Receives
<1> HIDE DEF tabs
<1>3. /\ OrderedWindow(both) /\ both.tabs = tabs /\ both.page = r.page
      /\ both.pages = tabs /\ both.current = r.current
      /\ both.template = r.template
    <2>1. both \in Window
        <3>1. tabs \in Seq(Tab)
            BY <1>2 DEF TabList
        <3>2. r.ntabs + 1 \in Nat
            BY <1>1 DEF Window
        <3> QED
            BY <1>1, <3>1, <3>2 DEF Window
    <2> QED
        BY <1>1, <1>2, <2>1 DEF OrderedWindow, OneOrder, TabList, Window
<1>4. gtkAdded => listed = both
    BY <1>1 DEF Receives, Window, tabs
<1>5. ~gtkAdded => [listed EXCEPT !.pages = With(@, t, pos)] = both
    BY <1>1 DEF Receives, Window, tabs
<1>6. ~gtkAdded => listed.page = r.page
    BY <1>1 DEF Receives, Window
<1>7. AddTab(dest, t, pos, gtkAdded) = SelectTab(Renumber(paged), t)
    BY DEF AddTab
<1> HIDE DEF both
<1>8. paged = both \/ (r = BlankWindow /\ paged = PageSwitched(both, t))
    <2>1. CASE gtkAdded
        BY <1>4, <2>1
    <2>2. CASE ~gtkAdded /\ r.page # NoTab
        BY <1>5, <1>6, <2>2 DEF GtkInsertPage
    <2>3. CASE ~gtkAdded /\ r.page = NoTab
        <3>1. r = BlankWindow
            BY <2>3, ToSetTabs, NoTabAssumption
            DEF Receives, GoodWindow, WindowOK, OneCurrent, Window
        <3> QED
            BY <1>5, <1>6, <2>3, <3>1 DEF GtkInsertPage
    <2> QED
        BY <2>1, <2>2, <2>3
<1> HIDE DEF listed, paged
<1>9. CASE paged = both
    <2> DEFINE q == Renumber(both)
    <2>1. /\ q \in Window /\ SameTabs(q, both) /\ SameSelection(q, both)
          /\ LabelsFresh(q)
          /\ both.current \in ToSet(both.tabs) => TitleFresh(q)
        BY <1>3, OrderedNumberable, RenumberProperties
    <2> HIDE DEF q
    <2>2. OrderedWindow(q) /\ q.tabs = tabs
        BY <1>3, <2>1 DEF OrderedWindow, OneOrder, SameTabs
    <2>3. q.current # t
        <3>1. r.current # t
            <4>1. CASE GoodWindow(r)
                BY <4>1 DEF GoodWindow, WindowOK, OneCurrent, Receives
            <4>2. CASE r = BlankWindow
                BY <1>1, <4>2 DEF BlankWindow
            <4> QED
                BY <4>1, <4>2 DEF Receives
        <3> QED
            BY <1>3, <2>1, <3>1 DEF SameSelection
    <2>4. t \in ToSet(q.tabs)
        BY <1>2, <2>2
    <2>5. /\ GoodWindow(SelectTab(q, t)) /\ SameTabs(SelectTab(q, t), q)
          /\ SelectTab(q, t).current = t
        BY <2>1, <2>2, <2>3, <2>4, SelectTabProperties
    <2> QED
        BY <1>7, <1>9, <2>2, <2>5 DEF SameTabs, q, tabs
<1>10. CASE r = BlankWindow /\ paged = PageSwitched(both, t)
    <2> DEFINE n == [both EXCEPT !.current = t, !.template = t, !.page = t]
               m == SetTitle(n)
               q == Renumber(paged)
    <2>1. /\ both \in Window /\ OneOrder(both) /\ both.ntabs = Len(both.tabs)
        BY <1>3 DEF OrderedWindow
    <2>2. /\ n \in Window /\ SameTabs(n, both) /\ n.current = t
          /\ n.template = t /\ n.page = t
        BY <1>1, <2>1 DEF Window, SameTabs
    <2>3. both.current # t
        BY <1>1, <1>3, <1>10 DEF BlankWindow
    <2>4. paged = [m EXCEPT !.page = t]
        BY <1>10, <2>3 DEF PageSwitched, SelectTab
    <2> HIDE DEF n
    <2>5. Numberable(n) /\ n.current \in ToSet(n.pages)
        BY <1>2, <1>3, <2>1, <2>2 DEF Numberable, OneOrder, SameTabs
    <2>6. m \in Window /\ SameTabs(m, n) /\ SameSelection(m, n)
        BY <2>5, SetTitleProperties
    <2> HIDE DEF m
    <2>7. paged \in Window /\ SameTabs(paged, both) /\ SameSelection(paged, n)
        BY <1>1, <2>2, <2>4, <2>6 DEF Window, SameTabs, SameSelection
    <2>8. Numberable(paged) /\ paged.current \in ToSet(paged.tabs)
        BY <1>2, <1>3, <2>1, <2>2, <2>7
        DEF Numberable, OneOrder, SameTabs, SameSelection
    <2>9. /\ q \in Window /\ SameTabs(q, paged) /\ SameSelection(q, paged)
          /\ LabelsFresh(q) /\ TitleFresh(q)
        BY <2>8, RenumberProperties
    <2> HIDE DEF q
    <2>10. OrderedWindow(q) /\ q.tabs = tabs
        BY <1>3, <2>1, <2>7, <2>9 DEF OrderedWindow, OneOrder, SameTabs
    <2>11. OneCurrent(q) /\ q.current = t
        BY <1>2, <2>2, <2>7, <2>9, <2>10 DEF OneCurrent, SameSelection
    <2>12. t \in ToSet(q.tabs)
        BY <1>2, <2>10
    <2>13. /\ GoodWindow(SelectTab(q, t)) /\ SameTabs(SelectTab(q, t), q)
           /\ SelectTab(q, t).current = t
        BY <2>9, <2>10, <2>11, <2>12, SelectTabProperties
    <2> QED
        BY <1>7, <2>10, <2>13 DEF SameTabs, q, tabs
<1> QED
    BY <1>8, <1>9, <1>10

-----------------------------------------------------------------------------
(* Removing tabs.                                                          *)

\* The tab selected once t has gone.
Successor(r, t) == IF r.current = t THEN Neighbour(r.tabs, t) ELSE r.current

\* GTK's half of a removal, with multi_win_page_switched inside it.
LEMMA GtkRemovePageProperties ==
    ASSUME NEW r, GoodWindow(r), NEW t \in ToSet(r.tabs)
    PROVE  LET g == GtkRemovePage(r, t) IN
           /\ g \in Window
           /\ g.tabs = r.tabs /\ g.menu = r.menu /\ g.ntabs = r.ntabs
           /\ g.pages = Without(r.tabs, t)
           /\ Len(r.tabs) = 1 => g.current = t
           /\ Len(r.tabs) > 1 => /\ Successor(r, t) \in ToSet(r.tabs) \ {t}
                                 /\ g.current = Successor(r, t)
                                 /\ g.page = g.current
                                 /\ g.template = g.current
<1> DEFINE g == GtkRemovePage(r, t)
           pages == Without(r.tabs, t)
           next == Neighbour(r.tabs, t)
           removed == [r EXCEPT !.pages = pages]
<1>1. /\ r \in Window /\ TabList(r.tabs) /\ r.pages = r.tabs
      /\ r.page = r.current /\ r.template = r.current
      /\ r.current \in ToSet(r.tabs)
      /\ t \in Tab /\ ToSet(r.tabs) \subseteq Tab
    BY ToSetTabs DEF GoodWindow, WindowOK, OneOrder, OneCurrent, TabList, Window
<1>2. TabList(pages) /\ ToSet(pages) = ToSet(r.tabs) \ {t}
    BY <1>1, WithoutProperties
<1>3. IF Len(r.tabs) = 1 THEN next = NoTab ELSE next \in ToSet(r.tabs) \ {t}
    BY <1>1, NeighbourProperties
<1> HIDE DEF next, pages
<1>4. /\ removed \in Window /\ removed.tabs = r.tabs /\ removed.menu = r.menu
      /\ removed.ntabs = r.ntabs /\ removed.pages = pages
      /\ removed.page = r.page /\ removed.current = r.current
      /\ removed.template = r.template
    BY <1>1, <1>2 DEF Window, TabList
<1> DEFINE emptied == [removed EXCEPT !.page = NoTab]
           switched == PageSwitched(emptied, next)
<1>5. /\ r.page # t => g = removed
      /\ r.page = t /\ next = NoTab => g = emptied
      /\ r.page = t /\ next # NoTab => g = switched
    <2>1. g = IF r.page # t THEN removed
              ELSE IF next = NoTab THEN emptied ELSE switched
        BY <1>1 DEF GtkRemovePage, next, pages
    <2> HIDE DEF g, removed, emptied, switched
    <2> QED
        BY <2>1
<1> HIDE DEF removed, g
<1> DEFINE Goal ==
           /\ g \in Window
           /\ g.tabs = r.tabs /\ g.menu = r.menu /\ g.ntabs = r.ntabs
           /\ g.pages = pages
           /\ Len(r.tabs) = 1 => g.current = t
           /\ Len(r.tabs) > 1 => /\ Successor(r, t) \in ToSet(r.tabs) \ {t}
                                 /\ g.current = Successor(r, t)
                                 /\ g.page = g.current
                                 /\ g.template = g.current
<1>6. ASSUME r.page # t PROVE Goal
    <2>1. g = removed
        BY <1>5, <1>6
    <2>2. Successor(r, t) = r.current /\ r.current # t
        BY <1>1, <1>6 DEF Successor
    <2>3. Len(r.tabs) # 1
        <3>1. PICK i \in 1 .. Len(r.tabs), j \in 1 .. Len(r.tabs) :
                  r.tabs[i] = t /\ r.tabs[j] = r.current
            BY <1>1, ToSetMember DEF TabList
        <3> QED
            BY <2>2, <3>1
    <2> QED
        BY <1>1, <1>4, <2>1, <2>2, <2>3
<1>7. ASSUME r.page = t, Len(r.tabs) = 1 PROVE Goal
    <2>1. g = [removed EXCEPT !.page = NoTab]
        BY <1>3, <1>5, <1>7
    <2>2. /\ g \in Window /\ g.tabs = r.tabs /\ g.menu = r.menu
          /\ g.ntabs = r.ntabs /\ g.pages = pages /\ g.current = r.current
        BY <1>4, <2>1 DEF Window
    <2>3. g.current = t
        BY <1>1, <1>7, <2>2
    <2>4. ~(Len(r.tabs) > 1)
        BY <1>7
    <2> QED
        BY <2>2, <2>3, <2>4
<1>8. ASSUME r.page = t, Len(r.tabs) # 1 PROVE Goal
    <2> DEFINE x == [removed EXCEPT !.page = NoTab]
               n == [x EXCEPT !.current = next, !.template = next, !.page = next]
               m == SetTitle(n)
    <2>1. next \in ToSet(r.tabs) \ {t} /\ next # NoTab /\ next \in Tab
        BY <1>1, <1>3, <1>8, NoTabAssumption
    <2>2. g = PageSwitched(x, next)
        BY <1>5, <1>8, <2>1
    <2>3. /\ x \in Window /\ x.tabs = r.tabs /\ x.menu = r.menu
          /\ x.ntabs = r.ntabs /\ x.pages = pages /\ x.current = t
        BY <1>1, <1>4, <1>8 DEF Window
    <2> HIDE DEF x
    <2>4. g = [m EXCEPT !.page = next]
        BY <2>1, <2>2, <2>3 DEF PageSwitched, SelectTab
    <2>5. /\ n \in Window /\ SameTabs(n, x)
          /\ n.current = next /\ n.template = next /\ n.page = next
        BY <2>1, <2>3 DEF Window, SameTabs
    <2> HIDE DEF n
    <2>6. SetTitle(n) = [n EXCEPT !.title = Numbers(n, n.current)]
        BY <1>2, <2>1, <2>3, <2>5 DEF SetTitle, SameTabs
    <2>7. Numbers(n, n.current) \in Nat \X Nat
        BY <1>2, <2>1, <2>3, <2>5, NumbersType DEF TabList, SameTabs
    <2>8. m \in Window /\ SameTabs(m, n) /\ SameSelection(m, n)
        BY <2>5, <2>6, <2>7 DEF Window, SameTabs, SameSelection
    <2> HIDE DEF m
    <2>9. /\ g \in Window /\ SameTabs(g, x)
          /\ g.current = next /\ g.template = next /\ g.page = next
        BY <2>1, <2>4, <2>5, <2>8 DEF Window, SameTabs, SameSelection
    <2>10. Successor(r, t) = next
        BY <1>1, <1>8 DEF Successor, next
    <2> QED
        BY <1>8, <2>1, <2>3, <2>9, <2>10 DEF SameTabs
<1>9. Goal
    BY <1>6, <1>7, <1>8
<1> QED
    BY <1>9 DEF g, pages

\* multi_tab_delete and multi_tab_remove_from_parent take t out of a window and
\* leave it in order, unless t was its last tab.
LEMMA RemoveTabProperties ==
    ASSUME NEW r, GoodWindow(r), NEW t \in ToSet(r.tabs)
    PROVE  LET q == RemoveTab(r, t) IN
           /\ q \in Window
           /\ q.tabs = Without(r.tabs, t)
           /\ q.ntabs = r.ntabs - 1
           /\ q.ntabs = 0 <=> q.tabs = <<>>
           /\ q.ntabs # 0 => GoodWindow(q) /\ q.current = Successor(r, t)
<1> DEFINE g == GtkRemovePage(r, t)
           h == [g EXCEPT !.menu = Without(@, t)]
           tabs == Without(r.tabs, t)
           gone == [h EXCEPT !.tabs = Without(@, t), !.ntabs = @ - 1,
                             !.current = IF @ = t THEN NoTab ELSE @]
           q == RemoveTab(r, t)
<1>1. /\ r \in Window /\ TabList(r.tabs) /\ r.menu = r.tabs
      /\ r.ntabs = Len(r.tabs) /\ ToSet(r.tabs) \subseteq Tab
    BY ToSetTabs DEF GoodWindow, WindowOK, OneOrder, NumbersFresh, TabList, Window
<1>2. /\ TabList(tabs) /\ ToSet(tabs) = ToSet(r.tabs) \ {t}
      /\ Len(tabs) = Len(r.tabs) - 1 /\ Len(tabs) \in Nat
    BY <1>1, WithoutProperties, LenProperties DEF TabList
<1>3. /\ g \in Window
      /\ g.tabs = r.tabs /\ g.menu = r.menu /\ g.ntabs = r.ntabs
      /\ g.pages = tabs
      /\ Len(r.tabs) = 1 => g.current = t
      /\ Len(r.tabs) > 1 => /\ Successor(r, t) \in ToSet(r.tabs) \ {t}
                            /\ g.current = Successor(r, t)
                            /\ g.page = g.current
                            /\ g.template = g.current
    BY GtkRemovePageProperties
<1> HIDE DEF g, tabs
<1>4. /\ h \in Window /\ h.tabs = r.tabs /\ h.menu = tabs /\ h.pages = tabs
      /\ h.ntabs = r.ntabs /\ SameSelection(h, g)
    BY <1>1, <1>2, <1>3 DEF Window, TabList, SameSelection, tabs
<1>5. q = IF gone.ntabs = 0 THEN gone ELSE Renumber(gone)
    BY DEF RemoveTab, NotifyTabRemoved, g
<1> HIDE DEF h
<1>6. /\ gone.tabs = tabs /\ gone.menu = tabs /\ gone.pages = tabs
      /\ gone.ntabs = Len(tabs) /\ gone.page = h.page
      /\ gone.template = h.template
      /\ gone.current = IF h.current = t THEN NoTab ELSE h.current
    BY <1>1, <1>2, <1>4 DEF Window, tabs
<1>7. gone \in Window
    <2>1. Without(h.tabs, t) \in Seq(Tab) /\ h.ntabs - 1 \in Nat
        BY <1>1, <1>2, <1>4 DEF TabList, tabs
    <2> QED
        BY <1>4, <2>1 DEF Window
<1>8. tabs = <<>> <=> Len(tabs) = 0
    BY <1>2, ToSetEmpty DEF TabList
<1> HIDE DEF gone, q
<1>9. CASE Len(tabs) = 0
    BY <1>1, <1>2, <1>5, <1>6, <1>7, <1>8, <1>9 DEF tabs, q
<1>10. CASE Len(tabs) # 0
    <2>1. q = Renumber(gone)
        BY <1>5, <1>6, <1>10
    <2>2. Numberable(gone)
        BY <1>2, <1>6, <1>7 DEF Numberable, TabList
    <2>3. /\ gone.current = Successor(r, t) /\ gone.page = gone.current
          /\ gone.template = gone.current /\ gone.current \in ToSet(tabs)
        <3>1. Len(r.tabs) > 1
            <4> DEFINE m == Len(r.tabs)
                       n == Len(tabs)
            <4>1. m \in Nat
                BY <1>1, LenProperties DEF TabList
            <4>2. n = m - 1 /\ n \in Nat /\ n # 0
                BY <1>2, <1>10
            <4> HIDE DEF m, n
            <4>3. m > 1
                BY <4>1, <4>2
            <4> QED
                BY <4>3 DEF m
        <3>2. /\ h.current = Successor(r, t) /\ h.page = h.current
              /\ h.template = h.current /\ h.current # t
              /\ h.current \in ToSet(tabs)
            BY <1>2, <1>3, <1>4, <3>1 DEF SameSelection
        <3> QED
            BY <1>6, <3>2
    <2>4. /\ q \in Window /\ SameTabs(q, gone) /\ SameSelection(q, gone)
          /\ LabelsFresh(q) /\ TitleFresh(q)
        BY <1>6, <2>1, <2>2, <2>3, RenumberProperties
    <2>5. GoodWindow(q)
        BY <1>2, <1>6, <2>3, <2>4
        DEF GoodWindow, WindowOK, OneOrder, OneCurrent, NumbersFresh, TabList,
            LabelsFresh, TitleFresh, SameTabs, SameSelection
    <2> QED
        BY <1>1, <1>2, <1>6, <1>8, <1>10, <2>3, <2>4, <2>5
        DEF SameTabs, SameSelection, tabs, q
<1> QED
    BY <1>9, <1>10

\* multi_win_close_other_tabs_action leaves a window with its current tab.
LEMMA KeepCurrentProperties ==
    ASSUME NEW r, GoodWindow(r)
    PROVE  /\ GoodWindow(KeepCurrent(r))
           /\ KeepCurrent(r).tabs = <<r.current>>
           /\ KeepCurrent(r).current = r.current
<1> DEFINE one == <<r.current>>
           k == [r EXCEPT !.tabs = one, !.pages = one, !.menu = one, !.ntabs = 1]
           q == KeepCurrent(r)
<1>1. /\ r \in Window /\ r.current \in Tab
      /\ r.page = r.current /\ r.template = r.current
    BY ToSetTabs DEF GoodWindow, WindowOK, OneCurrent, Window
<1>2. TabList(one) /\ ToSet(one) = {r.current} /\ Len(one) = 1
    BY <1>1 DEF TabList, IsInjective, ToSet
<1>3. q = Renumber(k)
    BY DEF KeepCurrent
<1> HIDE DEF one
<1>4. /\ k \in Window /\ k.tabs = one /\ k.pages = one /\ k.menu = one
      /\ k.ntabs = 1 /\ SameSelection(k, r)
    BY <1>1, <1>2 DEF Window, TabList, SameSelection
<1> HIDE DEF k
<1>5. Numberable(k) /\ k.current \in ToSet(k.tabs)
    BY <1>2, <1>4 DEF Numberable, TabList, SameSelection
<1>6. /\ q \in Window /\ SameTabs(q, k) /\ SameSelection(q, k)
      /\ LabelsFresh(q) /\ TitleFresh(q)
    BY <1>3, <1>5, RenumberProperties
<1> HIDE DEF q
<1>7. GoodWindow(q)
    BY <1>1, <1>2, <1>4, <1>6
    DEF GoodWindow, WindowOK, OneOrder, OneCurrent, NumbersFresh, TabList,
        LabelsFresh, TitleFresh, SameTabs, SameSelection
<1> QED
    BY <1>4, <1>6, <1>7 DEF SameTabs, SameSelection, one, q

-----------------------------------------------------------------------------
(* Moving a tab along the bar.                                             *)

\* What With and Without hold at each position.
LEMMA WithElements ==
    ASSUME NEW s \in Seq(Tab), NEW t \in Tab, NEW pos \in 0 .. Len(s)
    PROVE  /\ With(s, t, pos) \in Seq(Tab) /\ Len(With(s, t, pos)) = Len(s) + 1
           /\ \A j \in 1 .. Len(s) + 1 :
                  With(s, t, pos)[j] = IF j < pos + 1 THEN s[j]
                                       ELSE IF j = pos + 1 THEN t ELSE s[j - 1]
<1> DEFINE i == pos + 1
           w == InsertAt(s, i, t)
<1>1. With(s, t, pos) = w
    BY DEF With
<1>2. i \in 1 .. Len(s) + 1
    OBVIOUS
<1> HIDE DEF i
<1>3. w \in Seq(Tab) /\ Len(w) = Len(s) + 1 /\ Inserted(w, s, i, t)
    BY <1>2, InsertAtProperties
<1> HIDE DEF w
<1> QED
    BY <1>1, <1>3 DEF i, Inserted

\* Taking a tab out and putting it back where it was changes nothing, so the
\* second pass over the lists that page-reordered causes does no harm.
LEMMA MovedInPlace ==
    ASSUME NEW s, TabList(s), NEW t \in ToSet(s)
    PROVE  With(Without(s, t), t, PageNum(s, t)) = s
<1> DEFINE i == IndexOf(s, t)
           a == Without(s, t)
           b == With(a, t, i - 1)
<1>1. s \in Seq(Tab) /\ i \in 1 .. Len(s) /\ s[i] = t /\ t \in Tab
    BY IndexOfProperties, ToSetTabs DEF TabList
<1>2. a = RemoveAt(s, i)
    BY DEF Without
<1> HIDE DEF i
<1>3. /\ a \in Seq(Tab) /\ Len(a) = Len(s) - 1
      /\ \A j \in 1 .. Len(s) - 1 : a[j] = IF j < i THEN s[j] ELSE s[j + 1]
    BY <1>1, <1>2, RemoveAtProperties
<1> HIDE DEF a
<1>4. /\ b \in Seq(Tab) /\ Len(b) = Len(s)
      /\ \A j \in 1 .. Len(s) : b[j] = IF j < i THEN a[j]
                                       ELSE IF j = i THEN t ELSE a[j - 1]
    <2> DEFINE k == i - 1
               w == With(a, t, k)
    <2>1. k \in 0 .. Len(a) /\ k + 1 = i /\ Len(a) + 1 = Len(s)
        BY <1>1, <1>3
    <2>2. b = w
        OBVIOUS
    <2> HIDE DEF k, b
    <2>3. /\ w \in Seq(Tab) /\ Len(w) = Len(a) + 1
          /\ \A j \in 1 .. Len(a) + 1 :
                 w[j] = IF j < k + 1 THEN a[j]
                        ELSE IF j = k + 1 THEN t ELSE a[j - 1]
        BY <1>1, <1>3, <2>1, WithElements
    <2> HIDE DEF w
    <2> QED
        BY <2>1, <2>2, <2>3
<1> HIDE DEF b
<1>5. ASSUME NEW j \in 1 .. Len(s) PROVE b[j] = s[j]
    <2>1. CASE j < i
        BY <1>1, <1>3, <1>4, <2>1
    <2>2. CASE j = i
        BY <1>1, <1>4, <2>2
    <2>3. CASE j > i
        <3>1. b[j] = a[j - 1] /\ j - 1 \in 1 .. Len(s) - 1 /\ ~(j - 1 < i)
            BY <1>1, <1>4, <2>3
        <3>2. a[j - 1] = s[(j - 1) + 1]
            BY <1>3, <3>1
        <3> QED
            BY <3>1, <3>2
    <2> QED
        BY <1>1, <2>1, <2>2, <2>3
<1>6. b = s
    BY <1>1, <1>4, <1>5, SeqEqual
<1> QED
    BY <1>6 DEF b, a, i, PageNum

\* A tab put at a position is found there.
LEMMA MovedPosition ==
    ASSUME NEW s, TabList(s), NEW t \in Tab \ ToSet(s), NEW pos \in 0 .. Len(s)
    PROVE  PageNum(With(s, t, pos), t) = pos
<1> DEFINE b == With(s, t, pos)
<1>1. TabList(b) /\ t \in ToSet(b)
    BY WithProperties DEF Position
<1>2. /\ Len(b) = Len(s) + 1 /\ pos + 1 \in 1 .. Len(s) + 1
      /\ b[pos + 1] = t
    <2>1. s \in Seq(Tab) /\ t \in Tab /\ Len(s) \in Nat
        BY LenProperties DEF TabList
    <2>2. /\ Len(b) = Len(s) + 1
          /\ \A j \in 1 .. Len(s) + 1 :
                 b[j] = IF j < pos + 1 THEN s[j]
                        ELSE IF j = pos + 1 THEN t ELSE s[j - 1]
        BY <2>1, WithElements
    <2> HIDE DEF b
    <2>3. pos + 1 \in 1 .. Len(s) + 1 /\ ~(pos + 1 < pos + 1)
        BY <2>1
    <2> QED
        BY <2>2, <2>3
<1> HIDE DEF b
<1>3. pos + 1 = IndexOf(b, t)
    BY <1>1, <1>2, IndexOfProperties
<1> QED
    BY <1>3 DEF b, PageNum

\* The list of a window with t moved to pos.
Moved(s, t, pos) == With(Without(s, t), t, pos)

LEMMA MovedProperties ==
    ASSUME NEW s, TabList(s), NEW t \in ToSet(s), NEW pos \in 0 .. Len(s) - 1
    PROVE  /\ TabList(Moved(s, t, pos))
           /\ ToSet(Moved(s, t, pos)) = ToSet(s)
           /\ Len(Moved(s, t, pos)) = Len(s)
           /\ PageNum(Moved(s, t, pos), t) = pos
           /\ Moved(Moved(s, t, pos), t, pos) = Moved(s, t, pos)
<1> DEFINE a == Without(s, t)
           b == With(a, t, pos)
<1>1. t \in Tab /\ Len(s) \in Nat
    BY ToSetTabs, LenProperties DEF TabList
<1>2. TabList(a) /\ ToSet(a) = ToSet(s) \ {t} /\ Len(a) = Len(s) - 1
    BY WithoutProperties
<1> HIDE DEF a
<1>3. Position(a, pos) /\ pos \in 0 .. Len(a) /\ t \in Tab \ ToSet(a)
    BY <1>1, <1>2 DEF Position
<1>4. TabList(b) /\ ToSet(b) = ToSet(a) \cup {t} /\ Len(b) = Len(a) + 1
    BY <1>2, <1>3, WithProperties
<1>5. PageNum(b, t) = pos
    BY <1>2, <1>3, MovedPosition
<1> HIDE DEF b
<1>6. With(Without(b, t), t, PageNum(b, t)) = b
    BY <1>4, MovedInPlace
<1>7. ToSet(b) = ToSet(s)
    BY <1>2, <1>4
<1>8. Len(b) = Len(s)
    BY <1>1, <1>2, <1>4
<1> QED
    BY <1>4, <1>5, <1>6, <1>7, <1>8 DEF Moved, a, b

\* multi_tab_move_to_position with reorder FALSE, for a window whose notebook
\* has the page at pos already.
LEMMA MoveInListsProperties ==
    ASSUME NEW r, GoodWindow(r), NEW t \in ToSet(r.tabs),
           NEW pos \in 0 .. Len(r.tabs) - 1, NEW p,
           p \in Window, SameSelection(p, r), p.ntabs = r.ntabs,
           p.pages = Moved(r.tabs, t, pos),
           Moved(p.tabs, t, pos) = Moved(r.tabs, t, pos),
           Moved(p.menu, t, pos) = Moved(r.tabs, t, pos)
    PROVE  /\ GoodWindow(MoveInLists(p, t, pos))
           /\ SameSelection(MoveInLists(p, t, pos), r)
           /\ MoveInLists(p, t, pos).tabs = Moved(r.tabs, t, pos)
<1> DEFINE s == Moved(r.tabs, t, pos)
           n == [p EXCEPT !.tabs = s]
           m == Renumber(n)
           q == [m EXCEPT !.menu = s]
<1>1. /\ TabList(r.tabs) /\ r.ntabs = Len(r.tabs)
      /\ OneCurrent(r)
    BY DEF GoodWindow, WindowOK, OneOrder, NumbersFresh, TabList, Window
<1>2. /\ TabList(s) /\ ToSet(s) = ToSet(r.tabs) /\ Len(s) = Len(r.tabs)
    BY <1>1, MovedProperties
<1> HIDE DEF s
<1>3. s \in Seq(Tab)
    BY <1>2 DEF TabList
<1>4. /\ n \in Window /\ n.tabs = s /\ n.pages = s /\ n.ntabs = r.ntabs
      /\ SameSelection(n, r)
    BY <1>3 DEF Window, SameSelection, s
<1>5. [p EXCEPT !.tabs = With(Without(@, t), t, pos)] = n
    BY DEF Moved, s
<1> HIDE DEF n
<1>6. /\ Numberable(n) /\ n.current \in ToSet(n.tabs)
    BY <1>1, <1>2, <1>4 DEF Numberable, TabList, SameSelection, OneCurrent
<1>7. /\ m \in Window /\ SameTabs(m, n) /\ SameSelection(m, n)
      /\ LabelsFresh(m) /\ TitleFresh(m)
    BY <1>6, RenumberProperties
<1>8. m.menu = p.menu
    <2>1. n.menu = p.menu
        BY DEF n, Window
    <2> QED
        BY <1>7, <2>1 DEF SameTabs
<1>9. MoveInLists(p, t, pos) = [m EXCEPT !.menu = With(Without(@, t), t, pos)]
    BY <1>5 DEF MoveInLists
<1>10. MoveInLists(p, t, pos) = q
    BY <1>7, <1>8, <1>9 DEF Moved, s, Window
<1> HIDE DEF m
<1>11. /\ q \in Window /\ q.tabs = s /\ q.pages = s /\ q.menu = s
       /\ q.ntabs = Len(s) /\ SameSelection(q, r)
       /\ q.label = m.label /\ q.title = m.title
    BY <1>1, <1>2, <1>3, <1>4, <1>7 DEF Window, SameTabs, SameSelection
<1> HIDE DEF q
<1>12. LabelsFresh(q) /\ TitleFresh(q)
    <2>1. /\ q.tabs = m.tabs /\ q.pages = m.pages /\ q.ntabs = m.ntabs
          /\ q.current = m.current
        BY <1>1, <1>2, <1>4, <1>7, <1>11 DEF SameTabs, SameSelection
    <2>2. \A u : Numbers(q, u) = Numbers(m, u)
        BY <2>1 DEF Numbers
    <2> QED
        BY <1>7, <1>11, <2>1, <2>2 DEF LabelsFresh, TitleFresh
<1>13. OneOrder(q) /\ OneCurrent(q)
    BY <1>1, <1>2, <1>11 DEF OneOrder, OneCurrent, TabList, SameSelection
<1> QED
    BY <1>10, <1>11, <1>12, <1>13
    DEF GoodWindow, WindowOK, NumbersFresh, LabelsFresh, TitleFresh, s

\* A drag along the bar, with page_reordered_callback behind it, leaves the
\* three lists in one order, and every number and the selection right.
LEMMA GtkReorderProperties ==
    ASSUME NEW r, GoodWindow(r), NEW t \in ToSet(r.tabs),
           NEW pos \in 0 .. Len(r.tabs) - 1
    PROVE  /\ GoodWindow(GtkReorder(r, t, pos))
           /\ SameSelection(GtkReorder(r, t, pos), r)
           /\ ToSet(GtkReorder(r, t, pos).tabs) = ToSet(r.tabs)
           /\ GtkReorder(r, t, pos).tabs = Moved(r.tabs, t, pos)
<1> DEFINE s == Moved(r.tabs, t, pos)
           p == [r EXCEPT !.pages = s]
<1>1. r \in Window /\ TabList(r.tabs) /\ r.pages = r.tabs /\ r.menu = r.tabs
    BY DEF GoodWindow, WindowOK, OneOrder, TabList, Window
<1>2. s \in Seq(Tab) /\ ToSet(s) = ToSet(r.tabs)
    BY <1>1, MovedProperties DEF TabList
<1>3. CASE PageNum(r.pages, t) = pos
    <2>1. GtkReorder(r, t, pos) = r
        BY <1>3 DEF GtkReorder
    <2>2. s = r.tabs
        BY <1>1, <1>3, MovedInPlace DEF Moved
    <2> QED
        BY <1>1, <2>1, <2>2 DEF SameSelection
<1>4. CASE PageNum(r.pages, t) # pos
    <2>1. [r EXCEPT !.pages = With(Without(@, t), t, pos)] = p
        BY <1>1 DEF Moved
    <2>2. GtkReorder(r, t, pos) = MoveInLists(p, t, pos)
        BY <1>4, <2>1 DEF GtkReorder
    <2> HIDE DEF s
    <2>3. /\ p \in Window /\ SameSelection(p, r) /\ p.ntabs = r.ntabs
          /\ p.pages = s /\ p.tabs = r.tabs /\ p.menu = r.tabs
        BY <1>1, <1>2 DEF Window, SameSelection
    <2> HIDE DEF p
    <2>4. /\ GoodWindow(MoveInLists(p, t, pos))
          /\ SameSelection(MoveInLists(p, t, pos), r)
          /\ MoveInLists(p, t, pos).tabs = s
        BY <2>3, MoveInListsProperties DEF s
    <2> QED
        BY <1>2, <2>2, <2>4 DEF s
<1> QED
    BY <1>3, <1>4

\* multi_tab_move_to_position edits win->tabs and the menu twice when GTK
\* answers with page-reordered; the second pass changes nothing.
LEMMA MoveToPositionProperties ==
    ASSUME NEW r, GoodWindow(r), NEW t \in ToSet(r.tabs),
           NEW pos \in 0 .. Len(r.tabs) - 1
    PROVE  /\ GoodWindow(MoveToPosition(r, t, pos))
           /\ SameSelection(MoveToPosition(r, t, pos), r)
           /\ ToSet(MoveToPosition(r, t, pos).tabs) = ToSet(r.tabs)
           /\ MoveToPosition(r, t, pos).tabs = Moved(r.tabs, t, pos)
<1> DEFINE s == Moved(r.tabs, t, pos)
           p == GtkReorder(r, t, pos)
           q == MoveInLists(p, t, pos)
<1>1. r \in Window /\ TabList(r.tabs)
    BY DEF GoodWindow, WindowOK, OneOrder, TabList, Window
<1>2. /\ ToSet(s) = ToSet(r.tabs) /\ Len(s) = Len(r.tabs)
      /\ Moved(s, t, pos) = s
    BY <1>1, MovedProperties
<1> HIDE DEF s
<1>3. /\ GoodWindow(p) /\ SameSelection(p, r) /\ p.tabs = s
    BY GtkReorderProperties DEF s
<1> HIDE DEF p
<1>4. /\ p \in Window /\ p.pages = s /\ p.menu = s
    BY <1>3 DEF GoodWindow, WindowOK, OneOrder
<1>5. t \in ToSet(p.tabs) /\ pos \in 0 .. Len(p.tabs) - 1 /\ SameSelection(p, p)
    BY <1>2, <1>3 DEF SameSelection
<1>6. /\ GoodWindow(q) /\ SameSelection(q, p)
      /\ q.tabs = Moved(p.tabs, t, pos)
    BY <1>2, <1>3, <1>4, <1>5, MoveInListsProperties
<1>7. q.tabs = s /\ ToSet(q.tabs) = ToSet(r.tabs) /\ SameSelection(q, r)
    BY <1>2, <1>3, <1>6 DEF SameSelection
<1>8. MoveToPosition(r, t, pos) = q
    BY DEF MoveToPosition, p
<1> QED
    BY <1>6, <1>7, <1>8 DEF s

-----------------------------------------------------------------------------
(* The positions and tabs the callers pass.                                *)

LEMMA PageNumProperties ==
    ASSUME NEW r, GoodWindow(r), NEW t \in ToSet(r.tabs)
    PROVE  /\ PageNum(r.pages, t) \in 0 .. Len(r.tabs) - 1
           /\ r.ntabs = Len(r.tabs) /\ Len(r.tabs) \in Nat \ {0}
<1>1. /\ TabList(r.tabs) /\ r.pages = r.tabs /\ r.ntabs = Len(r.tabs)
    BY DEF GoodWindow, WindowOK, OneOrder, NumbersFresh, TabList, Window
<1>2. IndexOf(r.tabs, t) \in 1 .. Len(r.tabs) /\ Len(r.tabs) \in Nat
    BY <1>1, IndexOfProperties, LenProperties DEF TabList
<1> QED
    BY <1>1, <1>2 DEF PageNum

\* multi_tab_new puts a tab at a position the window has.
LEMMA NewTabPositionProperties ==
    ASSUME NEW r, GoodWindow(r), NEW adjacent \in BOOLEAN
    PROVE  Position(r.tabs, NewTabPosition(r, adjacent))
<1>1. r.current \in ToSet(r.tabs)
    BY DEF GoodWindow, WindowOK, OneCurrent
<1>2. /\ PageNum(r.pages, r.current) \in 0 .. Len(r.tabs) - 1
      /\ Len(r.tabs) \in Nat \ {0}
    BY <1>1, PageNumProperties
<1> QED
    BY <1>2 DEF NewTabPosition, Position

\* Next and Previous Tab always find a tab of the window to show.
LEMMA StepTargetProperties ==
    ASSUME NEW r, GoodWindow(r), NEW dir \in {-1, 1}, NEW wrap \in BOOLEAN
    PROVE  StepTarget(r, dir, wrap) \in ToSet(r.tabs)
<1> DEFINE i == IndexOf(r.pages, r.current)
           n == Len(r.tabs)
           last == IF dir = 1 THEN n ELSE 1
<1>1. /\ TabList(r.tabs) /\ r.pages = r.tabs /\ r.ntabs = n
      /\ r.current \in ToSet(r.tabs)
    BY DEF GoodWindow, WindowOK, OneOrder, OneCurrent, NumbersFresh, TabList, Window
<1>2. /\ i \in 1 .. n /\ n \in Nat /\ r.tabs \in Seq(Tab)
      /\ r.tabs[i] = r.current
      /\ \A j \in 1 .. n : r.tabs[j] = r.current => j = i
    BY <1>1, IndexOfProperties, LenProperties DEF TabList
<1>3. StepTarget(r, dir, wrap) =
          CASE r.current = r.tabs[last] /\ wrap -> r.tabs[IF dir = 1 THEN 1 ELSE n]
            [] r.current = r.tabs[last] /\ ~wrap -> r.current
            [] OTHER -> r.tabs[i + dir]
    BY <1>1 DEF StepTarget
<1> HIDE DEF i, n, last
<1>4. CASE r.current = r.tabs[last] /\ wrap
    <2>1. StepTarget(r, dir, wrap) = r.tabs[IF dir = 1 THEN 1 ELSE n]
        BY <1>3, <1>4
    <2>2. (IF dir = 1 THEN 1 ELSE n) \in 1 .. Len(r.tabs)
        BY <1>2 DEF n
    <2> QED
        BY <1>2, <2>1, <2>2, ToSetMember
<1>5. CASE r.current = r.tabs[last] /\ ~wrap
    BY <1>1, <1>3, <1>5
<1>6. CASE r.current # r.tabs[last]
    <2>1. StepTarget(r, dir, wrap) = r.tabs[i + dir]
        BY <1>3, <1>6
    <2>2. i # last
        BY <1>2, <1>6
    <2>3. i + dir \in 1 .. Len(r.tabs)
        BY <1>2, <2>2 DEF n, last
    <2> QED
        BY <1>2, <2>1, <2>3, ToSetMember
<1> QED
    BY <1>4, <1>5, <1>6


-----------------------------------------------------------------------------
(* The inductive invariant.                                                *)

\* Every window of multi_win_all is in order and every other structure blank.
WindowsGood == /\ winAll \in Seq(Win) /\ IsInjective(winAll)
               /\ win \in [Win -> Window]
               /\ \A w \in Shown : GoodWindow(win[w])
               /\ \A w \in Win \ Shown : win[w] = BlankWindow

\* The tabs and the windows agree about who owns whom.
TabsOwned == /\ parent \in [Tab -> Win \cup {NoWin}]
             /\ life \in [Tab -> {"free", "live", "postponed"}]
             /\ OwnedOnce
             /\ \A t \in Tab : parent[t] = NoWin <=> life[t] # "live"

LoopRuns == /\ mainLoop \in BOOLEAN
            /\ mainLoop <=> winAll # <<>>

\* Only questions about children that exited open on top of another dialog.
DialogsNest(fs) ==
    /\ fs \in Seq(Frame)
    /\ \A i \in DOMAIN fs : i > 1 => fs[i].kind = "ask"

\* What a running dialog refers to.
DialogSound(f) ==
    /\ f.open => f.win \in Shown
    /\ f.kind = "name" /\ f.open => f.tab \in Live /\ parent[f.tab] = f.win
    /\ f.kind = "name" /\ ~f.open => f.tab \in Tab /\ life[f.tab] = "postponed"

DialogsSound(fs) == \A i \in DOMAIN fs : DialogSound(fs[i])

\* A postponed deletion has a Name Tab dialog to wait for.
PostponedWaits(fs) ==
    \A t \in Tab : life[t] = "postponed" =>
        \E i \in DOMAIN fs : fs[i].kind = "name" /\ fs[i].tab = t /\ ~fs[i].open

Dialogs(fs) == DialogsNest(fs) /\ DialogsSound(fs) /\ PostponedWaits(fs)

IInv == /\ WindowsGood /\ TabsOwned /\ LoopRuns
        /\ Dialogs(frames)
        /\ fault \in BOOLEAN

Core == WindowsGood /\ TabsOwned /\ LoopRuns

-----------------------------------------------------------------------------
(* Lists of windows.                                                       *)

LEMMA AppendList ==
    ASSUME NEW S, NEW s \in Seq(S), IsInjective(s), NEW e \in S \ ToSet(s)
    PROVE  /\ Append(s, e) \in Seq(S) /\ IsInjective(Append(s, e))
           /\ ToSet(Append(s, e)) = ToSet(s) \cup {e}
           /\ Append(s, e) # <<>>
<1> DEFINE r == Append(s, e)
<1>1. /\ r \in Seq(S) /\ Len(r) = Len(s) + 1 /\ Len(s) \in Nat
      /\ \A i \in 1 .. Len(s) : r[i] = s[i]
      /\ r[Len(s) + 1] = e
    BY AppendProperties, LenProperties
<1>2. Append(s, e) # <<>>
    BY AppendProperties
<1> HIDE DEF r
<1>3. \A i \in 1 .. Len(s) : s[i] # e
    BY ToSetMember
<1>4. \A i, j \in 1 .. Len(s) : s[i] = s[j] => i = j
    BY DEF IsInjective
<1>5. ASSUME NEW i \in 1 .. Len(r), NEW j \in 1 .. Len(r), r[i] = r[j]
      PROVE  i = j
    <2>1. CASE i = Len(s) + 1 \/ j = Len(s) + 1
        BY <1>1, <1>3, <1>5, <2>1
    <2>2. CASE i # Len(s) + 1 /\ j # Len(s) + 1
        BY <1>1, <1>4, <1>5, <2>2
    <2> QED
        BY <2>1, <2>2
<1>6. IsInjective(r)
    BY <1>1, <1>5 DEF IsInjective
<1>7. ASSUME NEW x \in ToSet(r) PROVE x \in ToSet(s) \cup {e}
    <2>1. PICK i \in 1 .. Len(r) : r[i] = x
        BY <1>1, ToSetMember
    <2>2. CASE i = Len(s) + 1
        BY <1>1, <2>1, <2>2
    <2>3. CASE i # Len(s) + 1
        <3>1. i \in 1 .. Len(s) /\ s[i] = x
            BY <1>1, <2>1, <2>3
        <3> QED
            BY <3>1, ToSetMember
    <2> QED
        BY <2>2, <2>3
<1>8. ASSUME NEW x \in ToSet(s) \cup {e} PROVE x \in ToSet(r)
    <2>1. CASE x = e
        <3>1. Len(s) + 1 \in 1 .. Len(r) /\ r[Len(s) + 1] = x
            BY <1>1, <2>1
        <3> QED
            BY <1>1, <3>1, ToSetMember
    <2>2. CASE x \in ToSet(s)
        <3>1. PICK i \in 1 .. Len(s) : s[i] = x
            BY <2>2, ToSetMember
        <3>2. i \in 1 .. Len(r) /\ r[i] = x
            BY <1>1, <3>1
        <3> QED
            BY <1>1, <3>2, ToSetMember
    <2> QED
        BY <2>1, <2>2
<1> QED
    BY <1>1, <1>2, <1>6, <1>7, <1>8 DEF r

\* multi_win_focus_in lists the same windows in another order.
LEMMA FocusList ==
    ASSUME NEW S, NEW s \in Seq(S), IsInjective(s), NEW e \in ToSet(s)
    PROVE  /\ <<e>> \o Without(s, e) \in Seq(S)
           /\ IsInjective(<<e>> \o Without(s, e))
           /\ ToSet(<<e>> \o Without(s, e)) = ToSet(s)
           /\ <<e>> \o Without(s, e) # <<>>
<1> DEFINE a == Without(s, e)
           d == <<e>>
           r == d \o a
<1>1. /\ a \in Seq(S) /\ IsInjective(a) /\ ToSet(a) = ToSet(s) \ {e}
      /\ Len(a) \in Nat
    BY WithoutElement, LenProperties
<1>2. e \in S
    BY DEF ToSet
<1>3. d \in Seq(S) /\ Len(d) = 1 /\ d[1] = e
    BY <1>2
<1> HIDE DEF a, d
<1>4. /\ r \in Seq(S) /\ Len(r) = Len(d) + Len(a)
      /\ \A i \in 1 .. Len(d) + Len(a) :
             r[i] = IF i <= Len(d) THEN d[i] ELSE a[i - Len(d)]
    <2>1. d \in Seq(S) /\ a \in Seq(S)
        BY <1>1, <1>3
    <2> QED
        BY <2>1, ConcatProperties
<1> HIDE DEF r
<1>5. /\ Len(r) = Len(a) + 1 /\ r[1] = e
      /\ \A i \in 2 .. Len(a) + 1 : r[i] = a[i - 1]
    BY <1>1, <1>3, <1>4
<1>6. \A i \in 1 .. Len(a) : a[i] # e
    BY <1>1, ToSetMember
<1>7. \A i, j \in 1 .. Len(a) : a[i] = a[j] => i = j
    BY <1>1 DEF IsInjective
<1>8. ASSUME NEW i \in 1 .. Len(r), NEW j \in 1 .. Len(r), r[i] = r[j]
      PROVE  i = j
    <2>1. CASE i = 1 \/ j = 1
        BY <1>1, <1>5, <1>6, <1>8, <2>1
    <2>2. CASE i # 1 /\ j # 1
        <3>1. /\ i - 1 \in 1 .. Len(a) /\ r[i] = a[i - 1]
              /\ j - 1 \in 1 .. Len(a) /\ r[j] = a[j - 1]
            BY <1>1, <1>5, <2>2
        <3>2. i - 1 = j - 1
            BY <1>7, <1>8, <3>1
        <3> QED
            BY <3>2
    <2> QED
        BY <2>1, <2>2
<1>9. IsInjective(r)
    BY <1>4, <1>8 DEF IsInjective
<1>10. ASSUME NEW x \in ToSet(r) PROVE x \in ToSet(s)
    <2>1. PICK i \in 1 .. Len(r) : r[i] = x
        BY <1>4, ToSetMember
    <2>2. CASE i = 1
        BY <1>5, <2>1, <2>2
    <2>3. CASE i # 1
        <3>1. i - 1 \in 1 .. Len(a) /\ a[i - 1] = x
            BY <1>1, <1>5, <2>1, <2>3
        <3> QED
            BY <1>1, <3>1, ToSetMember
    <2> QED
        BY <2>2, <2>3
<1>11. ASSUME NEW x \in ToSet(s) PROVE x \in ToSet(r)
    <2>1. CASE x = e
        <3>1. 1 \in 1 .. Len(r) /\ r[1] = x
            BY <1>1, <1>5, <2>1
        <3> QED
            BY <1>4, <3>1, ToSetMember
    <2>2. CASE x # e
        <3>1. PICK i \in 1 .. Len(a) : a[i] = x
            BY <1>1, <2>2, ToSetMember
        <3>2. i + 1 \in 1 .. Len(r) /\ r[i + 1] = x
            BY <1>1, <1>5, <3>1
        <3> QED
            BY <1>4, <3>2, ToSetMember
    <2> QED
        BY <2>1, <2>2
<1>12. r # <<>>
    BY <1>1, <1>5
<1> QED
    BY <1>4, <1>9, <1>10, <1>11, <1>12 DEF r, d, a

-----------------------------------------------------------------------------
(* Windows and their tabs.                                                 *)

LEMMA BlankTabs == BlankWindow.tabs = <<>> /\ ToSet(BlankWindow.tabs) = {}
BY DEF BlankWindow, ToSet

LEMMA ShownWindows == ASSUME WindowsGood PROVE Shown \subseteq Win
BY DEF WindowsGood, Shown, ToSet

LEMMA GoodTabs ==
    ASSUME NEW r, GoodWindow(r)
    PROVE  /\ r \in Window /\ TabList(r.tabs) /\ ToSet(r.tabs) \subseteq Tab
           /\ r.current \in ToSet(r.tabs) /\ r.ntabs = Len(r.tabs)
           /\ r.pages = r.tabs /\ r.menu = r.tabs
BY ToSetTabs DEF GoodWindow, WindowOK, OneOrder, OneCurrent, NumbersFresh,
                 TabList, Window

\* A listed tab is live and its parent is on the screen.
LEMMA ListedHome ==
    ASSUME WindowsGood, TabsOwned, NEW w \in Win, NEW t \in ToSet(win[w].tabs)
    PROVE  w \in Shown /\ t \in Live /\ t \in Tab /\ parent[t] = w
<1>1. t \in Live /\ parent[t] = w
    BY DEF TabsOwned, OwnedOnce
<1>2. t \in Tab
    BY <1>1 DEF Live
<1>3. w \in Shown
    BY BlankTabs DEF WindowsGood
<1> QED
    BY <1>1, <1>2, <1>3

\* A live tab is listed by its parent, which is on the screen.
LEMMA LiveHome ==
    ASSUME WindowsGood, TabsOwned, NEW t \in Live
    PROVE  /\ t \in Tab /\ parent[t] \in Win /\ parent[t] \in Shown
           /\ t \in ToSet(win[parent[t]].tabs)
<1>1. t \in Tab /\ life[t] = "live"
    BY DEF Live
<1>2. parent[t] \in Win
    BY <1>1 DEF TabsOwned
<1>3. t \in ToSet(win[parent[t]].tabs)
    BY <1>2 DEF TabsOwned, OwnedOnce
<1> QED
    BY <1>1, <1>2, <1>3, ListedHome

-----------------------------------------------------------------------------
(* Dialogs while the tabs they are about stay as they are.                 *)

LEMMA DialogsBecome ==
    ASSUME NEW fs, Dialogs(fs), frames' = fs, Shown \subseteq Shown',
           \A t \in Tab : life'[t] # life[t] \/ parent'[t] # parent[t]
               => /\ life'[t] # "postponed"
                  /\ \A i \in DOMAIN fs : fs[i].tab # t
    PROVE  Dialogs(frames)'
<1>1. DialogsNest(frames)'
    BY DEF Dialogs, DialogsNest
<1>2. ASSUME NEW i \in DOMAIN fs PROVE DialogSound(frames[i])'
    <2> DEFINE f == fs[i]
    <2>1. DialogSound(f) /\ frames'[i] = f
        BY DEF Dialogs, DialogsSound
    <2>2. f.tab \in Tab => life'[f.tab] = life[f.tab] /\ parent'[f.tab] = parent[f.tab]
        OBVIOUS
    <2> HIDE DEF f
    <2> QED
        BY <2>1, <2>2 DEF DialogSound, Live
<1>3. DialogsSound(frames)'
    BY <1>2 DEF DialogsSound
<1>4. PostponedWaits(frames)'
    <2> SUFFICES ASSUME NEW t \in Tab, life'[t] = "postponed"
                 PROVE  \E i \in DOMAIN fs :
                            /\ fs[i].kind = "name"
                            /\ fs[i].tab = t /\ ~fs[i].open
        BY DEF PostponedWaits
    <2>1. life[t] = "postponed"
        OBVIOUS
    <2> QED
        BY <2>1 DEF Dialogs, PostponedWaits
<1> QED
    BY <1>1, <1>3, <1>4 DEF Dialogs

LEMMA DialogsKept ==
    ASSUME Dialogs(frames), frames' = frames, Shown \subseteq Shown',
           \A t \in Tab : life'[t] # life[t] \/ parent'[t] # parent[t]
               => /\ life'[t] # "postponed"
                  /\ \A i \in DOMAIN frames : frames[i].tab # t
    PROVE  Dialogs(frames)'
BY DialogsBecome

LEMMA DialogsNone ==
    ASSUME Dialogs(<<>>), frames' = <<>>,
           \A t \in Tab : life'[t] = "postponed" => life[t] = "postponed"
    PROVE  Dialogs(frames)'
<1>1. \A t \in Tab : life[t] # "postponed"
    BY DEF Dialogs, PostponedWaits
<1>2. DialogsNest(frames)'
    BY DEF Dialogs, DialogsNest
<1>3. DialogsSound(frames)'
    BY DEF DialogsSound
<1>4. PostponedWaits(frames)'
    BY <1>1 DEF PostponedWaits
<1> QED
    BY <1>2, <1>3, <1>4 DEF Dialogs

-----------------------------------------------------------------------------
(* A handler that changes one window and keeps its tabs.                   *)

LEMMA ChangeWindowIInv ==
    ASSUME IInv, NEW w \in Shown, NEW r, GoodWindow(r),
           ToSet(r.tabs) = ToSet(win[w].tabs), ChangeWindow(w, r)
    PROVE  IInv'
<1>1. /\ win' = [win EXCEPT ![w] = r]
      /\ UNCHANGED <<winAll, parent, life, frames, mainLoop, fault>>
    BY DEF ChangeWindow
<1>2. w \in Win /\ r \in Window /\ Shown' = Shown /\ Live' = Live
    BY <1>1, ShownWindows DEF IInv, GoodWindow, Shown, Live
<1>3. WindowsGood'
    BY <1>1, <1>2 DEF IInv, WindowsGood
<1>4. OwnedOnce'
    <2> SUFFICES ASSUME NEW v \in Win
                 PROVE  ToSet(win'[v].tabs) = {t \in Live : parent[t] = v}
        BY <1>1, <1>2 DEF OwnedOnce
    <2>1. ToSet(win[v].tabs) = {t \in Live : parent[t] = v}
        BY DEF IInv, TabsOwned, OwnedOnce
    <2>2. ToSet(win'[v].tabs) = ToSet(win[v].tabs)
        BY <1>1, <1>2 DEF IInv, WindowsGood
    <2> QED
        BY <2>1, <2>2
<1>5. TabsOwned' /\ LoopRuns'
    BY <1>1, <1>4 DEF IInv, TabsOwned, LoopRuns
<1>6. Dialogs(frames)'
    BY <1>1, <1>2, DialogsKept DEF IInv
<1> QED
    BY <1>1, <1>3, <1>5, <1>6 DEF IInv

LEMMA ClickTabIInv == ASSUME IInv, ClickTab PROVE IInv'
<1>1. PICK w \in Shown : \E t \in ToSet(win[w].pages) :
          ChangeWindow(w, SetCurrentPage(win[w], t))
    BY DEF ClickTab
<1>2. PICK t \in ToSet(win[w].pages) : ChangeWindow(w, SetCurrentPage(win[w], t))
    BY <1>1
<1>3. GoodWindow(win[w]) /\ t \in ToSet(win[w].tabs)
    BY GoodTabs DEF IInv, WindowsGood
<1> QED
    BY <1>2, <1>3, SetCurrentPageProperties, ChangeWindowIInv DEF SameTabs

LEMMA SelectFromMenuIInv == ASSUME IInv, SelectFromMenu PROVE IInv'
<1>1. PICK w \in Shown : \E t \in ToSet(win[w].menu) :
          ChangeWindow(w, SelectTab(win[w], t))
    BY DEF SelectFromMenu
<1>2. PICK t \in ToSet(win[w].menu) : ChangeWindow(w, SelectTab(win[w], t))
    BY <1>1
<1>3. GoodWindow(win[w]) /\ t \in ToSet(win[w].tabs)
    BY GoodTabs DEF IInv, WindowsGood
<1>4. /\ OrderedWindow(win[w]) /\ LabelsFresh(win[w])
      /\ OneCurrent(win[w]) /\ TitleFresh(win[w])
    BY <1>3 DEF GoodWindow, WindowOK, OrderedWindow, NumbersFresh,
                LabelsFresh, TitleFresh
<1> QED
    BY <1>2, <1>3, <1>4, SelectTabProperties, ChangeWindowIInv DEF SameTabs

LEMMA StepTabIInv == ASSUME IInv, StepTab PROVE IInv'
<1>1. PICK w \in Shown, dir \in {-1, 1}, wrap \in BOOLEAN :
          ChangeWindow(w, SetCurrentPage(win[w], StepTarget(win[w], dir, wrap)))
    BY DEF StepTab
<1>2. GoodWindow(win[w])
    BY DEF IInv, WindowsGood
<1>3. StepTarget(win[w], dir, wrap) \in ToSet(win[w].tabs)
    BY <1>2, StepTargetProperties
<1> QED
    BY <1>1, <1>2, <1>3, SetCurrentPageProperties, ChangeWindowIInv DEF SameTabs

LEMMA MoveTabByOneIInv == ASSUME IInv, MoveTabByOne PROVE IInv'
<1>1. PICK w \in Shown, dir \in {-1, 1}, wrap \in BOOLEAN :
          LET pos == ShiftedPosition(win[w], dir, wrap)
          IN /\ pos \in 0 .. win[w].ntabs - 1
             /\ ChangeWindow(w, MoveToPosition(win[w], win[w].current, pos))
    BY DEF MoveTabByOne
<1> DEFINE pos == ShiftedPosition(win[w], dir, wrap)
           t == win[w].current
<1>2. GoodWindow(win[w])
    BY DEF IInv, WindowsGood
<1>3. t \in ToSet(win[w].tabs) /\ pos \in 0 .. Len(win[w].tabs) - 1
    BY <1>1, <1>2, GoodTabs
<1>4. ChangeWindow(w, MoveToPosition(win[w], t, pos))
    BY <1>1
<1> HIDE DEF pos, t
<1> QED
    BY <1>2, <1>3, <1>4, MoveToPositionProperties, ChangeWindowIInv

LEMMA DragAlongIInv == ASSUME IInv, DragAlong PROVE IInv'
<1>1. PICK w \in Shown : \E t \in ToSet(win[w].pages), n \in 1 .. win[w].ntabs :
          ChangeWindow(w, GtkReorder(SetCurrentPage(win[w], t), t, n - 1))
    BY DEF DragAlong
<1>2. PICK t \in ToSet(win[w].pages), n \in 1 .. win[w].ntabs :
          ChangeWindow(w, GtkReorder(SetCurrentPage(win[w], t), t, n - 1))
    BY <1>1
<1> DEFINE shown == SetCurrentPage(win[w], t)
           pos == n - 1
<1>3. GoodWindow(win[w])
    BY DEF IInv, WindowsGood
<1>4. t \in ToSet(win[w].tabs) /\ win[w].ntabs = Len(win[w].tabs)
    BY <1>3, GoodTabs
<1>5. GoodWindow(shown) /\ shown.tabs = win[w].tabs
    BY <1>3, <1>4, SetCurrentPageProperties DEF SameTabs
<1>6. Len(win[w].tabs) \in Nat
    BY <1>3, <1>4, PageNumProperties
<1>7. pos \in 0 .. Len(win[w].tabs) - 1
    BY <1>4, <1>6
<1>8. ChangeWindow(w, GtkReorder(shown, t, pos))
    BY <1>2
<1> HIDE DEF shown, pos
<1> QED
    BY <1>4, <1>5, <1>7, <1>8, GtkReorderProperties, ChangeWindowIInv

LEMMA DropOnSiblingIInv == ASSUME IInv, DropOnSibling PROVE IInv'
<1>1. PICK w \in Shown : \E t, target \in ToSet(win[w].pages) :
          /\ t # target
          /\ ChangeWindow(w, MoveToPosition(win[w], t,
                                 PageNum(win[w].pages, target)))
    BY DEF DropOnSibling
<1>2. PICK t \in ToSet(win[w].pages), target \in ToSet(win[w].pages) :
          ChangeWindow(w, MoveToPosition(win[w], t,
                              PageNum(win[w].pages, target)))
    BY <1>1
<1>3. GoodWindow(win[w])
    BY DEF IInv, WindowsGood
<1>4. t \in ToSet(win[w].tabs) /\ target \in ToSet(win[w].tabs)
    BY <1>3, GoodTabs
<1>5. PageNum(win[w].pages, target) \in 0 .. Len(win[w].tabs) - 1
    BY <1>3, <1>4, PageNumProperties
<1> QED
    BY <1>2, <1>3, <1>4, <1>5, MoveToPositionProperties, ChangeWindowIInv

LEMMA FocusInIInv == ASSUME IInv, FocusIn PROVE IInv'
<1>1. PICK w \in Shown : winAll' = <<w>> \o Without(winAll, w)
    BY DEF FocusIn
<1>2. UNCHANGED <<win, parent, life, frames, mainLoop, fault>>
    BY DEF FocusIn
<1>3. /\ winAll' \in Seq(Win) /\ IsInjective(winAll')
      /\ ToSet(winAll') = ToSet(winAll) /\ winAll' # <<>>
    BY <1>1, FocusList DEF IInv, WindowsGood, Shown
<1>4. winAll # <<>>
    BY DEF Shown, ToSet
<1>5. Shown' = Shown /\ Live' = Live
    BY <1>2, <1>3 DEF Shown, Live
<1>6. WindowsGood'
    BY <1>2, <1>3, <1>5 DEF IInv, WindowsGood
<1>7. TabsOwned'
    BY <1>2, <1>5 DEF IInv, TabsOwned, OwnedOnce
<1>8. LoopRuns'
    BY <1>2, <1>3, <1>4 DEF IInv, LoopRuns
<1>9. Dialogs(frames)'
    BY <1>2, <1>5, DialogsKept DEF IInv
<1> QED
    BY <1>2, <1>6, <1>7, <1>8, <1>9 DEF IInv

-----------------------------------------------------------------------------
(* New windows and new tabs.                                               *)

\* A tab that is not live is in no window.
LEMMA FreeHome ==
    ASSUME WindowsGood, TabsOwned, NEW t \in Tab, t \notin Live, NEW w \in Win
    PROVE  t \notin ToSet(win[w].tabs)
BY ListedHome

\* multi_win_add_tab for a page that is not in the notebook yet.
LEMMA AddNewTab ==
    ASSUME NEW r, NEW t, NEW pos, Receives(r, r, t, pos, FALSE)
    PROVE  /\ GoodWindow(AddTab(r, t, pos, FALSE))
           /\ AddTab(r, t, pos, FALSE).tabs = With(r.tabs, t, pos)
<1> DEFINE added == FALSE
<1>1. added \in BOOLEAN /\ Receives(r, r, t, pos, added)
    OBVIOUS
<1> HIDE DEF added
<1>2. /\ GoodWindow(AddTab(r, t, pos, added))
      /\ AddTab(r, t, pos, added).tabs = With(r.tabs, t, pos)
    BY <1>1, AddTabProperties
<1> QED
    BY <1>2 DEF added

\* The window that multi_win_new_full puts its first tab in.
LEMMA FirstTab ==
    ASSUME NEW t \in Tab
    PROVE  /\ GoodWindow(AddTab(BlankWindow, t, -1, FALSE))
           /\ ToSet(AddTab(BlankWindow, t, -1, FALSE).tabs) = {t}
<1> DEFINE r == AddTab(BlankWindow, t, -1, FALSE)
<1>1. TabList(BlankWindow.tabs) /\ Position(BlankWindow.tabs, -1)
    <2>1. BlankWindow.tabs \in Seq(Tab) /\ BlankWindow.tabs = <<>>
        BY BlankTabs, BlankWindowType DEF Window
    <2>2. IsInjective(<<>>)
        BY DEF IsInjective
    <2>3. Len(<<>>) = 0 /\ -1 \in -1 .. 0
        OBVIOUS
    <2> QED
        BY <2>1, <2>2, <2>3 DEF TabList, Position
<1>2. Receives(BlankWindow, BlankWindow, t, -1, FALSE)
    BY <1>1, BlankTabs DEF Receives
<1>3. GoodWindow(r) /\ r.tabs = With(BlankWindow.tabs, t, -1)
    BY <1>2, AddNewTab
<1>4. ToSet(With(BlankWindow.tabs, t, -1)) = {} \cup {t}
    BY <1>1, BlankTabs, WithProperties
<1> QED
    BY <1>3, <1>4

LEMMA OpenWindowIInv ==
    ASSUME IInv, NEW w \in FreshWin, NEW t \in FreshTab, OpenWindow(w, t),
           mainLoop
    PROVE  IInv'
<1> DEFINE r == AddTab(BlankWindow, t, -1, FALSE)
<1>1. GoodWindow(r) /\ ToSet(r.tabs) = {t} /\ t \in Tab /\ w \in Win \ Shown
    BY FirstTab DEF FreshTab, FreshWin
<1>2. /\ win' = [win EXCEPT ![w] = r]
      /\ winAll' = Append(winAll, w)
      /\ parent' = [parent EXCEPT ![t] = w]
      /\ life' = [life EXCEPT ![t] = "live"]
      /\ UNCHANGED <<frames, mainLoop, fault>>
    BY DEF OpenWindow
<1> HIDE DEF r
<1>3. /\ winAll' \in Seq(Win) /\ IsInjective(winAll')
      /\ Shown' = Shown \cup {w} /\ winAll' # <<>>
    BY <1>1, <1>2, AppendList DEF IInv, WindowsGood, Shown
<1>4. r \in Window /\ Shown \subseteq Win
    BY <1>1, GoodTabs, ShownWindows DEF IInv
<1>5. WindowsGood'
    BY <1>1, <1>2, <1>3, <1>4 DEF IInv, WindowsGood
<1>6. Live' = Live \cup {t} /\ t \notin Live
    BY <1>1, <1>2 DEF IInv, TabsOwned, Live, FreshTab
<1>7. OwnedOnce'
    <2> SUFFICES ASSUME NEW v \in Win
                 PROVE  ToSet(win'[v].tabs) = {u \in Live' : parent'[u] = v}
        BY DEF OwnedOnce
    <2>1. ToSet(win[v].tabs) = {u \in Live : parent[u] = v}
        BY DEF IInv, TabsOwned, OwnedOnce
    <2>2. \A u \in Live : parent'[u] = parent[u]
        BY <1>2, <1>6 DEF IInv, TabsOwned, Live
    <2>3. parent'[t] = w
        BY <1>1, <1>2 DEF IInv, TabsOwned
    <2>4. CASE v = w
        <3>1. win'[v] = r
            BY <1>1, <1>2, <2>4 DEF IInv, WindowsGood
        <3>2. \A u \in Live : parent[u] # w
            BY <1>1, LiveHome DEF IInv
        <3> QED
            BY <1>1, <1>6, <2>2, <2>3, <2>4, <3>1, <3>2
    <2>5. CASE v # w
        <3>1. win'[v] = win[v]
            BY <1>2, <2>5 DEF IInv, WindowsGood
        <3> QED
            BY <1>6, <2>1, <2>2, <2>3, <2>5, <3>1
    <2> QED
        BY <2>4, <2>5
<1>8. TabsOwned'
    BY <1>1, <1>2, <1>7, NoWinAssumption DEF IInv, TabsOwned
<1>9. LoopRuns'
    BY <1>2, <1>3 DEF IInv, LoopRuns
<1>10. Dialogs(frames)'
    <2>1. \A i \in DOMAIN frames : frames[i].tab # t
        BY DEF FreshTab, ToSet
    <2>2. \A u \in Tab : u # t => life'[u] = life[u] /\ parent'[u] = parent[u]
        BY <1>2 DEF IInv, TabsOwned
    <2>3. life'[t] = "live"
        BY <1>1, <1>2 DEF IInv, TabsOwned
    <2> QED
        BY <1>2, <1>3, <2>1, <2>2, <2>3, DialogsKept DEF IInv
<1> QED
    BY <1>2, <1>5, <1>8, <1>9, <1>10 DEF IInv

LEMMA OpenTabIInv ==
    ASSUME IInv, NEW w \in Shown, NEW t \in FreshTab, NEW adjacent \in BOOLEAN,
           OpenTab(w, t, adjacent)
    PROVE  IInv'
<1> DEFINE pos == NewTabPosition(win[w], adjacent)
           r == AddTab(win[w], t, pos, FALSE)
<1>1. /\ GoodWindow(win[w]) /\ t \in Tab /\ w \in Win /\ t \notin Live
      /\ Shown \subseteq Win
    BY ShownWindows DEF IInv, WindowsGood, FreshTab, Live
<1>2. t \notin ToSet(win[w].tabs)
    BY <1>1, FreeHome DEF IInv
<1>3. TabList(win[w].tabs) /\ Position(win[w].tabs, pos)
    BY <1>1, GoodTabs, NewTabPositionProperties
<1>4. /\ win' = [win EXCEPT ![w] = r]
      /\ parent' = [parent EXCEPT ![t] = w]
      /\ life' = [life EXCEPT ![t] = "live"]
      /\ UNCHANGED <<winAll, frames, mainLoop, fault>>
    <2>1. win' = [win EXCEPT ![w] =
                     AddTab(@, t, NewTabPosition(@, adjacent), FALSE)]
        BY DEF OpenTab
    <2> QED
        BY <1>1, <2>1 DEF OpenTab, IInv, WindowsGood
<1> HIDE DEF pos
<1>5. Receives(win[w], win[w], t, pos, FALSE)
    BY <1>1, <1>2, <1>3 DEF Receives
<1>6. GoodWindow(r) /\ r.tabs = With(win[w].tabs, t, pos)
    BY <1>5, AddNewTab
<1>7. ToSet(r.tabs) = ToSet(win[w].tabs) \cup {t} /\ r \in Window
    <2>1. t \in Tab \ ToSet(win[w].tabs)
        BY <1>1, <1>2
    <2>2. ToSet(With(win[w].tabs, t, pos)) = ToSet(win[w].tabs) \cup {t}
        BY <1>3, <2>1, WithProperties
    <2> QED
        BY <1>6, <2>2, GoodTabs
<1> HIDE DEF r
<1>8. Shown' = Shown
    BY <1>4 DEF Shown
<1>9. WindowsGood'
    BY <1>1, <1>4, <1>6, <1>7, <1>8 DEF IInv, WindowsGood
<1>10. Live' = Live \cup {t}
    BY <1>1, <1>4 DEF IInv, TabsOwned, Live
<1>11. OwnedOnce'
    <2> SUFFICES ASSUME NEW v \in Win
                 PROVE  ToSet(win'[v].tabs) = {u \in Live' : parent'[u] = v}
        BY DEF OwnedOnce
    <2>1. ToSet(win[v].tabs) = {u \in Live : parent[u] = v}
        BY DEF IInv, TabsOwned, OwnedOnce
    <2>2. \A u \in Live : parent'[u] = parent[u]
        BY <1>1, <1>4 DEF IInv, TabsOwned, Live
    <2>3. parent'[t] = w
        BY <1>1, <1>4 DEF IInv, TabsOwned
    <2>4. CASE v = w
        <3>1. win'[v] = r
            BY <1>1, <1>4, <2>4 DEF IInv, WindowsGood
        <3> QED
            BY <1>7, <1>10, <2>1, <2>2, <2>3, <2>4, <3>1
    <2>5. CASE v # w
        <3>1. win'[v] = win[v]
            BY <1>4, <2>5 DEF IInv, WindowsGood
        <3> QED
            BY <1>10, <2>1, <2>2, <2>3, <2>5, <3>1
    <2> QED
        BY <2>4, <2>5
<1>12. TabsOwned'
    BY <1>1, <1>4, <1>11, NoWinAssumption DEF IInv, TabsOwned
<1>13. LoopRuns'
    BY <1>4 DEF IInv, LoopRuns
<1>14. Dialogs(frames)'
    <2>1. \A i \in DOMAIN frames : frames[i].tab # t
        BY DEF FreshTab, ToSet
    <2>2. \A u \in Tab : u # t => life'[u] = life[u] /\ parent'[u] = parent[u]
        BY <1>4 DEF IInv, TabsOwned
    <2>3. life'[t] = "live"
        BY <1>1, <1>4 DEF IInv, TabsOwned
    <2> QED
        BY <1>4, <1>8, <2>1, <2>2, <2>3, DialogsKept DEF IInv
<1> QED
    BY <1>4, <1>9, <1>12, <1>13, <1>14 DEF IInv

-----------------------------------------------------------------------------
(* Tabs leave.                                                             *)

\* What is left of a window when t has gone, its last tab or not.
Remaining(r, t) == IF RemoveTab(r, t).ntabs = 0 THEN BlankWindow
                                               ELSE RemoveTab(r, t)

LEMMA RemainingProperties ==
    ASSUME NEW r, GoodWindow(r), NEW t \in ToSet(r.tabs)
    PROVE  /\ Remaining(r, t) \in Window
           /\ ToSet(Remaining(r, t).tabs) = ToSet(r.tabs) \ {t}
           /\ RemoveTab(r, t).ntabs = 0 <=> ToSet(r.tabs) = {t}
           /\ RemoveTab(r, t).ntabs # 0 => GoodWindow(Remaining(r, t))
           /\ RemoveTab(r, t).ntabs = 0 => Remaining(r, t) = BlankWindow
<1> DEFINE q == RemoveTab(r, t)
<1>1. /\ q \in Window /\ q.tabs = Without(r.tabs, t)
      /\ q.ntabs = 0 <=> q.tabs = <<>>
      /\ q.ntabs # 0 => GoodWindow(q)
    BY RemoveTabProperties
<1>2. ToSet(q.tabs) = ToSet(r.tabs) \ {t} /\ q.tabs \in Seq(Tab)
    BY <1>1, GoodTabs, WithoutProperties DEF TabList
<1>3. Remaining(r, t) = IF q.ntabs = 0 THEN BlankWindow ELSE q
    BY DEF Remaining
<1> HIDE DEF q
<1>4. ToSet(q.tabs) = {} <=> q.ntabs = 0
    BY <1>1, <1>2, ToSetEmpty
<1>5. q.ntabs = 0 <=> ToSet(r.tabs) = {t}
    BY <1>2, <1>4
<1>6. CASE q.ntabs = 0
    BY <1>2, <1>3, <1>4, <1>5, <1>6, BlankTabs, BlankWindowType DEF q
<1>7. CASE q.ntabs # 0
    BY <1>1, <1>2, <1>3, <1>5, <1>7 DEF q
<1> QED
    BY <1>6, <1>7

\* multi_tab_delete keeps the windows and the tabs in agreement.
LEMMA DeleteTabCore ==
    ASSUME Core, NEW t \in Live, NEW fs, DeleteTab(t, fs)
    PROVE  Core'
<1> DEFINE w == parent[t]
           left == Remaining(win[w], t)
           emptied == RemoveTab(win[w], t).ntabs = 0
           list == IF emptied THEN Without(winAll, w) ELSE winAll
<1>1. /\ t \in Tab /\ w \in Win /\ w \in Shown /\ t \in ToSet(win[w].tabs)
      /\ life[t] = "live" /\ Shown \subseteq Win
    BY LiveHome, ShownWindows DEF Core, Live
<1>2. GoodWindow(win[w])
    BY <1>1 DEF Core, WindowsGood
<1>3. /\ left \in Window
      /\ ToSet(left.tabs) = ToSet(win[w].tabs) \ {t}
      /\ emptied <=> ToSet(win[w].tabs) = {t}
      /\ ~emptied => GoodWindow(left)
      /\ emptied => left = BlankWindow
    BY <1>1, <1>2, RemainingProperties
<1>4. /\ win' = [win EXCEPT ![w] = left]
      /\ winAll' = list
      /\ mainLoop' = (mainLoop /\ list # <<>>)
      /\ parent' = [u \in Tab |-> IF u \in {t} THEN NoWin ELSE parent[u]]
      /\ life' = [u \in Tab |-> IF u \notin {t} THEN life[u]
                                ELSE IF Renaming(fs, u) THEN "postponed"
                                ELSE "free"]
    BY DEF DeleteTab, FreeTabs, SetWindows, Remaining
<1> HIDE DEF left, emptied, w
<1>5. /\ list \in Seq(Win) /\ IsInjective(list)
      /\ ToSet(list) = IF emptied THEN Shown \ {w} ELSE Shown
    <2>1. winAll \in Seq(Win) /\ IsInjective(winAll) /\ w \in ToSet(winAll)
        BY <1>1 DEF Core, WindowsGood, Shown
    <2>2. CASE emptied
        BY <2>1, <2>2, WithoutElement DEF Shown
    <2>3. CASE ~emptied
        BY <2>1, <2>3 DEF Shown
    <2> QED
        BY <2>2, <2>3
<1> HIDE DEF list
<1>6. Shown' = IF emptied THEN Shown \ {w} ELSE Shown
    BY <1>4, <1>5 DEF Shown
<1>7. WindowsGood'
    <2>1. win' \in [Win -> Window]
        BY <1>1, <1>3, <1>4 DEF Core, WindowsGood
    <2>2. ASSUME NEW v \in Shown' PROVE GoodWindow(win'[v])
        <3>1. v \in Shown /\ v \in Win /\ (v = w => ~emptied)
            BY <1>1, <1>6
        <3> QED
            BY <1>1, <1>3, <1>4, <3>1 DEF Core, WindowsGood
    <2>3. ASSUME NEW v \in Win \ Shown' PROVE win'[v] = BlankWindow
        <3>1. v \notin Shown \/ (v = w /\ emptied)
            BY <1>6
        <3> QED
            BY <1>1, <1>3, <1>4, <3>1 DEF Core, WindowsGood
    <2> QED
        BY <1>4, <1>5, <2>1, <2>2, <2>3 DEF WindowsGood
<1>8. Live' = Live \ {t}
    <2>1. \A u \in Tab : life'[u] = "live" <=> life[u] = "live" /\ u # t
        BY <1>4
    <2> QED
        BY <2>1 DEF Live
<1>9. OwnedOnce'
    <2> SUFFICES ASSUME NEW v \in Win
                 PROVE  ToSet(win'[v].tabs) = {u \in Live' : parent'[u] = v}
        BY DEF OwnedOnce
    <2>1. ToSet(win[v].tabs) = {u \in Live : parent[u] = v}
        BY DEF Core, TabsOwned, OwnedOnce
    <2>2. \A u \in Live' : parent'[u] = parent[u]
        BY <1>4, <1>8 DEF Live
    <2>3. CASE v = w
        <3>1. win'[v] = left
            BY <1>1, <1>4, <2>3 DEF Core, WindowsGood
        <3> QED
            BY <1>3, <1>8, <2>1, <2>2, <2>3, <3>1
    <2>4. CASE v # w
        <3>1. win'[v] = win[v]
            BY <1>4, <2>4 DEF Core, WindowsGood
        <3>2. parent[t] # v
            BY <2>4 DEF w
        <3> QED
            BY <1>8, <2>1, <2>2, <3>1, <3>2
    <2> QED
        BY <2>3, <2>4
<1>10. TabsOwned'
    <2>1. parent' \in [Tab -> Win \cup {NoWin}]
        BY <1>4 DEF Core, TabsOwned
    <2>2. life' \in [Tab -> {"free", "live", "postponed"}]
        BY <1>4 DEF Core, TabsOwned
    <2>3. ASSUME NEW u \in Tab PROVE parent'[u] = NoWin <=> life'[u] # "live"
        BY <1>4 DEF Core, TabsOwned
    <2> QED
        BY <1>9, <2>1, <2>2, <2>3 DEF TabsOwned
<1>11. LoopRuns'
    <2>1. mainLoop
        BY <1>1 DEF Core, LoopRuns, Shown, ToSet
    <2> QED
        BY <1>4, <2>1 DEF LoopRuns
<1> QED
    BY <1>7, <1>10, <1>11 DEF Core

\* The window that goes with t, if t is its last tab.
GoesWith(t) == IF ToSet(win[parent[t]].tabs) = {t} THEN {parent[t]} ELSE {}

LEMMA DeleteTabEffects ==
    ASSUME Core, NEW t \in Live, NEW fs, DeleteTab(t, fs)
    PROVE  /\ Shown' = Shown \ GoesWith(t)
           /\ frames' = CloseDialogs(fs, {t}, GoesWith(t))
           /\ \A u \in Tab \ {t} : life'[u] = life[u] /\ parent'[u] = parent[u]
           /\ life'[t] = IF Renaming(fs, t) THEN "postponed" ELSE "free"
           /\ parent'[t] = NoWin
           /\ fault' = fault
<1> DEFINE w == parent[t]
           emptied == RemoveTab(win[w], t).ntabs = 0
<1>1. t \in Tab /\ w \in Shown /\ t \in ToSet(win[w].tabs)
    BY LiveHome DEF Core
<1>2. emptied <=> ToSet(win[w].tabs) = {t}
    BY <1>1, RemainingProperties DEF Core, WindowsGood
<1>3. /\ winAll' = IF emptied THEN Without(winAll, w) ELSE winAll
      /\ frames' = CloseDialogs(fs, {t}, IF emptied THEN {w} ELSE {})
      /\ parent' = [u \in Tab |-> IF u \in {t} THEN NoWin ELSE parent[u]]
      /\ life' = [u \in Tab |-> IF u \notin {t} THEN life[u]
                                ELSE IF Renaming(fs, u) THEN "postponed"
                                ELSE "free"]
      /\ fault' = fault
    BY DEF DeleteTab, FreeTabs, SetWindows
<1> HIDE DEF emptied
<1>4. GoesWith(t) = IF emptied THEN {w} ELSE {}
    BY <1>2 DEF GoesWith
<1> HIDE DEF w
<1>5. Shown' = Shown \ GoesWith(t)
    <2>1. winAll \in Seq(Win) /\ IsInjective(winAll) /\ w \in ToSet(winAll)
        BY <1>1 DEF Core, WindowsGood, Shown
    <2>2. CASE emptied
        BY <1>3, <1>4, <2>1, <2>2, WithoutElement DEF Shown
    <2>3. CASE ~emptied
        BY <1>3, <1>4, <2>3 DEF Shown
    <2> QED
        BY <2>2, <2>3
<1> QED
    BY <1>1, <1>3, <1>4, <1>5

LEMMA CloseDialogsProperties ==
    ASSUME NEW fs \in Seq(Frame), NEW ts, NEW ws
    PROVE  /\ CloseDialogs(fs, ts, ws) \in Seq(Frame)
           /\ DOMAIN CloseDialogs(fs, ts, ws) = DOMAIN fs
           /\ \A i \in DOMAIN fs :
                 /\ CloseDialogs(fs, ts, ws)[i].kind = fs[i].kind
                 /\ CloseDialogs(fs, ts, ws)[i].tab = fs[i].tab
                 /\ CloseDialogs(fs, ts, ws)[i].win = fs[i].win
                 /\ CloseDialogs(fs, ts, ws)[i].open <=>
                       /\ fs[i].open
                       /\ ~(fs[i].kind = "name" /\ fs[i].tab \in ts)
                       /\ fs[i].win \notin ws
<1> DEFINE c == CloseDialogs(fs, ts, ws)
           Closed(f) == (f.kind = "name" /\ f.tab \in ts) \/ f.win \in ws
           New(f) == IF Closed(f) THEN [f EXCEPT !.open = FALSE] ELSE f
<1>1. c = [i \in DOMAIN fs |-> New(fs[i])]
    BY DEF CloseDialogs
<1>2. \A f \in Frame : /\ New(f) \in Frame
                       /\ New(f).kind = f.kind /\ New(f).tab = f.tab
                       /\ New(f).win = f.win
                       /\ New(f).open <=> f.open /\ ~Closed(f)
    BY DEF Frame
<1>3. \A i \in DOMAIN fs : fs[i] \in Frame
    OBVIOUS
<1> HIDE DEF New, c
<1>4. /\ DOMAIN c = DOMAIN fs
      /\ \A i \in DOMAIN fs : c[i] = New(fs[i]) /\ c[i] \in Frame
    BY <1>1, <1>2, <1>3
<1>5. c \in Seq(Frame)
    <2>1. DOMAIN fs = 1 .. Len(fs) /\ Len(fs) \in Nat
        BY LenProperties
    <2>2. c \in [1 .. Len(fs) -> Frame]
        BY <1>1, <1>4, <2>1
    <2> QED
        BY <2>1, <2>2, SeqDef
<1> QED
    BY <1>2, <1>3, <1>4, <1>5 DEF c

\* Deleting a tab leaves no dialog with a reference to it, but the Name Tab
\* dialog that the deletion then waits for.
LEMMA DeleteTabDialogs ==
    ASSUME Core, NEW t \in Live, NEW fs, Dialogs(fs), DeleteTab(t, fs)
    PROVE  Dialogs(frames)'
<1>1. /\ Shown' = Shown \ GoesWith(t)
      /\ frames' = CloseDialogs(fs, {t}, GoesWith(t))
      /\ \A u \in Tab \ {t} : life'[u] = life[u] /\ parent'[u] = parent[u]
      /\ life'[t] = IF Renaming(fs, t) THEN "postponed" ELSE "free"
      /\ parent'[t] = NoWin
    BY DeleteTabEffects
<1>2. fs \in Seq(Frame) /\ t \in Tab /\ life[t] = "live"
    BY DEF Dialogs, DialogsNest, Live
<1>3. /\ frames' \in Seq(Frame) /\ DOMAIN frames' = DOMAIN fs
      /\ \A i \in DOMAIN fs :
            /\ frames'[i].kind = fs[i].kind /\ frames'[i].tab = fs[i].tab
            /\ frames'[i].win = fs[i].win
            /\ frames'[i].open <=> /\ fs[i].open
                                   /\ ~(fs[i].kind = "name" /\ fs[i].tab = t)
                                   /\ fs[i].win \notin GoesWith(t)
    BY <1>1, <1>2, CloseDialogsProperties
<1>4. Renaming(fs, t) <=>
          \E i \in DOMAIN fs : fs[i].kind = "name" /\ fs[i].tab = t
    BY DEF Renaming, ToSet
<1>5. DialogsNest(frames)'
    BY <1>3 DEF Dialogs, DialogsNest
<1>6. ASSUME NEW i \in DOMAIN fs PROVE DialogSound(frames[i])'
    <2> DEFINE f == fs[i]
    <2>1. DialogSound(f)
        BY DEF Dialogs, DialogsSound
    <2>2. /\ frames'[i].kind = f.kind /\ frames'[i].tab = f.tab
          /\ frames'[i].win = f.win
          /\ frames'[i].open <=> /\ f.open
                                 /\ ~(f.kind = "name" /\ f.tab = t)
                                 /\ f.win \notin GoesWith(t)
        BY <1>3
    <2>3. f.kind = "name" /\ f.tab = t => Renaming(fs, t)
        BY <1>4
    <2> HIDE DEF f
    <2>4. ASSUME f.kind = "name", f.open, f.tab # t
          PROVE  f.win \notin GoesWith(t)
        <3>1. f.tab \in Live /\ parent[f.tab] = f.win
            BY <2>1, <2>4 DEF DialogSound
        <3>2. f.tab \in ToSet(win[f.win].tabs)
            BY <3>1, LiveHome DEF Core
        <3> QED
            BY <2>4, <3>2 DEF GoesWith
    <2>5. frames'[i].open => frames'[i].win \in Shown'
        BY <1>1, <2>1, <2>2 DEF DialogSound
    <2>6. ASSUME frames'[i].kind = "name", frames'[i].open
          PROVE  frames'[i].tab \in Live' /\ parent'[frames'[i].tab] = frames'[i].win
        <3>1. f.kind = "name" /\ f.open /\ f.tab # t
            BY <2>1, <2>2, <2>6
        <3>2. f.tab \in Tab /\ life[f.tab] = "live" /\ parent[f.tab] = f.win
            BY <2>1, <3>1 DEF DialogSound, Live
        <3> QED
            BY <1>1, <2>2, <3>1, <3>2 DEF Live
    <2>7. ASSUME frames'[i].kind = "name", ~frames'[i].open
          PROVE  frames'[i].tab \in Tab /\ life'[frames'[i].tab] = "postponed"
        <3>1. f.kind = "name" /\ (f.tab = t \/ ~f.open)
            BY <2>2, <2>4, <2>7
        <3>2. CASE f.tab = t
            BY <1>1, <1>2, <2>2, <2>3, <3>1, <3>2
        <3>3. CASE f.tab # t
            BY <1>1, <2>1, <2>2, <3>1, <3>3 DEF DialogSound
        <3> QED
            BY <3>2, <3>3
    <2> QED
        BY <2>5, <2>6, <2>7 DEF DialogSound
<1>7. DialogsSound(frames)'
    BY <1>3, <1>6 DEF DialogsSound
<1>8. PostponedWaits(frames)'
    <2> SUFFICES ASSUME NEW u \in Tab, life'[u] = "postponed"
                 PROVE  \E i \in DOMAIN frames' :
                            /\ frames'[i].kind = "name"
                            /\ frames'[i].tab = u /\ ~frames'[i].open
        BY DEF PostponedWaits
    <2>1. CASE u = t
        <3>1. PICK i \in DOMAIN fs : fs[i].kind = "name" /\ fs[i].tab = u
            <4>1. Renaming(fs, u)
                BY <1>1, <2>1
            <4> QED
                BY <1>4, <2>1, <4>1
        <3>2. i \in DOMAIN frames' /\ frames'[i].kind = "name"
              /\ frames'[i].tab = u /\ ~frames'[i].open
            BY <1>3, <2>1, <3>1
        <3> QED
            BY <3>2
    <2>2. CASE u # t
        <3>1. PICK i \in DOMAIN fs : /\ fs[i].kind = "name"
                                     /\ fs[i].tab = u /\ ~fs[i].open
            BY <1>1, <2>2 DEF Dialogs, PostponedWaits
        <3> QED
            BY <1>3, <3>1
    <2> QED
        BY <2>1, <2>2
<1> QED
    BY <1>5, <1>7, <1>8 DEF Dialogs

-----------------------------------------------------------------------------
(* Tabs change windows.                                                    *)

\* multi_tab_remove_from_parent and multi_win_add_tab, one after the other.
LEMMA MoveTabIInv ==
    ASSUME IInv, frames = <<>>, NEW t \in Live, NEW dst \in Win, dst # parent[t],
           NEW pos, Position(win[dst].tabs, pos), NEW dragged \in BOOLEAN,
           NEW list \in Seq(Win), IsInjective(list), ToSet(list) = Shown \cup {dst},
           MoveTab(t, dst, pos, dragged, list)
    PROVE  IInv'
<1> DEFINE src == parent[t]
           left == Remaining(win[src], t)
           emptied == RemoveTab(win[src], t).ntabs = 0
           dest == IF dragged THEN [win[dst] EXCEPT !.pages = With(@, t, pos)]
                              ELSE win[dst]
           into == AddTab(dest, t, pos, dragged)
           rest == IF emptied THEN Without(list, src) ELSE list
<1>1. /\ t \in Tab /\ src \in Win /\ src \in Shown /\ t \in ToSet(win[src].tabs)
      /\ life[t] = "live" /\ Shown \subseteq Win
    BY LiveHome, ShownWindows DEF IInv, Live
<1>2. /\ left \in Window
      /\ ToSet(left.tabs) = ToSet(win[src].tabs) \ {t}
      /\ ~emptied => GoodWindow(left)
      /\ emptied => left = BlankWindow
    BY <1>1, RemainingProperties DEF IInv, WindowsGood
<1>3. /\ GoodWindow(win[dst]) \/ win[dst] = BlankWindow
      /\ t \notin ToSet(win[dst].tabs)
    BY ListedHome DEF IInv, WindowsGood
<1>4. Receives(win[dst], dest, t, pos, dragged)
    BY <1>1, <1>3 DEF Receives
<1>5. GoodWindow(into) /\ into.tabs = With(win[dst].tabs, t, pos)
    BY <1>4, AddTabProperties
<1>6. /\ win' = [win EXCEPT ![src] = left, ![dst] = into]
      /\ parent' = [parent EXCEPT ![t] = dst]
      /\ winAll' = rest
      /\ mainLoop' = (mainLoop /\ rest # <<>>)
      /\ UNCHANGED <<life, frames, fault>>
    BY DEF MoveTab, SetWindows, Remaining
<1> HIDE DEF left, emptied, into, dest, src
<1>7. ToSet(into.tabs) = ToSet(win[dst].tabs) \cup {t} /\ into \in Window
    <2>1. TabList(win[dst].tabs)
        <3>1. CASE GoodWindow(win[dst])
            BY <3>1, GoodTabs
        <3>2. CASE win[dst] = BlankWindow
            <4>1. win[dst].tabs = <<>> /\ win[dst].tabs \in Seq(Tab)
                BY <3>2, BlankTabs, BlankWindowType DEF Window
            <4>2. IsInjective(<<>>)
                BY DEF IsInjective
            <4> QED
                BY <4>1, <4>2 DEF TabList
        <3> QED
            BY <1>3, <3>1, <3>2
    <2>2. t \in Tab \ ToSet(win[dst].tabs)
        BY <1>1, <1>3
    <2>3. ToSet(With(win[dst].tabs, t, pos)) = ToSet(win[dst].tabs) \cup {t}
        BY <2>1, <2>2, WithProperties
    <2> QED
        BY <1>5, <2>3, GoodTabs
<1>8. /\ rest \in Seq(Win) /\ IsInjective(rest)
      /\ ToSet(rest) = IF emptied THEN (Shown \cup {dst}) \ {src}
                                  ELSE Shown \cup {dst}
    <2>1. src \in ToSet(list)
        BY <1>1
    <2>2. CASE emptied
        BY <2>1, <2>2, WithoutElement
    <2>3. CASE ~emptied
        BY <2>3
    <2> QED
        BY <2>2, <2>3
<1> HIDE DEF rest
<1>9. Shown' = IF emptied THEN (Shown \cup {dst}) \ {src} ELSE Shown \cup {dst}
    BY <1>6, <1>8 DEF Shown
<1>10. src # dst
    BY DEF src
<1>11. /\ win' \in [Win -> Window] /\ win'[src] = left /\ win'[dst] = into
       /\ \A v \in Win \ {src, dst} : win'[v] = win[v]
    BY <1>1, <1>2, <1>6, <1>7, <1>10 DEF IInv, WindowsGood
<1>12. WindowsGood'
    <2>1. ASSUME NEW v \in Shown' PROVE GoodWindow(win'[v])
        <3>1. v \in Win /\ (v = src => ~emptied) /\ v \in Shown \cup {dst}
            BY <1>1, <1>9
        <3> QED
            BY <1>2, <1>5, <1>11, <3>1 DEF IInv, WindowsGood
    <2>2. ASSUME NEW v \in Win \ Shown' PROVE win'[v] = BlankWindow
        <3>1. v # dst /\ (v \notin Shown \/ (v = src /\ emptied))
            BY <1>9, <1>10
        <3> QED
            BY <1>1, <1>2, <1>11, <3>1 DEF IInv, WindowsGood
    <2> QED
        BY <1>6, <1>8, <1>11, <2>1, <2>2 DEF WindowsGood
<1>13. OwnedOnce'
    <2> SUFFICES ASSUME NEW v \in Win
                 PROVE  ToSet(win'[v].tabs) = {u \in Live : parent'[u] = v}
        BY <1>6 DEF OwnedOnce, Live
    <2>1. ToSet(win[v].tabs) = {u \in Live : parent[u] = v}
        BY DEF IInv, TabsOwned, OwnedOnce
    <2>2. \A u \in Live \ {t} : parent'[u] = parent[u]
        BY <1>6 DEF IInv, TabsOwned, Live
    <2>3. parent'[t] = dst /\ parent[t] = src
        BY <1>1, <1>6 DEF IInv, TabsOwned, src
    <2>4. CASE v = src
        BY <1>2, <1>10, <1>11, <2>1, <2>2, <2>3, <2>4
    <2>5. CASE v = dst
        BY <1>7, <1>11, <2>1, <2>2, <2>3, <2>5
    <2>6. CASE v # src /\ v # dst
        BY <1>11, <2>1, <2>2, <2>3, <2>6
    <2> QED
        BY <2>4, <2>5, <2>6
<1>14. TabsOwned'
    BY <1>1, <1>6, <1>13, NoWinAssumption DEF IInv, TabsOwned
<1>15. LoopRuns'
    <2>1. mainLoop
        BY <1>1 DEF IInv, LoopRuns, Shown, ToSet
    <2> QED
        BY <1>6, <2>1 DEF LoopRuns
<1>16. Dialogs(frames)'
    BY <1>6, DialogsNone DEF IInv
<1> QED
    BY <1>6, <1>12, <1>14, <1>15, <1>16 DEF IInv

\* A window about to be made: multi_win_new_blank appends it to multi_win_all.
LEMMA AppendWindow ==
    ASSUME IInv, NEW dst \in FreshWin, NEW t \in Live
    PROVE  /\ dst \in Win /\ dst # parent[t]
           /\ Append(winAll, dst) \in Seq(Win)
           /\ IsInjective(Append(winAll, dst))
           /\ ToSet(Append(winAll, dst)) = Shown \cup {dst}
           /\ win[dst].tabs = <<>>
<1>1. dst \in Win \ Shown /\ parent[t] \in Shown
    BY LiveHome DEF IInv, FreshWin
<1> QED
    BY <1>1, AppendList, BlankTabs DEF IInv, WindowsGood, Shown

LEMMA DetachTabIInv == ASSUME IInv, DetachTab PROVE IInv'
<1>1. PICK w \in Shown, dst \in FreshWin :
          MoveTab(win[w].current, dst, -1, FALSE, Append(winAll, dst))
    BY DEF DetachTab
<1> DEFINE t == win[w].current
           list == Append(winAll, dst)
           added == FALSE
<1>2. w \in Win /\ GoodWindow(win[w]) /\ frames = <<>>
    BY ShownWindows DEF IInv, WindowsGood, DetachTab, UserCanAct
<1>3. t \in Live
    BY <1>2, GoodTabs, ListedHome DEF IInv
<1> HIDE DEF t
<1>4. /\ dst \in Win /\ dst # parent[t] /\ list \in Seq(Win) /\ IsInjective(list)
      /\ ToSet(list) = Shown \cup {dst} /\ win[dst].tabs = <<>>
    BY <1>3, AppendWindow
<1>5. Position(win[dst].tabs, -1)
    BY <1>4 DEF Position
<1>6. MoveTab(t, dst, -1, added, list) /\ added \in BOOLEAN
    BY <1>1 DEF t
<1> HIDE DEF list, added
<1> QED
    BY <1>2, <1>3, <1>4, <1>5, <1>6, MoveTabIInv

LEMMA DropOnDesktopIInv == ASSUME IInv, DropOnDesktop PROVE IInv'
<1>1. PICK t \in Live, dst \in FreshWin :
          MoveTab(t, dst, 0, TRUE, Append(winAll, dst))
    BY DEF DropOnDesktop
<1> DEFINE list == Append(winAll, dst)
           added == TRUE
<1>2. frames = <<>>
    BY DEF DropOnDesktop, UserCanAct
<1>3. /\ dst \in Win /\ dst # parent[t] /\ list \in Seq(Win) /\ IsInjective(list)
      /\ ToSet(list) = Shown \cup {dst} /\ win[dst].tabs = <<>>
    BY AppendWindow
<1>4. Position(win[dst].tabs, 0)
    BY <1>3 DEF Position
<1>5. MoveTab(t, dst, 0, added, list) /\ added \in BOOLEAN
    BY <1>1
<1> HIDE DEF list, added
<1> QED
    BY <1>2, <1>3, <1>4, <1>5, MoveTabIInv

LEMMA DropInTabBarIInv == ASSUME IInv, DropInTabBar PROVE IInv'
<1>1. PICK t \in Live, dst \in Shown :
          \E pos \in 0 .. win[dst].ntabs :
              dst # parent[t] /\ MoveTab(t, dst, pos, TRUE, winAll)
    BY DEF DropInTabBar
<1>2. PICK pos \in 0 .. win[dst].ntabs :
          dst # parent[t] /\ MoveTab(t, dst, pos, TRUE, winAll)
    BY <1>1
<1> DEFINE added == TRUE
<1>3. /\ frames = <<>> /\ dst \in Win /\ GoodWindow(win[dst])
      /\ winAll \in Seq(Win) /\ IsInjective(winAll)
      /\ ToSet(winAll) = Shown \cup {dst}
    BY ShownWindows DEF IInv, WindowsGood, Shown, DropInTabBar, UserCanAct
<1>4. Position(win[dst].tabs, pos)
    BY <1>3, GoodTabs DEF Position
<1>5. MoveTab(t, dst, pos, added, winAll) /\ added \in BOOLEAN /\ dst # parent[t]
    BY <1>2
<1> HIDE DEF added
<1> QED
    BY <1>3, <1>4, <1>5, MoveTabIInv

LEMMA DropOnTerminalIInv == ASSUME IInv, DropOnTerminal PROVE IInv'
<1>1. PICK t \in Live, target \in Live :
          /\ parent[t] # parent[target]
          /\ MoveTab(t, parent[target],
                     PageNum(win[parent[target]].pages, target), FALSE, winAll)
    BY DEF DropOnTerminal
<1> DEFINE added == FALSE
           dst == parent[target]
           pos == PageNum(win[dst].pages, target)
<1>2. dst \in Win /\ dst \in Shown /\ target \in ToSet(win[dst].tabs)
    BY LiveHome DEF IInv
<1>3. /\ frames = <<>> /\ GoodWindow(win[dst]) /\ dst # parent[t]
      /\ winAll \in Seq(Win) /\ IsInjective(winAll)
      /\ ToSet(winAll) = Shown \cup {dst}
    BY <1>1, <1>2 DEF IInv, WindowsGood, Shown, DropOnTerminal, UserCanAct
<1>4. Position(win[dst].tabs, pos)
    <2>1. pos \in 0 .. Len(win[dst].tabs) - 1 /\ Len(win[dst].tabs) \in Nat
        BY <1>2, <1>3, PageNumProperties
    <2> QED
        BY <2>1 DEF Position
<1>5. MoveTab(t, dst, pos, added, winAll) /\ added \in BOOLEAN
    BY <1>1
<1> HIDE DEF added, pos, dst
<1> QED
    BY <1>2, <1>3, <1>4, <1>5, MoveTabIInv

-----------------------------------------------------------------------------
(* Several tabs close at once.                                             *)

\* Tabs that close while no dialog runs are freed on the spot.
LEMMA FreeTabsOwned ==
    ASSUME TabsOwned, NEW ts \in SUBSET Tab, FreeTabs(<<>>, ts), NEW w \in Win,
           win' \in [Win -> Window],
           \A v \in Win \ {w} : win'[v] = win[v],
           ts \subseteq ToSet(win[w].tabs),
           ToSet(win'[w].tabs) = ToSet(win[w].tabs) \ ts
    PROVE  /\ TabsOwned'
           /\ \A t \in Tab : life'[t] = "postponed" => life[t] = "postponed"
<1>1. \A t \in Tab : ~Renaming(<<>>, t)
    BY DEF Renaming, ToSet
<1>2. /\ life' = [t \in Tab |-> IF t \in ts THEN "free" ELSE life[t]]
      /\ parent' = [t \in Tab |-> IF t \in ts THEN NoWin ELSE parent[t]]
    BY <1>1 DEF FreeTabs
<1>3. Live' = Live \ ts
    <2>1. \A u \in Tab : life'[u] = "live" <=> life[u] = "live" /\ u \notin ts
        BY <1>2
    <2> QED
        BY <2>1 DEF Live
<1>4. OwnedOnce'
    <2> SUFFICES ASSUME NEW v \in Win
                 PROVE  ToSet(win'[v].tabs) = {u \in Live' : parent'[u] = v}
        BY DEF OwnedOnce
    <2>1. ToSet(win[v].tabs) = {u \in Live : parent[u] = v}
        BY DEF TabsOwned, OwnedOnce
    <2>2. \A u \in Live' : parent'[u] = parent[u]
        BY <1>2, <1>3 DEF Live
    <2>3. CASE v = w
        BY <1>3, <2>1, <2>2, <2>3
    <2>4. CASE v # w
        <3>1. \A u \in ts : parent[u] = w
            BY DEF TabsOwned, OwnedOnce
        <3> QED
            BY <1>3, <2>1, <2>2, <2>4, <3>1
    <2> QED
        BY <2>3, <2>4
<1>5. parent' \in [Tab -> Win \cup {NoWin}]
    BY <1>2 DEF TabsOwned
<1>6. life' \in [Tab -> {"free", "live", "postponed"}]
    BY <1>2 DEF TabsOwned
<1>7. ASSUME NEW u \in Tab PROVE parent'[u] = NoWin <=> life'[u] # "live"
    BY <1>2 DEF TabsOwned
<1>8. ASSUME NEW u \in Tab, life'[u] = "postponed" PROVE life[u] = "postponed"
    BY <1>2, <1>8
<1> QED
    BY <1>4, <1>5, <1>6, <1>7, <1>8 DEF TabsOwned

\* multi_win_destructor with all the tabs of the window.
LEMMA DestroyWindowIInv ==
    ASSUME IInv, Dialogs(<<>>), NEW w \in Shown, DestroyWindow(w, <<>>)
    PROVE  IInv'
<1> DEFINE ts == ToSet(win[w].tabs)
           list == Without(winAll, w)
<1>1. /\ w \in Win /\ Shown \subseteq Win /\ ts \subseteq Tab
      /\ winAll \in Seq(Win) /\ IsInjective(winAll) /\ w \in ToSet(winAll)
    BY ShownWindows, GoodTabs DEF IInv, WindowsGood, Shown
<1>2. /\ FreeTabs(<<>>, ts)
      /\ win' = [win EXCEPT ![w] = BlankWindow]
      /\ winAll' = list
      /\ mainLoop' = (mainLoop /\ list # <<>>)
      /\ frames' = CloseDialogs(<<>>, ts, {w})
      /\ fault' = fault
    BY DEF DestroyWindow, SetWindows
<1>3. /\ list \in Seq(Win) /\ IsInjective(list) /\ ToSet(list) = Shown \ {w}
    BY <1>1, WithoutElement DEF Shown
<1>4. frames' = <<>>
    BY <1>2 DEF CloseDialogs
<1> HIDE DEF ts, list
<1>5. Shown' = Shown \ {w}
    BY <1>2, <1>3 DEF Shown
<1>6. /\ win' \in [Win -> Window] /\ win'[w] = BlankWindow
      /\ \A v \in Win \ {w} : win'[v] = win[v]
    BY <1>1, <1>2, BlankWindowType DEF IInv, WindowsGood
<1>7. WindowsGood'
    BY <1>1, <1>2, <1>3, <1>5, <1>6 DEF IInv, WindowsGood
<1>8. /\ TabsOwned'
      /\ \A t \in Tab : life'[t] = "postponed" => life[t] = "postponed"
    <2>1. /\ ts \subseteq ToSet(win[w].tabs)
          /\ ToSet(win'[w].tabs) = ToSet(win[w].tabs) \ ts
        BY <1>6, BlankTabs DEF ts
    <2> QED
        BY <1>1, <1>2, <1>6, <2>1, FreeTabsOwned DEF IInv
<1>9. LoopRuns'
    <2>1. mainLoop
        BY <1>1 DEF IInv, LoopRuns, ToSet
    <2> QED
        BY <1>2, <2>1 DEF LoopRuns
<1>10. Dialogs(frames)'
    BY <1>4, <1>8, DialogsNone
<1> QED
    BY <1>2, <1>7, <1>8, <1>9, <1>10 DEF IInv

LEMMA CloseOtherTabsIInv == ASSUME IInv, CloseOtherTabs PROVE IInv'
<1>1. PICK w \in Shown :
          /\ FreeTabs(frames, ToSet(win[w].tabs) \ {win[w].current})
          /\ win' = [win EXCEPT ![w] = KeepCurrent(@)]
          /\ UNCHANGED <<winAll, frames, mainLoop, fault>>
    BY DEF CloseOtherTabs
<1> DEFINE r == win[w]
           k == KeepCurrent(r)
           ts == ToSet(r.tabs) \ {r.current}
<1>2. /\ w \in Win /\ GoodWindow(r) /\ frames = <<>> /\ Shown \subseteq Win
      /\ ts \in SUBSET Tab
    BY ShownWindows, GoodTabs DEF IInv, WindowsGood, CloseOtherTabs, UserCanAct
<1>3. GoodWindow(k) /\ k.tabs = <<r.current>>
    BY <1>2, KeepCurrentProperties
<1>4. ToSet(k.tabs) = ToSet(r.tabs) \ ts
    <2>1. ToSet(<<r.current>>) = {r.current}
        BY DEF ToSet
    <2> QED
        BY <1>2, <1>3, <2>1, GoodTabs
<1>5. win' = [win EXCEPT ![w] = k] /\ FreeTabs(<<>>, ts)
    BY <1>1, <1>2 DEF IInv, WindowsGood
<1> HIDE DEF k
<1>6. Shown' = Shown
    BY <1>1 DEF Shown
<1>7. /\ win' \in [Win -> Window] /\ win'[w] = k
      /\ \A v \in Win \ {w} : win'[v] = win[v]
    BY <1>2, <1>3, <1>5, GoodTabs DEF IInv, WindowsGood
<1>8. WindowsGood'
    BY <1>1, <1>2, <1>3, <1>6, <1>7 DEF IInv, WindowsGood
<1>9. /\ TabsOwned'
      /\ \A t \in Tab : life'[t] = "postponed" => life[t] = "postponed"
    BY <1>2, <1>4, <1>5, <1>7, FreeTabsOwned DEF IInv
<1>10. LoopRuns'
    BY <1>1 DEF IInv, LoopRuns
<1>11. Dialogs(frames)'
    BY <1>1, <1>2, <1>9, DialogsNone DEF IInv
<1> QED
    BY <1>1, <1>8, <1>9, <1>10, <1>11 DEF IInv

-----------------------------------------------------------------------------
(* Dialogs open and return.                                                *)

LEMMA RunDialogIInv ==
    ASSUME IInv, NEW kind \in DialogKind, NEW w \in Shown, NEW t \in Tab \cup {NoTab},
           kind # "ask" => frames = <<>>,
           kind = "name" => t \in Live /\ parent[t] = w,
           RunDialog(kind, w, t)
    PROVE  IInv'
<1> DEFINE d == Dialog(kind, w, t)
           fs == Append(frames, d)
           n == Len(frames)
<1>1. /\ frames' = fs /\ UNCHANGED <<winAll, win, parent, life, mainLoop, fault>>
    BY DEF RunDialog
<1>2. w \in Win /\ frames \in Seq(Frame) /\ Shown' = Shown
    BY <1>1, ShownWindows DEF IInv, Dialogs, DialogsNest, Shown
<1>3. /\ d \in Frame /\ d.kind = kind /\ d.win = w /\ d.tab = t /\ d.open = TRUE
    BY <1>2 DEF Dialog, Frame
<1> HIDE DEF d
<1>4. /\ fs \in Seq(Frame) /\ DOMAIN fs = 1 .. n + 1 /\ n \in Nat
      /\ DOMAIN frames = 1 .. n
      /\ \A i \in 1 .. n : fs[i] = frames[i]
      /\ fs[n + 1] = d
    BY <1>2, <1>3, AppendProperties, LenProperties
<1>5. n > 0 => kind = "ask"
    BY <1>2
<1> HIDE DEF fs, n
<1>6. DialogsNest(fs)
    <2>1. ASSUME NEW i \in DOMAIN fs, i > 1 PROVE fs[i].kind = "ask"
        <3>1. CASE i = n + 1
            BY <1>3, <1>4, <1>5, <2>1, <3>1
        <3>2. CASE i # n + 1
            BY <1>4, <2>1, <3>2 DEF IInv, Dialogs, DialogsNest
        <3> QED
            BY <3>1, <3>2
    <2> QED
        BY <1>4, <2>1 DEF DialogsNest
<1>7. DialogsSound(fs)
    <2> SUFFICES ASSUME NEW i \in DOMAIN fs PROVE DialogSound(fs[i])
        BY DEF DialogsSound
    <2>1. CASE i = n + 1
        BY <1>3, <1>4, <2>1 DEF DialogSound
    <2>2. CASE i # n + 1
        BY <1>4, <2>2 DEF IInv, Dialogs, DialogsSound
    <2> QED
        BY <2>1, <2>2
<1>8. PostponedWaits(fs)
    <2> SUFFICES ASSUME NEW u \in Tab, life[u] = "postponed"
                 PROVE  \E i \in DOMAIN fs : /\ fs[i].kind = "name"
                                             /\ fs[i].tab = u /\ ~fs[i].open
        BY DEF PostponedWaits
    <2>1. PICK i \in DOMAIN frames : /\ frames[i].kind = "name"
                                     /\ frames[i].tab = u /\ ~frames[i].open
        BY DEF IInv, Dialogs, PostponedWaits
    <2> QED
        BY <1>4, <2>1
<1>9. Dialogs(frames)'
    BY <1>1, <1>2, <1>6, <1>7, <1>8, DialogsBecome DEF Dialogs
<1>10. WindowsGood' /\ TabsOwned' /\ LoopRuns'
    BY <1>1, <1>2 DEF IInv, WindowsGood, TabsOwned, OwnedOnce, LoopRuns, Live
<1> QED
    BY <1>1, <1>9, <1>10 DEF IInv

\* When a dialog returns, the ones below it are as they were.
LEMMA PopProperties ==
    ASSUME Dialogs(frames), frames # <<>>
    PROVE  /\ Last(frames) \in Frame /\ DialogSound(Last(frames))
           /\ Last(frames).kind # "ask" => Front(frames) = <<>>
           /\ Last(frames).kind # "name" => Dialogs(Front(frames))
           /\ \A t \in Tab : life[t] = "postponed" =>
                 \/ Last(frames).kind = "name" /\ Last(frames).tab = t
                 \/ Front(frames) # <<>>
<1> DEFINE n == Len(frames)
           fs == Front(frames)
<1>1. /\ frames \in Seq(Frame) /\ n \in Nat /\ n > 0 /\ DOMAIN frames = 1 .. n
    BY EmptySeq, LenProperties DEF Dialogs, DialogsNest
<1>2. /\ fs \in Seq(Frame) /\ Len(fs) = n - 1
      /\ \A i \in 1 .. n - 1 : fs[i] = frames[i]
    BY <1>1, SubSeqProperties DEF Front
<1>3. Last(frames) = frames[n] /\ n \in DOMAIN frames
    BY <1>1 DEF Last
<1>4. DOMAIN fs = 1 .. n - 1 /\ (n = 1 => fs = <<>>)
    BY <1>1, <1>2, EmptySeq
<1> HIDE DEF fs, n
<1>5. Last(frames) \in Frame /\ DialogSound(Last(frames))
    BY <1>1, <1>3 DEF Dialogs, DialogsSound
<1>6. Last(frames).kind # "ask" => fs = <<>>
    BY <1>1, <1>3, <1>4 DEF Dialogs, DialogsNest
<1>7. DialogsNest(fs) /\ DialogsSound(fs)
    BY <1>1, <1>2, <1>4 DEF Dialogs, DialogsNest, DialogsSound
<1>8. ASSUME NEW t \in Tab, life[t] = "postponed"
      PROVE  \/ Last(frames).kind = "name" /\ Last(frames).tab = t
             \/ \E i \in DOMAIN fs : /\ fs[i].kind = "name"
                                     /\ fs[i].tab = t /\ ~fs[i].open
    <2>1. PICK i \in DOMAIN frames : /\ frames[i].kind = "name"
                                     /\ frames[i].tab = t /\ ~frames[i].open
        BY <1>8 DEF Dialogs, PostponedWaits
    <2>2. CASE i = n
        BY <1>3, <2>1, <2>2
    <2>3. CASE i # n
        BY <1>1, <1>2, <1>4, <2>1, <2>3
    <2> QED
        BY <2>2, <2>3
<1>9. Last(frames).kind # "name" => Dialogs(fs)
    BY <1>7, <1>8 DEF Dialogs, PostponedWaits
<1>10. ASSUME NEW t \in Tab, life[t] = "postponed"
       PROVE  (Last(frames).kind = "name" /\ Last(frames).tab = t) \/ fs # <<>>
    BY <1>8, <1>10
<1> QED
    BY <1>5, <1>6, <1>9, <1>10 DEF fs

\* The handler had nothing left to do.
LEMMA IgnoredIInv ==
    ASSUME IInv, frames # <<>>, Last(frames).kind # "name", Ignored
    PROVE  IInv'
<1>1. /\ frames' = Front(frames)
      /\ UNCHANGED <<winAll, win, parent, life, mainLoop, fault>>
    BY DEF Ignored
<1>2. Shown' = Shown /\ Dialogs(Front(frames))
    BY <1>1, PopProperties DEF IInv, Shown
<1>3. Dialogs(frames)'
    BY <1>1, <1>2, DialogsBecome
<1>4. WindowsGood' /\ TabsOwned' /\ LoopRuns'
    BY <1>1, <1>2 DEF IInv, WindowsGood, TabsOwned, OwnedOnce, LoopRuns, Live
<1> QED
    BY <1>1, <1>3, <1>4 DEF IInv

\* multi_tab_delete, called by the handler of a dialog or by none.
LEMMA DeleteTabIInv ==
    ASSUME IInv, NEW t \in Live, NEW fs, Dialogs(fs), DeleteTab(t, fs)
    PROVE  IInv'
<1>1. Core
    BY DEF IInv, Core
<1>2. Core' /\ Dialogs(frames)' /\ fault' = fault
    BY <1>1, DeleteTabCore, DeleteTabDialogs, DeleteTabEffects
<1> QED
    BY <1>2 DEF IInv, Core

-----------------------------------------------------------------------------
(* The handlers that close tabs or ask about it.                           *)

\* The handler has used freed memory.
LEMMA FaultIInv ==
    ASSUME IInv, fault' = TRUE,
           UNCHANGED <<winAll, win, parent, life, frames, mainLoop>>
    PROVE  IInv'
<1>1. Shown' = Shown /\ Live' = Live
    BY DEF Shown, Live
<1>2. Dialogs(frames)'
    BY <1>1, DialogsKept DEF IInv
<1>3. WindowsGood' /\ TabsOwned' /\ LoopRuns'
    BY <1>1 DEF IInv, WindowsGood, TabsOwned, OwnedOnce, LoopRuns
<1> QED
    BY <1>2, <1>3 DEF IInv

LEMMA CloseTabIInv == ASSUME IInv, CloseTab PROVE IInv'
<1>1. PICK t \in Live : RunDialog("closeTab", parent[t], t) \/ DeleteTab(t, frames)
    BY Zenon DEF CloseTab
<1>2. frames = <<>> /\ t \in Tab /\ parent[t] \in Shown
    BY LiveHome DEF IInv, CloseTab, UserCanAct
<1>3. CASE RunDialog("closeTab", parent[t], t)
    <2>1. "closeTab" \in DialogKind
        BY DEF DialogKind
    <2> QED
        BY <1>2, <1>3, <2>1, RunDialogIInv
<1>4. CASE DeleteTab(t, frames)
    BY <1>4, DeleteTabIInv DEF IInv
<1> QED
    BY <1>1, <1>3, <1>4

LEMMA CloseWindowIInv == ASSUME IInv, CloseWindow PROVE IInv'
<1>1. PICK w \in Shown : RunDialog("closeWindow", w, NoTab)
                         \/ DestroyWindow(w, frames)
    BY Zenon DEF CloseWindow
<1>2. frames = <<>> /\ Dialogs(<<>>)
    BY DEF IInv, CloseWindow, UserCanAct
<1>3. CASE RunDialog("closeWindow", w, NoTab)
    <2>1. "closeWindow" \in DialogKind
        BY DEF DialogKind
    <2> QED
        BY <1>2, <1>3, <2>1, RunDialogIInv
<1>4. CASE DestroyWindow(w, frames)
    BY <1>2, <1>4, DestroyWindowIInv
<1> QED
    BY <1>1, <1>3, <1>4

LEMMA NameTabIInv == ASSUME IInv, NameTab PROVE IInv'
<1>1. PICK w \in Shown : RunDialog("name", w, win[w].current)
    BY DEF NameTab
<1>2. frames = <<>> /\ w \in Win /\ GoodWindow(win[w])
    BY ShownWindows DEF IInv, WindowsGood, NameTab, UserCanAct
<1>3. win[w].current \in Live /\ parent[win[w].current] = w
      /\ win[w].current \in Tab
    BY <1>2, GoodTabs, ListedHome DEF IInv
<1>4. "name" \in DialogKind
    BY DEF DialogKind
<1> QED
    BY <1>1, <1>2, <1>3, <1>4, RunDialogIInv

LEMMA ChildExitsIInv == ASSUME IInv, ChildExits PROVE IInv'
<1>1. PICK t \in Live : DeleteTab(t, frames) \/ RunDialog("ask", parent[t], t)
    BY DEF ChildExits
<1>2. t \in Tab /\ parent[t] \in Shown /\ Dialogs(frames)
    BY LiveHome DEF IInv
<1>3. CASE DeleteTab(t, frames)
    BY <1>2, <1>3, DeleteTabIInv
<1>4. CASE RunDialog("ask", parent[t], t)
    <2>1. "ask" \in DialogKind
        BY DEF DialogKind
    <2> QED
        BY <1>2, <1>4, <2>1, RunDialogIInv
<1> QED
    BY <1>1, <1>3, <1>4

LEMMA FinishNameIInv == ASSUME IInv, FinishName PROVE IInv'
<1> DEFINE t == Last(frames).tab
<1>1. /\ frames # <<>> /\ Last(frames).kind = "name"
      /\ frames' = Front(frames)
      /\ life' = [life EXCEPT ![t] = IF @ = "postponed" THEN "free" ELSE @]
      /\ UNCHANGED <<winAll, win, parent, mainLoop, fault>>
    BY DEF FinishName, Returns
<1>2. /\ Front(frames) = <<>> /\ DialogSound(Last(frames))
      /\ \A u \in Tab : life[u] = "postponed" => u = t
    BY <1>1, PopProperties DEF IInv
<1>3. \A u \in Tab : life'[u] = "live" <=> life[u] = "live"
    BY <1>1 DEF IInv, TabsOwned
<1>4. Shown' = Shown /\ Live' = Live
    BY <1>1, <1>3 DEF Shown, Live
<1>5. life' \in [Tab -> {"free", "live", "postponed"}]
    BY <1>1 DEF IInv, TabsOwned
<1>6. \A u \in Tab : life'[u] # "postponed"
    BY <1>1, <1>2 DEF IInv, TabsOwned
<1>7. WindowsGood' /\ LoopRuns'
    BY <1>1, <1>4 DEF IInv, WindowsGood, LoopRuns
<1>8. TabsOwned'
    BY <1>1, <1>3, <1>4, <1>5 DEF IInv, TabsOwned, OwnedOnce
<1>9. Dialogs(frames)'
    <2>1. frames' = <<>> /\ <<>> \in Seq(Frame) /\ DOMAIN <<>> = {}
        BY <1>1, <1>2
    <2> QED
        BY <1>6, <2>1 DEF Dialogs, DialogsNest, DialogsSound, PostponedWaits
<1> QED
    BY <1>1, <1>7, <1>8, <1>9 DEF IInv

LEMMA FinishCloseTabIInv == ASSUME IInv, FinishCloseTab PROVE IInv'
<1>1. frames # <<>> /\ Last(frames).kind = "closeTab"
    BY DEF FinishCloseTab, Returns
<1>2. Front(frames) = <<>> /\ Dialogs(Front(frames))
    BY <1>1, PopProperties DEF IInv
<1>3. CASE Ignored
    BY <1>1, <1>3, IgnoredIInv
<1>4. CASE Last(frames).tab \in Live /\ DeleteTab(Last(frames).tab, Front(frames))
    BY <1>2, <1>4, DeleteTabIInv
<1>5. CASE fault' = TRUE /\ UNCHANGED <<winAll, win, parent, life, frames, mainLoop>>
    BY <1>5, FaultIInv
<1> QED
    BY <1>3, <1>4, <1>5 DEF FinishCloseTab

LEMMA FinishCloseWindowIInv == ASSUME IInv, FinishCloseWindow PROVE IInv'
<1>1. frames # <<>> /\ Last(frames).kind = "closeWindow"
    BY DEF FinishCloseWindow, Returns
<1>2. /\ Front(frames) = <<>> /\ Dialogs(Front(frames))
      /\ DialogSound(Last(frames))
    BY <1>1, PopProperties DEF IInv
<1>3. CASE Ignored
    BY <1>1, <1>3, IgnoredIInv
<1>4. CASE Last(frames).open /\ DestroyWindow(Last(frames).win, Front(frames))
    <2>1. Last(frames).win \in Shown
        BY <1>2, <1>4 DEF DialogSound
    <2> QED
        BY <1>2, <1>4, <2>1, DestroyWindowIInv
<1> QED
    BY <1>3, <1>4 DEF FinishCloseWindow

LEMMA FinishAskIInv == ASSUME IInv, FinishAsk PROVE IInv'
<1>1. frames # <<>> /\ Last(frames).kind = "ask"
    BY DEF FinishAsk, Returns
<1> DEFINE t == Last(frames).tab
<1>2. Dialogs(Front(frames))
    BY <1>1, PopProperties DEF IInv
<1>3. CASE Ignored
    BY <1>1, <1>3, IgnoredIInv
<1>4. CASE t \in Live /\ DeleteTab(t, Front(frames))
    BY <1>2, <1>4, DeleteTabIInv
<1>5. CASE fault' = TRUE /\ UNCHANGED <<winAll, win, parent, life, frames, mainLoop>>
    BY <1>5, FaultIInv
<1> QED
    BY <1>3, <1>4, <1>5 DEF FinishAsk

-----------------------------------------------------------------------------
(* The invariant.                                                          *)

LEMMA InitIInv == Init => IInv
<1> SUFFICES ASSUME Init PROVE IInv
    OBVIOUS
<1>1. PICK w \in Win, t \in Tab :
          /\ winAll = <<w>>
          /\ win = [v \in Win |-> IF v = w THEN AddTab(BlankWindow, t, -1, FALSE)
                                           ELSE BlankWindow]
          /\ parent = [u \in Tab |-> IF u = t THEN w ELSE NoWin]
          /\ life = [u \in Tab |-> IF u = t THEN "live" ELSE "free"]
          /\ frames = <<>> /\ mainLoop = TRUE /\ fault = FALSE
    BY DEF Init
<1> DEFINE r == AddTab(BlankWindow, t, -1, FALSE)
<1>2. GoodWindow(r) /\ ToSet(r.tabs) = {t} /\ r \in Window
    BY FirstTab, GoodTabs
<1>3. win = [v \in Win |-> IF v = w THEN r ELSE BlankWindow]
    BY <1>1
<1> HIDE DEF r
<1>4. Shown = {w} /\ winAll \in Seq(Win) /\ IsInjective(winAll) /\ winAll # <<>>
    BY <1>1 DEF Shown, ToSet, IsInjective
<1>5. WindowsGood
    BY <1>2, <1>3, <1>4, BlankWindowType DEF WindowsGood
<1>6. Live = {t}
    BY <1>1 DEF Live
<1>7. OwnedOnce
    <2> SUFFICES ASSUME NEW v \in Win
                 PROVE  ToSet(win[v].tabs) = {u \in Live : parent[u] = v}
        BY DEF OwnedOnce
    <2>1. parent[t] = w
        BY <1>1
    <2>2. CASE v = w
        BY <1>2, <1>3, <1>6, <2>1, <2>2
    <2>3. CASE v # w
        BY <1>3, <1>6, <2>1, <2>3, BlankTabs
    <2> QED
        BY <2>2, <2>3
<1>8. TabsOwned
    <2>1. parent \in [Tab -> Win \cup {NoWin}]
        BY <1>1
    <2>2. life \in [Tab -> {"free", "live", "postponed"}]
        BY <1>1
    <2>3. \A u \in Tab : parent[u] = NoWin <=> life[u] # "live"
        BY <1>1, NoWinAssumption
    <2> QED
        BY <1>7, <2>1, <2>2, <2>3 DEF TabsOwned
<1>9. LoopRuns
    BY <1>1, <1>4 DEF LoopRuns
<1>10. Dialogs(frames)
    <2>1. \A u \in Tab : life[u] # "postponed"
        BY <1>1
    <2>2. frames = <<>> /\ <<>> \in Seq(Frame) /\ DOMAIN <<>> = {}
        BY <1>1
    <2> QED
        BY <2>1, <2>2 DEF Dialogs, DialogsNest, DialogsSound, PostponedWaits
<1> QED
    BY <1>1, <1>5, <1>8, <1>9, <1>10 DEF IInv

LEMMA NextIInv == IInv /\ [Next]_vars => IInv'
<1> SUFFICES ASSUME IInv, [Next]_vars PROVE IInv'
    OBVIOUS
<1>1. CASE LaunchWindow
    <2>1. PICK w \in FreshWin, t \in FreshTab : OpenWindow(w, t)
        BY <1>1 DEF LaunchWindow
    <2>2. mainLoop
        BY <1>1 DEF LaunchWindow, EventCanArrive
    <2> QED
        BY <2>1, <2>2, OpenWindowIInv
<1>2. CASE LaunchTab
    BY <1>2, OpenTabIInv DEF LaunchTab
<1>3. CASE FocusIn
    BY <1>3, FocusInIInv
<1>4. CASE ClickTab
    BY <1>4, ClickTabIInv
<1>5. CASE SelectFromMenu
    BY <1>5, SelectFromMenuIInv
<1>6. CASE StepTab
    BY <1>6, StepTabIInv
<1>7. CASE MoveTabByOne
    BY <1>7, MoveTabByOneIInv
<1>8. CASE DragAlong
    BY <1>8, DragAlongIInv
<1>9. CASE DropOnSibling
    BY <1>9, DropOnSiblingIInv
<1>10. CASE DetachTab
    BY <1>10, DetachTabIInv
<1>11. CASE DropOnDesktop
    BY <1>11, DropOnDesktopIInv
<1>12. CASE DropInTabBar
    BY <1>12, DropInTabBarIInv
<1>13. CASE DropOnTerminal
    BY <1>13, DropOnTerminalIInv
<1>14. CASE CloseTab
    BY <1>14, CloseTabIInv
<1>15. CASE CloseWindow
    BY <1>15, CloseWindowIInv
<1>16. CASE CloseOtherTabs
    BY <1>16, CloseOtherTabsIInv
<1>17. CASE NameTab
    BY <1>17, NameTabIInv
<1>18. CASE ChildExits
    BY <1>18, ChildExitsIInv
<1>19. CASE FinishName
    BY <1>19, FinishNameIInv
<1>20. CASE FinishCloseTab
    BY <1>20, FinishCloseTabIInv
<1>21. CASE FinishCloseWindow
    BY <1>21, FinishCloseWindowIInv
<1>22. CASE FinishAsk
    BY <1>22, FinishAskIInv
<1>23. CASE UNCHANGED vars
    <2>1. UNCHANGED <<winAll, win, parent, life, frames, mainLoop, fault>>
        BY <1>23 DEF vars
    <2>2. Shown' = Shown /\ Live' = Live
        BY <2>1 DEF Shown, Live
    <2>3. Dialogs(frames)'
        BY <2>1, <2>2, DialogsKept DEF IInv
    <2>4. WindowsGood' /\ TabsOwned' /\ LoopRuns'
        BY <2>1, <2>2 DEF IInv, WindowsGood, TabsOwned, OwnedOnce, LoopRuns
    <2> QED
        BY <2>1, <2>3, <2>4 DEF IInv
<1> QED
    BY <1>1, <1>2, <1>3, <1>4, <1>5, <1>6, <1>7, <1>8, <1>9, <1>10, <1>11,
       <1>12, <1>13, <1>14, <1>15, <1>16, <1>17, <1>18, <1>19, <1>20, <1>21,
       <1>22, <1>23 DEF Next

\* IInv holds between any two events.
THEOREM SpecIInv == Spec => []IInv
<1>1. Init => IInv
    BY InitIInv
<1>2. IInv /\ [Next]_vars => IInv'
    BY NextIInv
<1> QED
    BY <1>1, <1>2, PTL DEF Spec

-----------------------------------------------------------------------------
(* The properties.                                                         *)

\* multi_win_all, the window contents, the parents, the dialogs and the flags
\* keep their types.
THEOREM TypeCorrect == Spec => []TypeOK
<1>1. IInv => TypeOK
    BY DEF IInv, WindowsGood, TabsOwned, LoopRuns, Dialogs, DialogsNest, TypeOK
<1> QED
    BY <1>1, SpecIInv, PTL

\* However tabs are dragged, moved, added or closed, win->tabs, the notebook
\* and the Tabs menu of each window list the same tabs in the same order.
THEOREM TabOrderCorrect == Spec => []TabOrderAgrees
<1>1. IInv => TabOrderAgrees
    BY DEF IInv, WindowsGood, GoodWindow, WindowOK, TabOrderAgrees
<1> QED
    BY <1>1, SpecIInv, PTL

\* current_tab, the page on display and user_data_template are one tab of the
\* window, even while GTK's signals nest inside a removal.
THEOREM CurrentCorrect == Spec => []CurrentAgrees
<1>1. IInv => CurrentAgrees
    BY DEF IInv, WindowsGood, GoodWindow, WindowOK, CurrentAgrees
<1> QED
    BY <1>1, SpecIInv, PTL

\* No label or title shows a stale tab number or count.
THEOREM NumbersCorrect == Spec => []NumbersAgree
<1>1. IInv => NumbersAgree
    BY DEF IInv, WindowsGood, GoodWindow, WindowOK, NumbersAgree
<1> QED
    BY <1>1, SpecIInv, PTL

\* Every live tab is listed by its parent window and by no other.
THEOREM OwnershipCorrect == Spec => []OwnedOnce
<1>1. IInv => OwnedOnce
    BY DEF IInv, TabsOwned
<1> QED
    BY <1>1, SpecIInv, PTL

\* Windows are listed once and have tabs, and the main loop runs as long as
\* there is one.
THEOREM WindowsCorrect == Spec => []WindowsHaveTabs
<1>1. ASSUME IInv, NEW w \in Win PROVE w \in Shown <=> win[w].tabs # <<>>
    <2>1. CASE w \in Shown
        <3>1. win[w].current \in ToSet(win[w].tabs)
            BY <1>1, <2>1, GoodTabs DEF IInv, WindowsGood
        <3> QED
            BY <2>1, <3>1 DEF ToSet
    <2>2. CASE w \notin Shown
        BY <1>1, <2>2, BlankTabs DEF IInv, WindowsGood
    <2> QED
        BY <2>1, <2>2
<1>2. IInv => WindowsHaveTabs
    BY <1>1 DEF IInv, WindowsGood, LoopRuns, WindowsHaveTabs
<1> QED
    BY <1>2, SpecIInv, PTL

\* What DialogSound says of a position holds for every running dialog.
LEMMA RunningDialogs ==
    ASSUME IInv, NEW f \in ToSet(frames)
    PROVE  f \in Frame /\ DialogSound(f)
<1>1. frames \in Seq(Frame) /\ DialogsSound(frames)
    BY DEF IInv, Dialogs, DialogsNest
<1>2. PICK i \in 1 .. Len(frames) : frames[i] = f
    BY <1>1, ToSetMember
<1> QED
    BY <1>1, <1>2 DEF DialogsSound

\* The structure a Name Tab dialog returns to has not been freed, and waits for
\* that dialog only.
THEOREM RenameCorrect == Spec => []RenameKeepsTab
<1>1. ASSUME IInv, NEW f \in ToSet(frames), f.kind = "name"
      PROVE  /\ life[f.tab] # "free"
             /\ ~f.open => life[f.tab] = "postponed"
    BY <1>1, RunningDialogs DEF DialogSound, Live
<1>2. ASSUME IInv, NEW t \in Tab, life[t] = "postponed"
      PROVE  \E f \in ToSet(frames) : f.kind = "name" /\ f.tab = t /\ ~f.open
    <2>1. PICK i \in DOMAIN frames : /\ frames[i].kind = "name"
                                     /\ frames[i].tab = t /\ ~frames[i].open
        BY <1>2 DEF IInv, Dialogs, PostponedWaits
    <2>2. frames[i] \in ToSet(frames)
        BY DEF ToSet
    <2> QED
        BY <2>1, <2>2
<1>3. IInv => RenameKeepsTab
    BY <1>1, <1>2 DEF RenameKeepsTab
<1> QED
    BY <1>3, SpecIInv, PTL

\* No dialog outlives its window on the screen.
THEOREM DialogsCorrect == Spec => []DialogHasWindow
<1>1. ASSUME IInv, NEW f \in ToSet(frames), f.open PROVE f.win \in Shown
    BY <1>1, RunningDialogs DEF DialogSound
<1>2. IInv => DialogHasWindow
    BY <1>1 DEF DialogHasWindow
<1> QED
    BY <1>2, SpecIInv, PTL

-----------------------------------------------------------------------------
(* MultiTab implements TabOwnership.                                       *)

\* A tab is owned as long as there is a window.
UsedAgrees == (\E t \in Tab : parent[t] # NoWin) <=> winAll # <<>>

LEMMA UsedWhileShown == IInv => UsedAgrees
<1> SUFFICES ASSUME IInv PROVE UsedAgrees
    OBVIOUS
<1>1. ASSUME NEW t \in Tab, parent[t] # NoWin PROVE winAll # <<>>
    <2>1. t \in Live
        BY <1>1 DEF IInv, TabsOwned, Live
    <2>2. parent[t] \in Shown
        BY <2>1, LiveHome DEF IInv
    <2> QED
        BY <2>2 DEF Shown, ToSet
<1>2. ASSUME winAll # <<>> PROVE \E t \in Tab : parent[t] # NoWin
    <2>1. PICK w \in Shown : TRUE
        <3>1. winAll \in Seq(Win)
            BY DEF IInv, WindowsGood
        <3>2. Len(winAll) # 0 /\ Len(winAll) \in Nat
            BY <1>2, <3>1, EmptySeq, LenProperties
        <3>3. 1 \in 1 .. Len(winAll)
            BY <3>2
        <3>4. winAll[1] \in Shown
            BY <3>1, <3>3, ToSetMember DEF Shown
        <3> QED
            BY <3>4
    <2>2. w \in Win /\ win[w].current \in ToSet(win[w].tabs)
        BY ShownWindows, GoodTabs DEF IInv, WindowsGood
    <2>3. parent[win[w].current] = w /\ win[w].current \in Tab
        BY <2>2, ListedHome DEF IInv
    <2> QED
        BY <2>2, <2>3, NoWinAssumption
<1> QED
    BY <1>1, <1>2 DEF UsedAgrees

LEMMA InitOwnership == Init => Ownership!Init
<1> SUFFICES ASSUME Init PROVE Ownership!Init
    OBVIOUS
<1>1. PICK w \in Win, t \in Tab :
          parent = [u \in Tab |-> IF u = t THEN w ELSE NoWin] /\ mainLoop = TRUE
    BY DEF Init
<1> QED
    BY <1>1, NoWinAssumption DEF Ownership!Init

\* The abstract steps, spelt out for the variables of MultiTab.
LEMMA OpenOwnership ==
    ASSUME NEW t \in Tab, NEW w \in Win, mainLoop, mainLoop' = mainLoop,
           parent[t] = NoWin, parent' = [parent EXCEPT ![t] = w]
    PROVE  Ownership!Next
BY DEF Ownership!Next, Ownership!Open

LEMMA MoveOwnership ==
    ASSUME NEW t \in Tab, NEW w \in Win, mainLoop, mainLoop' = mainLoop,
           parent[t] \notin {NoWin, w}, parent' = [parent EXCEPT ![t] = w]
    PROVE  Ownership!Next
BY DEF Ownership!Next, Ownership!Move

LEMMA CloseOwnership ==
    ASSUME IInv', NEW ts \in SUBSET Tab, ts # {}, NEW w \in Win, mainLoop,
           \A t \in ts : parent[t] = w,
           parent' = [t \in Tab |-> IF t \in ts THEN NoWin ELSE parent[t]]
    PROVE  Ownership!Next
<1>1. mainLoop' <=> winAll' # <<>>
    BY DEF IInv, LoopRuns
<1>2. (\E t \in Tab : parent'[t] # NoWin) <=> winAll' # <<>>
    <2>1. UsedAgrees'
        BY UsedWhileShown, PTL
    <2> QED
        BY <2>1 DEF UsedAgrees
<1>3. mainLoop' = (\E t \in Tab : parent'[t] # NoWin)
    BY <1>1, <1>2 DEF IInv, LoopRuns
<1>4. Ownership!Close(ts, w)
    BY <1>3 DEF Ownership!Close, Ownership!Used
<1> QED
    BY <1>4 DEF Ownership!Next

\* Moving a tab between windows is one abstract move.
LEMMA MoveTabOwnership ==
    ASSUME IInv, IInv', NEW t \in Live, NEW dst \in Win, dst # parent[t],
           NEW pos, NEW dragged \in BOOLEAN, NEW list, mainLoop,
           MoveTab(t, dst, pos, dragged, list)
    PROVE  Ownership!Next
<1>1. t \in Tab /\ parent[t] \in Win
    BY LiveHome DEF IInv
<1>2. parent' = [parent EXCEPT ![t] = dst]
    BY DEF MoveTab
<1>3. mainLoop' = mainLoop
    <2>1. parent'[t] = dst
        BY <1>1, <1>2 DEF IInv, TabsOwned
    <2>2. UsedAgrees'
        BY UsedWhileShown, PTL
    <2>3. winAll' # <<>>
        BY <1>1, <2>1, <2>2, NoWinAssumption DEF UsedAgrees
    <2> QED
        BY <2>3 DEF IInv, LoopRuns
<1>4. parent[t] \notin {NoWin, dst}
    BY <1>1, NoWinAssumption
<1> QED
    BY <1>1, <1>2, <1>3, <1>4, MoveOwnership

\* Deleting a tab is closing it, and closing what was its window's last tab
\* may end the program.
LEMMA DeleteTabOwnership ==
    ASSUME IInv, IInv', NEW t \in Live, NEW fs, DeleteTab(t, fs)
    PROVE  Ownership!Next
<1>1. t \in Tab /\ parent[t] \in Win /\ parent[t] \in Shown
    BY LiveHome DEF IInv
<1>2. mainLoop
    BY <1>1 DEF IInv, LoopRuns, Shown, ToSet
<1>3. parent' = [u \in Tab |-> IF u \in {t} THEN NoWin ELSE parent[u]]
    BY DEF DeleteTab, FreeTabs
<1> DEFINE ts == {t}
           w == parent[t]
<1>4. ts \in SUBSET Tab /\ ts # {} /\ \A u \in ts : parent[u] = w
    BY <1>1
<1>5. parent' = [u \in Tab |-> IF u \in ts THEN NoWin ELSE parent[u]]
    BY <1>3
<1>6. w \in Win
    BY <1>1
<1> HIDE DEF ts, w
<1> QED
    BY <1>2, <1>4, <1>5, <1>6, CloseOwnership

LEMMA DestroyWindowOwnership ==
    ASSUME IInv, IInv', NEW w \in Shown, NEW fs, DestroyWindow(w, fs)
    PROVE  Ownership!Next
<1> DEFINE ts == ToSet(win[w].tabs)
<1>1. /\ w \in Win /\ ts \in SUBSET Tab /\ win[w].current \in ts
    BY ShownWindows, GoodTabs DEF IInv, WindowsGood
<1>2. mainLoop
    BY DEF IInv, LoopRuns, Shown, ToSet
<1>3. parent' = [u \in Tab |-> IF u \in ts THEN NoWin ELSE parent[u]]
    BY DEF DestroyWindow, FreeTabs
<1>4. \A u \in ts : parent[u] = w
    BY <1>1, ListedHome DEF IInv
<1> HIDE DEF ts
<1> QED
    BY <1>1, <1>2, <1>3, <1>4, CloseOwnership

LEMMA NextOwnership ==
    IInv /\ IInv' /\ [Next]_vars => [Ownership!Next]_(Ownership!vars)
<1> SUFFICES ASSUME IInv, IInv', [Next]_vars
             PROVE  Ownership!Next \/ UNCHANGED <<parent, mainLoop>>
    BY DEF Ownership!vars
<1>1. ASSUME NEW w, NEW t \in FreshTab, w \in Win,
             mainLoop, mainLoop' = mainLoop,
             parent' = [parent EXCEPT ![t] = w]
      PROVE  Ownership!Next
    <2>1. t \in Tab /\ parent[t] = NoWin
        BY DEF FreshTab, IInv, TabsOwned
    <2> QED
        BY <1>1, <2>1, OpenOwnership
<1>2. CASE LaunchWindow
    BY <1>1, <1>2 DEF LaunchWindow, EventCanArrive, OpenWindow, FreshWin
<1>3. CASE LaunchTab
    <2>1. Shown \subseteq Win
        BY ShownWindows DEF IInv
    <2> QED
        BY <1>1, <1>3, <2>1 DEF LaunchTab, EventCanArrive, OpenTab
<1>4. CASE FocusIn \/ ClickTab \/ SelectFromMenu \/ StepTab \/ MoveTabByOne
           \/ DragAlong \/ DropOnSibling \/ NameTab \/ FinishName
    BY <1>4 DEF FocusIn, ClickTab, SelectFromMenu, StepTab, MoveTabByOne,
                DragAlong, DropOnSibling, NameTab, FinishName, ChangeWindow,
                RunDialog
<1>5. CASE DetachTab
    <2>1. PICK w \in Shown, dst \in FreshWin :
              MoveTab(win[w].current, dst, -1, FALSE, Append(winAll, dst))
        BY <1>5 DEF DetachTab
    <2>2. w \in Win /\ win[w].current \in ToSet(win[w].tabs) /\ mainLoop
        BY <1>5, ShownWindows, GoodTabs
        DEF IInv, WindowsGood, DetachTab, UserCanAct
    <2>3. win[w].current \in Live
        BY <2>2, ListedHome DEF IInv
    <2>4. dst \in Win /\ dst # parent[win[w].current]
        BY <2>3, AppendWindow
    <2> QED
        BY <2>1, <2>2, <2>3, <2>4, MoveTabOwnership
<1>6. CASE DropOnDesktop
    <2>1. PICK t \in Live, dst \in FreshWin :
              MoveTab(t, dst, 0, TRUE, Append(winAll, dst))
        BY <1>6 DEF DropOnDesktop
    <2>2. dst \in Win /\ dst # parent[t] /\ mainLoop
        BY <1>6, AppendWindow DEF DropOnDesktop, UserCanAct
    <2> QED
        BY <2>1, <2>2, MoveTabOwnership
<1>7. CASE DropInTabBar
    <2>1. PICK t \in Live, dst \in Shown : \E pos \in 0 .. win[dst].ntabs :
              dst # parent[t] /\ MoveTab(t, dst, pos, TRUE, winAll)
        BY <1>7 DEF DropInTabBar
    <2>2. dst \in Win /\ mainLoop
        BY <1>7, ShownWindows DEF IInv, DropInTabBar, UserCanAct
    <2> QED
        BY <2>1, <2>2, MoveTabOwnership
<1>8. CASE DropOnTerminal
    <2>1. PICK t \in Live, target \in Live :
              /\ parent[t] # parent[target]
              /\ MoveTab(t, parent[target],
                         PageNum(win[parent[target]].pages, target), FALSE, winAll)
        BY <1>8 DEF DropOnTerminal
    <2>2. parent[target] \in Win /\ mainLoop
        BY <1>8, LiveHome DEF IInv, DropOnTerminal, UserCanAct
    <2> QED
        BY <2>1, <2>2, MoveTabOwnership
<1>9. CASE CloseTab
    <2>1. PICK t \in Live : RunDialog("closeTab", parent[t], t)
                            \/ DeleteTab(t, frames)
        BY Zenon, <1>9 DEF CloseTab
    <2> QED
        BY <2>1, DeleteTabOwnership DEF RunDialog
<1>10. CASE CloseWindow
    <2>1. PICK w \in Shown : RunDialog("closeWindow", w, NoTab)
                             \/ DestroyWindow(w, frames)
        BY Zenon, <1>10 DEF CloseWindow
    <2> QED
        BY <2>1, DestroyWindowOwnership DEF RunDialog
<1>11. CASE CloseOtherTabs
    <2>1. PICK w \in Shown :
              /\ win[w].ntabs > 1
              /\ FreeTabs(frames, ToSet(win[w].tabs) \ {win[w].current})
        BY <1>11 DEF CloseOtherTabs
    <2> DEFINE ts == ToSet(win[w].tabs) \ {win[w].current}
    <2>2. w \in Win /\ GoodWindow(win[w]) /\ mainLoop
        BY <1>11, ShownWindows DEF IInv, WindowsGood, CloseOtherTabs, UserCanAct
    <2>3. ts \in SUBSET Tab /\ \A u \in ts : parent[u] = w
        BY <2>2, GoodTabs, ListedHome DEF IInv
    <2>4. parent' = [u \in Tab |-> IF u \in ts THEN NoWin ELSE parent[u]]
        BY <2>1 DEF FreeTabs
    <2> HIDE DEF ts
    <2>5. CASE ts = {}
        BY <2>4, <2>5, <1>11 DEF IInv, TabsOwned, CloseOtherTabs
    <2>6. CASE ts # {}
        BY <2>2, <2>3, <2>4, <2>6, CloseOwnership
    <2> QED
        BY <2>5, <2>6
<1>12. CASE ChildExits
    <2>1. PICK t \in Live : DeleteTab(t, frames) \/ RunDialog("ask", parent[t], t)
        BY <1>12 DEF ChildExits
    <2> QED
        BY <2>1, DeleteTabOwnership DEF RunDialog
<1>13. CASE FinishCloseTab
    BY <1>13, DeleteTabOwnership DEF FinishCloseTab, Ignored
<1>14. CASE FinishCloseWindow
    <2>1. CASE Ignored
        BY <2>1 DEF Ignored
    <2>2. CASE Last(frames).open /\ DestroyWindow(Last(frames).win, Front(frames))
        <3>1. Last(frames).win \in Shown
            BY <1>14, <2>2, PopProperties
            DEF IInv, DialogSound, FinishCloseWindow, Returns
        <3> QED
            BY <2>2, <3>1, DestroyWindowOwnership
    <2> QED
        BY <1>14, <2>1, <2>2 DEF FinishCloseWindow
<1>15. CASE FinishAsk
    <2>1. CASE Ignored
        BY <2>1 DEF Ignored
    <2>2. CASE Last(frames).tab \in Live
               /\ DeleteTab(Last(frames).tab, Front(frames))
        BY <2>2, DeleteTabOwnership
    <2>3. CASE UNCHANGED <<winAll, win, parent, life, frames, mainLoop>>
        BY <2>3
    <2> QED
        BY <1>15, <2>1, <2>2, <2>3 DEF FinishAsk
<1>16. CASE UNCHANGED vars
    BY <1>16 DEF vars
<1> QED
    BY <1>2, <1>3, <1>4, <1>5, <1>6, <1>7, <1>8, <1>9, <1>10, <1>11, <1>12,
       <1>13, <1>14, <1>15, <1>16 DEF Next

\* Every handler opens, moves or closes tabs as TabOwnership promises, or
\* leaves them alone; no handler quits early or leaves the program without a
\* window.
THEOREM MultiTabImplementsOwnership == Spec => ImplementsOwnership
<1>1. Init => Ownership!Init
    BY InitOwnership
<1>2. IInv /\ IInv' /\ [Next]_vars => [Ownership!Next]_(Ownership!vars)
    BY NextOwnership
<1>3. Spec => Ownership!Spec
    BY <1>1, <1>2, SpecIInv, PTL DEF Spec, Ownership!Spec
<1> QED
    BY <1>3 DEF ImplementsOwnership
=============================================================================
