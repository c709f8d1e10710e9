---------------------------- MODULE Session_proofs ----------------------------
(***************************************************************************)
(* Proofs about Session: types, that the process that has read a session   *)
(* file shows a window, and that a session that was saved completely comes *)
(* back.  The place of every element in such a file is found first; then   *)
(* what has been restored is stated by the place the parser is at.         *)
(***************************************************************************)
EXTENDS Session, SequenceTheorems, NaturalsInduction, WellFoundedInduction, TLAPS

-----------------------------------------------------------------------------
(* Recursive functions over 0 .. n, and sequences joined one by one.       *)

\* The least number of a set: what induction rests on here.
LEMMA LeastOf ==
    ASSUME NEW S \in SUBSET Nat, S # {}
    PROVE  \E x \in S : \A y \in S : x <= y
<1> DEFINE R == OpToRel(<, Nat)
<1>1. IsWellFoundedOn(R, Nat)
    BY NatLessThanWellFounded
<1>2. \E x \in S : \A y \in S : ~ (<<y, x>> \in R)
    BY <1>1, WFMin
<1>3. \A x, y \in S : y < x => <<y, x>> \in R
    BY DEF OpToRel
<1> HIDE DEF R
<1>4. PICK x \in S : \A y \in S : ~ (<<y, x>> \in R)
    BY <1>2
<1>5. \A y \in S : ~(y < x)
    BY <1>3, <1>4
<1>6. \A y \in S : x <= y
    BY <1>5
<1> QED
    BY <1>6

LEMMA Climb ==
    ASSUME NEW S, 0 \in S, \A n \in Nat : n \in S => n + 1 \in S
    PROVE  \A n \in Nat : n \in S
<1> DEFINE T == {n \in Nat : n \notin S}
<1> SUFFICES ASSUME T # {} PROVE FALSE
    OBVIOUS
<1>1. PICK x \in T : \A y \in T : x <= y
    BY LeastOf
<1>2. x # 0 /\ x - 1 \in Nat /\ x - 1 \notin T
    BY <1>1
<1>3. x - 1 \in S /\ (x - 1) + 1 = x
    BY <1>2
<1> QED
    BY <1>1, <1>2, <1>3

\* A recursive function exists when its step stays in a set.
Iterates(S, b, step, N, f) ==
    /\ f \in [0 .. N -> S] /\ f[0] = b
    /\ \A n \in 1 .. N : f[n] = step[n][f[n - 1]]

LEMMA Recursion ==
    ASSUME NEW S, NEW b \in S, NEW step \in [Nat -> [S -> S]], NEW N \in Nat
    PROVE  \E f : Iterates(S, b, step, N, f)
<1> DEFINE Upto(n, f) == f[0] = b /\ \A m \in 1 .. n : f[m] = step[m][f[m - 1]]
           D == {n \in Nat : \E f \in [0 .. n -> S] : Upto(n, f)}
<1>1. 0 \in D
    <2>1. [n \in 0 .. 0 |-> b] \in [0 .. 0 -> S] /\ Upto(0, [n \in 0 .. 0 |-> b])
        OBVIOUS
    <2> QED
        BY <2>1
<1>2. ASSUME NEW n \in Nat, n \in D PROVE n + 1 \in D
    <2>1. PICK f \in [0 .. n -> S] : Upto(n, f)
        BY <1>2
    <2>2. f \in [0 .. n -> S] /\ f[0] = b
        BY <2>1
    <2>3. \A m \in 1 .. n : f[m] = step[m][f[m - 1]]
        BY <2>1
    <2> DEFINE next == step[n + 1][f[n]]
               g == [m \in 0 .. n + 1 |-> IF m = n + 1 THEN next ELSE f[m]]
    <2>4. next \in S
        BY <2>2
    <2> HIDE DEF next
    <2>5. g \in [0 .. n + 1 -> S] /\ g[0] = b
        BY <2>2, <2>4
    <2>6. ASSUME NEW m \in 1 .. n + 1 PROVE g[m] = step[m][g[m - 1]]
        <3>1. CASE m = n + 1
            <4>1. m - 1 \in 0 .. n + 1 /\ m - 1 # n + 1 /\ m - 1 = n
                BY <3>1
            <4>2. g[m] = next /\ g[m - 1] = f[n]
                BY <3>1, <4>1
            <4> QED
                BY <3>1, <4>2 DEF next
        <3>2. CASE m # n + 1
            <4>1. m \in 1 .. n /\ m \in 0 .. n + 1 /\ m - 1 \in 0 .. n + 1 /\ m - 1 # n + 1
                BY <3>2
            <4>2. g[m] = f[m] /\ g[m - 1] = f[m - 1]
                BY <4>1
            <4> QED
                BY <2>3, <4>1, <4>2
        <3> QED
            BY <3>1, <3>2
    <2> HIDE DEF g
    <2>7. Upto(n + 1, g)
        BY <2>5, <2>6
    <2> HIDE DEF Upto
    <2> QED
        BY <2>5, <2>7
<1> HIDE DEF D
<1>3. N \in D
    BY <1>1, <1>2, Climb
<1> QED
    BY <1>3 DEF D, Iterates

\* FlattenSeq joins sequences in order: what it returns for each beginning of
\* them, as a function of their number.
Joining(E, ss, f) ==
    /\ f \in [0 .. Len(ss) -> Seq(E)] /\ f[0] = <<>>
    /\ \A n \in 1 .. Len(ss) : f[n] = f[n - 1] \o ss[n]

LEMMA Flattened ==
    ASSUME NEW E, NEW ss \in Seq(Seq(E))
    PROVE  \E f \in [0 .. Len(ss) -> Seq(E)] :
             Joining(E, ss, f) /\ FlattenSeq(ss) = f[Len(ss)]
<1> DEFINE N == Len(ss)
           T == Seq(E)
           one(n) == [q \in T |-> IF n \in 1 .. N THEN q \o ss[n] ELSE <<>>]
           step == [n \in Nat |-> one(n)]
<1>1. N \in Nat /\ <<>> \in T /\ \A n \in 1 .. N : ss[n] \in Seq(E)
    OBVIOUS
<1>2. \A n \in 1 .. N, q \in T : q \o ss[n] \in T
    BY <1>1
<1>3. /\ step \in [Nat -> [T -> T]]
      /\ \A n \in 1 .. N, q \in T : step[n][q] = q \o ss[n]
    <2>1. \A n \in Nat : one(n) \in [T -> T]
        <3> HIDE DEF N, T
        <3> QED
            BY <1>1, <1>2
    <2>2. \A n \in 1 .. N, q \in T : one(n)[q] = q \o ss[n]
        OBVIOUS
    <2>3. \A n \in 1 .. N : n \in Nat
        BY <1>1
    <2> HIDE DEF one, N, T
    <2> QED
        BY <2>1, <2>2, <2>3
<1> HIDE DEF step, T, N
<1>4. PICK g : Iterates(T, <<>>, step, N, g)
    BY <1>1, <1>3, Recursion
<1>a. g \in [0 .. N -> T] /\ g[0] = <<>>
    BY <1>4 DEF Iterates
<1>b. ASSUME NEW n \in 1 .. N PROVE g[n] = g[n - 1] \o ss[n]
    <2>1. g[n] = step[n][g[n - 1]]
        BY <1>4 DEF Iterates
    <2>2. g[n - 1] \in T
        BY <1>1, <1>a
    <2> QED
        BY <1>3, <2>1, <2>2
<1>c. Joining(E, ss, g)
    BY <1>a, <1>b DEF Joining, N, T
<1> USE DEF T
<1>5. CASE N = 0
    <2>1. FlattenSeq(ss) = ss /\ ss = <<>>
        BY <1>5 DEF FlattenSeq, N
    <2> QED
        BY <1>a, <1>c, <1>5, <2>1 DEF N
<1>6. CASE N # 0
    <2> DEFINE flatten == CHOOSE f : f = [i \in 1 .. N |-> IF i = 1 THEN ss[i] ELSE f[i - 1] \o ss[i]]
               h == [i \in 1 .. N |-> g[i]]
    <2>1. \A i \in 1 .. N : h[i] = IF i = 1 THEN ss[i] ELSE h[i - 1] \o ss[i]
        <3> SUFFICES ASSUME NEW i \in 1 .. N
                     PROVE  h[i] = IF i = 1 THEN ss[i] ELSE h[i - 1] \o ss[i]
            OBVIOUS
        <3>1. g[i] = g[i - 1] \o ss[i] /\ ss[i] \in Seq(E)
            BY <1>1, <1>b
        <3>2. CASE i = 1
            <4>1. g[i - 1] = <<>>
                BY <1>a, <3>2
            <4>2. <<>> \o ss[i] = ss[i]
                BY <3>1
            <4> QED
                BY <3>1, <3>2, <4>1, <4>2
        <3>3. CASE i # 1
            <4>1. i - 1 \in 1 .. N
                BY <1>1, <3>3
            <4> QED
                BY <3>1, <3>3, <4>1
        <3> QED
            BY <3>2, <3>3
    <2>2. h = [i \in 1 .. N |-> IF i = 1 THEN ss[i] ELSE h[i - 1] \o ss[i]]
        BY <2>1
    <2> HIDE DEF h
    <2>3. flatten = [i \in 1 .. N |-> IF i = 1 THEN ss[i] ELSE flatten[i - 1] \o ss[i]]
        BY <2>2
    <2>4. FlattenSeq(ss) = flatten[N]
        BY <1>6 DEF FlattenSeq, N
    <2> HIDE DEF flatten
    <2> DEFINE Same == {n \in Nat : n \in 1 .. N => flatten[n] = g[n]}
    <2>5. 0 \in Same
        OBVIOUS
    <2>6. ASSUME NEW n \in Nat, n \in Same PROVE n + 1 \in Same
        <3> SUFFICES ASSUME n + 1 \in 1 .. N PROVE flatten[n + 1] = g[n + 1]
            OBVIOUS
        <3>0. (n + 1) - 1 = n
            OBVIOUS
        <3>1. g[n + 1] = g[n] \o ss[n + 1] /\ ss[n + 1] \in Seq(E)
            BY <1>1, <1>b, <3>0
        <3>2. flatten[n + 1] = IF n + 1 = 1 THEN ss[n + 1] ELSE flatten[(n + 1) - 1] \o ss[n + 1]
            BY <2>3
        <3>3. CASE n = 0
            <4>1. g[n] = <<>>
                BY <1>a, <3>3
            <4>2. <<>> \o ss[n + 1] = ss[n + 1]
                BY <3>1
            <4> QED
                BY <3>1, <3>2, <3>3, <4>1, <4>2
        <3>4. CASE n # 0
            <4>1. n \in 1 .. N
                BY <1>1, <3>4
            <4>2. flatten[n] = g[n] /\ n + 1 # 1
                BY <2>6, <3>4, <4>1
            <4> QED
                BY <3>0, <3>1, <3>2, <4>2
        <3> QED
            BY <3>3, <3>4
    <2>7. N \in Same
        <3> HIDE DEF Same
        <3> QED
            BY <1>1, <2>5, <2>6, Climb
    <2>8. FlattenSeq(ss) = g[N]
        BY <1>1, <1>6, <2>4, <2>7
    <2> QED
        BY <1>a, <1>c, <2>8 DEF N
<1> QED
    BY <1>5, <1>6

Joined(q, s, r) == r = q \o s

LEMMA Places ==
    ASSUME NEW E, NEW q \in Seq(E), NEW s \in Seq(E), NEW r, Joined(q, s, r)
    PROVE  /\ r \in Seq(E) /\ Len(r) = Len(q) + Len(s)
           /\ Len(q) \in Nat /\ Len(s) \in Nat
           /\ \A p \in 1 .. Len(q) : r[p] = q[p]
           /\ \A p \in 1 .. Len(s) : r[Len(q) + p] = s[p]
BY DEF Joined

\* What has been joined stays where it is, and the next one follows it.
InPlace(f, ss, n) ==
    /\ Len(f[n - 1]) + Len(ss[n]) <= Len(f[Len(ss)])
    /\ Len(f[n]) = Len(f[n - 1]) + Len(ss[n])
    /\ \A p \in 1 .. Len(ss[n]) : f[Len(ss)][Len(f[n - 1]) + p] = ss[n][p]

LEMMA JoinedPlaces ==
    ASSUME NEW E, NEW ss \in Seq(Seq(E)), NEW f, Joining(E, ss, f),
           NEW n \in 1 .. Len(ss)
    PROVE  InPlace(f, ss, n)
<1> DEFINE N == Len(ss)
           Kept == {m \in Nat : m \in n .. N =>
                      /\ Len(f[n]) <= Len(f[m])
                      /\ \A p \in 1 .. Len(f[n]) : f[m][p] = f[n][p]}
<1>0. /\ N \in Nat /\ \A m \in 1 .. N : ss[m] \in Seq(E)
      /\ n \in 1 .. N /\ n \in 0 .. N /\ n - 1 \in 0 .. N
    OBVIOUS
<1>1. /\ f \in [0 .. N -> Seq(E)]
      /\ \A m \in 1 .. N : f[m] = f[m - 1] \o ss[m]
    BY DEF Joining
<1> HIDE DEF N
<1>2. 0 \in Kept
    BY <1>0
<1>3. ASSUME NEW m \in Nat, m \in Kept PROVE m + 1 \in Kept
    <2> SUFFICES ASSUME m + 1 \in n .. N
                 PROVE  /\ Len(f[n]) <= Len(f[m + 1])
                        /\ \A p \in 1 .. Len(f[n]) : f[m + 1][p] = f[n][p]
        OBVIOUS
    <2>1. CASE m + 1 = n
        BY <2>1
    <2>2. CASE m + 1 # n
        <3>1. m \in n .. N /\ m + 1 \in 1 .. N /\ m \in 0 .. N
            BY <1>0, <2>2
        <3>2. f[m + 1] = f[m] \o ss[m + 1] /\ ss[m + 1] \in Seq(E)
            <4>1. f[m + 1] = f[(m + 1) - 1] \o ss[m + 1] /\ ss[m + 1] \in Seq(E)
                BY <1>0, <1>1, <3>1
            <4> QED
                BY <4>1
        <3>3. f[m] \in Seq(E) /\ f[n] \in Seq(E)
            BY <1>0, <1>1, <3>1
        <3>4. Len(f[n]) <= Len(f[m]) /\ \A p \in 1 .. Len(f[n]) : f[m][p] = f[n][p]
            BY <1>3, <3>1
        <3> DEFINE q == f[m]
                   r == f[m + 1]
                   a == f[n]
                   t == ss[m + 1]
        <3>5. q \in Seq(E) /\ t \in Seq(E) /\ Joined(q, t, r)
            BY <3>2, <3>3 DEF Joined
        <3>6. Len(a) \in Nat /\ Len(a) <= Len(q) /\ \A p \in 1 .. Len(a) : q[p] = a[p]
            BY <3>3, <3>4
        <3> HIDE DEF Kept, q, r, a, t
        <3>8. /\ Len(r) = Len(q) + Len(t) /\ Len(q) \in Nat /\ Len(t) \in Nat
              /\ \A p \in 1 .. Len(q) : r[p] = q[p]
            BY <3>5, Places
        <3>9. \A p \in 1 .. Len(a) : p \in 1 .. Len(q)
            BY <3>6, <3>8
        <3>7. Len(a) <= Len(r) /\ \A p \in 1 .. Len(a) : r[p] = a[p]
            BY <3>6, <3>8, <3>9
        <3> QED
            BY <3>7 DEF r, a
    <2> QED
        BY <2>1, <2>2
<1>4. N \in Kept
    <2> HIDE DEF Kept
    <2> QED
        BY <1>0, <1>2, <1>3, Climb
<1>5. Len(f[n]) <= Len(f[N]) /\ \A p \in 1 .. Len(f[n]) : f[N][p] = f[n][p]
    BY <1>0, <1>4
<1>6. f[n] = f[n - 1] \o ss[n] /\ ss[n] \in Seq(E) /\ f[n - 1] \in Seq(E)
    BY <1>0, <1>1
<1> DEFINE q == f[n - 1]
           r == f[n]
           z == f[N]
           t == ss[n]
<1>a. q \in Seq(E) /\ t \in Seq(E) /\ Joined(q, t, r)
    BY <1>6 DEF Joined
<1>8. Len(r) <= Len(z) /\ \A p \in 1 .. Len(r) : z[p] = r[p]
    BY <1>5
<1> HIDE DEF q, r, z, t
<1>7. /\ Len(r) = Len(q) + Len(t) /\ Len(q) \in Nat /\ Len(t) \in Nat
      /\ \A p \in 1 .. Len(t) : r[Len(q) + p] = t[p]
    BY <1>a, Places
<1>9. ASSUME NEW p \in 1 .. Len(t) PROVE z[Len(q) + p] = t[p]
    <2>1. Len(q) + p \in 1 .. Len(r)
        BY <1>7
    <2> QED
        BY <1>7, <1>8, <2>1
<1>10. /\ Len(q) + Len(t) <= Len(z) /\ Len(r) = Len(q) + Len(t)
       /\ \A p \in 1 .. Len(t) : z[Len(q) + p] = t[p]
    BY <1>7, <1>8, <1>9
<1> QED
    BY <1>10 DEF InPlace, N, q, r, z, t
-----------------------------------------------------------------------------
(* What a session file has at each place.                                  *)

\* A sequence between two tags.
Enclosed(a, q, b, r) == r = <<a>> \o q \o <<b>>

\* Where the parts of an enclosed sequence are.
LEMMA Enclosing ==
    ASSUME NEW E, NEW a \in E, NEW b \in E, NEW q \in Seq(E), NEW r, Enclosed(a, q, b, r)
    PROVE  /\ r \in Seq(E) /\ Len(r) = Len(q) + 2 /\ Len(q) \in Nat
           /\ r[1] = a /\ r[Len(q) + 2] = b
           /\ \A p \in 1 .. Len(q) : r[1 + p] = q[p]
<1> DEFINE s == <<a>> \o q
<1>1. <<a>> \in Seq(E) /\ <<b>> \in Seq(E) /\ Joined(<<a>>, q, s)
      /\ Len(<<a>>) = 1 /\ <<a>>[1] = a /\ Len(<<b>>) = 1 /\ <<b>>[1] = b
    BY DEF Joined
<1>2. Joined(s, <<b>>, r)
    BY DEF Joined, Enclosed
<1> HIDE DEF s
<1> DEFINE first == <<a>>
           end == <<b>>
<1>3. Len(first) = 1 /\ first[1] = a /\ Len(end) = 1 /\ end[1] = b
    BY <1>1
<1>c. first \in Seq(E) /\ Joined(first, q, s) /\ end \in Seq(E) /\ Joined(s, end, r)
    BY <1>1, <1>2
<1> HIDE DEF first, end
<1>4. /\ s \in Seq(E) /\ Len(s) = Len(q) + 1 /\ Len(q) \in Nat
      /\ \A p \in 1 .. 1 : s[p] = first[p]
      /\ \A p \in 1 .. Len(q) : s[1 + p] = q[p]
    <2>1. /\ s \in Seq(E) /\ Len(s) = Len(first) + Len(q) /\ Len(q) \in Nat
          /\ \A p \in 1 .. Len(first) : s[p] = first[p]
          /\ \A p \in 1 .. Len(q) : s[Len(first) + p] = q[p]
        BY <1>c, Places
    <2> QED
        BY <1>3, <2>1
<1>d. s \in Seq(E)
    BY <1>4
<1>5. /\ r \in Seq(E) /\ Len(r) = Len(q) + 1 + 1
      /\ \A p \in 1 .. Len(s) : r[p] = s[p]
      /\ \A p \in 1 .. 1 : r[Len(s) + p] = end[p]
    <2>1. /\ r \in Seq(E) /\ Len(r) = Len(s) + Len(end)
          /\ \A p \in 1 .. Len(s) : r[p] = s[p]
          /\ \A p \in 1 .. Len(end) : r[Len(s) + p] = end[p]
        BY <1>c, <1>d, Places
    <2> QED
        BY <1>3, <1>4, <2>1
<1>6. r[1] = a /\ r[Len(q) + 2] = b
    <2>1. 1 \in 1 .. 1 /\ 1 \in 1 .. Len(s) /\ Len(s) + 1 = Len(q) + 2
        BY <1>4
    <2>2. s[1] = a /\ r[1] = s[1] /\ r[Len(s) + 1] = b
        BY <1>3, <1>4, <1>5, <2>1
    <2> QED
        BY <2>1, <2>2
<1>7. ASSUME NEW p \in 1 .. Len(q) PROVE r[1 + p] = q[p]
    <2>1. 1 + p \in 1 .. Len(s)
        BY <1>4
    <2> QED
        BY <1>4, <1>5, <2>1
<1> QED
    BY <1>4, <1>5, <1>6, <1>7

\* The elements that have a tag only.
LEMMA ElementTypes ==
    /\ [tag |-> "session"] \in Element /\ [tag |-> "/session"] \in Element
    /\ [tag |-> "/window"] \in Element
    /\ \A w \in Window : [tag |-> "window", look |-> w.look] \in Element
<1>1. ASSUME NEW w \in Window PROVE [tag |-> "window", look |-> w.look] \in Element
    BY DEF Element, Window
<1> QED
    BY <1>1 DEF Element

\* A tab is saved as five elements.
LEMMA SavedTab ==
    ASSUME NEW w \in Window, NEW k \in 1 .. Len(w.tabs)
    PROVE  SaveTab(w, k) \in Seq(Element) /\ Len(SaveTab(w, k)) = 5
<1>1. w.tabs[k] \in Tab
    BY DEF Window
<1>2. SaveTab(w, k)[1] \in Element
    BY <1>1 DEF SaveTab, Element, Tab
<1>3. /\ [tag |-> "command", argc |-> 1] \in Element
      /\ [tag |-> "arg", s |-> w.tabs[k].command] \in Element
      /\ [tag |-> "/command"] \in Element /\ [tag |-> "/tab"] \in Element
    BY <1>1 DEF Element, Tab
<1> QED
    BY <1>2, <1>3 DEF SaveTab

\* A window is saved as its tags around five elements for each tab.
LEMMA SavedWindow ==
    ASSUME NEW w \in Window
    PROVE  /\ SaveWindow(w) \in Seq(Element)
           /\ Len(SaveWindow(w)) = 2 + 5 * Len(w.tabs)
           /\ SaveWindow(w)[1] = [tag |-> "window", look |-> w.look]
           /\ SaveWindow(w)[2 + 5 * Len(w.tabs)] = [tag |-> "/window"]
           /\ \A k \in 1 .. Len(w.tabs), m \in 1 .. 5 :
                SaveWindow(w)[1 + (5 * (k - 1) + m)] = SaveTab(w, k)[m]
<1> DEFINE E == Element
           ts == w.tabs
           N == Len(ts)
           ss == [k \in DOMAIN ts |-> SaveTab(w, k)]
<1>1. N \in Nat /\ DOMAIN ts = 1 .. N
    BY DEF Window
<1>2. \A k \in 1 .. N : SaveTab(w, k) \in Seq(E) /\ Len(SaveTab(w, k)) = 5
    BY SavedTab
<1>3. /\ ss \in Seq(Seq(E)) /\ Len(ss) = N
      /\ \A k \in 1 .. N : ss[k] = SaveTab(w, k)
    <2> HIDE DEF ts, N, E
    <2> QED
        BY <1>1, <1>2
<1> HIDE DEF ss, E
<1>4. PICK f \in [0 .. Len(ss) -> Seq(E)] : Joining(E, ss, f) /\ FlattenSeq(ss) = f[Len(ss)]
    BY <1>3, Flattened
<1> HIDE DEF N, ts
<1>5. ASSUME NEW k \in 1 .. N
      PROVE  /\ Len(f[k - 1]) + 5 <= Len(f[N]) /\ Len(f[k]) = Len(f[k - 1]) + 5
             /\ \A m \in 1 .. 5 : f[N][Len(f[k - 1]) + m] = SaveTab(w, k)[m]
    <2>1. k \in 1 .. Len(ss) /\ Len(ss[k]) = 5 /\ ss[k] = SaveTab(w, k)
        BY <1>2, <1>3
    <2>2. k \in 1 .. Len(ss) /\ ss \in Seq(Seq(E)) /\ Joining(E, ss, f)
        BY <1>3, <1>4
    <2>3. InPlace(f, ss, k)
        BY <2>2, JoinedPlaces
    <2> QED
        BY <1>3, <2>1, <2>3 DEF InPlace
<1> DEFINE Fives == {k \in Nat : k \in 0 .. N => Len(f[k]) = 5 * k}
<1>6. 0 \in Fives
    <2>1. f[0] = <<>>
        BY <1>4 DEF Joining
    <2> QED
        BY <2>1
<1>7. ASSUME NEW k \in Nat, k \in Fives PROVE k + 1 \in Fives
    <2> SUFFICES ASSUME k + 1 \in 0 .. N PROVE Len(f[k + 1]) = 5 * (k + 1)
        OBVIOUS
    <2>1. k + 1 \in 1 .. N /\ (k + 1) - 1 = k /\ k \in 0 .. N
        BY <1>1
    <2>2. Len(f[k + 1]) = Len(f[(k + 1) - 1]) + 5
        BY <1>5, <2>1
    <2> QED
        BY <1>7, <2>1, <2>2
<1>8. \A k \in 0 .. N : Len(f[k]) = 5 * k
    <2>1. \A k \in Nat : k \in Fives
        <3> HIDE DEF Fives
        <3> QED
            BY <1>6, <1>7, Climb
    <2> QED
        BY <1>1, <2>1
<1> DEFINE q == f[N]
           a == [tag |-> "window", look |-> w.look]
           b == [tag |-> "/window"]
           r == SaveWindow(w)
<1>9. q \in Seq(E) /\ a \in E /\ b \in E /\ Len(q) = 5 * N
    BY <1>1, <1>3, <1>4, <1>8, ElementTypes DEF E
<1>10. Enclosed(a, q, b, r)
    BY <1>3, <1>4 DEF Enclosed, SaveWindow, ss, ts
<1>11. /\ r \in Seq(E) /\ Len(r) = 5 * N + 2 /\ r[1] = a /\ r[5 * N + 2] = b
       /\ \A p \in 1 .. 5 * N : r[1 + p] = q[p]
    <2> HIDE DEF q, a, b, r
    <2> QED
        BY <1>9, <1>10, Enclosing
<1>12. ASSUME NEW k \in 1 .. N, NEW m \in 1 .. 5
       PROVE  r[1 + (5 * (k - 1) + m)] = SaveTab(w, k)[m]
    <2>1. 5 * (k - 1) + m \in 1 .. 5 * N /\ k - 1 \in 0 .. N
        BY <1>1
    <2>2. q[Len(f[k - 1]) + m] = SaveTab(w, k)[m]
        BY <1>5
    <2>3. q[5 * (k - 1) + m] = SaveTab(w, k)[m]
        BY <1>8, <2>1, <2>2
    <2> HIDE DEF q, r
    <2> QED
        BY <1>11, <2>1, <2>3
<1> HIDE DEF r
<1>13. 2 + 5 * N = 5 * N + 2
    BY <1>1
<1> QED
    BY <1>11, <1>12, <1>13 DEF N, ts, r, E

\* The number of elements before window i + 1.
Offset(ws) ==
    LET at[i \in 0 .. Len(ws)] ==
          IF i = 0 THEN 1 ELSE at[i - 1] + 2 + 5 * Len(ws[i].tabs)
    IN  at

LEMMA Offsets ==
    ASSUME NEW ws \in Seq(Window)
    PROVE  /\ Offset(ws) \in [0 .. Len(ws) -> Nat] /\ Offset(ws)[0] = 1
           /\ \A i \in 1 .. Len(ws) :
                Offset(ws)[i] = Offset(ws)[i - 1] + (2 + 5 * Len(ws[i].tabs))
<1> DEFINE N == Len(ws)
           size == [i \in 1 .. N |-> 2 + 5 * Len(ws[i].tabs)]
           one(i) == [x \in Nat |-> IF i \in 1 .. N THEN x + size[i] ELSE x]
           step == [i \in Nat |-> one(i)]
<1>1. N \in Nat /\ \A i \in 1 .. N : Len(ws[i].tabs) \in Nat
    <2>1. \A i \in 1 .. N : ws[i] \in Window
        OBVIOUS
    <2>2. \A w \in Window : Len(w.tabs) \in Nat
        BY DEF Window
    <2> QED
        BY <2>1, <2>2
<1> HIDE DEF N
<1>2. \A i \in 1 .. N : size[i] \in Nat /\ size[i] = 2 + 5 * Len(ws[i].tabs)
    <2>1. \A x \in Nat : 2 + 5 * x \in Nat
        OBVIOUS
    <2> QED
        BY <1>1, <2>1
<1> HIDE DEF size
<1>3. step \in [Nat -> [Nat -> Nat]]
    <2>1. \A i \in Nat : one(i) \in [Nat -> Nat]
        BY <1>2
    <2> HIDE DEF one
    <2> QED
        BY <2>1
<1>4. \A i \in 1 .. N, x \in Nat : step[i][x] = x + size[i]
    <2>1. \A i \in 1 .. N, x \in Nat : one(i)[x] = x + size[i]
        OBVIOUS
    <2>2. \A i \in 1 .. N : step[i] = one(i)
        BY <1>1
    <2> QED
        BY <2>1, <2>2
<1> HIDE DEF step
<1>5. PICK g : Iterates(Nat, 1, step, N, g)
    BY <1>1, <1>3, Recursion
<1>6. g \in [0 .. N -> Nat] /\ g[0] = 1
    BY <1>5 DEF Iterates
<1>7. ASSUME NEW i \in 1 .. N PROVE g[i] = g[i - 1] + 2 + 5 * Len(ws[i].tabs)
    <2>1. g[i] = step[i][g[i - 1]]
        BY <1>5 DEF Iterates
    <2>2. g[i - 1] \in Nat
        BY <1>1, <1>6
    <2>3. g[i] = g[i - 1] + size[i]
        BY <1>4, <2>1, <2>2
    <2> DEFINE x == g[i - 1]
               l == Len(ws[i].tabs)
    <2>4. x \in Nat /\ l \in Nat /\ g[i] = x + (2 + 5 * l)
        BY <1>1, <1>2, <2>2, <2>3
    <2> HIDE DEF x, l
    <2>5. g[i] = x + 2 + 5 * l
        BY <2>4
    <2> QED
        BY <2>5 DEF x, l
<1>8. g = [i \in 0 .. N |-> IF i = 0 THEN 1 ELSE g[i - 1] + 2 + 5 * Len(ws[i].tabs)]
    BY <1>1, <1>6, <1>7
<1> DEFINE at == CHOOSE h : h = [i \in 0 .. N |-> IF i = 0 THEN 1 ELSE h[i - 1] + 2 + 5 * Len(ws[i].tabs)]
<1>9. at = [i \in 0 .. N |-> IF i = 0 THEN 1 ELSE at[i - 1] + 2 + 5 * Len(ws[i].tabs)]
    BY <1>8
<1>10. Offset(ws) = at
    BY DEF Offset, N
<1> HIDE DEF at
<1>11. at[0] = 1 /\ \A i \in 1 .. N : at[i] = at[i - 1] + 2 + 5 * Len(ws[i].tabs)
    BY <1>1, <1>9
<1>12. ASSUME NEW i \in 1 .. N, at[i - 1] \in Nat
       PROVE  at[i] = at[i - 1] + (2 + 5 * Len(ws[i].tabs)) /\ at[i] \in Nat
    <2> DEFINE x == at[i - 1]
               l == Len(ws[i].tabs)
    <2>1. x \in Nat /\ l \in Nat /\ at[i] = x + 2 + 5 * l
        BY <1>1, <1>11, <1>12
    <2> HIDE DEF x, l
    <2>2. at[i] = x + (2 + 5 * l) /\ at[i] \in Nat
        BY <2>1
    <2> QED
        BY <2>2 DEF x, l
<1> DEFINE Typed == {i \in Nat : i \in 0 .. N => at[i] \in Nat}
<1>13. 0 \in Typed
    BY <1>11
<1>14. ASSUME NEW i \in Nat, i \in Typed PROVE i + 1 \in Typed
    <2> SUFFICES ASSUME i + 1 \in 0 .. N PROVE at[i + 1] \in Nat
        OBVIOUS
    <2>1. i + 1 \in 1 .. N /\ (i + 1) - 1 = i /\ i \in 0 .. N
        BY <1>1
    <2>2. at[(i + 1) - 1] \in Nat
        BY <1>14, <2>1
    <2> QED
        BY <1>12, <2>1, <2>2
<1>15. \A i \in 0 .. N : at[i] \in Nat
    <2>1. \A i \in Nat : i \in Typed
        <3> HIDE DEF Typed
        <3> QED
            BY <1>13, <1>14, Climb
    <2> QED
        BY <1>1, <2>1
<1>16. at \in [0 .. N -> Nat]
    BY <1>9, <1>15
<1>17. \A i \in 1 .. N : at[i] = at[i - 1] + (2 + 5 * Len(ws[i].tabs))
    BY <1>1, <1>12, <1>15
<1> QED
    BY <1>10, <1>11, <1>16, <1>17 DEF N

\* A session file: what save_session_to_fp writes, place by place.
SavedTabAt(s, n, w, k) ==
    LET t == w.tabs[k] IN
    /\ s[n + 1] = [tag |-> "tab", profile |-> t.profile, title |-> t.title,
                   current |-> k = w.current,
                   scheme |-> IF t.overridden THEN t.scheme ELSE NoScheme]
    /\ s[n + 2] = [tag |-> "command", argc |-> 1]
    /\ s[n + 3] = [tag |-> "arg", s |-> t.command]
    /\ s[n + 4] = [tag |-> "/command"] /\ s[n + 5] = [tag |-> "/tab"]

SavedWindowAt(s, n, w) ==
    /\ s[n + 1] = [tag |-> "window", look |-> w.look]
    /\ s[n + 2 + 5 * Len(w.tabs)] = [tag |-> "/window"]
    /\ \A k \in 1 .. Len(w.tabs) : SavedTabAt(s, n + 1 + 5 * (k - 1), w, k)

\* A window saved from place n on.
LEMMA WindowInPlace ==
    ASSUME NEW w \in Window, NEW s, NEW n \in Nat,
           \A p \in 1 .. Len(SaveWindow(w)) : s[n + p] = SaveWindow(w)[p]
    PROVE  SavedWindowAt(s, n, w)
<1> DEFINE N == Len(w.tabs)
           r == SaveWindow(w)
<1>1. N \in Nat
    BY DEF Window
<1>2. /\ Len(r) = 2 + 5 * N
      /\ r[1] = [tag |-> "window", look |-> w.look] /\ r[2 + 5 * N] = [tag |-> "/window"]
      /\ \A k \in 1 .. N, m \in 1 .. 5 : r[1 + (5 * (k - 1) + m)] = SaveTab(w, k)[m]
    BY SavedWindow
<1>3. \A p \in 1 .. Len(r) : s[n + p] = r[p]
    OBVIOUS
<1> HIDE DEF N, r
<1>4. s[n + 1] = r[1] /\ s[n + (2 + 5 * N)] = r[2 + 5 * N]
    <2>1. 1 \in 1 .. Len(r) /\ 2 + 5 * N \in 1 .. Len(r)
        BY <1>1, <1>2
    <2> QED
        BY <1>3, <2>1
<1>5. n + (2 + 5 * N) = n + 2 + 5 * N
    BY <1>1
<1>6. ASSUME NEW k \in 1 .. N PROVE SavedTabAt(s, n + 1 + 5 * (k - 1), w, k)
    <2>1. \A m \in 1 .. 5 : s[n + 1 + 5 * (k - 1) + m] = SaveTab(w, k)[m]
        <3> SUFFICES ASSUME NEW m \in 1 .. 5
                     PROVE  s[n + 1 + 5 * (k - 1) + m] = SaveTab(w, k)[m]
            OBVIOUS
        <3> DEFINE p == 1 + (5 * (k - 1) + m)
        <3>1. p \in 1 .. Len(r) /\ n + 1 + 5 * (k - 1) + m = n + p
            BY <1>1, <1>2
        <3>2. r[p] = SaveTab(w, k)[m]
            BY <1>2
        <3> HIDE DEF p
        <3> QED
            BY <1>3, <3>1, <3>2
    <2> DEFINE x == n + 1 + 5 * (k - 1)
    <2> HIDE DEF x
    <2>2. \A m \in 1 .. 5 : s[x + m] = SaveTab(w, k)[m]
        BY <2>1 DEF x
    <2>3. /\ s[x + 1] = SaveTab(w, k)[1] /\ s[x + 2] = SaveTab(w, k)[2]
          /\ s[x + 3] = SaveTab(w, k)[3] /\ s[x + 4] = SaveTab(w, k)[4]
          /\ s[x + 5] = SaveTab(w, k)[5]
        BY <2>2
    <2>4. SavedTabAt(s, x, w, k)
        BY <2>3 DEF SaveTab, SavedTabAt
    <2> QED
        BY <2>4 DEF x
<1> QED
    BY <1>2, <1>4, <1>5, <1>6 DEF SavedWindowAt, N

\* Where the windows of a session are.
LEMMA SavedSession ==
    ASSUME NEW ws \in Seq(Window), NEW s, s = SessionOf(ws)
    PROVE  /\ s \in Seq(Element) /\ Len(s) = Offset(ws)[Len(ws)] + 1
           /\ s[1] = [tag |-> "session"] /\ s[Len(s)] = [tag |-> "/session"]
           /\ \A i \in 1 .. Len(ws) :
                /\ Offset(ws)[i] <= Offset(ws)[Len(ws)]
                /\ SavedWindowAt(s, Offset(ws)[i - 1], ws[i])
<1> DEFINE E == Element
           N == Len(ws)
           ss == [i \in DOMAIN ws |-> SaveWindow(ws[i])]
           at == Offset(ws)
<1>1. N \in Nat /\ DOMAIN ws = 1 .. N /\ \A i \in 1 .. N : ws[i] \in Window
    OBVIOUS
<1>2. \A i \in 1 .. N : SaveWindow(ws[i]) \in Seq(E)
                        /\ Len(SaveWindow(ws[i])) = 2 + 5 * Len(ws[i].tabs)
    BY <1>1, SavedWindow
<1>3. /\ ss \in Seq(Seq(E)) /\ Len(ss) = N
      /\ \A i \in 1 .. N : ss[i] = SaveWindow(ws[i])
    <2> HIDE DEF N, E
    <2> QED
        BY <1>1, <1>2
<1>4. /\ at \in [0 .. N -> Nat] /\ at[0] = 1
      /\ \A i \in 1 .. N : at[i] = at[i - 1] + (2 + 5 * Len(ws[i].tabs))
    BY Offsets
<1> HIDE DEF ss, E, at
<1>5. PICK f \in [0 .. Len(ss) -> Seq(E)] : Joining(E, ss, f) /\ FlattenSeq(ss) = f[Len(ss)]
    BY <1>3, Flattened
<1> HIDE DEF N
<1>6. ASSUME NEW i \in 1 .. N PROVE InPlace(f, ss, i) /\ Len(ss[i]) = 2 + 5 * Len(ws[i].tabs)
    <2>1. i \in 1 .. Len(ss) /\ ss \in Seq(Seq(E)) /\ Joining(E, ss, f)
        BY <1>3, <1>5
    <2> QED
        BY <1>2, <1>3, <2>1, JoinedPlaces
<1> DEFINE Met1 == {i \in Nat : i \in 0 .. N => at[i] = 1 + Len(f[i])}
<1>7. 0 \in Met1
    <2>1. f[0] = <<>>
        BY <1>5 DEF Joining
    <2> QED
        BY <1>4, <2>1
<1>8. ASSUME NEW i \in Nat, i \in Met1 PROVE i + 1 \in Met1
    <2> SUFFICES ASSUME i + 1 \in 0 .. N PROVE at[i + 1] = 1 + Len(f[i + 1])
        OBVIOUS
    <2>1. i + 1 \in 1 .. N /\ (i + 1) - 1 = i /\ i \in 0 .. N
        BY <1>1
    <2>2. Len(f[i + 1]) = Len(f[i]) + (2 + 5 * Len(ws[i + 1].tabs))
        BY <1>6, <2>1 DEF InPlace
    <2>3. at[i + 1] = at[i] + (2 + 5 * Len(ws[i + 1].tabs)) /\ at[i] = 1 + Len(f[i])
        BY <1>4, <1>8, <2>1
    <2>4. f[i] \in Seq(E)
        BY <1>3, <1>5, <2>1
    <2>5. Len(f[i]) \in Nat
        BY <2>4
    <2>6. 2 + 5 * Len(ws[i + 1].tabs) \in Nat
        <3>1. Len(ws[i + 1].tabs) \in Nat
            BY <1>1, <2>1 DEF Window
        <3> QED
            BY <3>1
    <2> DEFINE d == 2 + 5 * Len(ws[i + 1].tabs)
               l == Len(f[i])
    <2> HIDE DEF d, l
    <2>7. Len(f[i + 1]) = l + d /\ at[i + 1] = (1 + l) + d /\ l \in Nat /\ d \in Nat
        BY <2>2, <2>3, <2>5, <2>6 DEF d, l
    <2> QED
        BY <2>7
<1>9. \A i \in 0 .. N : at[i] = 1 + Len(f[i])
    <2>1. \A i \in Nat : i \in Met1
        <3> HIDE DEF Met1
        <3> QED
            BY <1>7, <1>8, Climb
    <2> QED
        BY <1>1, <2>1
<1> DEFINE q == f[N]
           a == [tag |-> "session"]
           b == [tag |-> "/session"]
<1>10. q \in Seq(E) /\ a \in E /\ b \in E /\ at[N] = 1 + Len(q)
    BY <1>1, <1>3, <1>5, <1>9, ElementTypes DEF E
<1>11. Enclosed(a, q, b, s)
    BY <1>3, <1>5 DEF Enclosed, SessionOf, ss
<1>12. /\ s \in Seq(E) /\ Len(s) = Len(q) + 2 /\ s[1] = a /\ s[Len(q) + 2] = b
       /\ Len(q) \in Nat /\ \A p \in 1 .. Len(q) : s[1 + p] = q[p]
    <2>1. q \in Seq(E) /\ a \in E /\ b \in E
        BY <1>10
    <2> HIDE DEF q, a, b
    <2> QED
        BY <1>11, <2>1, Enclosing
<1>13. ASSUME NEW i \in 1 .. N
       PROVE  at[i] <= at[N] /\ SavedWindowAt(s, at[i - 1], ws[i])
    <2> DEFINE l == Len(f[i - 1])
               r == SaveWindow(ws[i])
    <2>1. i \in 0 .. N /\ i - 1 \in 0 .. N /\ N \in 0 .. N
        BY <1>1
    <2>2. /\ l + Len(r) <= Len(q) /\ Len(f[i]) = l + Len(r)
          /\ \A p \in 1 .. Len(r) : q[l + p] = r[p]
        <3>1. /\ Len(f[i - 1]) + Len(ss[i]) <= Len(f[Len(ss)])
              /\ Len(f[i]) = Len(f[i - 1]) + Len(ss[i])
              /\ \A p \in 1 .. Len(ss[i]) : f[Len(ss)][Len(f[i - 1]) + p] = ss[i][p]
            BY <1>6 DEF InPlace
        <3>2. ss[i] = r /\ Len(ss) = N
            BY <1>3
        <3> QED
            BY <3>1, <3>2
    <2>3. f[i - 1] \in Seq(E) /\ r \in Seq(E)
        BY <1>2, <1>3, <1>5, <2>1
    <2>4. l \in Nat /\ Len(r) \in Nat
        BY <2>3
    <2>5. at[i - 1] = 1 + l /\ at[i] = 1 + Len(f[i]) /\ at[N] = 1 + Len(q)
        BY <1>9, <2>1
    <2> HIDE DEF q, l, r
    <2>6. at[i] <= at[N]
        BY <1>12, <2>2, <2>4, <2>5
    <2>7. ASSUME NEW p \in 1 .. Len(r) PROVE s[at[i - 1] + p] = r[p]
        <3>1. l + p \in 1 .. Len(q) /\ at[i - 1] + p = 1 + (l + p)
            BY <1>12, <2>2, <2>4, <2>5
        <3> QED
            BY <1>12, <2>2, <3>1
    <2>8. at[i - 1] \in Nat /\ ws[i] \in Window
        BY <1>1, <2>4, <2>5
    <2> QED
        BY <2>6, <2>7, <2>8, WindowInPlace DEF r
<1>14. Len(s) = at[N] + 1
    BY <1>10, <1>12
<1> HIDE DEF q
<1> QED
    BY <1>12, <1>13, <1>14 DEF E, N, at

\* The windows with tabs, in their order.
LEMMA WithTabsType ==
    ASSUME NEW W, NEW ws \in Seq(W)
    PROVE  WithTabs(ws) \in Seq({w \in W : HasTabs(w)})
<1> DEFINE N == Len(ws)
           K == {w \in W : HasTabs(w)}
           T == Seq(K)
           one(n) == [q \in T |-> IF n \in 1 .. N /\ HasTabs(ws[n]) THEN Append(q, ws[n]) ELSE q]
           step == [n \in Nat |-> one(n)]
<1>1. N \in Nat /\ <<>> \in T /\ \A n \in 1 .. N : ws[n] \in W
    OBVIOUS
<1>2. ASSUME NEW n \in 1 .. N, HasTabs(ws[n]), NEW q \in T PROVE Append(q, ws[n]) \in T
    <2>1. ws[n] \in K
        BY <1>1, <1>2
    <2> HIDE DEF K
    <2> QED
        BY <2>1
<1>3. step \in [Nat -> [T -> T]]
    <2>1. \A n \in Nat : one(n) \in [T -> T]
        <3> HIDE DEF N, T
        <3> QED
            BY <1>2
    <2> HIDE DEF one, T
    <2> QED
        BY <2>1
<1> HIDE DEF N, T, K
<1>4. \A n \in 1 .. N, q \in T :
        step[n][q] = IF HasTabs(ws[n]) THEN Append(q, ws[n]) ELSE q
    <2>1. \A n \in 1 .. N, q \in T : one(n)[q] = IF HasTabs(ws[n]) THEN Append(q, ws[n]) ELSE q
        OBVIOUS
    <2>2. \A n \in 1 .. N : step[n] = one(n)
        BY <1>1
    <2> QED
        BY <2>1, <2>2
<1> HIDE DEF step
<1>5. PICK g : Iterates(T, <<>>, step, N, g)
    BY <1>1, <1>3, Recursion
<1>6. g \in [0 .. N -> T] /\ g[0] = <<>>
    BY <1>5 DEF Iterates
<1>7. ASSUME NEW n \in 1 .. N
      PROVE  g[n] = IF HasTabs(ws[n]) THEN Append(g[n - 1], ws[n]) ELSE g[n - 1]
    <2>1. g[n] = step[n][g[n - 1]]
        BY <1>5 DEF Iterates
    <2>2. g[n - 1] \in T
        BY <1>1, <1>6
    <2> QED
        BY <1>4, <2>1, <2>2
<1>8. g = [n \in 0 .. N |-> IF n = 0 THEN <<>>
                            ELSE IF HasTabs(ws[n]) THEN Append(g[n - 1], ws[n]) ELSE g[n - 1]]
    BY <1>1, <1>6, <1>7
<1> DEFINE kept == CHOOSE h : h = [n \in 0 .. N |-> IF n = 0 THEN <<>>
                            ELSE IF HasTabs(ws[n]) THEN Append(h[n - 1], ws[n]) ELSE h[n - 1]]
<1>9. kept = [n \in 0 .. N |-> IF n = 0 THEN <<>>
                            ELSE IF HasTabs(ws[n]) THEN Append(kept[n - 1], ws[n]) ELSE kept[n - 1]]
    BY <1>8
<1>10. WithTabs(ws) = kept[N]
    BY DEF WithTabs, N
<1> HIDE DEF kept
<1>11. kept[0] = <<>>
       /\ \A n \in 1 .. N : kept[n] = IF HasTabs(ws[n]) THEN Append(kept[n - 1], ws[n]) ELSE kept[n - 1]
    <2>1. 0 \in 0 .. N /\ \A n \in 1 .. N : n \in 0 .. N /\ n # 0
        BY <1>1
    <2> QED
        BY <1>9, <2>1, Zenon
<1> DEFINE Typed == {n \in Nat : n \in 0 .. N => kept[n] \in T}
<1>12. 0 \in Typed
    BY <1>1, <1>11
<1>13. ASSUME NEW n \in Nat, n \in Typed PROVE n + 1 \in Typed
    <2> SUFFICES ASSUME n + 1 \in 0 .. N PROVE kept[n + 1] \in T
        OBVIOUS
    <2>1. n + 1 \in 1 .. N /\ (n + 1) - 1 = n /\ n \in 0 .. N
        BY <1>1
    <2>2. kept[n] \in T
        BY <1>13, <2>1
    <2>3. kept[n + 1] = IF HasTabs(ws[n + 1]) THEN Append(kept[n], ws[n + 1]) ELSE kept[n]
        BY <1>11, <2>1
    <2>4. CASE HasTabs(ws[n + 1])
        BY <1>2, <2>1, <2>2, <2>3, <2>4
    <2>5. CASE ~HasTabs(ws[n + 1])
        BY <2>2, <2>3, <2>5
    <2> QED
        BY <2>4, <2>5
<1>14. kept[N] \in T
    <2>1. \A n \in Nat : n \in Typed
        <3> HIDE DEF Typed
        <3> QED
            BY <1>12, <1>13, Climb
    <2> QED
        BY <1>1, <2>1
<1> QED
    BY <1>10, <1>14 DEF T, K
-----------------------------------------------------------------------------
(* The invariants.                                                         *)

\* A window is shown once it has a tab, and one of its tabs is on top.
Sound == {w \in Window : IF HasTabs(w) THEN w.current \in 1 .. Len(w.tabs)
                         ELSE w.current = 0 /\ ~w.shown}

Kept == {w \in Sound : HasTabs(w)}

\* How many elements the parser has met.
Met == Len(file) - Len(rest)

\* What the parser is at: the context names a window only while one is open, a
\* tab only inside a window, and an active tab that the window has.
Parsing ==
    /\ phase = "off" => windows = <<>>
    /\ ctx.win => phase = "loading" /\ windows # <<>>
                  /\ ctx.active \in 0 .. Len(windows[Win].tabs)
    /\ ctx.tab # <<>> => ctx.win

Types == /\ windows \in Seq(Sound) /\ saved \in Seq(Kept)
         /\ phase \in {"running", "off", "loading"}
         /\ ctx \in Context
         /\ file \in Seq(Element)
         /\ Met \in 0 .. Len(file) /\ rest = SubSeq(file, Met + 1, Len(file))
         /\ changes \in 0 .. MaxChanges
         /\ Parsing

\* A tab the parser has met is in a window on the screen, in the one that is
\* open or in the context; nothing is open behind the end of a session.
TabKnown == OnScreen \/ ctx.tab # <<>> \/ (ctx.win /\ HasTabs(windows[Win]))

TabsMet ==
    phase = "loading" =>
      /\ (\E p \in 1 .. Met : file[p].tag = "tab") => TabKnown
      /\ Met # 0 /\ file[Met].tag = "/session" => ~ctx.win

\* A tab as it comes back, the first k tabs of a window and a whole window.
Returned(t) == [profile |-> t.profile, scheme |-> SchemeOf[t.profile], overridden |-> FALSE,
                command |-> t.command, title |-> t.title]

TabsBack(w, u, k) == Len(w.tabs) = k /\ \A j \in 1 .. k : w.tabs[j] = Returned(u.tabs[j])

WindowBack(w, u) ==
    /\ w.shown /\ w.current = u.current
    /\ "fullscreen" \in w.look <=> "fullscreen" \in u.look
    /\ TabsBack(w, u, Len(u.tabs))

\* The parser is behind the first i windows ...
Between(i) ==
    /\ Met = Offset(saved)[i] /\ Len(windows) = i
    /\ ctx.session /\ ~ctx.win /\ ctx.tab = <<>> /\ ctx.command = NoCommand
    /\ \A j \in 1 .. i : WindowBack(windows[j], saved[j])

\* ... or in the one after them, behind k tabs ...
Inside(i, k) ==
    LET u == saved[i + 1]
        w == windows[i + 1]
    IN  /\ Len(windows) = i + 1 /\ ctx.session /\ ctx.win /\ ctx.look = u.look
        /\ ctx.active = IF u.current <= k THEN u.current ELSE 0
        /\ "fullscreen" \notin w.look /\ TabsBack(w, u, k)
        /\ \A j \in 1 .. i : WindowBack(windows[j], saved[j])

BehindTab(i, k) == /\ Met = Offset(saved)[i] + 1 + 5 * k
                   /\ ctx.tab = <<>> /\ ctx.command = NoCommand

\* ... or behind m elements of the tab after those.
InsideTab(i, k, m) ==
    LET t == saved[i + 1].tabs[k + 1]
    IN  /\ Met = Offset(saved)[i] + 1 + 5 * k + m
        /\ Len(ctx.tab) = 1 /\ ctx.tab[1].profile = t.profile
        /\ ctx.tab[1].title = t.title /\ ~ctx.tab[1].overridden
        /\ ctx.current <=> k + 1 = saved[i + 1].current
        /\ ctx.command = IF m = 1 THEN NoCommand ELSE IF m = 2 THEN "argc" ELSE t.command

AllBack == /\ Len(windows) = Len(saved)
           /\ \A j \in 1 .. Len(saved) : WindowBack(windows[j], saved[j])

\* Where the parser is in a session that was saved completely.
Restoring ==
    \/ Met = 0 /\ ctx = Blank /\ windows = <<>>
    \/ \E i \in 0 .. Len(saved) : Between(i)
    \/ \E i \in 0 .. Len(saved) - 1 :
         \/ \E k \in 0 .. Len(saved[i + 1].tabs) : Inside(i, k) /\ BehindTab(i, k)
         \/ \E k \in 0 .. Len(saved[i + 1].tabs) - 1, m \in 1 .. 4 :
              Inside(i, k) /\ InsideTab(i, k, m)
    \/ Met = Len(file) /\ ~ctx.win /\ AllBack

SavedInFile == saved # <<>> => file = SessionOf(saved)

IInv == /\ Types /\ SavedInFile
        /\ AlwaysAWindow /\ TabsMet
        /\ (phase = "loading" /\ saved # <<>>) => Restoring
-----------------------------------------------------------------------------
(* Types.                                                                  *)

\* Tabs and windows as they are made.
LEMMA NewTabType ==
    \A p \in Profiles : /\ NewTab(p) \in Tab /\ NewTab(p).profile = p
                        /\ ~NewTab(p).overridden
BY ProfilesAssumption DEF NewTab, Tab

LEMMA BlankWindowType ==
    \A l \in Look : /\ BlankWindow(l) \in Sound /\ BlankWindow(l).tabs = <<>>
                    /\ BlankWindow(l).look = l
<1> SUFFICES ASSUME NEW l \in Look
             PROVE  /\ BlankWindow(l) \in Sound /\ BlankWindow(l).tabs = <<>>
                    /\ BlankWindow(l).look = l
    OBVIOUS
<1>1. <<>> \in Seq(Tab)
    OBVIOUS
<1>2. BlankWindow(l) \in Window
    BY <1>1 DEF BlankWindow, Window
<1> QED
    BY <1>2 DEF BlankWindow, Sound, HasTabs

\* A window with a tab on top.
LEMMA SoundWindow ==
    ASSUME NEW w \in Window, w.tabs # <<>>, w.current \in 1 .. Len(w.tabs)
    PROVE  w \in Sound /\ w \in Kept /\ HasTabs(w)
BY DEF Kept, Sound, HasTabs

\* The tab that multi_tab_new adds for a template.
Filled(t) == [t EXCEPT !.scheme = IF t.overridden THEN t.scheme ELSE SchemeOf[t.profile]]

\* What Fill leaves of the window and what it adds.
LEMMA FillEffect ==
    ASSUME NEW w \in Window, NEW t \in Tab
    PROVE  /\ Fill(w, t) \in Sound /\ HasTabs(Fill(w, t))
           /\ Fill(w, t).shown = w.shown
           /\ Fill(w, t).tabs = Append(w.tabs, Filled(t))
           /\ Fill(w, t).look \in Look
           /\ "fullscreen" \in Fill(w, t).look <=> "fullscreen" \in w.look
<1> DEFINE u == Filled(t)
           N == Len(w.tabs)
           l == IF t.profile \in HidesMenu THEN w.look \ {"menubar"} ELSE w.look \cup {"menubar"}
           f == Fill(w, t)
<1>1. u \in Tab
    BY ProfilesAssumption DEF Filled, Tab
<1>2. f = [tabs |-> Append(w.tabs, u), current |-> N + 1, look |-> l, shown |-> w.shown]
    <2>1. f = [w EXCEPT !.tabs = Append(w.tabs, u), !.current = N + 1, !.look = l]
        BY DEF Fill, Filled
    <2> HIDE DEF u, N, l, f
    <2> QED
        BY <2>1 DEF Window
<1>3. l \in Look /\ ("fullscreen" \in l <=> "fullscreen" \in w.look)
    BY DEF Window, Look
<1>4. w.tabs \in Seq(Tab) /\ w.shown \in BOOLEAN
    BY DEF Window
<1> HIDE DEF u, l, f
<1>5. /\ Append(w.tabs, u) \in Seq(Tab) /\ Append(w.tabs, u) # <<>>
      /\ Len(Append(w.tabs, u)) = N + 1 /\ N \in Nat
    BY <1>1, <1>4
<1>6. f \in Window
    BY <1>2, <1>3, <1>4, <1>5 DEF Window
<1>7. f \in Sound /\ HasTabs(f)
    BY <1>2, <1>5, <1>6 DEF Sound, HasTabs
<1> QED
    BY <1>2, <1>3, <1>7 DEF f, u

\* A tab takes the place of another.
LEMMA TabChanged ==
    ASSUME NEW w \in Sound, HasTabs(w), NEW t \in Tab
    PROVE  /\ w.tabs[w.current] \in Tab /\ w.current \in DOMAIN w.tabs
           /\ [w EXCEPT !.tabs = [@ EXCEPT ![w.current] = t]] \in Sound
           /\ [w EXCEPT !.tabs = [@ EXCEPT ![w.current] = t]].shown = w.shown
<1> DEFINE k == w.current
           N == Len(w.tabs)
           ts == [w.tabs EXCEPT ![k] = t]
<1>1. w \in Window /\ w.tabs \in Seq(Tab) /\ k \in 1 .. N /\ w.tabs # <<>>
    BY DEF Sound, Window, HasTabs
<1>2. ts \in Seq(Tab) /\ Len(ts) = N /\ DOMAIN w.tabs = 1 .. N /\ w.tabs[k] \in Tab
    BY <1>1
<1>3. ts # <<>>
    BY <1>1, <1>2
<1> HIDE DEF ts
<1>4. [w EXCEPT !.tabs = ts] \in Sound /\ [w EXCEPT !.tabs = ts].shown = w.shown
    BY <1>1, <1>2, <1>3 DEF Sound, Window, HasTabs
<1> QED
    BY <1>1, <1>2, <1>4 DEF ts

\* One window takes the place of another.
Replaced(i, w) == windows' = [windows EXCEPT ![i] = w]

\* What the user does to a window on the screen leaves it there.
UserAction(i) == \/ OpenTab(i) \/ NameTab(i) \/ RunProgram(i)
                 \/ \E k \in DOMAIN windows[i].tabs : SelectTab(i, k)
                 \/ \E s \in Schemes : SelectScheme(i, s)
                 \/ \E o \in {"menubar", "fullscreen"} : ToggleLook(i, o)

\* A tab put between or behind others gives a longer list of tabs.
LEMMA InsertAtType ==
    ASSUME NEW s \in Seq(Tab), NEW p \in 1 .. Len(s) + 1, NEW t \in Tab
    PROVE  InsertAt(s, p, t) \in Seq(Tab) /\ Len(InsertAt(s, p, t)) = Len(s) + 1
<1> DEFINE a == SubSeq(s, 1, p - 1)
           b == SubSeq(s, p, Len(s))
           c == a \o <<t>>
<1>1. Len(s) \in Nat /\ p - 1 \in Int /\ p \in Int /\ Len(s) \in Int
    OBVIOUS
<1>2. /\ \A j \in 1 .. p - 1 : s[j] \in Tab
      /\ \A j \in p .. Len(s) : s[j] \in Tab
    OBVIOUS
<1>3. a \in Seq(Tab) /\ Len(a) = p - 1
    BY <1>1, <1>2, SubSeqProperties
<1>4. b \in Seq(Tab) /\ Len(b) = Len(s) - p + 1
    BY <1>1, <1>2, SubSeqProperties
<1>5. InsertAt(s, p, t) = c \o b
    BY DEF InsertAt
<1> HIDE DEF a, b
<1>6. <<t>> \in Seq(Tab) /\ Len(<<t>>) = 1
    OBVIOUS
<1>7. c \in Seq(Tab) /\ Len(c) = Len(a) + 1
    BY <1>3, <1>6, ConcatProperties
<1> HIDE DEF c
<1>8. c \o b \in Seq(Tab) /\ Len(c \o b) = Len(c) + Len(b)
    BY <1>4, <1>7, ConcatProperties
<1> QED
    BY <1>1, <1>3, <1>4, <1>5, <1>7, <1>8

\* What the user does changes one window, and leaves it on the screen.
LEMMA UserWindow ==
    ASSUME windows \in Seq(Sound), NEW i \in DOMAIN windows, windows[i].shown, UserAction(i)
    PROVE  \E w \in Sound : w.shown /\ Replaced(i, w)
<1> DEFINE w == windows[i]
           t == w.tabs[w.current]
<1>1. w \in Sound /\ w.shown
    OBVIOUS
<1>2. /\ HasTabs(w) /\ w \in Window /\ w.tabs \in Seq(Tab)
      /\ w.current \in 1 .. Len(w.tabs) /\ DOMAIN w.tabs = 1 .. Len(w.tabs)
    BY <1>1 DEF Sound, Window
<1>3. t \in Tab
    BY <1>2
<1>4. CASE OpenTab(i)
    <2> DEFINE u == [t EXCEPT !.command = "shell", !.title = "profile's"]
    <2>1. u \in Tab
        BY <1>3 DEF Tab
    <2>2. PICK k \in {w.current, Len(w.tabs)} :
              Replaced(i, [w EXCEPT !.tabs = InsertAt(w.tabs, k + 1, u), !.current = k + 1])
        BY <1>4 DEF OpenTab, Replaced
    <2> HIDE DEF u
    <2>3. /\ k \in 1 .. Len(w.tabs) /\ Len(w.tabs) \in Nat
          /\ k + 1 \in 1 .. Len(w.tabs) + 1
        BY <1>2
    <2> DEFINE c == k + 1
               ts == InsertAt(w.tabs, c, u)
               v == [w EXCEPT !.tabs = ts, !.current = c]
    <2>4. ts \in Seq(Tab) /\ Len(ts) = Len(w.tabs) + 1
        <3>1. w.tabs \in Seq(Tab) /\ c \in 1 .. Len(w.tabs) + 1
            BY <1>2, <2>3
        <3> HIDE DEF w, c
        <3> QED
            BY <2>1, <3>1, InsertAtType
    <2>5. ts # <<>> /\ c \in Nat /\ c \in 1 .. Len(ts)
        BY <2>3, <2>4
    <2> HIDE DEF ts, c
    <2>6. v \in Window
        BY <1>2, <2>4, <2>5 DEF Window
    <2>7. v.tabs = ts /\ v.current = c /\ v.shown
        BY <1>1, <1>2 DEF Window
    <2>8. Replaced(i, v)
        BY <2>2 DEF ts, c
    <2> HIDE DEF v
    <2>9. v \in Sound
        BY <2>4, <2>5, <2>6, <2>7, SoundWindow
    <2> QED
        BY <2>7, <2>8, <2>9
<1>5. CASE NameTab(i) \/ RunProgram(i) \/ \E s \in Schemes : SelectScheme(i, s)
    <2>1. PICK u \in Tab : Replaced(i, [w EXCEPT !.tabs = [@ EXCEPT ![w.current] = u]])
        <3>1. CASE NameTab(i)
            <4>1. [t EXCEPT !.title = "own"] \in Tab
                BY <1>3 DEF Tab
            <4>2. Replaced(i, [w EXCEPT !.tabs = [@ EXCEPT ![w.current] = [t EXCEPT !.title = "own"]]])
                BY <3>1 DEF NameTab, Replaced
            <4> QED
                BY <4>1, <4>2
        <3>2. CASE RunProgram(i)
            <4>1. [t EXCEPT !.command = "program"] \in Tab
                BY <1>3 DEF Tab
            <4>2. Replaced(i, [w EXCEPT !.tabs = [@ EXCEPT ![w.current] = [t EXCEPT !.command = "program"]]])
                BY <3>2 DEF RunProgram, Replaced
            <4> QED
                BY <4>1, <4>2
        <3>3. ASSUME NEW s \in Schemes, SelectScheme(i, s)
              PROVE  \E u \in Tab : Replaced(i, [w EXCEPT !.tabs = [@ EXCEPT ![w.current] = u]])
            <4>1. [t EXCEPT !.scheme = s, !.overridden = TRUE] \in Tab
                BY <1>3 DEF Tab
            <4> DEFINE k == w.current
                       ts == w.tabs
                       a == [t EXCEPT !.scheme = s]
                       b == [a EXCEPT !.overridden = TRUE]
                       ta == [ts EXCEPT ![k] = a]
                       wa == [w EXCEPT !.tabs = ta]
                       all == [windows EXCEPT ![i] = wa]
            <4>2. windows' = [all EXCEPT ![i] = [all[i] EXCEPT !.tabs =
                                [all[i].tabs EXCEPT ![k] = [all[i].tabs[k] EXCEPT !.overridden = TRUE]]]]
                BY <3>3 DEF SelectScheme
            <4>3. w \in Window /\ ts \in Seq(Tab) /\ k \in DOMAIN ts /\ i \in DOMAIN windows
                BY <1>2
            <4> HIDE DEF a, b, k, ts
            <4>4. ta[k] = a /\ [ta EXCEPT ![k] = b] = [ts EXCEPT ![k] = b]
                BY <4>3
            <4> HIDE DEF ta
            <4>5. wa.tabs = ta /\ \A q : [wa EXCEPT !.tabs = q] = [w EXCEPT !.tabs = q]
                BY <4>3 DEF Window
            <4> HIDE DEF wa
            <4>6. all[i] = wa /\ \A q : [all EXCEPT ![i] = q] = [windows EXCEPT ![i] = q]
                BY <4>3
            <4> HIDE DEF all
            <4>7. windows' = [windows EXCEPT ![i] = [w EXCEPT !.tabs = [ts EXCEPT ![k] = b]]]
                <5>1. [all[i].tabs[k] EXCEPT !.overridden = TRUE] = b
                    BY <4>4, <4>5, <4>6 DEF b
                <5>2. [all[i].tabs EXCEPT ![k] = b] = [ts EXCEPT ![k] = b]
                    BY <4>4, <4>5, <4>6
                <5> DEFINE q == [ts EXCEPT ![k] = b]
                <5>3. windows' = [all EXCEPT ![i] = [all[i] EXCEPT !.tabs = q]]
                    BY <4>2, <5>1, <5>2
                <5> HIDE DEF q
                <5>4. [all[i] EXCEPT !.tabs = q] = [w EXCEPT !.tabs = q]
                    BY <4>5, <4>6
                <5> DEFINE r == [w EXCEPT !.tabs = q]
                <5>5. windows' = [all EXCEPT ![i] = r]
                    BY <5>3, <5>4
                <5> HIDE DEF r
                <5>6. windows' = [windows EXCEPT ![i] = r]
                    BY <4>6, <5>5
                <5> QED
                    BY <5>6 DEF r, q
            <4>8. Replaced(i, [w EXCEPT !.tabs = [@ EXCEPT ![w.current] = b]])
                BY <4>7 DEF Replaced, k, ts
            <4>9. b \in Tab
                BY <4>1 DEF a, b
            <4> QED
                BY <4>8, <4>9
        <3> QED
            BY <1>5, <3>1, <3>2, <3>3
    <2> QED
        BY <1>1, <1>2, <2>1, TabChanged
<1>6. ASSUME NEW k \in DOMAIN w.tabs, SelectTab(i, k)
      PROVE  \E v \in Sound : v.shown /\ Replaced(i, v)
    <2> DEFINE v == [w EXCEPT !.current = k]
    <2>1. Replaced(i, v)
        BY <1>6 DEF SelectTab, Replaced
    <2>2. v \in Window /\ v.shown /\ v.tabs = w.tabs /\ v.current \in 1 .. Len(v.tabs)
        BY <1>1, <1>2 DEF Window
    <2> HIDE DEF v
    <2>3. v \in Sound
        BY <1>2, <2>2 DEF Sound, HasTabs
    <2> QED
        BY <2>1, <2>2, <2>3
<1>7. ASSUME NEW o \in {"menubar", "fullscreen"}, ToggleLook(i, o)
      PROVE  \E v \in Sound : v.shown /\ Replaced(i, v)
    <2> DEFINE l == IF o \in w.look THEN w.look \ {o} ELSE w.look \cup {o}
               v == [w EXCEPT !.look = l]
    <2>1. l \in Look
        BY <1>2 DEF Window, Look
    <2>2. Replaced(i, v)
        BY <1>7 DEF ToggleLook, Replaced
    <2> HIDE DEF l
    <2>3. v \in Sound /\ v.shown
        BY <1>1, <1>2, <2>1 DEF Sound, Window, HasTabs
    <2> QED
        BY <2>2, <2>3
<1> QED
    BY <1>4, <1>5, <1>6, <1>7 DEF UserAction

\* One window takes the place of another.
LEMMA ReplacedEffect ==
    ASSUME windows \in Seq(Sound), NEW i \in DOMAIN windows, NEW w \in Sound, Replaced(i, w)
    PROVE  /\ windows' \in Seq(Sound) /\ Len(windows') = Len(windows)
           /\ windows'[i] = w
           /\ \A j \in DOMAIN windows : j # i => windows'[j] = windows[j]
BY DEF Replaced

\* OnScreen by the places of the windows, in a state and in the next one.
LEMMA Shown ==
    OnScreen <=> \E j \in DOMAIN windows : windows[j].shown
BY DEF OnScreen, ToSet

LEMMA ShownNext ==
    OnScreen' <=> \E j \in DOMAIN windows' : windows'[j].shown
BY DEF OnScreen, ToSet

\* roxterm_launch puts a window on the screen.
LEMMA LaunchEffect ==
    ASSUME windows \in Seq(Sound), NEW p \in Profiles, windows' = Launch(p)
    PROVE  windows' \in Seq(Sound) /\ OnScreen' /\ windows' # <<>>
<1> DEFINE f == Fill(BlankWindow({}), NewTab(p))
           w == [f EXCEPT !.shown = TRUE]
<1>1. f \in Sound
    <2>1. {} \in Look
        BY DEF Look
    <2>2. BlankWindow({}) \in Window /\ NewTab(p) \in Tab
        BY <2>1, BlankWindowType, NewTabType DEF Sound
    <2> QED
        BY <2>2, FillEffect
<1>2. HasTabs(f)
    <2>1. {} \in Look
        BY DEF Look
    <2>2. BlankWindow({}) \in Window /\ NewTab(p) \in Tab
        BY <2>1, BlankWindowType, NewTabType DEF Sound
    <2> QED
        BY <2>2, FillEffect
<1>3. windows' = Append(windows, w)
    BY DEF Launch
<1> HIDE DEF f
<1>4. w \in Window /\ w.tabs = f.tabs /\ w.current = f.current /\ w.shown
    BY <1>1 DEF Sound, Window
<1> HIDE DEF w
<1>5. w \in Sound
    BY <1>1, <1>2, <1>4 DEF Sound, HasTabs
<1>6. /\ windows' \in Seq(Sound) /\ Len(windows') = Len(windows) + 1
      /\ windows'[Len(windows) + 1] = w /\ Len(windows) \in Nat
    BY <1>3, <1>5
<1>7. Len(windows) + 1 \in DOMAIN windows' /\ windows' # <<>>
    BY <1>6
<1> QED
    BY <1>4, <1>6, <1>7, ShownNext

-----------------------------------------------------------------------------
(* Steps of the user, of saving and of starting.                           *)

\* Nothing but the windows changes while the process runs.
LEMMA RunningKeeps ==
    ASSUME IInv, phase = "running", UNCHANGED <<phase, rest, ctx, file, saved>>,
           changes' \in 0 .. MaxChanges, windows' \in Seq(Sound), OnScreen'
    PROVE  IInv'
<1>1. Types'
    BY DEF IInv, Types, Parsing, Met
<1>2. SavedInFile' /\ AlwaysAWindow' /\ TabsMet'
    BY DEF IInv, SavedInFile, AlwaysAWindow, TabsMet
<1> QED
    BY <1>1, <1>2 DEF IInv

\* What every action of the user leaves alone.
LEMMA ActKeeps ==
    ASSUME IInv, Act
    PROVE  /\ phase = "running" /\ UNCHANGED <<phase, rest, ctx, file, saved>>
           /\ changes' \in 0 .. MaxChanges
BY BoundsAssumption DEF IInv, Types, Act

LEMMA UserKeeps ==
    ASSUME IInv, NEW i \in DOMAIN windows, windows[i].shown, UserAction(i)
    PROVE  IInv'
<1>1. windows \in Seq(Sound) /\ Act
    BY DEF IInv, Types, UserAction, OpenTab, NameTab, RunProgram, SelectTab, SelectScheme,
           ToggleLook
<1>2. PICK w \in Sound : w.shown /\ Replaced(i, w)
    BY <1>1, UserWindow
<1>3. /\ windows' \in Seq(Sound) /\ Len(windows') = Len(windows) /\ windows'[i] = w
    BY <1>1, <1>2, ReplacedEffect
<1>4. i \in DOMAIN windows'
    BY <1>1, <1>3
<1>5. OnScreen'
    BY <1>2, <1>3, <1>4, ShownNext
<1> QED
    BY <1>1, <1>3, <1>5, ActKeeps, RunningKeeps

LEMMA OpenWindowKeeps ==
    ASSUME IInv, NEW p \in Profiles, OpenWindow(p)
    PROVE  IInv'
<1>1. Act /\ windows \in Seq(Sound) /\ windows' = Launch(p)
    BY DEF OpenWindow, IInv, Types
<1>2. windows' \in Seq(Sound) /\ OnScreen'
    BY <1>1, LaunchEffect
<1> QED
    BY <1>1, <1>2, ActKeeps, RunningKeeps

\* What is saved is a file of elements.
LEMMA SavedType ==
    ASSUME windows \in Seq(Sound)
    PROVE  /\ WithTabs(windows) \in Seq(Kept) /\ WithTabs(windows) \in Seq(Window)
           /\ Saved \in Seq(Element)
<1>1. WithTabs(windows) \in Seq(Kept)
    BY WithTabsType DEF Kept
<1>2. Kept \subseteq Window
    BY DEF Kept, Sound
<1>3. WithTabs(windows) \in Seq(Window)
    BY <1>1, <1>2
<1> QED
    BY <1>1, <1>3, SavedSession DEF Saved

\* All of a file has been met when nothing is left of it.
LEMMA NothingLeft ==
    ASSUME rest' = <<>>, file' \in Seq(Element)
    PROVE  Met' \in 0 .. Len(file') /\ rest' = SubSeq(file', Met' + 1, Len(file'))
BY DEF Met

LEMMA SaveKeeps == IInv /\ Save => IInv'
<1> SUFFICES ASSUME IInv, Save PROVE IInv'
    OBVIOUS
<1>1. /\ phase = "running" /\ OnScreen /\ file' = Saved /\ saved' = WithTabs(windows)
      /\ rest' = <<>> /\ UNCHANGED <<windows, phase, ctx, changes>>
    BY DEF Save
<1>2. windows \in Seq(Sound)
    BY DEF IInv, Types
<1>3. file' \in Seq(Element) /\ saved' \in Seq(Kept)
    BY <1>1, <1>2, SavedType
<1>4. Met' \in 0 .. Len(file') /\ rest' = SubSeq(file', Met' + 1, Len(file'))
    BY <1>1, <1>3, NothingLeft
<1>5. Types'
    <2>1. Parsing'
        BY <1>1 DEF IInv, Types, Parsing
    <2> QED
        BY <1>1, <1>3, <1>4, <2>1 DEF IInv, Types
<1>6. SavedInFile'
    BY <1>1 DEF SavedInFile, Saved
<1>7. OnScreen' /\ phase' = "running"
    BY <1>1 DEF OnScreen
<1> QED
    BY <1>5, <1>6, <1>7 DEF IInv, AlwaysAWindow, TabsMet

LEMMA SaveCutKeeps == IInv /\ SaveCut => IInv'
<1> SUFFICES ASSUME IInv, SaveCut PROVE IInv'
    OBVIOUS
<1>1. /\ phase = "running" /\ OnScreen /\ saved' = <<>> /\ rest' = <<>>
      /\ phase' \in {"running", "off"} /\ UNCHANGED ctx
      /\ windows' = IF phase' = "off" THEN <<>> ELSE windows
      /\ changes < MaxChanges /\ changes' = changes + 1
    BY DEF SaveCut
<1>2. windows \in Seq(Sound) /\ ~ctx.win /\ ctx.tab = <<>> /\ changes \in 0 .. MaxChanges
      /\ ctx \in Context
    BY <1>1 DEF IInv, Types, Parsing
<1>3. file' \in Seq(Element)
    <2>1. PICK n \in 0 .. Len(Saved) - 1 : file' = SubSeq(Saved, 1, n)
        BY DEF SaveCut
    <2>2. Saved \in Seq(Element)
        BY <1>2, SavedType
    <2> DEFINE s == Saved
    <2> HIDE DEF s
    <2>3. n \in 0 .. Len(s) - 1 /\ file' = SubSeq(s, 1, n) /\ s \in Seq(Element)
        BY <2>1, <2>2 DEF s
    <2> QED
        BY <2>3
<1>4. Met' \in 0 .. Len(file') /\ rest' = SubSeq(file', Met' + 1, Len(file'))
    BY <1>1, <1>3, NothingLeft
<1>5. Types'
    <2>1. windows' \in Seq(Sound) /\ (phase' = "off" => windows' = <<>>)
        BY <1>1, <1>2
    <2>2. Parsing'
        BY <1>1, <1>2, <2>1 DEF Parsing
    <2>3. saved' \in Seq(Kept) /\ changes' \in 0 .. MaxChanges
        BY <1>1, <1>2, BoundsAssumption
    <2> QED
        BY <1>1, <1>2, <1>3, <1>4, <2>1, <2>2, <2>3 DEF Types
<1>6. SavedInFile'
    BY <1>1 DEF SavedInFile
<1>7. phase' = "running" => OnScreen'
    BY <1>1 DEF OnScreen
<1> QED
    BY <1>1, <1>5, <1>6, <1>7 DEF IInv, AlwaysAWindow, TabsMet

LEMMA QuitKeeps == IInv /\ Quit => IInv'
<1> SUFFICES ASSUME IInv, Quit PROVE IInv'
    OBVIOUS
<1>1. /\ phase = "running" /\ phase' = "off" /\ windows' = <<>>
      /\ UNCHANGED <<rest, ctx, file, changes, saved>>
    BY DEF Quit
<1>2. windows' \in Seq(Sound) /\ ~ctx.win /\ ctx.tab = <<>>
    BY <1>1 DEF IInv, Types, Parsing
<1>3. Types'
    BY <1>1, <1>2 DEF IInv, Types, Parsing, Met
<1> QED
    BY <1>1, <1>3 DEF IInv, SavedInFile, AlwaysAWindow, TabsMet

LEMMA PutFileKeeps ==
    ASSUME IInv, NEW f \in Foreign, PutFile(f)
    PROVE  IInv'
<1>1. /\ phase = "off" /\ file' = f /\ saved' = <<>> /\ rest' = <<>>
      /\ UNCHANGED <<windows, phase, ctx, changes>>
    BY DEF PutFile
<1>2. file' \in Seq(Element)
    BY <1>1, ForeignAssumption
<1>3. Met' \in 0 .. Len(file') /\ rest' = SubSeq(file', Met' + 1, Len(file'))
    BY <1>1, <1>2, NothingLeft
<1>4. saved' \in Seq(Kept)
    BY <1>1
<1>5. Types'
    <2>1. Parsing'
        BY <1>1 DEF IInv, Types, Parsing
    <2> QED
        BY <1>1, <1>2, <1>3, <1>4, <2>1 DEF IInv, Types
<1> QED
    BY <1>1, <1>5 DEF IInv, SavedInFile, AlwaysAWindow, TabsMet

LEMMA BlankType == Blank \in Context /\ ~Blank.win /\ Blank.tab = <<>>
<1>1. <<>> \in Seq(Tab) /\ {} \in Look
    BY DEF Look
<1> QED
    BY <1>1 DEF Blank, Context

LEMMA StartKeeps == IInv /\ Start => IInv'
<1> SUFFICES ASSUME IInv, Start PROVE IInv'
    OBVIOUS
<1>1. /\ phase = "off" /\ phase' = "loading" /\ rest' = file /\ ctx' = Blank
      /\ UNCHANGED <<windows, file, changes, saved>> /\ windows = <<>>
    BY DEF Start, IInv, Types, Parsing
<1>2. file \in Seq(Element)
    BY DEF IInv, Types
<1>3. Met' = 0 /\ Met' \in 0 .. Len(file') /\ rest' = SubSeq(file', Met' + 1, Len(file'))
    BY <1>1, <1>2 DEF Met
<1>4. Types'
    <2>1. Parsing' /\ ctx' \in Context
        BY <1>1, BlankType DEF Parsing
    <2> QED
        BY <1>1, <1>3, <2>1 DEF IInv, Types
<1>5. SavedInFile'
    BY <1>1 DEF IInv, SavedInFile
<1>6. TabsMet' /\ Restoring'
    BY <1>1, <1>3 DEF TabsMet, Restoring
<1> QED
    BY <1>1, <1>4, <1>5, <1>6 DEF IInv, AlwaysAWindow

-----------------------------------------------------------------------------
(* Steps of the parser.                                                    *)

\* The element the parser is at.
Next1 == file[Met + 1]

\* The element that the parser is at.
LEMMA AtElement ==
    ASSUME Types, phase = "loading", rest # <<>>
    PROVE  /\ Met < Len(file) /\ Met \in Nat /\ Len(file) \in Nat /\ Met + 1 \in 1 .. Len(file)
           /\ Head(rest) = Next1 /\ Next1 \in Element
           /\ Tail(rest) = SubSeq(file, Met + 2, Len(file))
           /\ Len(Tail(rest)) = Len(file) - (Met + 1)
<1> DEFINE n == Met
           L == Len(file)
<1>1. n \in 0 .. L /\ rest = SubSeq(file, n + 1, L) /\ file \in Seq(Element) /\ L \in Nat
    BY DEF Types
<1> HIDE DEF n, L
<1>2. L = Len(file)
    BY DEF L
<1>3. n # L
    <2> SUFFICES ASSUME n = L PROVE FALSE
        OBVIOUS
    <2>1. rest = SubSeq(file, L + 1, L)
        BY <1>1
    <2>2. rest = <<>>
        BY <1>1, <2>1, SubSeqEmpty
    <2> QED
        BY <2>2
<1>4. n + 1 \in 1 .. L /\ L \in n + 1 .. L /\ n < L
    BY <1>1, <1>3
<1>5. Head(rest) = file[n + 1] /\ Tail(rest) = SubSeq(file, (n + 1) + 1, L)
    BY <1>1, <1>2, <1>4, HeadTailOfSubSeq
<1>6. file[n + 1] \in Element /\ (n + 1) + 1 = n + 2
    BY <1>1, <1>2, <1>4
<1>7. Len(SubSeq(file, n + 2, L)) = L - (n + 1)
    <2>1. \A i \in n + 2 .. L : file[i] \in Element
        BY <1>1, <1>2
    <2>2. Len(SubSeq(file, n + 2, L)) = IF n + 2 <= L THEN L - (n + 2) + 1 ELSE 0
        BY <1>1, <2>1, SubSeqProperties
    <2> QED
        BY <1>1, <1>4, <2>2
<1>8. Len(Tail(rest)) = L - (n + 1)
    BY <1>5, <1>6, <1>7
<1> QED
    BY <1>1, <1>4, <1>5, <1>6, <1>8 DEF n, L, Next1

\* What every step of the parser does.
LEMMA AtStep ==
    ASSUME Types, NEW tag, At(tag)
    PROVE  /\ phase = "loading" /\ UNCHANGED <<phase, file, changes, saved>>
           /\ Met \in Nat /\ Met + 1 \in 1 .. Len(file)
           /\ Head(rest) = Next1 /\ Next1 \in Element /\ Next1.tag = tag /\ Fits(Next1)
           /\ Met' = Met + 1
           /\ Met' \in 0 .. Len(file') /\ rest' = SubSeq(file', Met' + 1, Len(file'))
<1>1. /\ phase = "loading" /\ rest # <<>> /\ UNCHANGED <<phase, file, changes, saved>>
      /\ Head(rest).tag = tag /\ Fits(Head(rest)) /\ rest' = Tail(rest)
    BY DEF At
<1>2. /\ Met < Len(file) /\ Met \in Nat /\ Len(file) \in Nat /\ Met + 1 \in 1 .. Len(file)
      /\ Head(rest) = Next1 /\ Next1 \in Element
      /\ Tail(rest) = SubSeq(file, Met + 2, Len(file))
      /\ Len(Tail(rest)) = Len(file) - (Met + 1)
    BY <1>1, AtElement
<1>3. Met' = Len(file) - Len(Tail(rest))
    BY <1>1 DEF Met
<1>4. Met' = Met + 1
    <2> DEFINE t == Len(Tail(rest))
               n == Met
               L == Len(file)
    <2>1. t = L - (n + 1) /\ n \in Nat /\ L \in Nat /\ Met' = L - t
        BY <1>2, <1>3
    <2> HIDE DEF t, n, L
    <2>2. Met' = n + 1
        BY <2>1
    <2> QED
        BY <2>2 DEF n
<1>5. Met' \in 0 .. Len(file') /\ Met' + 1 = Met + 2
    BY <1>1, <1>2, <1>4
<1> QED
    BY <1>1, <1>2, <1>4, <1>5

\* The attributes of an element.
LEMMA ElementParts ==
    ASSUME NEW e \in Element
    PROVE  /\ e.tag = "window" => e.look \in Look
           /\ e.tag = "tab" => /\ e.profile \in Profiles /\ e.title \in {"profile's", "own"}
                               /\ e.current \in BOOLEAN /\ e.scheme \in Schemes \cup {NoScheme}
           /\ e.tag = "arg" => e.s \in {"shell", "program"}
<1>1. CASE e \in [tag : {"session", "/session", "/window", "/tab", "/command"}]
    BY <1>1
<1>2. CASE e \in [tag : {"window"}, look : Look]
    BY <1>2
<1>3. CASE e \in [tag : {"tab"}, profile : Profiles, title : {"profile's", "own"},
                  current : BOOLEAN, scheme : Schemes \cup {NoScheme}]
    BY <1>3
<1>4. CASE e \in [tag : {"command"}, argc : Nat]
    BY <1>4
<1>5. CASE e \in [tag : {"arg"}, s : {"shell", "program"}]
    BY <1>5
<1> QED
    BY <1>1, <1>2, <1>3, <1>4, <1>5 DEF Element

\* What a step of the parser has to show.
LEMMA ParserKeeps ==
    ASSUME IInv, NEW tag, At(tag), windows' \in Seq(Sound), ctx' \in Context, Parsing',
           tag = "/session" => ~ctx'.win,
           TabKnown \/ tag = "tab" => TabKnown',
           saved # <<>> => Restoring'
    PROVE  IInv'
<1>1. /\ phase = "loading" /\ UNCHANGED <<phase, file, changes, saved>>
      /\ Met \in Nat /\ Next1.tag = tag /\ Met' = Met + 1
      /\ Met' \in 0 .. Len(file') /\ rest' = SubSeq(file', Met' + 1, Len(file'))
    BY AtStep DEF IInv
<1>2. Types'
    BY <1>1 DEF IInv, Types
<1>3. TabsMet'
    <2>1. ASSUME NEW p \in 1 .. Met', file'[p].tag = "tab" PROVE TabKnown'
        <3>1. CASE p = Met + 1
            BY <1>1, <2>1, <3>1 DEF Next1
        <3>2. CASE p # Met + 1
            <4>1. p \in 1 .. Met /\ file[p].tag = "tab"
                BY <1>1, <2>1, <3>2
            <4> QED
                BY <1>1, <4>1 DEF IInv, TabsMet
        <3> QED
            BY <3>1, <3>2
    <2>2. file'[Met'].tag = tag
        BY <1>1 DEF Next1
    <2> QED
        BY <2>1, <2>2 DEF TabsMet
<1> QED
    BY <1>1, <1>2, <1>3 DEF IInv, SavedInFile, AlwaysAWindow

LEMMA OpenSessionKeeps ==
    ASSUME IInv, OpenSession \/ CloseSession \/ OpenCommand \/ OpenArg \/ CloseCommand,
           saved # <<>> => Restoring'
    PROVE  IInv'
<1>1. PICK tag \in {"session", "/session", "command", "arg", "/command"} :
        /\ At(tag) /\ windows' = windows
        /\ ctx'.win = ctx.win /\ ctx'.tab = ctx.tab /\ ctx'.active = ctx.active
        /\ ctx' \in Context
    <2>0. Types /\ ctx \in Context
        BY DEF IInv, Types
    <2>1. CASE OpenSession
        BY <2>0, <2>1 DEF OpenSession, Context
    <2>2. CASE CloseSession
        BY <2>0, <2>2 DEF CloseSession, Context
    <2>3. CASE OpenCommand
        BY <2>0, <2>3 DEF OpenCommand, Context
    <2>4. CASE OpenArg
        <3>1. At("arg")
            BY <2>4 DEF OpenArg
        <3>2. Head(rest) = Next1 /\ Next1 \in Element /\ Next1.tag = "arg"
            BY <2>0, <3>1, AtStep
        <3>3. Head(rest).s \in {"shell", "program"}
            BY <3>2, ElementParts
        <3> QED
            BY <2>0, <2>4, <3>3 DEF OpenArg, Context
    <2>5. CASE CloseCommand
        BY <2>0, <2>5 DEF CloseCommand
    <2> QED
        BY <2>1, <2>2, <2>3, <2>4, <2>5
<1>2. Types /\ phase' = phase
    BY <1>1, AtStep DEF IInv
<1>3. Parsing' /\ windows' \in Seq(Sound)
    BY <1>1, <1>2 DEF Types, Parsing, Win
<1>4. TabKnown \/ tag = "tab" => TabKnown'
    BY <1>1 DEF TabKnown, OnScreen, Win
<1>5. tag = "/session" => ~ctx'.win
    <2>1. Fits(Next1) /\ Next1.tag = tag
        BY <1>1, <1>2, AtStep
    <2> QED
        BY <1>1, <2>1 DEF Fits
<1> QED
    BY <1>1, <1>3, <1>4, <1>5, ParserKeeps

\* parse_open_win
LEMMA OpenWinEffect ==
    ASSUME Types, OpenWin
    PROVE  /\ ~ctx.win /\ ctx.session /\ ctx' = [ctx EXCEPT !.win = TRUE, !.look = Next1.look, !.active = 0]
           /\ Next1.look \in Look /\ windows \in Seq(Sound)
           /\ windows' \in Seq(Sound) /\ Len(windows') = Len(windows) + 1
           /\ \A j \in 1 .. Len(windows) : windows'[j] = windows[j]
           /\ windows'[Len(windows) + 1].tabs = <<>>
           /\ "fullscreen" \notin windows'[Len(windows) + 1].look
           /\ Len(windows) \in Nat
<1>1. At("window") /\ ctx' = [ctx EXCEPT !.win = TRUE, !.look = Head(rest).look, !.active = 0]
      /\ windows' = Append(windows, BlankWindow(Head(rest).look \cap {"menubar"}))
    BY DEF OpenWin
<1>2. Head(rest) = Next1 /\ Next1 \in Element /\ Next1.tag = "window" /\ Fits(Next1)
    BY <1>1, AtStep
<1>3. Next1.look \in Look /\ ~ctx.win /\ ctx.session
    BY <1>2, ElementParts DEF Fits
<1> DEFINE l == Next1.look \cap {"menubar"}
           b == BlankWindow(l)
<1>4. l \in Look /\ "fullscreen" \notin l
    BY <1>3 DEF Look
<1> HIDE DEF l
<1>5. b \in Sound /\ b.tabs = <<>> /\ b.look = l
    BY <1>4, BlankWindowType
<1>6. windows' = Append(windows, b) /\ windows \in Seq(Sound)
    BY <1>1, <1>2 DEF Types, l
<1> HIDE DEF b
<1>7. /\ windows' \in Seq(Sound) /\ Len(windows') = Len(windows) + 1
      /\ \A j \in 1 .. Len(windows) : windows'[j] = windows[j]
      /\ windows'[Len(windows) + 1] = b /\ Len(windows) \in Nat
    BY <1>5, <1>6, AppendProperties
<1> QED
    BY <1>1, <1>2, <1>3, <1>4, <1>5, <1>6, <1>7

LEMMA OpenWinKeeps ==
    ASSUME IInv, OpenWin, saved # <<>> => Restoring'
    PROVE  IInv'
<1>1. Types /\ Parsing /\ ctx \in Context /\ At("window")
    BY DEF IInv, Types, OpenWin
<1>2. /\ ~ctx.win /\ ctx' = [ctx EXCEPT !.win = TRUE, !.look = Next1.look, !.active = 0]
      /\ Next1.look \in Look /\ windows \in Seq(Sound)
      /\ windows' \in Seq(Sound) /\ Len(windows') = Len(windows) + 1
      /\ \A j \in 1 .. Len(windows) : windows'[j] = windows[j]
      /\ windows'[Len(windows) + 1].tabs = <<>> /\ Len(windows) \in Nat
    BY <1>1, OpenWinEffect
<1>3. ctx' \in Context /\ ctx'.win /\ ctx'.active = 0 /\ ctx'.tab = ctx.tab
    BY <1>1, <1>2 DEF Context
<1>4. phase' = "loading"
    BY <1>1, AtStep
<1>5. Parsing'
    <2>1. windows' # <<>> /\ Win' = Len(windows) + 1
        BY <1>2 DEF Win
    <2>2. ctx'.active \in 0 .. Len(windows'[Win'].tabs)
        BY <1>2, <1>3, <2>1
    <2> QED
        BY <1>3, <1>4, <2>1, <2>2 DEF Parsing
<1>6. ASSUME TabKnown PROVE TabKnown'
    <2>1. PICK j \in DOMAIN windows : windows[j].shown
        BY <1>1, <1>2, <1>6, Shown DEF TabKnown, Parsing
    <2>2. j \in 1 .. Len(windows) /\ j \in DOMAIN windows'
        BY <1>2
    <2>3. OnScreen'
        BY <1>2, <2>1, <2>2, ShownNext
    <2> QED
        BY <2>3 DEF TabKnown
<1> QED
    BY <1>1, <1>2, <1>3, <1>5, <1>6, ParserKeeps

\* close_win_tag
LEMMA CloseWinEffect ==
    ASSUME Types, CloseWin
    PROVE  /\ ctx.win /\ ctx.tab = <<>> /\ ctx' = [ctx EXCEPT !.win = FALSE]
           /\ Win \in DOMAIN windows /\ windows \in Seq(Sound)
           /\ \/ ~HasTabs(windows[Win]) /\ windows' = Front(windows)
              \/ /\ HasTabs(windows[Win])
                 /\ \E w \in Sound :
                      /\ Replaced(Win, w) /\ w.shown /\ w.tabs = windows[Win].tabs
                      /\ w.current = IF ctx.active = 0 THEN windows[Win].current ELSE ctx.active
                      /\ w.look = windows[Win].look \cup (ctx.look \cap {"fullscreen"})
<1>1. At("/window") /\ ctx' = [ctx EXCEPT !.win = FALSE]
    BY DEF CloseWin
<1>2. Next1.tag = "/window" /\ Fits(Next1)
    BY <1>1, AtStep
<1>3. ctx.win /\ ctx.tab = <<>>
    BY <1>2 DEF Fits
<1>4. windows \in Seq(Sound) /\ windows # <<>> /\ ctx.active \in 0 .. Len(windows[Win].tabs)
      /\ ctx \in Context
    BY <1>3 DEF Types, Parsing
<1>5. Win \in DOMAIN windows
    BY <1>4 DEF Win
<1>6. CASE ~HasTabs(windows[Win])
    <2>1. windows' = Front(windows)
        BY <1>6 DEF CloseWin
    <2> QED
        BY <1>1, <1>3, <1>4, <1>5, <1>6, <2>1
<1>7. CASE HasTabs(windows[Win])
    <2> DEFINE x == windows[Win]
               c == IF ctx.active = 0 THEN x.current ELSE ctx.active
               l == x.look \cup (ctx.look \cap {"fullscreen"})
               w == [x EXCEPT !.shown = TRUE, !.look = l, !.current = c]
    <2>1. x \in Sound
        BY <1>4, <1>5
    <2>2. x \in Window /\ x.current \in 1 .. Len(x.tabs) /\ x.tabs # <<>> /\ x.tabs \in Seq(Tab)
        BY <1>7, <2>1 DEF Sound, HasTabs, Window
    <2>3. l \in Look /\ c \in 1 .. Len(x.tabs) /\ c \in Nat
        BY <1>4, <2>2 DEF Window, Context, Look
    <2>4. Replaced(Win, w)
        BY <1>4, <1>5, <1>7 DEF CloseWin, Replaced
    <2> HIDE DEF x, c, l
    <2>5. w \in Window
        BY <2>2, <2>3 DEF Window
    <2>6. w.shown /\ w.tabs = x.tabs /\ w.current = c /\ w.look = l
        BY <2>2 DEF Window
    <2> HIDE DEF w
    <2>7. w \in Sound
        BY <2>2, <2>3, <2>5, <2>6, SoundWindow
    <2>8. \E v \in Sound :
                      /\ Replaced(Win, v) /\ v.shown /\ v.tabs = windows[Win].tabs
                      /\ v.current = IF ctx.active = 0 THEN windows[Win].current ELSE ctx.active
                      /\ v.look = windows[Win].look \cup (ctx.look \cap {"fullscreen"})
        BY <2>4, <2>6, <2>7 DEF x, c, l
    <2> QED
        BY <1>1, <1>3, <1>4, <1>5, <1>7, <2>8
<1> QED
    BY <1>6, <1>7

LEMMA CloseWinKeeps ==
    ASSUME IInv, CloseWin, saved # <<>> => Restoring'
    PROVE  IInv'
<1>1. Types /\ Parsing /\ ctx \in Context /\ At("/window")
    BY DEF IInv, Types, CloseWin
<1>2. /\ ctx.win /\ ctx.tab = <<>> /\ ctx' = [ctx EXCEPT !.win = FALSE]
      /\ Win \in DOMAIN windows /\ windows \in Seq(Sound)
    BY <1>1, CloseWinEffect
<1>3. ctx' \in Context /\ ~ctx'.win /\ ctx'.tab = <<>>
    BY <1>1, <1>2 DEF Context
<1>4. phase' = "loading"
    BY <1>1, AtStep
<1>5. Parsing'
    BY <1>3, <1>4 DEF Parsing
<1>6. windows' \in Seq(Sound) /\ (TabKnown => TabKnown')
    <2>1. CASE ~HasTabs(windows[Win]) /\ windows' = Front(windows)
        <3> DEFINE n == Len(windows)
        <3>1. /\ windows' \in Seq(Sound) /\ DOMAIN windows' = 1 .. n - 1 /\ n \in Nat
              /\ \A j \in 1 .. n - 1 : windows'[j] = windows[j]
            BY <1>2, <2>1 DEF Front
        <3>2. ASSUME TabKnown PROVE OnScreen'
            <4>1. OnScreen
                BY <1>2, <2>1, <3>2 DEF TabKnown
            <4>2. PICK j \in DOMAIN windows : windows[j].shown
                BY <4>1, Shown
            <4>3. ~windows[Win].shown
                <5>1. windows[Win] \in Sound
                    BY <1>2
                <5> QED
                    BY <2>1, <5>1 DEF Sound
            <4>4. j # n /\ j \in 1 .. n
                BY <1>2, <4>2, <4>3 DEF Win
            <4>5. j \in DOMAIN windows' /\ windows'[j].shown
                BY <3>1, <4>2, <4>4
            <4> QED
                BY <4>5, ShownNext
        <3> QED
            BY <3>1, <3>2 DEF TabKnown
    <2>2. CASE \E w \in Sound : Replaced(Win, w) /\ w.shown
        <3>1. PICK w \in Sound : Replaced(Win, w) /\ w.shown
            BY <2>2
        <3>2. windows' \in Seq(Sound) /\ Len(windows') = Len(windows) /\ windows'[Win] = w
            BY <1>2, <3>1, ReplacedEffect
        <3>3. Win \in DOMAIN windows'
            BY <1>2, <3>2
        <3>4. OnScreen'
            BY <3>1, <3>2, <3>3, ShownNext
        <3> QED
            BY <3>2, <3>4 DEF TabKnown
    <2> QED
        BY <1>1, <2>1, <2>2, CloseWinEffect
<1> QED
    BY <1>1, <1>3, <1>5, <1>6, ParserKeeps

\* parse_open_tab
LEMMA OpenTabTagEffect ==
    ASSUME Types, OpenTabTag
    PROVE  /\ ctx.win /\ ctx.tab = <<>> /\ UNCHANGED windows
           /\ \E t \in Tab :
                /\ t.profile = Next1.profile /\ t.title = Next1.title /\ ~t.overridden
                /\ ctx' = [ctx EXCEPT !.current = Next1.current, !.tab = <<t>>]
           /\ Next1.current \in BOOLEAN
<1>1. At("tab")
    BY DEF OpenTabTag
<1>2. Head(rest) = Next1 /\ Next1 \in Element /\ Next1.tag = "tab" /\ Fits(Next1)
    BY <1>1, AtStep
<1> DEFINE e == Next1
           s == IF e.scheme = NoScheme THEN GTK ELSE e.scheme
           n == NewTab(e.profile)
           t == [n EXCEPT !.scheme = s, !.title = e.title]
<1>3. /\ e.profile \in Profiles /\ e.title \in {"profile's", "own"} /\ s \in Schemes
      /\ e.current \in BOOLEAN
    BY <1>2, ElementParts, ProfilesAssumption
<1>4. ctx' = [ctx EXCEPT !.current = e.current, !.tab = <<t>>] /\ UNCHANGED windows
    BY <1>2 DEF OpenTabTag
<1>5. ctx.win /\ ctx.tab = <<>>
    BY <1>2 DEF Fits
<1>6. n \in Tab /\ n.profile = e.profile /\ ~n.overridden
    BY <1>3, NewTabType
<1> HIDE DEF e, s, n
<1>7. t \in Tab /\ t.profile = e.profile /\ t.title = e.title /\ ~t.overridden
    BY <1>3, <1>6 DEF Tab
<1> QED
    BY <1>3, <1>4, <1>5, <1>7 DEF e

LEMMA OpenTabTagKeeps ==
    ASSUME IInv, OpenTabTag, saved # <<>> => Restoring'
    PROVE  IInv'
<1>1. Types /\ Parsing /\ ctx \in Context /\ At("tab") /\ windows \in Seq(Sound)
    BY DEF IInv, Types, OpenTabTag
<1>2. ctx.win /\ UNCHANGED windows /\ Next1.current \in BOOLEAN
    BY <1>1, OpenTabTagEffect
<1>3. PICK t \in Tab : ctx' = [ctx EXCEPT !.current = Next1.current, !.tab = <<t>>]
    BY <1>1, OpenTabTagEffect
<1>4. ctx' \in Context /\ ctx'.win = ctx.win /\ ctx'.active = ctx.active /\ ctx'.tab # <<>>
    <2> DEFINE ts == <<t>>
    <2>1. ts \in Seq(Tab) /\ ts # <<>>
        OBVIOUS
    <2> HIDE DEF ts
    <2>2. ctx' = [ctx EXCEPT !.current = Next1.current, !.tab = ts]
        BY <1>3 DEF ts
    <2> QED
        BY <1>1, <1>2, <2>1, <2>2 DEF Context
<1>5. phase' = phase
    BY <1>1, AtStep
<1>6. Parsing' /\ TabKnown'
    BY <1>1, <1>2, <1>4, <1>5 DEF Parsing, TabKnown, Win
<1> QED
    BY <1>1, <1>2, <1>4, <1>6, ParserKeeps

\* close_tab_tag
TabToOpen == [ctx.tab[1] EXCEPT !.command =
                IF ctx.command \in {NoCommand, "argc"} THEN "shell" ELSE ctx.command]

\* What </tab> does.
LEMMA CloseTabTagEffect ==
    ASSUME Types, CloseTabTag
    PROVE  /\ ctx.win /\ ctx.tab # <<>> /\ windows \in Seq(Sound) /\ Win \in DOMAIN windows
           /\ windows[Win] \in Window /\ ctx.tab[1] \in Tab /\ TabToOpen \in Tab
           /\ Replaced(Win, Fill(windows[Win], TabToOpen))
           /\ ctx' = [ctx EXCEPT !.tab = <<>>, !.command = NoCommand,
                        !.active = IF ctx.current THEN Len(windows[Win].tabs) + 1 ELSE ctx.active]
<1>1. At("/tab")
    BY DEF CloseTabTag
<1>2. Next1.tag = "/tab" /\ Fits(Next1)
    BY <1>1, AtStep
<1>3. ctx.tab # <<>>
    BY <1>2 DEF Fits
<1>4. ctx.win /\ windows \in Seq(Sound) /\ windows # <<>> /\ ctx \in Context
    BY <1>3 DEF Types, Parsing
<1>5. Win \in DOMAIN windows /\ windows[Win] \in Sound
    BY <1>4 DEF Win
<1>6. ctx.tab[1] \in Tab
    BY <1>3, <1>4 DEF Context
<1>7. TabToOpen \in Tab
    <2> DEFINE c == IF ctx.command \in {NoCommand, "argc"} THEN "shell" ELSE ctx.command
    <2>1. c \in {"shell", "program"}
        BY <1>4 DEF Context
    <2> HIDE DEF c
    <2>2. [ctx.tab[1] EXCEPT !.command = c] \in Tab
        BY <1>6, <2>1 DEF Tab
    <2> QED
        BY <2>2 DEF TabToOpen, c
<1>8. Replaced(Win, Fill(windows[Win], TabToOpen))
    BY DEF CloseTabTag, Replaced, TabToOpen
<1>9. ctx' = [ctx EXCEPT !.tab = <<>>, !.command = NoCommand,
                !.active = IF ctx.current THEN Len(windows[Win].tabs) + 1 ELSE ctx.active]
    BY DEF CloseTabTag
<1> QED
    BY <1>3, <1>4, <1>5, <1>6, <1>7, <1>8, <1>9 DEF Sound

LEMMA CloseTabTagKeeps ==
    ASSUME IInv, CloseTabTag, saved # <<>> => Restoring'
    PROVE  IInv'
<1>1. Types /\ Parsing /\ ctx \in Context /\ At("/tab")
    BY DEF IInv, Types, CloseTabTag
<1> DEFINE x == windows[Win]
           w == Fill(x, TabToOpen)
           a == IF ctx.current THEN Len(x.tabs) + 1 ELSE ctx.active
<1>2. /\ ctx.win /\ windows \in Seq(Sound) /\ Win \in DOMAIN windows
      /\ x \in Window /\ TabToOpen \in Tab /\ Replaced(Win, w)
      /\ ctx' = [ctx EXCEPT !.tab = <<>>, !.command = NoCommand, !.active = a]
    BY <1>1, CloseTabTagEffect
<1>3. /\ w \in Sound /\ HasTabs(w) /\ w.tabs = Append(x.tabs, Filled(TabToOpen))
    BY <1>2, FillEffect
<1>4. /\ windows' \in Seq(Sound) /\ Len(windows') = Len(windows) /\ windows'[Win] = w
    BY <1>2, <1>3, ReplacedEffect
<1>5. Win' = Win /\ windows' # <<>>
    BY <1>2, <1>4 DEF Win
<1>6. ctx.active \in 0 .. Len(x.tabs) /\ x.tabs \in Seq(Tab)
    BY <1>1, <1>2 DEF Parsing, Window
<1> HIDE DEF w, x
<1>7. a \in Nat /\ a \in 0 .. Len(w.tabs)
    <2>1. Len(w.tabs) = Len(x.tabs) + 1 /\ Len(x.tabs) \in Nat
        BY <1>3, <1>6
    <2> QED
        BY <1>6, <2>1
<1> HIDE DEF a
<1>8. ctx' \in Context /\ ctx'.win /\ ctx'.tab = <<>> /\ ctx'.active = a
    <2> DEFINE none == <<>>
    <2>1. none \in Seq(Tab) /\ ctx' = [ctx EXCEPT !.tab = none, !.command = NoCommand, !.active = a]
        BY <1>2
    <2> HIDE DEF none
    <2>2. ctx' \in Context /\ ctx'.win /\ ctx'.tab = none /\ ctx'.active = a
        BY <1>1, <1>2, <1>7, <2>1 DEF Context
    <2> QED
        BY <2>2 DEF none
<1>9. phase' = "loading"
    BY <1>1, AtStep
<1>10. Parsing' /\ TabKnown'
    BY <1>3, <1>4, <1>5, <1>7, <1>8, <1>9 DEF Parsing, TabKnown
<1> QED
    BY <1>1, <1>4, <1>8, <1>10, ParserKeeps

-----------------------------------------------------------------------------
(* A session that was saved completely is read from one place to the next. *)

\* The places of the windows in a session that was saved.
LEMMA FileLayout ==
    ASSUME IInv, saved # <<>>
    PROVE  /\ Len(saved) \in Nat /\ Len(saved) # 0
           /\ \A i \in 1 .. Len(saved) :
                saved[i] \in Kept /\ SavedWindowAt(file, Offset(saved)[i - 1], saved[i])
           /\ \A i \in 0 .. Len(saved) : Offset(saved)[i] \in Nat
           /\ Offset(saved)[0] = 1
           /\ \A i \in 1 .. Len(saved) :
                /\ Offset(saved)[i] = Offset(saved)[i - 1] + (2 + 5 * Len(saved[i].tabs))
                /\ Offset(saved)[i] <= Offset(saved)[Len(saved)]
           /\ Len(file) = Offset(saved)[Len(saved)] + 1
           /\ file[1] = [tag |-> "session"] /\ file[Len(file)] = [tag |-> "/session"]
<1>1. saved \in Seq(Kept) /\ file = SessionOf(saved)
    BY DEF IInv, Types, SavedInFile
<1>2. Kept \subseteq Window
    BY DEF Kept, Sound
<1>3. saved \in Seq(Window)
    BY <1>1, <1>2
<1>4. Len(saved) \in Nat /\ Len(saved) # 0 /\ \A i \in 1 .. Len(saved) : saved[i] \in Kept
    BY <1>1
<1>5. /\ Offset(saved) \in [0 .. Len(saved) -> Nat] /\ Offset(saved)[0] = 1
      /\ \A i \in 1 .. Len(saved) :
           Offset(saved)[i] = Offset(saved)[i - 1] + (2 + 5 * Len(saved[i].tabs))
    BY <1>3, Offsets
<1>6. /\ Len(file) = Offset(saved)[Len(saved)] + 1
      /\ file[1] = [tag |-> "session"] /\ file[Len(file)] = [tag |-> "/session"]
      /\ \A i \in 1 .. Len(saved) :
           /\ Offset(saved)[i] <= Offset(saved)[Len(saved)]
           /\ SavedWindowAt(file, Offset(saved)[i - 1], saved[i])
    BY <1>1, <1>3, SavedSession
<1> QED
    BY <1>4, <1>5, <1>6

\* What is known of a window that was saved.
LEMMA KeptFacts ==
    ASSUME NEW u \in Kept
    PROVE  /\ u.tabs \in Seq(Tab) /\ Len(u.tabs) \in Nat /\ Len(u.tabs) # 0
           /\ u.current \in 1 .. Len(u.tabs) /\ u.look \in Look
<1>1. u.tabs \in Seq(Tab) /\ u.look \in Look /\ u.tabs # <<>> /\ u.current \in 1 .. Len(u.tabs)
    BY DEF Kept, Sound, Window, HasTabs
<1> QED
    BY <1>1

\* The action that an element allows.
LEMMA ActionAt ==
    ASSUME Types, Accepted
    PROVE  /\ phase = "loading" /\ Met \in Nat /\ Met + 1 \in 1 .. Len(file) /\ Met' = Met + 1
           /\ saved' = saved /\ file' = file /\ Head(rest) = Next1
           /\ Next1.tag = "session" => OpenSession
           /\ Next1.tag = "/session" => CloseSession
           /\ Next1.tag = "window" => OpenWin
           /\ Next1.tag = "/window" => CloseWin
           /\ Next1.tag = "tab" => OpenTabTag
           /\ Next1.tag = "/tab" => CloseTabTag
           /\ Next1.tag = "command" => OpenCommand
           /\ Next1.tag = "arg" => OpenArg
           /\ Next1.tag = "/command" => CloseCommand
<1>1. PICK tag : /\ At(tag)
                 /\ \/ tag = "session" /\ OpenSession
                    \/ tag = "/session" /\ CloseSession
                    \/ tag = "window" /\ OpenWin
                    \/ tag = "/window" /\ CloseWin
                    \/ tag = "tab" /\ OpenTabTag
                    \/ tag = "/tab" /\ CloseTabTag
                    \/ tag = "command" /\ OpenCommand
                    \/ tag = "arg" /\ OpenArg
                    \/ tag = "/command" /\ CloseCommand
    <2>1. CASE OpenSession
        BY <2>1 DEF OpenSession
    <2>2. CASE CloseSession
        BY <2>2 DEF CloseSession
    <2>3. CASE OpenWin
        BY <2>3 DEF OpenWin
    <2>4. CASE CloseWin
        BY <2>4 DEF CloseWin
    <2>5. CASE OpenTabTag
        BY <2>5 DEF OpenTabTag
    <2>6. CASE CloseTabTag
        BY <2>6 DEF CloseTabTag
    <2>7. CASE OpenCommand
        BY <2>7 DEF OpenCommand
    <2>8. CASE OpenArg
        BY <2>8 DEF OpenArg
    <2>9. CASE CloseCommand
        BY <2>9 DEF CloseCommand
    <2> QED
        BY <2>1, <2>2, <2>3, <2>4, <2>5, <2>6, <2>7, <2>8, <2>9 DEF Accepted
<1>2. /\ phase = "loading" /\ Met \in Nat /\ Met + 1 \in 1 .. Len(file) /\ Met' = Met + 1
      /\ saved' = saved /\ file' = file /\ Next1.tag = tag /\ Head(rest) = Next1
    BY <1>1, AtStep
<1> QED
    BY <1>1, <1>2

\* The element fits, and the step leads to the next place.
Leads == /\ Met < Len(file) /\ Fits(Next1)
         /\ Accepted => Restoring'

\* Before <session>.
LEMMA AtBeginning ==
    ASSUME IInv, saved # <<>>, Met = 0, ctx = Blank, windows = <<>>
    PROVE  Leads
<1>1. Next1 = [tag |-> "session"] /\ Len(file) # 0 /\ Len(file) \in Nat
    BY FileLayout DEF Next1
<1>2. Fits(Next1)
    BY <1>1 DEF Fits, Blank
<1>3. ASSUME Accepted PROVE Restoring'
    <2>1. OpenSession /\ Met' = Met + 1 /\ saved' = saved
        BY <1>1, <1>3, ActionAt DEF IInv
    <2>2. ctx' = [Blank EXCEPT !.session = TRUE] /\ windows' = <<>>
        BY <2>1 DEF OpenSession
    <2>3. Met' = Offset(saved)[0]
        BY <2>1, FileLayout
    <2>4. /\ Len(windows') = 0 /\ ctx'.session /\ ~ctx'.win /\ ctx'.tab = <<>>
          /\ ctx'.command = NoCommand
        BY <2>2 DEF Blank
    <2>5. Between(0)'
        BY <2>1, <2>3, <2>4 DEF Between
    <2>6. 0 \in 0 .. Len(saved')
        BY <2>1, FileLayout
    <2> QED
        BY <2>5, <2>6 DEF Restoring
<1> QED
    BY <1>1, <1>2, <1>3 DEF Leads

\* Before </session>.
LEMMA BehindAll ==
    ASSUME IInv, saved # <<>>, Between(Len(saved))
    PROVE  Leads
<1>1. /\ Met + 1 = Len(file) /\ Met \in Nat /\ Len(file) \in Nat
      /\ Next1 = [tag |-> "/session"]
    BY FileLayout DEF Between, Next1
<1>2. Fits(Next1)
    BY <1>1 DEF Fits, Between
<1>3. ASSUME Accepted PROVE Restoring'
    <2>1. CloseSession /\ Met' = Met + 1 /\ saved' = saved /\ file' = file
        BY <1>1, <1>3, ActionAt DEF IInv
    <2>2. windows' = windows /\ ~ctx'.win
        <3>1. ctx \in Context
            BY DEF IInv, Types
        <3> QED
            BY <2>1, <3>1 DEF CloseSession, Between, Context
    <2>3. AllBack'
        BY <2>1, <2>2 DEF AllBack, Between
    <2>4. Met' = Len(file')
        BY <1>1, <2>1
    <2> QED
        BY <2>2, <2>3, <2>4 DEF Restoring
<1> QED
    BY <1>1, <1>2, <1>3 DEF Leads

\* Before <window>.
LEMMA BeforeWindow ==
    ASSUME IInv, saved # <<>>, NEW i \in 0 .. Len(saved) - 1, Between(i)
    PROVE  Leads
<1> DEFINE u == saved[i + 1]
           o == Offset(saved)[i]
<1>1. /\ i + 1 \in 1 .. Len(saved) /\ (i + 1) - 1 = i /\ i \in Nat /\ i \in 0 .. Len(saved)
    BY FileLayout
<1>2. /\ u \in Kept /\ SavedWindowAt(file, o, u) /\ o \in Nat
      /\ Offset(saved)[i + 1] = o + (2 + 5 * Len(u.tabs))
      /\ Offset(saved)[i + 1] <= Offset(saved)[Len(saved)]
      /\ Len(file) = Offset(saved)[Len(saved)] + 1
      /\ Offset(saved)[i + 1] \in Nat /\ Offset(saved)[Len(saved)] \in Nat
    <2>1. Len(saved) \in 0 .. Len(saved) /\ i + 1 \in 0 .. Len(saved)
        BY <1>1
    <2> QED
        BY <1>1, <2>1, FileLayout
<1>3. Met = o /\ Next1 = [tag |-> "window", look |-> u.look]
    BY <1>2 DEF Between, Next1, SavedWindowAt
<1> HIDE DEF o, u
<1>4. u.tabs \in Seq(Tab) /\ Len(u.tabs) \in Nat /\ u.current \in 1 .. Len(u.tabs)
    BY <1>2, KeptFacts
<1>5. Met < Len(file)
    BY <1>2, <1>3, <1>4
<1>6. Fits(Next1)
    BY <1>3 DEF Fits, Between
<1>7. ASSUME Accepted PROVE Restoring'
    <2>1. OpenWin /\ Met' = Met + 1 /\ saved' = saved
        BY <1>3, <1>7, ActionAt DEF IInv
    <2>2. /\ ctx' = [ctx EXCEPT !.win = TRUE, !.look = Next1.look, !.active = 0]
          /\ Len(windows') = Len(windows) + 1
          /\ \A j \in 1 .. Len(windows) : windows'[j] = windows[j]
          /\ windows'[Len(windows) + 1].tabs = <<>>
          /\ "fullscreen" \notin windows'[Len(windows) + 1].look
        BY <2>1, OpenWinEffect DEF IInv
    <2>3. /\ Len(windows) = i /\ ctx.session /\ ctx.tab = <<>> /\ ctx.command = NoCommand
          /\ \A j \in 1 .. i : WindowBack(windows[j], saved[j])
        BY DEF Between
    <2>4. /\ ctx'.session /\ ctx'.win /\ ctx'.look = u.look /\ ctx'.active = 0
          /\ ctx'.tab = <<>> /\ ctx'.command = NoCommand
        <3>1. ctx \in Context
            BY DEF IInv, Types
        <3> QED
            BY <1>3, <2>2, <2>3, <3>1 DEF Context
    <2>5. TabsBack(windows'[i + 1], u, 0) /\ "fullscreen" \notin windows'[i + 1].look
        BY <2>2, <2>3 DEF TabsBack
    <2>6. \A j \in 1 .. i : WindowBack(windows'[j], saved[j])
        BY <2>2, <2>3
    <2>7. 0 = IF u.current <= 0 THEN u.current ELSE 0
        BY <1>4
    <2>8. Inside(i, 0)'
        BY <2>1, <2>2, <2>3, <2>4, <2>5, <2>6, <2>7 DEF Inside, u
    <2>9. BehindTab(i, 0)'
        <3>1. Met' = o + 1 + 5 * 0
            BY <1>2, <1>3, <2>1
        <3> QED
            BY <2>1, <2>4, <3>1 DEF BehindTab, o
    <2>10. i \in 0 .. Len(saved') - 1 /\ 0 \in 0 .. Len(saved'[i + 1].tabs)
        BY <1>4, <2>1 DEF u
    <2> QED
        BY <2>8, <2>9, <2>10 DEF Restoring
<1> QED
    BY <1>5, <1>6, <1>7 DEF Leads

\* Where the elements of window i + 1 are, and that they are in the file.
LEMMA WindowPlaces ==
    ASSUME IInv, saved # <<>>, NEW i \in 0 .. Len(saved) - 1
    PROVE  /\ saved[i + 1] \in Kept /\ SavedWindowAt(file, Offset(saved)[i], saved[i + 1])
           /\ Offset(saved)[i] \in Nat /\ Len(saved) \in Nat
           /\ Offset(saved)[i + 1] = Offset(saved)[i] + (2 + 5 * Len(saved[i + 1].tabs))
           /\ Offset(saved)[i] + (2 + 5 * Len(saved[i + 1].tabs)) < Len(file)
<1>1. /\ i + 1 \in 1 .. Len(saved) /\ (i + 1) - 1 = i /\ i \in Nat /\ i \in 0 .. Len(saved)
      /\ i + 1 \in 0 .. Len(saved) /\ Len(saved) \in 0 .. Len(saved)
    BY FileLayout
<1>2. /\ saved[i + 1] \in Kept /\ SavedWindowAt(file, Offset(saved)[i], saved[i + 1])
      /\ Offset(saved)[i] \in Nat /\ Len(saved) \in Nat
      /\ Offset(saved)[i + 1] = Offset(saved)[i] + (2 + 5 * Len(saved[i + 1].tabs))
    BY <1>1, FileLayout
<1>3. /\ Offset(saved)[i + 1] <= Offset(saved)[Len(saved)]
      /\ Len(file) = Offset(saved)[Len(saved)] + 1
      /\ Offset(saved)[i + 1] \in Nat /\ Offset(saved)[Len(saved)] \in Nat
    BY <1>1, FileLayout
<1>4. Offset(saved)[i + 1] < Len(file)
    BY <1>3
<1> QED
    BY <1>2, <1>4

\* Before </window>.
LEMMA BehindTabs ==
    ASSUME IInv, saved # <<>>, NEW i \in 0 .. Len(saved) - 1,
           Inside(i, Len(saved[i + 1].tabs)), BehindTab(i, Len(saved[i + 1].tabs))
    PROVE  Leads
<1> DEFINE u == saved[i + 1]
           x == windows[i + 1]
           o == Offset(saved)[i]
           N == Len(u.tabs)
<1>1. /\ u \in Kept /\ SavedWindowAt(file, o, u) /\ o \in Nat /\ Len(saved) \in Nat
      /\ Offset(saved)[i + 1] = o + (2 + 5 * N) /\ o + (2 + 5 * N) < Len(file)
    BY WindowPlaces
<1>2. N \in Nat /\ N # 0 /\ u.current \in 1 .. N
    BY <1>1, KeptFacts
<1>3. Met = o + 1 + 5 * N /\ ctx.tab = <<>> /\ ctx.command = NoCommand
    BY DEF BehindTab
<1>4. /\ Len(windows) = i + 1 /\ ctx.session /\ ctx.win /\ ctx.look = u.look
      /\ ctx.active = IF u.current <= N THEN u.current ELSE 0
      /\ "fullscreen" \notin x.look /\ TabsBack(x, u, N)
      /\ \A j \in 1 .. i : WindowBack(windows[j], saved[j])
    BY DEF Inside
<1>5. Next1 = [tag |-> "/window"]
    <2>1. file[o + 2 + 5 * N] = [tag |-> "/window"]
        BY <1>1 DEF SavedWindowAt
    <2>2. o + 1 + 5 * N + 1 = o + 2 + 5 * N
        <3> DEFINE F == 5 * N
        <3>1. o \in Nat /\ F \in Nat
            BY <1>1, <1>2
        <3> HIDE DEF o, F
        <3>2. o + 1 + F + 1 = o + 2 + F
            BY <3>1
        <3> QED
            BY <3>2 DEF F
    <2> QED
        BY <1>3, <2>1, <2>2 DEF Next1
<1>6. i \in Nat /\ Met < Len(file)
    BY <1>1, <1>2, <1>3
<1> HIDE DEF u, o, N, x
<1>7. Fits(Next1)
    BY <1>3, <1>4, <1>5 DEF Fits
<1>8. ASSUME Accepted PROVE Restoring'
    <2>1. CloseWin /\ Met' = Met + 1 /\ saved' = saved
        BY <1>5, <1>8, ActionAt DEF IInv
    <2>2. Win = i + 1 /\ Types /\ HasTabs(x)
        <3>1. Len(x.tabs) = N
            BY <1>4 DEF TabsBack
        <3> QED
            BY <1>2, <1>4, <3>1 DEF IInv, Win, HasTabs
    <2>3. ctx' = [ctx EXCEPT !.win = FALSE] /\ i + 1 \in DOMAIN windows /\ windows \in Seq(Sound)
        BY <2>1, <2>2, CloseWinEffect
    <2>4. PICK w \in Sound :
            /\ Replaced(Win, w) /\ w.shown /\ w.tabs = windows[Win].tabs
            /\ w.current = IF ctx.active = 0 THEN windows[Win].current ELSE ctx.active
            /\ w.look = windows[Win].look \cup (ctx.look \cap {"fullscreen"})
        BY <2>1, <2>2, CloseWinEffect DEF x
    <2>5. /\ Replaced(i + 1, w) /\ w.shown /\ w.tabs = x.tabs /\ w.current = u.current
          /\ "fullscreen" \in w.look <=> "fullscreen" \in u.look
        <3>1. ctx.active = u.current /\ ctx.active # 0
            BY <1>2, <1>4
        <3> QED
            BY <1>4, <2>2, <2>4, <3>1 DEF x
    <2>6. /\ Len(windows') = i + 1 /\ windows'[i + 1] = w
          /\ \A j \in 1 .. i : windows'[j] = windows[j]
        <3>1. \A j \in 1 .. i : j \in DOMAIN windows /\ j # i + 1
            BY <1>4, <1>6, <2>3
        <3>2. /\ Len(windows') = Len(windows) /\ windows'[i + 1] = w
              /\ \A j \in DOMAIN windows : j # i + 1 => windows'[j] = windows[j]
            BY <2>3, <2>5, ReplacedEffect
        <3> QED
            BY <1>4, <3>1, <3>2
    <2>7. WindowBack(w, u)
        BY <1>4, <2>5 DEF WindowBack, TabsBack, N
    <2>8. \A j \in 1 .. i + 1 : WindowBack(windows'[j], saved[j])
        <3>1. \A j \in 1 .. i + 1 : j = i + 1 \/ j \in 1 .. i
            BY <1>6
        <3> QED
            BY <1>4, <2>6, <2>7, <3>1 DEF u
    <2>9. ctx'.session /\ ~ctx'.win /\ ctx'.tab = <<>> /\ ctx'.command = NoCommand
        <3>1. ctx \in Context
            BY DEF IInv, Types
        <3> QED
            BY <1>3, <1>4, <2>3, <3>1 DEF Context
    <2>10. Met' = Offset(saved)[i + 1]
        <3>1. Met' = o + 1 + 5 * N + 1
            BY <1>3, <2>1
        <3> QED
            BY <1>1, <1>2, <3>1
    <2>11. Between(i + 1)'
        BY <2>1, <2>6, <2>8, <2>9, <2>10 DEF Between
    <2>12. i + 1 \in 0 .. Len(saved')
        BY <1>1, <2>1
    <2> QED
        BY <2>11, <2>12 DEF Restoring
<1> QED
    BY <1>6, <1>7, <1>8 DEF Leads

\* The windows and what the context knows of the window stay.
LEMMA InsideStays ==
    ASSUME NEW i, NEW k, Inside(i, k), UNCHANGED <<windows, saved>>,
           ctx'.session = ctx.session, ctx'.win = ctx.win, ctx'.look = ctx.look,
           ctx'.active = ctx.active
    PROVE  Inside(i, k)'
BY DEF Inside

\* The places of a tab's elements.
LEMMA TabPlaces ==
    ASSUME IInv, saved # <<>>, NEW i \in 0 .. Len(saved) - 1,
           NEW k \in 0 .. Len(saved[i + 1].tabs) - 1, NEW m \in 0 .. 4,
           Met = Offset(saved)[i] + 1 + 5 * k + m
    PROVE  /\ Met < Len(file) /\ Met \in Nat /\ k + 1 \in 1 .. Len(saved[i + 1].tabs)
           /\ k \in Nat /\ saved[i + 1] \in Kept /\ saved[i + 1].tabs[k + 1] \in Tab
           /\ \E n : SavedTabAt(file, n, saved[i + 1], k + 1) /\ Next1 = file[n + (m + 1)]
<1> DEFINE u == saved[i + 1]
           o == Offset(saved)[i]
           N == Len(u.tabs)
           n == o + 1 + 5 * k
<1>1. u \in Kept /\ SavedWindowAt(file, o, u) /\ o \in Nat /\ o + (2 + 5 * N) < Len(file)
    BY WindowPlaces
<1>2. N \in Nat /\ u.tabs \in Seq(Tab)
    BY <1>1, KeptFacts
<1>3. /\ k + 1 \in 1 .. N /\ (k + 1) - 1 = k /\ k \in Nat /\ n \in Nat
      /\ 5 * k + 5 <= 5 * N
    <2>1. k \in 0 .. N - 1
        OBVIOUS
    <2> HIDE DEF N, o
    <2>2. k \in Nat /\ k < N
        BY <1>2, <2>1
    <2> QED
        BY <1>1, <1>2, <2>2
<1>4. u.tabs[k + 1] \in Tab
    BY <1>2, <1>3
<1>5. SavedTabAt(file, n, u, k + 1)
    BY <1>1, <1>3 DEF SavedWindowAt
<1>6. Len(file) \in Nat
    BY FileLayout, <1>1 DEF IInv, Types
<1> DEFINE F == 5 * k
           G == 5 * N
           L == Len(file)
<1>7. F \in Nat /\ G \in Nat /\ F + 5 <= G /\ o + (2 + G) < L /\ L \in Nat /\ n = o + 1 + F
    BY <1>1, <1>2, <1>3, <1>6
<1> DEFINE p == Met
<1>8. p = n + m
    OBVIOUS
<1> HIDE DEF F, G, L, n, N, o, p
<1>9. p < L /\ p \in Nat /\ p + 1 = n + (m + 1)
    BY <1>1, <1>3, <1>7, <1>8
<1>10. Next1 = file[n + (m + 1)]
    BY <1>9 DEF Next1, p
<1> QED
    BY <1>1, <1>3, <1>4, <1>5, <1>9, <1>10 DEF L, N, p

\* What the start tag of a tab says.
LEMMA TabStarts ==
    ASSUME NEW w, NEW k, NEW n, SavedTabAt(file, n, w, k)
    PROVE  /\ file[n + 1].tag = "tab" /\ file[n + 1].profile = w.tabs[k].profile
           /\ file[n + 1].title = w.tabs[k].title
           /\ file[n + 1].current <=> k = w.current
<1> DEFINE t == w.tabs[k]
           c == k = w.current
           s == IF t.overridden THEN t.scheme ELSE NoScheme
           e == file[n + 1]
<1>1. e = [tag |-> "tab", profile |-> t.profile, title |-> t.title, current |-> c, scheme |-> s]
    BY DEF SavedTabAt
<1> HIDE DEF t, c, s, e
<1>2. e.tag = "tab" /\ e.profile = t.profile /\ e.title = t.title
    BY <1>1
<1>3. e.current <=> c
    BY <1>1
<1> QED
    BY <1>2, <1>3 DEF t, c, e

\* What the parser accepts inside a tab.
LEMMA CommandFits ==
    ASSUME NEW e, ctx.tab # <<>>
    PROVE  /\ e = [tag |-> "command", argc |-> 1] /\ ctx.command = NoCommand => Fits(e)
           /\ \A c : e = [tag |-> "arg", s |-> c] /\ ctx.command = "argc" => Fits(e)
           /\ e = [tag |-> "/command"] /\ ctx.command # NoCommand => Fits(e)
<1>1. ASSUME e = [tag |-> "command", argc |-> 1], ctx.command = NoCommand PROVE Fits(e)
    <2>1. e.tag = "command" /\ e.argc = 1
        BY <1>1
    <2> QED
        BY <1>1, <2>1 DEF Fits
<1>2. ASSUME NEW c, e = [tag |-> "arg", s |-> c], ctx.command = "argc" PROVE Fits(e)
    <2>1. e.tag = "arg"
        BY <1>2
    <2> QED
        BY <1>2, <2>1 DEF Fits
<1>3. ASSUME e = [tag |-> "/command"], ctx.command # NoCommand PROVE Fits(e)
    <2>1. e.tag = "/command"
        BY <1>3
    <2> QED
        BY <1>3, <2>1 DEF Fits
<1> QED
    BY <1>1, <1>2, <1>3

\* Before <tab>.
LEMMA BeforeTab ==
    ASSUME IInv, saved # <<>>, NEW i \in 0 .. Len(saved) - 1,
           NEW k \in 0 .. Len(saved[i + 1].tabs) - 1,
           Inside(i, k), BehindTab(i, k)
    PROVE  Leads
<1> DEFINE u == saved[i + 1]
           t == u.tabs[k + 1]
           m == 0
<1>1. Met = Offset(saved)[i] + 1 + 5 * k + m /\ m \in 0 .. 4 /\ m = 0
    <2>1. Met \in Int
        BY FileLayout DEF IInv, Types
    <2> QED
        BY <2>1 DEF BehindTab
<1> HIDE DEF m, u, t
<1>2. /\ Met < Len(file) /\ k \in Nat /\ t \in Tab /\ k + 1 \in 1 .. Len(u.tabs)
    BY <1>1, TabPlaces DEF u, t
<1>3. PICK n : SavedTabAt(file, n, u, k + 1) /\ Next1 = file[n + (m + 1)]
    BY <1>1, TabPlaces DEF u
<1>4. /\ Next1.tag = "tab" /\ Next1.profile = t.profile /\ Next1.title = t.title
      /\ Next1.current <=> k + 1 = u.current
    <2>1. Next1 = file[n + 1]
        BY <1>1, <1>3
    <2> QED
        BY <1>3, <2>1, TabStarts DEF t
<1>5. Fits(Next1)
    BY <1>4 DEF Fits, BehindTab, Inside
<1>6. ASSUME Accepted PROVE Restoring'
    <2>1. OpenTabTag /\ Met' = Met + 1 /\ saved' = saved /\ Met \in Nat
        BY <1>4, <1>6, ActionAt DEF IInv
    <2>2. UNCHANGED windows
        BY <2>1, OpenTabTagEffect DEF IInv
    <2>3. PICK r \in Tab :
            /\ r.profile = t.profile /\ r.title = t.title /\ ~r.overridden
            /\ ctx' = [ctx EXCEPT !.current = Next1.current, !.tab = <<r>>]
        BY <1>4, <2>1, OpenTabTagEffect DEF IInv
    <2>4. /\ ctx'.session = ctx.session /\ ctx'.win = ctx.win /\ ctx'.look = ctx.look
          /\ ctx'.active = ctx.active /\ ctx'.command = NoCommand
          /\ ctx'.current = Next1.current /\ ctx'.tab = <<r>>
        <3>1. ctx \in Context
            BY DEF IInv, Types
        <3> DEFINE rs == <<r>>
        <3> HIDE DEF rs
        <3>2. ctx' = [ctx EXCEPT !.current = Next1.current, !.tab = rs] /\ ctx.command = NoCommand
            BY <2>3 DEF rs, BehindTab
        <3>3. /\ ctx'.session = ctx.session /\ ctx'.win = ctx.win /\ ctx'.look = ctx.look
              /\ ctx'.active = ctx.active /\ ctx'.command = NoCommand
              /\ ctx'.current = Next1.current /\ ctx'.tab = rs
            BY <3>1, <3>2 DEF Context
        <3> QED
            BY <3>3 DEF rs
    <2>5. Inside(i, k)'
        BY <2>1, <2>2, <2>4, InsideStays
    <2>6. InsideTab(i, k, 1)'
        <3>1. Met' = Offset(saved)[i] + 1 + 5 * k + 1
            BY <2>1 DEF BehindTab
        <3>2. Len(ctx'.tab) = 1 /\ ctx'.tab[1] = r
            BY <2>4
        <3>3. ctx'.current <=> k + 1 = u.current
            BY <1>4, <2>4
        <3> QED
            BY <2>1, <2>3, <2>4, <3>1, <3>2, <3>3 DEF InsideTab, u, t
    <2>7. /\ i \in 0 .. Len(saved') - 1 /\ k \in 0 .. Len(saved'[i + 1].tabs) - 1
          /\ 1 \in 1 .. 4
        BY <2>1
    <2> QED
        BY <2>5, <2>6, <2>7 DEF Restoring
<1> QED
    BY <1>2, <1>5, <1>6 DEF Leads

\* Before <command>, <arg> and </command>.
LEMMA InTab ==
    ASSUME IInv, saved # <<>>, NEW i \in 0 .. Len(saved) - 1,
           NEW k \in 0 .. Len(saved[i + 1].tabs) - 1, NEW m \in 1 .. 3,
           Inside(i, k), InsideTab(i, k, m)
    PROVE  Leads
<1> DEFINE u == saved[i + 1]
           t == u.tabs[k + 1]
<1>1. Met = Offset(saved)[i] + 1 + 5 * k + m /\ m \in 0 .. 4
    BY DEF InsideTab
<1>2. /\ Met < Len(file) /\ k \in Nat /\ t \in Tab
    BY <1>1, TabPlaces
<1>3. PICK n : SavedTabAt(file, n, u, k + 1) /\ Next1 = file[n + (m + 1)]
    BY <1>1, TabPlaces
<1>4. /\ m = 1 => Next1 = [tag |-> "command", argc |-> 1]
      /\ m = 2 => Next1 = [tag |-> "arg", s |-> t.command]
      /\ m = 3 => Next1 = [tag |-> "/command"]
    BY <1>3 DEF SavedTabAt
<1>5. t.command \in {"shell", "program"} /\ t.command # NoCommand
    BY <1>2 DEF Tab, NoCommand
<1>6. /\ Len(ctx.tab) = 1 /\ ctx.tab[1].profile = t.profile
      /\ ctx.tab[1].title = t.title /\ ~ctx.tab[1].overridden
      /\ ctx.current <=> k + 1 = u.current
      /\ ctx.command = IF m = 1 THEN NoCommand ELSE IF m = 2 THEN "argc" ELSE t.command
    BY DEF InsideTab
<1> HIDE DEF u, t
<1>7. ctx.tab # <<>>
    BY <1>6
<1>8. Fits(Next1)
    <2>1. CASE m = 1
        BY <1>4, <1>6, <1>7, <2>1, CommandFits
    <2>2. CASE m = 2
        BY <1>4, <1>6, <1>7, <2>2, CommandFits
    <2>3. CASE m = 3
        BY <1>4, <1>5, <1>6, <1>7, <2>3, CommandFits
    <2> QED
        BY <2>1, <2>2, <2>3
<1>9. ASSUME Accepted PROVE Restoring'
    <2>1. /\ Met' = Met + 1 /\ saved' = saved /\ Met \in Nat /\ Head(rest) = Next1
          /\ m = 1 => OpenCommand
          /\ m = 2 => OpenArg
          /\ m = 3 => CloseCommand
        BY <1>4, <1>9, ActionAt DEF IInv
    <2>2. /\ UNCHANGED windows
          /\ ctx'.session = ctx.session /\ ctx'.win = ctx.win /\ ctx'.look = ctx.look
          /\ ctx'.active = ctx.active /\ ctx'.current = ctx.current /\ ctx'.tab = ctx.tab
          /\ ctx'.command = IF m + 1 = 2 THEN "argc" ELSE t.command
        <3>1. ctx \in Context
            BY DEF IInv, Types
        <3>2. CASE m = 1
            BY <2>1, <3>1, <3>2 DEF OpenCommand, Context
        <3>3. CASE m = 2
            <4>1. Head(rest).s = t.command
                BY <1>4, <2>1, <3>3
            <4> QED
                BY <2>1, <3>1, <3>3, <4>1 DEF OpenArg, Context
        <3>4. CASE m = 3
            BY <1>6, <2>1, <3>4 DEF CloseCommand
        <3> QED
            BY <3>2, <3>3, <3>4
    <2>3. Inside(i, k)'
        BY <2>1, <2>2, InsideStays
    <2>4. InsideTab(i, k, m + 1)'
        <3>1. Met' = Offset(saved)[i] + 1 + 5 * k + (m + 1)
            <4> DEFINE a == Offset(saved)[i]
                       b == 5 * k
                       p == Met
            <4>1. a \in Nat /\ b \in Nat /\ p = a + 1 + b + m /\ Met' = p + 1
                BY <1>1, <1>2, <2>1, WindowPlaces
            <4> HIDE DEF a, b, p
            <4>2. Met' = a + 1 + b + (m + 1)
                BY <4>1
            <4> QED
                BY <4>2 DEF a, b
        <3>2. m + 1 # 1
            OBVIOUS
        <3> QED
            BY <1>6, <2>1, <2>2, <3>1, <3>2 DEF InsideTab, u, t
    <2>5. /\ i \in 0 .. Len(saved') - 1 /\ k \in 0 .. Len(saved'[i + 1].tabs) - 1
          /\ m + 1 \in 1 .. 4
        BY <2>1
    <2> QED
        BY <2>3, <2>4, <2>5 DEF Restoring
<1> QED
    BY <1>2, <1>8, <1>9 DEF Leads

\* One more tab is back.
LEMMA TabsBackAppended ==
    ASSUME NEW w \in Window, NEW u, NEW k \in Nat, TabsBack(w, u, k), NEW v,
           v.tabs = Append(w.tabs, Returned(u.tabs[k + 1]))
    PROVE  TabsBack(v, u, k + 1)
<1> DEFINE r == Returned(u.tabs[k + 1])
           ts == w.tabs
<1>1. ts \in Seq(Tab) /\ Len(ts) = k /\ \A j \in 1 .. k : ts[j] = Returned(u.tabs[j])
    BY DEF Window, TabsBack
<1> HIDE DEF r, ts
<1>2. /\ Len(Append(ts, r)) = k + 1 /\ Append(ts, r)[k + 1] = r
      /\ \A j \in 1 .. k : Append(ts, r)[j] = ts[j]
    BY <1>1
<1>3. \A j \in 1 .. k + 1 : j = k + 1 \/ j \in 1 .. k
    OBVIOUS
<1>4. v.tabs = Append(ts, r)
    BY DEF r, ts
<1> QED
    BY <1>1, <1>2, <1>3, <1>4 DEF TabsBack, r

\* Before </tab>.
LEMMA BehindCommand ==
    ASSUME IInv, saved # <<>>, NEW i \in 0 .. Len(saved) - 1,
           NEW k \in 0 .. Len(saved[i + 1].tabs) - 1,
           Inside(i, k), InsideTab(i, k, 4)
    PROVE  Leads
<1> DEFINE u == saved[i + 1]
           t == u.tabs[k + 1]
           x == windows[i + 1]
           o == Offset(saved)[i]
<1>1. Met = o + 1 + 5 * k + 4
    BY DEF InsideTab
<1>2. /\ Met < Len(file) /\ k \in Nat /\ k + 1 \in 1 .. Len(u.tabs) /\ u \in Kept /\ t \in Tab
    BY <1>1, TabPlaces
<1>3. PICK n : SavedTabAt(file, n, u, k + 1) /\ Next1 = file[n + (4 + 1)]
    BY <1>1, TabPlaces
<1>4. Next1 = [tag |-> "/tab"]
    BY <1>3 DEF SavedTabAt
<1>5. t.command \in {"shell", "program"}
    BY <1>2 DEF Tab
<1>6. /\ Len(ctx.tab) = 1 /\ ctx.tab[1].profile = t.profile
      /\ ctx.tab[1].title = t.title /\ ~ctx.tab[1].overridden
      /\ ctx.current <=> k + 1 = u.current
      /\ ctx.command = t.command
    BY DEF InsideTab
<1>7. /\ Len(windows) = i + 1 /\ ctx.session /\ ctx.win /\ ctx.look = u.look
      /\ ctx.active = IF u.current <= k THEN u.current ELSE 0
      /\ "fullscreen" \notin x.look /\ TabsBack(x, u, k)
      /\ \A j \in 1 .. i : WindowBack(windows[j], saved[j])
    BY DEF Inside
<1>8. u.current \in Nat /\ u.current # 0 /\ o \in Nat /\ i \in Nat
    BY <1>2, KeptFacts, WindowPlaces
<1> HIDE DEF u, t, x, o
<1>9. Fits(Next1)
    BY <1>4, <1>6 DEF Fits
<1>10. ASSUME Accepted PROVE Restoring'
    <2>1. CloseTabTag /\ Met' = Met + 1 /\ saved' = saved /\ Types
        BY <1>4, <1>10, ActionAt DEF IInv
    <2>2. Win = i + 1
        BY <1>7 DEF Win
    <2> DEFINE a == IF ctx.current THEN Len(x.tabs) + 1 ELSE ctx.active
               w == Fill(x, TabToOpen)
    <2>3. /\ windows \in Seq(Sound) /\ i + 1 \in DOMAIN windows /\ x \in Window
          /\ ctx.tab[1] \in Tab /\ TabToOpen \in Tab /\ Replaced(i + 1, w)
          /\ ctx' = [ctx EXCEPT !.tab = <<>>, !.command = NoCommand, !.active = a]
        BY <2>1, <2>2, CloseTabTagEffect DEF x
    <2>4. Filled(TabToOpen) = Returned(t)
        <3>1. TabToOpen = [ctx.tab[1] EXCEPT !.command = t.command]
            BY <1>5, <1>6 DEF TabToOpen, NoCommand
        <3>2. ctx.tab[1] \in Tab
            BY <2>3
        <3>3. TabToOpen = [profile |-> t.profile, scheme |-> ctx.tab[1].scheme, overridden |-> FALSE,
                           command |-> t.command, title |-> t.title]
            BY <1>6, <3>1, <3>2 DEF Tab
        <3> DEFINE q == TabToOpen
                   s == SchemeOf[t.profile]
        <3>4. /\ q \in Tab /\ q.profile = t.profile /\ q.overridden = FALSE
              /\ q.command = t.command /\ q.title = t.title
            BY <2>3, <3>3
        <3> HIDE DEF q
        <3>5. Filled(q) = [q EXCEPT !.scheme = s]
            BY <3>4 DEF Filled
        <3> HIDE DEF s
        <3>6. Filled(q) = [profile |-> t.profile, scheme |-> s, overridden |-> FALSE,
                           command |-> t.command, title |-> t.title]
            BY <3>4, <3>5 DEF Tab
        <3> QED
            BY <3>6 DEF Returned, q, s
    <2>5. /\ w \in Sound /\ w.tabs = Append(x.tabs, Returned(t))
          /\ "fullscreen" \notin w.look
        BY <1>7, <2>3, <2>4, FillEffect
    <2> HIDE DEF w
    <2>6. /\ Len(windows') = i + 1 /\ windows'[i + 1] = w
          /\ \A j \in 1 .. i : windows'[j] = windows[j]
        <3>1. \A j \in 1 .. i : j \in DOMAIN windows /\ j # i + 1
            BY <1>7, <1>8, <2>3
        <3>2. /\ Len(windows') = Len(windows) /\ windows'[i + 1] = w
              /\ \A j \in DOMAIN windows : j # i + 1 => windows'[j] = windows[j]
            BY <2>3, <2>5, ReplacedEffect
        <3> QED
            BY <1>7, <3>1, <3>2
    <2>7. TabsBack(w, u, k + 1)
        BY <1>2, <1>7, <2>3, <2>5, TabsBackAppended DEF t
    <2>8. a = IF u.current <= k + 1 THEN u.current ELSE 0
        <3>1. Len(x.tabs) = k
            BY <1>7 DEF TabsBack
        <3> QED
            BY <1>2, <1>6, <1>7, <1>8, <3>1
    <2> HIDE DEF a
    <2>9. /\ ctx'.session /\ ctx'.win /\ ctx'.look = u.look /\ ctx'.active = a
          /\ ctx'.tab = <<>> /\ ctx'.command = NoCommand
        <3>1. ctx \in Context
            BY DEF IInv, Types
        <3> DEFINE none == <<>>
        <3>2. ctx' = [ctx EXCEPT !.tab = none, !.command = NoCommand, !.active = a]
            BY <2>3
        <3> HIDE DEF none
        <3>3. /\ ctx'.session /\ ctx'.win /\ ctx'.look = u.look /\ ctx'.active = a
              /\ ctx'.tab = none /\ ctx'.command = NoCommand
            BY <1>7, <3>1, <3>2 DEF Context
        <3> QED
            BY <3>3 DEF none
    <2>10. Inside(i, k + 1)'
        BY <1>7, <2>1, <2>5, <2>6, <2>7, <2>8, <2>9 DEF Inside, u
    <2>11. BehindTab(i, k + 1)'
        <3>1. Met' = o + 1 + 5 * (k + 1)
            <4> DEFINE p == Met
            <4>1. p = o + 1 + 5 * k + 4 /\ Met' = p + 1
                BY <1>1, <2>1
            <4> HIDE DEF p
            <4> QED
                BY <1>2, <1>8, <4>1
        <3> QED
            BY <2>1, <2>9, <3>1 DEF BehindTab, o
    <2>12. i \in 0 .. Len(saved') - 1 /\ k + 1 \in 0 .. Len(saved'[i + 1].tabs)
        BY <1>2, <2>1 DEF u
    <2> QED
        BY <2>10, <2>11, <2>12 DEF Restoring
<1> QED
    BY <1>2, <1>9, <1>10 DEF Leads

-----------------------------------------------------------------------------
(* The steps of the parser, and the end of the file.                       *)

\* A saved session: the next element fits and leads on, or all is back.
LEMMA RestoringLeads ==
    ASSUME IInv, phase = "loading", saved # <<>>
    PROVE  Leads \/ (Met = Len(file) /\ ~ctx.win /\ AllBack)
<1>1. Restoring
    BY DEF IInv
<1>2. CASE Met = 0 /\ ctx = Blank /\ windows = <<>>
    BY <1>2, AtBeginning
<1>3. ASSUME NEW i \in 0 .. Len(saved), Between(i) PROVE Leads
    <2>1. CASE i = Len(saved)
        BY <1>3, <2>1, BehindAll
    <2>2. CASE i # Len(saved)
        <3>1. i \in 0 .. Len(saved) - 1
            BY <2>2, FileLayout
        <3> QED
            BY <1>3, <3>1, BeforeWindow
    <2> QED
        BY <2>1, <2>2
<1>4. ASSUME NEW i \in 0 .. Len(saved) - 1, NEW k \in 0 .. Len(saved[i + 1].tabs),
             Inside(i, k), BehindTab(i, k)
      PROVE  Leads
    <2>1. CASE k = Len(saved[i + 1].tabs)
        BY <1>4, <2>1, BehindTabs
    <2>2. CASE k # Len(saved[i + 1].tabs)
        <3> DEFINE N == Len(saved[i + 1].tabs)
        <3>1. N \in Nat
            BY WindowPlaces, KeptFacts
        <3>2. k \in 0 .. N - 1
            <4> HIDE DEF N
            <4>1. k \in 0 .. N /\ k # N
                BY <2>2 DEF N
            <4> QED
                BY <3>1, <4>1
        <3> QED
            BY <1>4, <3>2, BeforeTab
    <2> QED
        BY <2>1, <2>2
<1>5. ASSUME NEW i \in 0 .. Len(saved) - 1, NEW k \in 0 .. Len(saved[i + 1].tabs) - 1,
             NEW m \in 1 .. 4, Inside(i, k), InsideTab(i, k, m)
      PROVE  Leads
    <2>1. CASE m = 4
        BY <1>5, <2>1, BehindCommand
    <2>2. CASE m # 4
        <3>1. m \in 1 .. 3
            BY <2>2
        <3> QED
            BY <1>5, <3>1, InTab
    <2> QED
        BY <2>1, <2>2
<1> QED
    BY <1>1, <1>2, <1>3, <1>4, <1>5, Zenon DEF Restoring

\* Every step of the parser.
LEMMA AcceptedKeeps == IInv /\ Accepted => IInv'
<1> SUFFICES ASSUME IInv, Accepted PROVE IInv'
    OBVIOUS
<1>1. phase = "loading" /\ Met \in Nat /\ Met + 1 \in 1 .. Len(file)
    BY ActionAt DEF IInv
<1>2. saved # <<>> => Restoring'
    <2> SUFFICES ASSUME saved # <<>> PROVE Restoring'
        OBVIOUS
    <2>1. Len(file) # Met
        <3> DEFINE p == Met
                   L == Len(file)
        <3>1. p \in Nat /\ p + 1 \in 1 .. L
            BY <1>1
        <3> HIDE DEF p, L
        <3>2. L # p
            BY <3>1
        <3> QED
            BY <3>2 DEF p, L
    <2> QED
        BY <1>1, <2>1, RestoringLeads DEF Leads
<1> QED
    BY <1>2, OpenSessionKeeps, OpenWinKeeps, CloseWinKeeps, OpenTabTagKeeps, CloseTabTagKeeps
       DEF Accepted

\* The parser is at the end when nothing is left.
LEMMA RestEmpty ==
    ASSUME Types
    PROVE  rest = <<>> <=> Met = Len(file)
<1> DEFINE n == Met
           L == Len(file)
<1>1. n \in 0 .. L /\ rest = SubSeq(file, n + 1, L) /\ file \in Seq(Element) /\ L \in Nat
    BY DEF Types
<1>2. rest = <<>> => n = L
    BY <1>1 DEF Met
<1> HIDE DEF n
<1>3. n = L => rest = <<>>
    BY <1>1
<1> QED
    BY <1>2, <1>3 DEF n

\* The process runs after the file, whether it was read or not.
LEMMA RunningAgain ==
    ASSUME IInv, phase' = "running", rest' = <<>>, ctx' = Blank,
           UNCHANGED <<file, changes, saved>>, windows' \in Seq(Sound), AlwaysAWindow'
    PROVE  IInv'
<1>1. file' \in Seq(Element)
    BY DEF IInv, Types
<1>2. Met' \in 0 .. Len(file') /\ rest' = SubSeq(file', Met' + 1, Len(file'))
    BY <1>1, NothingLeft
<1>3. ctx' \in Context /\ ~ctx'.win /\ ctx'.tab = <<>>
    BY BlankType
<1>4. Types'
    BY <1>1, <1>2, <1>3 DEF IInv, Types, Parsing
<1>5. SavedInFile' /\ TabsMet'
    BY DEF IInv, SavedInFile, TabsMet
<1> QED
    BY <1>4, <1>5 DEF IInv

LEMMA LoadFailsKeeps == IInv /\ LoadFails => IInv'
<1> SUFFICES ASSUME IInv, LoadFails PROVE IInv'
    OBVIOUS
<1>1. /\ phase' = "running" /\ rest' = <<>> /\ ctx' = Blank
      /\ windows' = Launch(Default) /\ UNCHANGED <<file, changes, saved>>
    BY DEF LoadFails
<1>2. windows \in Seq(Sound)
    BY DEF IInv, Types
<1>3. windows' \in Seq(Sound) /\ OnScreen'
    BY <1>1, <1>2, ProfilesAssumption, LaunchEffect
<1>4. AlwaysAWindow'
    BY <1>3 DEF AlwaysAWindow
<1> QED
    BY <1>1, <1>3, <1>4, RunningAgain

LEMMA LoadSucceedsKeeps == IInv /\ LoadSucceeds => IInv'
<1> SUFFICES ASSUME IInv, LoadSucceeds PROVE IInv'
    OBVIOUS
<1>1. /\ phase = "loading" /\ rest = <<>> /\ Complete /\ phase' = "running" /\ ctx' = Blank
      /\ UNCHANGED <<windows, rest, file, changes, saved>>
    BY DEF LoadSucceeds
<1>2. /\ windows \in Seq(Sound) /\ file \in Seq(Element) /\ TabsMet /\ Parsing
      /\ Met = Len(file)
    BY <1>1, RestEmpty DEF IInv, Types
<1>3. ~ctx.win /\ ctx.tab = <<>>
    <2>1. file # <<>> /\ file[Len(file)].tag = "/session" /\ Len(file) # 0
        BY <1>1, <1>2 DEF Complete, Last
    <2> QED
        BY <1>1, <1>2, <2>1 DEF TabsMet, Parsing
<1>4. OnScreen \/ \A e \in ToSet(file) : e.tag # "tab"
    <2>1. (\E p \in 1 .. Len(file) : file[p].tag = "tab") => OnScreen
        BY <1>1, <1>2, <1>3 DEF TabsMet, TabKnown
    <2>2. \A e \in ToSet(file) : \E p \in 1 .. Len(file) : e = file[p]
        BY <1>2 DEF ToSet
    <2> QED
        BY <2>1, <2>2
<1>5. AlwaysAWindow'
    BY <1>1, <1>4 DEF AlwaysAWindow, OnScreen, Complete
<1> QED
    BY <1>1, <1>2, <1>5, RunningAgain

-----------------------------------------------------------------------------
(* The specification.                                                      *)

LEMMA InitIInv == Init => IInv
<1> SUFFICES ASSUME Init PROVE IInv
    OBVIOUS
<1> DEFINE f == Fill(BlankWindow({}), NewTab(Default))
           w == [f EXCEPT !.shown = TRUE]
<1>1. /\ windows = <<w>> /\ phase = "running" /\ rest = <<>> /\ ctx = Blank
      /\ file = <<>> /\ saved = <<>> /\ changes = 0
    BY DEF Init
<1>2. w \in Sound /\ w.shown
    <2>1. {} \in Look /\ Default \in Profiles
        BY ProfilesAssumption DEF Look
    <2>2. BlankWindow({}) \in Window /\ NewTab(Default) \in Tab
        BY <2>1, BlankWindowType, NewTabType DEF Sound
    <2>3. f \in Sound /\ HasTabs(f)
        BY <2>2, FillEffect
    <2> HIDE DEF f
    <2>4. w \in Window /\ w.tabs = f.tabs /\ w.current = f.current /\ w.shown
        BY <2>3 DEF Sound, Window
    <2> HIDE DEF w
    <2> QED
        BY <2>3, <2>4 DEF Sound, HasTabs
<1> HIDE DEF w
<1>3. windows \in Seq(Sound) /\ windows # <<>> /\ 1 \in DOMAIN windows /\ windows[1] = w
    BY <1>1, <1>2
<1>4. OnScreen
    BY <1>2, <1>3, Shown
<1>5. /\ file \in Seq(Element) /\ saved \in Seq(Kept) /\ Len(file) = 0 /\ Len(rest) = 0
      /\ changes \in 0 .. MaxChanges
    BY <1>1, BoundsAssumption
<1>6. Met \in 0 .. Len(file) /\ rest = SubSeq(file, Met + 1, Len(file))
    <2>1. Met = 0
        BY <1>5 DEF Met
    <2>2. rest = SubSeq(file, 1, 0)
        BY <1>1
    <2> QED
        BY <1>5, <2>1, <2>2
<1>7. Types
    BY <1>1, <1>3, <1>5, <1>6, BlankType DEF Types, Parsing
<1> QED
    BY <1>1, <1>4, <1>7 DEF IInv, SavedInFile, AlwaysAWindow, TabsMet

\* The disjuncts of Next.
LEMMA NextCases ==
    ASSUME Next
    PROVE  \/ \E p \in Profiles : OpenWindow(p)
           \/ \E i \in DOMAIN windows : windows[i].shown /\ UserAction(i)
           \/ Save
           \/ SaveCut
           \/ Quit
           \/ Start
           \/ \E f \in Foreign : PutFile(f)
           \/ Accepted
           \/ LoadFails
           \/ LoadSucceeds
BY Zenon DEF Next, UserAction

LEMMA StepKeeps == IInv /\ [Next]_vars => IInv'
<1> SUFFICES ASSUME IInv, [Next]_vars PROVE IInv'
    OBVIOUS
<1>1. CASE UNCHANGED vars
    <2>1. UNCHANGED <<windows, phase, rest, ctx, file, changes, saved>>
        BY <1>1 DEF vars
    <2>2. Types' /\ SavedInFile' /\ AlwaysAWindow'
        BY <2>1 DEF IInv, Types, Parsing, Win, Met, SavedInFile, AlwaysAWindow, OnScreen, Complete
    <2>3. Met' = Met /\ (TabKnown <=> TabKnown')
        BY <2>1 DEF Met, TabKnown, OnScreen, Win
    <2>4. TabsMet'
        BY <2>1, <2>3 DEF IInv, TabsMet
    <2>5. Restoring => Restoring'
        <3>1. AllBack => AllBack'
            BY <2>1 DEF AllBack
        <3>2. \A i : Between(i) => Between(i)'
            BY <2>1, <2>3 DEF Between
        <3>3. \A i, k : Inside(i, k) => Inside(i, k)'
            BY <2>1 DEF Inside
        <3>4. \A i, k : BehindTab(i, k) => BehindTab(i, k)'
            BY <2>1, <2>3 DEF BehindTab
        <3>5. \A i, k, m : InsideTab(i, k, m) => InsideTab(i, k, m)'
            BY <2>1, <2>3 DEF InsideTab
        <3> QED
            BY <2>1, <2>3, <3>1, <3>2, <3>3, <3>4, <3>5 DEF Restoring
    <2> QED
        BY <2>1, <2>2, <2>4, <2>5 DEF IInv
<1>2. CASE Next
    <2>1. ASSUME NEW p \in Profiles, OpenWindow(p) PROVE IInv'
        BY <2>1, OpenWindowKeeps
    <2>2. ASSUME NEW i \in DOMAIN windows, windows[i].shown, UserAction(i) PROVE IInv'
        BY <2>2, UserKeeps
    <2>3. ASSUME NEW f \in Foreign, PutFile(f) PROVE IInv'
        BY <2>3, PutFileKeeps
    <2> QED
        BY <1>2, <2>1, <2>2, <2>3, NextCases, SaveKeeps, SaveCutKeeps, QuitKeeps, StartKeeps,
           AcceptedKeeps, LoadFailsKeeps, LoadSucceedsKeeps, Zenon
<1> QED
    BY <1>1, <1>2

LEMMA Invariance == Spec => []IInv
<1> QED
    BY InitIInv, StepKeeps, PTL DEF Spec

\* Every state is one of the declared kind: a window on top of its tabs, a
\* context with at most the tab that is being read, and the elements the parser
\* has yet to meet are the end of the file.
THEOREM TypesCorrect == Spec => []TypeOK
<1>1. IInv => TypeOK
    <2> SUFFICES ASSUME IInv PROVE TypeOK
        OBVIOUS
    <2>1. /\ windows \in Seq(Sound) /\ saved \in Seq(Kept)
          /\ phase \in {"running", "off", "loading"} /\ ctx \in Context /\ file \in Seq(Element)
          /\ Met \in 0 .. Len(file) /\ rest = SubSeq(file, Met + 1, Len(file))
          /\ changes \in 0 .. MaxChanges
        BY DEF IInv, Types
    <2>2. Sound \subseteq Window /\ Kept \subseteq Window
        BY DEF Sound, Kept
    <2>3. windows \in Seq(Window) /\ saved \in Seq(Window)
        BY <2>1, <2>2
    <2>4. \A w \in Sound : w.current \in 0 .. Len(w.tabs)
        <3> SUFFICES ASSUME NEW w \in Sound PROVE w.current \in 0 .. Len(w.tabs)
            OBVIOUS
        <3>1. Len(w.tabs) \in Nat
            BY DEF Sound, Window
        <3>2. w.current = 0 \/ w.current \in 1 .. Len(w.tabs)
            BY DEF Sound
        <3> QED
            BY <3>1, <3>2
    <2>5. \A w \in ToSet(windows) : w \in Sound
        BY <2>1 DEF ToSet
    <2> QED
        BY <2>1, <2>3, <2>4, <2>5 DEF TypeOK
<1> QED
    BY <1>1, Invariance, PTL

\* Whatever was in the session file, the process that has read it shows a
\* window, unless the file is complete and has no tab in it.
THEOREM WindowCorrect == Spec => []AlwaysAWindow
<1>1. IInv => AlwaysAWindow
    BY DEF IInv
<1> QED
    BY <1>1, Invariance, PTL

\* A session that was saved completely is read to its end without error.
LEMMA RestoredStep ==
    ASSUME IInv, [Next]_vars, Restored
    PROVE  AllBack /\ windows' = windows /\ saved \in Seq(Kept)
<1>1. phase = "loading" /\ phase' = "running" /\ saved # <<>> /\ saved \in Seq(Kept) /\ Types
    BY DEF Restored, IInv, Types
<1>2. Next
    BY <1>1 DEF vars
<1>3. LoadFails \/ LoadSucceeds
    <2>1. ASSUME NEW p \in Profiles, OpenWindow(p) PROVE FALSE
        BY <1>1, <2>1 DEF OpenWindow, Act
    <2>2. ASSUME NEW i, UserAction(i) PROVE FALSE
        BY <1>1, <2>2 DEF UserAction, OpenTab, NameTab, RunProgram, SelectTab, SelectScheme,
                          ToggleLook, Act
    <2>3. ASSUME NEW f, PutFile(f) PROVE FALSE
        BY <1>1, <2>3 DEF PutFile
    <2>4. ~Save /\ ~SaveCut /\ ~Quit /\ ~Start
        BY <1>1 DEF Save, SaveCut, Quit, Start
    <2>5. ~Accepted
        <3>1. ASSUME NEW tag, At(tag) PROVE FALSE
            BY <1>1, <3>1 DEF At
        <3> QED
            BY <3>1 DEF Accepted, OpenSession, CloseSession, OpenWin, CloseWin, OpenTabTag,
                        CloseTabTag, OpenCommand, OpenArg, CloseCommand
    <2> QED
        BY <1>2, <2>1, <2>2, <2>3, <2>4, <2>5, NextCases, Zenon
<1>4. Leads => rest # <<>> /\ Fits(Head(rest))
    <2> SUFFICES ASSUME Leads PROVE rest # <<>> /\ Fits(Head(rest))
        OBVIOUS
    <2>1. Met # Len(file)
        <3>1. Met < Len(file) /\ Len(file) \in Int
            BY <1>1 DEF Leads, Types
        <3> DEFINE p == Met
                   L == Len(file)
        <3>2. p < L /\ L \in Int
            BY <3>1
        <3> HIDE DEF p, L
        <3>3. p # L
            BY <3>2
        <3> QED
            BY <3>3 DEF p, L
    <2>2. rest # <<>>
        BY <1>1, <2>1, RestEmpty
    <2>3. Head(rest) = Next1
        BY <1>1, <2>2, AtElement
    <2> QED
        BY <2>2, <2>3 DEF Leads
<1>5. Met = Len(file) => rest = <<>> /\ Complete
    <2>1. Met = Len(file) => rest = <<>>
        BY <1>1, RestEmpty
    <2>2. file[Len(file)] = [tag |-> "/session"] /\ file[1] = [tag |-> "session"]
          /\ file \in Seq(Element)
        BY <1>1, FileLayout DEF Types
    <2>3. Len(file) \in Nat /\ Len(file) # 0
        <3>1. Met \in 0 .. Len(file) /\ file \in Seq(Element)
            BY <1>1 DEF Types
        <3>2. Len(file) # 0
            BY <1>1, FileLayout
        <3> QED
            BY <3>1, <3>2
    <2>4. Complete
        BY <2>2, <2>3 DEF Complete, Last
    <2> QED
        BY <2>1, <2>4
<1>6. Leads \/ (Met = Len(file) /\ AllBack)
    BY <1>1, RestoringLeads
<1>7. ~LoadFails
    BY <1>4, <1>5, <1>6 DEF LoadFails
<1>8. LoadSucceeds /\ rest = <<>>
    BY <1>3, <1>7 DEF LoadSucceeds
<1> QED
    BY <1>1, <1>4, <1>6, <1>8 DEF LoadSucceeds

\* A tab comes back but for its colour scheme.
LEMMA ReturnedTab ==
    ASSUME NEW u \in Tab
    PROVE  /\ [Returned(u) EXCEPT !.scheme = u.scheme, !.overridden = u.overridden] = u
           /\ Returned(u).scheme = SchemeOf[u.profile]
<1> DEFINE r == Returned(u)
           s == u.scheme
           o == u.overridden
<1>1. /\ u \in Tab /\ r \in [profile : Profiles, scheme : {SchemeOf[u.profile]},
                            overridden : BOOLEAN, command : {"shell", "program"},
                            title : {"profile's", "own"}]
      /\ r.profile = u.profile /\ r.command = u.command /\ r.title = u.title
      /\ r.scheme = SchemeOf[u.profile]
    BY DEF Returned, Tab
<1>2. u = [profile |-> u.profile, scheme |-> s, overridden |-> o, command |-> u.command,
           title |-> u.title]
    BY DEF Tab
<1> HIDE DEF r, s, o
<1> DEFINE q == [r EXCEPT !.scheme = s]
<1>3. /\ q \in [profile : Profiles, scheme : {s}, overridden : BOOLEAN,
                command : {"shell", "program"}, title : {"profile's", "own"}]
      /\ q.profile = u.profile /\ q.scheme = s /\ q.command = u.command /\ q.title = u.title
    BY <1>1
<1> HIDE DEF q
<1>4. [q EXCEPT !.overridden = o]
        = [profile |-> u.profile, scheme |-> s, overridden |-> o, command |-> u.command,
           title |-> u.title]
    BY <1>3
<1>5. [r EXCEPT !.scheme = s, !.overridden = o] = [q EXCEPT !.overridden = o]
    BY DEF q
<1> QED
    BY <1>1, <1>2, <1>4, <1>5 DEF r, s, o

\* A session that was saved completely is read without an error, and the windows
\* come back as many and in the order they were, each with the same tabs on the
\* screen and the same one on top; a tab has its profile, title and program, and
\* its colour scheme when that was its profile's.
THEOREM RestoreCorrect == Spec => RestoredAsSaved
<1>1. ASSUME IInv, [Next]_vars, Restored
      PROVE  /\ Len(windows') = Len(saved)
             /\ \A i \in DOMAIN saved :
                  /\ windows'[i].shown
                  /\ windows'[i].current = saved[i].current
                  /\ "fullscreen" \in windows'[i].look <=> "fullscreen" \in saved[i].look
                  /\ Len(windows'[i].tabs) = Len(saved[i].tabs)
                  /\ \A k \in DOMAIN saved[i].tabs :
                       LET t == windows'[i].tabs[k]
                           u == saved[i].tabs[k]
                       IN  /\ [t EXCEPT !.scheme = u.scheme, !.overridden = u.overridden] = u
                           /\ KeepsScheme(u) => t.scheme = u.scheme
    <2>1. AllBack /\ windows' = windows /\ saved \in Seq(Kept)
        BY <1>1, RestoredStep
    <2>2. Len(windows') = Len(saved)
        BY <2>1 DEF AllBack
    <2>3. ASSUME NEW i \in DOMAIN saved
          PROVE  /\ windows'[i].shown
                 /\ windows'[i].current = saved[i].current
                 /\ "fullscreen" \in windows'[i].look <=> "fullscreen" \in saved[i].look
                 /\ Len(windows'[i].tabs) = Len(saved[i].tabs)
        BY <2>1 DEF AllBack, WindowBack, TabsBack
    <2>4. ASSUME NEW i \in DOMAIN saved, NEW k \in DOMAIN saved[i].tabs
          PROVE  LET t == windows'[i].tabs[k]
                     u == saved[i].tabs[k]
                 IN  /\ [t EXCEPT !.scheme = u.scheme, !.overridden = u.overridden] = u
                     /\ KeepsScheme(u) => t.scheme = u.scheme
        <3>1. saved[i] \in Kept /\ i \in 1 .. Len(saved)
            BY <2>1
        <3>2. k \in 1 .. Len(saved[i].tabs) /\ saved[i].tabs[k] \in Tab
            BY <3>1, KeptFacts
        <3>3. windows'[i].tabs[k] = Returned(saved[i].tabs[k])
            BY <2>1, <3>1, <3>2 DEF AllBack, WindowBack, TabsBack
        <3> DEFINE u == saved[i].tabs[k]
                   t == windows'[i].tabs[k]
        <3> HIDE DEF u, t
        <3>4. /\ [t EXCEPT !.scheme = u.scheme, !.overridden = u.overridden] = u
              /\ KeepsScheme(u) => t.scheme = u.scheme
            BY <3>2, <3>3, ReturnedTab DEF KeepsScheme, u, t
        <3> QED
            BY <3>4 DEF u, t
    <2> QED
        BY <2>2, <2>3, <2>4, Zenon
<1>2. IInv /\ [Next]_vars => [Restored =>
         /\ Len(windows') = Len(saved)
         /\ \A i \in DOMAIN saved :
              /\ windows'[i].shown
              /\ windows'[i].current = saved[i].current
              /\ "fullscreen" \in windows'[i].look <=> "fullscreen" \in saved[i].look
              /\ Len(windows'[i].tabs) = Len(saved[i].tabs)
              /\ \A k \in DOMAIN saved[i].tabs :
                   LET t == windows'[i].tabs[k]
                       u == saved[i].tabs[k]
                   IN  /\ [t EXCEPT !.scheme = u.scheme, !.overridden = u.overridden] = u
                       /\ KeepsScheme(u) => t.scheme = u.scheme]_vars
    BY <1>1
<1> QED
    BY <1>2, Invariance, PTL DEF Spec, RestoredAsSaved
===============================================================================
