------------------------ MODULE ColourSchemes_proofs ------------------------
(***************************************************************************)
(* The dialog shows the file, colours that track the palette agree with it *)
(* and the terminals show what the file says, for any colours, any schemes *)
(* to begin with, any number of terminals and of changes.                  *)
(*                                                                         *)
(* A handler of the dialog saves and sends in the middle of another, so    *)
(* each operator has a lemma that says what it makes of any editor: what   *)
(* is left alone, and that what it saved is what it sent.                  *)
(***************************************************************************)
EXTENDS ColourSchemes, SequenceTheorems, TLAPS

-----------------------------------------------------------------------------
(* The inductive invariant.                                                *)

\* The buttons of palette entries have their colours, whether the file names
\* those or not.
EntriesShown(e) == \A k \in Entries : e.button[k] = Entry(e.kf, k)

\* A palette is used as long as the toggle button says so.
PaletteUsed(e) == "use_custom_colours" \in e.on <=> e.kf.size # 0

\* The text and background that track a palette are set, and are its entries.
Tracks(e) ==
    "fgbg_track_palette" \in e.on =>
      /\ "set_fgbg" \in e.on /\ e.kf.size # 0
      /\ e.kf.colour["foreground"] = Entry(e.kf, "0")
      /\ e.kf.colour["background"] = Entry(e.kf, "7")

\* DialogShowsFile, of an editor and its key file: the named colours, ...
NamedShown(e) ==
    /\ "set_fgbg" \in e.on <=> \/ e.kf.colour["foreground"] # Unset
                               \/ e.kf.colour["background"] # Unset
    /\ "set_cursor_colour" \in e.on <=> e.kf.colour["cursor"] # Unset
    /\ "set_bold_colour" \in e.on <=> e.kf.colour["bold"] # Unset
    /\ \A k \in Named : e.kf.colour[k] \in {Unset, e.button[k]}

\* ... and the size of the palette.
Shows(e) == NamedShown(e) /\ e.kf.size \in {0, e.radio}

Settled(e) == EntriesShown(e) /\ PaletteUsed(e) /\ Tracks(e)

\* The places in q of the signals about k.
About(q, k) == {i \in 1 .. Len(q) : q[i].key = k}

\* The last of the signals about k in q, if there is one, says v.
Latest(q, k, v) == \A i \in About(q, k) : (\A j \in About(q, k) : j <= i) => q[i].value = v

\* What is on the bus about a key ends with what the file says.
BusTells == \A k \in Keys : Latest(bus, k, file.colour[k])

\* What a scheme says of k, a missing entry being its default.
Says(s, k) == IF k \in Entries THEN Entry(s, k) ELSE s.colour[k]

SchemeFollows == users # {} =>
    \A k \in Keys : About(bus, k) = {} => Says(scheme, k) = Says(file, k)

\* What a terminal shows of the scheme.
ShownFollows == \A t \in users, k \in Keys :
    \/ k \in Pairs /\ shown[t][k] = scheme.colour[k]
    \/ k = "bold" /\ (scheme.colour[k] = Unset \/ shown[t][k] = scheme.colour[k])
    \/ k \in Entries /\ shown[t][k] \in {Unset, Entry(scheme, k)}

IInv == /\ TypeOK /\ editor.kf = file
        /\ editor.open => Settled(editor) /\ (~reverted => Shows(editor))
        /\ BusTells /\ SchemeFollows /\ ShownFollows

-----------------------------------------------------------------------------
(* Steps of handlers, each changing one part of the editor.                *)

LEMMA Kinds ==
    /\ Unset \notin Colour /\ Keys \subseteq Colour /\ Named \cap Entries = {}
    /\ Keys = Named \cup Entries /\ Pairs \subseteq Named /\ "bold" \in Named
BY ColoursAssumption DEF Unset, Colour, Keys, Named, Entries, Pairs

\* The dialog, its radio buttons and its rows stay as they are.
Frame(e, x) == x.open = e.open /\ x.radio = e.radio /\ x.rows = e.rows

\* A colour of the key file is x's, and its other colours are e's.
ColourSet(e, x, k, c) == /\ x.kf.size = e.kf.size /\ x.kf.colour[k] = c
                         /\ \A l \in Keys \ {k} : x.kf.colour[l] = e.kf.colour[l]

StringSet(e, x, k, c) ==
    /\ x \in Editor /\ Frame(e, x) /\ ColourSet(e, x, k, c)
    /\ x.cache = e.cache /\ x.button = e.button /\ x.on = e.on
    /\ x.sent = Append(e.sent, [key |-> k, value |-> c, size |-> 0])

SizeSet(e, x, n) ==
    /\ x \in Editor /\ Frame(e, x)
    /\ x.kf.colour = e.kf.colour /\ x.kf.size = n
    /\ x.cache = e.cache /\ x.button = e.button /\ x.on = e.on
    /\ x.sent = Append(e.sent, [key |-> "palette_size", value |-> Unset, size |-> n])

CacheSet(e, x, k, c) ==
    /\ x \in Editor /\ Frame(e, x)
    /\ x.cache[k] = c /\ \A l \in Named \ {k} : x.cache[l] = e.cache[l]
    /\ x.kf = e.kf /\ x.button = e.button /\ x.on = e.on /\ x.sent = e.sent

ButtonSet(e, x, k, c) ==
    /\ x \in Editor /\ Frame(e, x)
    /\ x.button[k] = c /\ \A l \in Keys \ {k} : x.button[l] = e.button[l]
    /\ x.kf = e.kf /\ x.cache = e.cache /\ x.on = e.on /\ x.sent = e.sent

EntrySet(e, x, k, c) ==
    /\ x \in Editor /\ Frame(e, x) /\ ColourSet(e, x, k, c)
    /\ x.cache = e.cache /\ x.button = e.button /\ x.on = e.on /\ x.sent = e.sent

ToggleSet(e, x, t, state) ==
    /\ x \in Editor /\ Frame(e, x)
    /\ (t \in x.on) <=> state
    /\ \A u \in Toggles \ {t} : (u \in x.on) <=> (u \in e.on)
    /\ x.kf = e.kf /\ x.cache = e.cache /\ x.button = e.button /\ x.sent = e.sent

LEMMA SetStringEffect ==
    ASSUME NEW e \in Editor, NEW k \in Keys, NEW c \in Colour \cup {Unset}
    PROVE  StringSet(e, SetString(e, k, c), k, c)
<1> DEFINE f == [e.kf.colour EXCEPT ![k] = c]
           s == [e.kf EXCEPT !.colour = f]
           q == Append(e.sent, [key |-> k, value |-> c, size |-> 0])
           x == [e EXCEPT !.kf = s, !.sent = q]
<1>1. /\ f \in [Keys -> Colour \cup {Unset}] /\ f[k] = c
      /\ \A l \in Keys \ {k} : f[l] = e.kf.colour[l]
    BY DEF Editor, Scheme
<1>2. q \in Seq(Signal)
    <2>1. [key |-> k, value |-> c, size |-> 0] \in Signal
        BY DEF Signal, Sizes
    <2> QED
        BY <2>1 DEF Editor
<1>3. SetString(e, k, c) = x
    BY DEF SetString
<1> HIDE DEF f, q
<1>4. s \in Scheme /\ s.colour = f /\ s.size = e.kf.size
    BY <1>1 DEF Editor, Scheme
<1> HIDE DEF s
<1>5. /\ x \in Editor /\ x.kf = s /\ x.sent = q /\ x.cache = e.cache /\ x.button = e.button
      /\ x.on = e.on /\ x.open = e.open /\ x.radio = e.radio /\ x.rows = e.rows
    BY <1>2, <1>4 DEF Editor
<1> HIDE DEF x
<1>9. StringSet(e, x, k, c)
    BY <1>1, <1>4, <1>5 DEF q, Frame, StringSet, ColourSet
<1> QED
    BY <1>3, <1>9, Zenon

LEMMA SetSizeEffect ==
    ASSUME NEW e \in Editor, NEW n \in Sizes
    PROVE  SizeSet(e, SetPaletteSize(e, n), n)
<1> DEFINE s == [e.kf EXCEPT !.size = n]
           q == Append(e.sent, [key |-> "palette_size", value |-> Unset, size |-> n])
           x == [e EXCEPT !.kf = s, !.sent = q]
<1>1. q \in Seq(Signal)
    <2>1. [key |-> "palette_size", value |-> Unset, size |-> n] \in Signal
        BY DEF Signal
    <2> QED
        BY <2>1 DEF Editor
<1>2. SetPaletteSize(e, n) = x
    BY DEF SetPaletteSize
<1> HIDE DEF q
<1>3. s \in Scheme /\ s.colour = e.kf.colour /\ s.size = n
    BY DEF Editor, Scheme
<1> HIDE DEF s
<1>4. /\ x \in Editor /\ x.kf = s /\ x.sent = q /\ x.cache = e.cache /\ x.button = e.button
      /\ x.on = e.on /\ x.open = e.open /\ x.radio = e.radio /\ x.rows = e.rows
    BY <1>1, <1>3 DEF Editor
<1> HIDE DEF x
<1>9. SizeSet(e, x, n)
    BY <1>3, <1>4 DEF q, Frame, SizeSet
<1> QED
    BY <1>2, <1>9, Zenon

LEMMA CacheEffect ==
    ASSUME NEW e \in Editor, NEW k \in Named, NEW c \in Colour \cup {Unset}
    PROVE  CacheSet(e, Cache(e, k, c), k, c)
<1> DEFINE f == [e.cache EXCEPT ![k] = c]
           x == [e EXCEPT !.cache = f]
<1>1. /\ f \in [Named -> Colour \cup {Unset}] /\ f[k] = c
      /\ \A l \in Named \ {k} : f[l] = e.cache[l]
    BY DEF Editor
<1>2. Cache(e, k, c) = x
    BY DEF Cache
<1> HIDE DEF f
<1>3. /\ x \in Editor /\ x.cache = f /\ x.kf = e.kf /\ x.sent = e.sent /\ x.button = e.button
      /\ x.on = e.on /\ x.open = e.open /\ x.radio = e.radio /\ x.rows = e.rows
    BY <1>1 DEF Editor
<1> HIDE DEF x
<1>9. CacheSet(e, x, k, c)
    BY <1>1, <1>3 DEF Frame, CacheSet
<1> QED
    BY <1>2, <1>9, Zenon

LEMMA ButtonEffect ==
    ASSUME NEW e \in Editor, NEW k \in Keys, NEW c \in Colour
    PROVE  ButtonSet(e, [e EXCEPT !.button[k] = c], k, c)
<1> DEFINE f == [e.button EXCEPT ![k] = c]
           x == [e EXCEPT !.button = f]
<1>1. /\ f \in [Keys -> Colour] /\ f[k] = c
      /\ \A l \in Keys \ {k} : f[l] = e.button[l]
    BY DEF Editor
<1>2. [e EXCEPT !.button[k] = c] = x
    OBVIOUS
<1> HIDE DEF f
<1>3. /\ x \in Editor /\ x.button = f /\ x.kf = e.kf /\ x.sent = e.sent /\ x.cache = e.cache
      /\ x.on = e.on /\ x.open = e.open /\ x.radio = e.radio /\ x.rows = e.rows
    BY <1>1 DEF Editor
<1> HIDE DEF x
<1>9. ButtonSet(e, x, k, c)
    BY <1>1, <1>3 DEF Frame, ButtonSet
<1> QED
    BY <1>2, <1>9, Zenon

LEMMA EntryEffect ==
    ASSUME NEW e \in Editor, NEW k \in Keys, NEW c \in Colour
    PROVE  EntrySet(e, [e EXCEPT !.kf.colour[k] = c], k, c)
<1> DEFINE f == [e.kf.colour EXCEPT ![k] = c]
           s == [e.kf EXCEPT !.colour = f]
           x == [e EXCEPT !.kf = s]
<1>1. /\ f \in [Keys -> Colour \cup {Unset}] /\ f[k] = c
      /\ \A l \in Keys \ {k} : f[l] = e.kf.colour[l]
    BY DEF Editor, Scheme
<1>2. [e EXCEPT !.kf.colour[k] = c] = x
    OBVIOUS
<1> HIDE DEF f
<1>3. s \in Scheme /\ s.colour = f /\ s.size = e.kf.size
    BY <1>1 DEF Editor, Scheme
<1> HIDE DEF s
<1>4. /\ x \in Editor /\ x.kf = s /\ x.sent = e.sent /\ x.cache = e.cache /\ x.button = e.button
      /\ x.on = e.on /\ x.open = e.open /\ x.radio = e.radio /\ x.rows = e.rows
    BY <1>3 DEF Editor
<1> HIDE DEF x
<1>9. EntrySet(e, x, k, c)
    BY <1>1, <1>3, <1>4 DEF Frame, EntrySet, ColourSet
<1> QED
    BY <1>2, <1>9, Zenon

LEMMA TickedEffect ==
    ASSUME NEW e \in Editor, NEW t \in Toggles, NEW state \in BOOLEAN
    PROVE  ToggleSet(e, Ticked(e, t, state), t, state)
<1> DEFINE ts == IF state THEN e.on \cup {t} ELSE e.on \ {t}
           x == [e EXCEPT !.on = ts]
<1>1. ts \in SUBSET Toggles
    BY DEF Editor
<1>2. (t \in ts) <=> state
    OBVIOUS
<1>3. \A u \in Toggles \ {t} : (u \in ts) <=> (u \in e.on)
    OBVIOUS
<1>4. Ticked(e, t, state) = x
    BY DEF Ticked
<1> HIDE DEF ts
<1>5. /\ x \in Editor /\ x.on = ts /\ x.kf = e.kf /\ x.sent = e.sent /\ x.cache = e.cache
      /\ x.button = e.button /\ x.open = e.open /\ x.radio = e.radio /\ x.rows = e.rows
    BY <1>1 DEF Editor
<1> HIDE DEF x
<1>6. Frame(e, x)
    BY <1>5 DEF Frame
<1>7. (t \in x.on) <=> state
    BY <1>2, <1>5, Zenon
<1>8. \A u \in Toggles \ {t} : (u \in x.on) <=> (u \in e.on)
    BY <1>3, <1>5, Zenon
<1>9. ToggleSet(e, x, t, state)
    BY <1>5, <1>6, <1>7, <1>8, Zenon DEF Frame, ToggleSet
<1> QED
    BY <1>4, <1>9, Zenon

-----------------------------------------------------------------------------
(* Queues of signals.                                                      *)

LEMMA AppendAbout ==
    ASSUME NEW q \in Seq(Signal), NEW s \in Signal, NEW k, NEW v
    PROVE  /\ s.key # k => About(Append(q, s), k) = About(q, k)
           /\ s.key # k /\ Latest(q, k, v) => Latest(Append(q, s), k, v)
           /\ s.key = k => /\ About(Append(q, s), k) # {}
                           /\ Latest(Append(q, s), k, s.value)
<1> DEFINE r == Append(q, s)
<1>1. /\ Len(q) \in Nat /\ Len(r) = Len(q) + 1 /\ r[Len(q) + 1] = s
      /\ \A i \in 1 .. Len(q) : r[i] = q[i]
    BY AppendProperties, LenProperties
<1> HIDE DEF r
<1>2. ASSUME s.key # k PROVE About(r, k) = About(q, k)
    BY <1>1, <1>2 DEF About
<1>3. ASSUME s.key # k, Latest(q, k, v) PROVE Latest(r, k, v)
    <2>1. \A i \in About(q, k) : r[i] = q[i]
        BY <1>1 DEF About
    <2> QED
        BY <1>2, <1>3, <2>1 DEF Latest
<1>4. ASSUME s.key = k PROVE About(r, k) # {} /\ Latest(r, k, s.value)
    <2>1. Len(q) + 1 \in About(r, k)
        BY <1>1, <1>4 DEF About
    <2>2. \A i \in About(r, k) : Len(q) + 1 <= i => i = Len(q) + 1
        BY <1>1 DEF About
    <2> QED
        BY <1>1, <2>1, <2>2 DEF Latest
<1> QED
    BY <1>2, <1>3, <1>4 DEF r

LEMMA JoinedAbout ==
    ASSUME NEW b \in Seq(Signal), NEW q \in Seq(Signal), NEW k, NEW old, NEW v,
           Latest(b, k, old), Latest(q, k, v), About(q, k) = {} => v = old
    PROVE  /\ Latest(b \o q, k, v)
           /\ About(b \o q, k) = {} => About(b, k) = {} /\ About(q, k) = {}
<1> DEFINE r == b \o q
<1>1. /\ Len(b) \in Nat /\ Len(q) \in Nat /\ Len(r) = Len(b) + Len(q)
      /\ \A i \in 1 .. Len(b) : r[i] = b[i]
      /\ \A i \in Len(b) + 1 .. Len(b) + Len(q) : r[i] = q[i - Len(b)]
    BY ConcatProperties, LenProperties
<1> HIDE DEF r
<1>2. \A i \in About(b, k) : i \in About(r, k)
    BY <1>1 DEF About
<1>3. \A i \in About(q, k) : Len(b) + i \in About(r, k)
    <2> SUFFICES ASSUME NEW i \in About(q, k) PROVE Len(b) + i \in About(r, k)
        OBVIOUS
    <2>1. i \in 1 .. Len(q) /\ q[i].key = k
        BY DEF About
    <2>2. Len(b) + i \in Len(b) + 1 .. Len(b) + Len(q) /\ (Len(b) + i) - Len(b) = i
        BY <1>1, <2>1
    <2>3. r[Len(b) + i] = q[i]
        BY <1>1, <2>2
    <2> QED
        BY <1>1, <2>1, <2>2, <2>3 DEF About
<1>4. ASSUME NEW i \in About(r, k), \A j \in About(r, k) : j <= i PROVE r[i].value = v
    <2>0. i \in 1 .. Len(r) /\ r[i].key = k
        BY DEF About
    <2>1. CASE i \in 1 .. Len(b)
        <3>1. i \in About(b, k) /\ r[i] = b[i]
            BY <1>1, <2>0, <2>1 DEF About
        <3>2. \A j \in About(b, k) : j <= i
            BY <1>2, <1>4
        <3>3. About(q, k) = {}
            <4> SUFFICES ASSUME NEW j \in About(q, k) PROVE FALSE
                OBVIOUS
            <4>1. Len(b) + j <= i /\ j \in 1 .. Len(q)
                BY <1>3, <1>4 DEF About
            <4> QED
                BY <1>1, <2>1, <4>1
        <3> QED
            BY <3>1, <3>2, <3>3 DEF Latest
    <2>2. CASE i \in Len(b) + 1 .. Len(b) + Len(q)
        <3> DEFINE m == i - Len(b)
        <3>1. m \in 1 .. Len(q) /\ i = Len(b) + m /\ r[i] = q[m]
            BY <1>1, <2>2
        <3>2. m \in About(q, k)
            BY <2>0, <3>1 DEF About
        <3>3. ASSUME NEW j \in About(q, k) PROVE j <= m
            <4>1. Len(b) + j <= i /\ j \in 1 .. Len(q)
                BY <1>3, <1>4 DEF About
            <4> QED
                BY <1>1, <3>1, <4>1
        <3> QED
            BY <3>1, <3>2, <3>3 DEF Latest
    <2> QED
        BY <1>1, <2>0, <2>1, <2>2
<1>5. Latest(r, k, v)
    BY <1>4 DEF Latest
<1> QED
    BY <1>2, <1>3, <1>5 DEF r

LEMMA TailAbout ==
    ASSUME NEW b \in Seq(Signal), b # <<>>, NEW k, NEW v, Latest(b, k, v)
    PROVE  /\ Head(b) \in Signal /\ Tail(b) \in Seq(Signal)
           /\ Latest(Tail(b), k, v)
           /\ About(Tail(b), k) = {} =>
                IF Head(b).key = k THEN Head(b).value = v ELSE About(b, k) = {}
<1> DEFINE t == Tail(b)
<1>1. Len(b) \in Nat /\ Len(b) > 0
    BY EmptySeq, LenProperties
<1>2. /\ Head(b) = b[1] /\ Head(b) \in Signal /\ t \in Seq(Signal) /\ Len(t) = Len(b) - 1
      /\ \A i \in 1 .. Len(b) - 1 : t[i] = b[i + 1]
    BY <1>1, HeadTailProperties, ElementOfSeq
<1> HIDE DEF t
<1>3. \A i \in About(t, k) : i + 1 \in About(b, k) /\ t[i] = b[i + 1]
    BY <1>1, <1>2 DEF About
<1>4. ASSUME NEW j \in About(b, k), j # 1 PROVE j - 1 \in About(t, k)
    <2>1. j \in 1 .. Len(b) /\ b[j].key = k
        BY DEF About
    <2>2. j - 1 \in 1 .. Len(b) - 1 /\ (j - 1) + 1 = j
        BY <1>1, <1>4, <2>1
    <2>3. t[j - 1] = b[j]
        BY <1>2, <2>2
    <2> QED
        BY <1>2, <2>1, <2>2, <2>3 DEF About
<1>5. ASSUME NEW i \in About(t, k), \A j \in About(t, k) : j <= i PROVE t[i].value = v
    <2>1. i \in Nat
        BY <1>1, <1>2 DEF About
    <2>2. ASSUME NEW j \in About(b, k) PROVE j <= i + 1
        <3>1. j \in Nat
            BY <1>1 DEF About
        <3>2. CASE j = 1
            BY <2>1, <3>2
        <3>3. CASE j # 1
            BY <1>4, <1>5, <2>1, <3>1, <3>3
        <3> QED
            BY <3>2, <3>3
    <2> QED
        BY <1>3, <2>2 DEF Latest
<1>6. Latest(t, k, v)
    BY <1>5 DEF Latest
<1>7. ASSUME About(t, k) = {}, Head(b).key = k PROVE Head(b).value = v
    <2>1. 1 \in About(b, k)
        BY <1>1, <1>2, <1>7 DEF About
    <2>2. \A j \in About(b, k) : j <= 1
        BY <1>4, <1>7
    <2> QED
        BY <1>2, <2>1, <2>2 DEF Latest
<1>8. ASSUME About(t, k) = {}, Head(b).key # k PROVE About(b, k) = {}
    <2> SUFFICES ASSUME NEW j \in About(b, k) PROVE FALSE
        OBVIOUS
    <2>1. j # 1 /\ b[j].key = k
        BY <1>2, <1>8 DEF About
    <2> QED
        BY <1>4, <1>8, <2>1
<1> QED
    BY <1>2, <1>6, <1>7, <1>8 DEF t

-----------------------------------------------------------------------------
(* What a handler has sent, f being the file.                              *)

\* What is in the key file is in the file or has been sent, but perhaps for K.
Told(e, f, K) ==
    /\ \A k \in Keys \ K :
         /\ Latest(e.sent, k, e.kf.colour[k])
         /\ About(e.sent, k) = {} => e.kf.colour[k] = f.colour[k]
    /\ K = {} /\ e.sent = <<>> => e.kf.size = f.size

Ok(e, f, K) == e \in Editor /\ e.open /\ Told(e, f, K)

LEMMA EditorFields ==
    ASSUME NEW e \in Editor
    PROVE  /\ e.open \in BOOLEAN /\ e.kf.size \in Sizes /\ e.kf \in Scheme
           /\ e.on \subseteq Toggles /\ e.radio \in {8, 16} /\ e.rows \in Sizes
           /\ e.sent \in Seq(Signal)
           /\ \A k \in Keys : e.kf.colour[k] \in Colour \cup {Unset} /\ e.button[k] \in Colour
           /\ \A k \in Named : e.cache[k] \in Colour \cup {Unset}
BY DEF Editor, Scheme

LEMMA OkSame ==
    ASSUME NEW e, NEW f, NEW K, Ok(e, f, K), NEW x \in Editor,
           x.open = e.open, x.kf = e.kf, x.sent = e.sent
    PROVE  Ok(x, f, K)
BY DEF Ok, Told

LEMMA OkMore ==
    ASSUME NEW e, NEW f, NEW K, Ok(e, f, K), NEW L, K \subseteq L
    PROVE  Ok(e, f, L)
<1>1. \A k \in Keys \ L : k \in Keys \ K
    OBVIOUS
<1>2. L = {} => K = {}
    OBVIOUS
<1> QED
    BY <1>1, <1>2 DEF Ok, Told

LEMMA OkSetString ==
    ASSUME NEW e, NEW f, NEW K, NEW k \in Keys, NEW c \in Colour \cup {Unset},
           Ok(e, f, K \cup {k})
    PROVE  Ok(SetString(e, k, c), f, K) /\ SetString(e, k, c).sent # <<>>
<1> DEFINE x == SetString(e, k, c)
           s == [key |-> k, value |-> c, size |-> 0]
<1>1. e \in Editor /\ e.open /\ e.sent \in Seq(Signal)
    BY EditorFields DEF Ok
<1>step. StringSet(e, x, k, c)
    BY <1>1, SetStringEffect
<1>2. /\ x \in Editor /\ x.open = e.open /\ x.kf.colour[k] = c
      /\ \A l \in Keys \ {k} : x.kf.colour[l] = e.kf.colour[l]
      /\ x.sent = Append(e.sent, s)
    BY <1>step DEF StringSet, ColourSet, Frame
<1>3. s \in Signal /\ s.key = k /\ s.value = c
    BY DEF Signal, Sizes
<1> HIDE DEF x, s
<1>4. x.sent # <<>>
    BY <1>1, <1>2, <1>3, AppendProperties
<1>5. ASSUME NEW l \in Keys \ K
      PROVE  /\ Latest(x.sent, l, x.kf.colour[l])
             /\ About(x.sent, l) = {} => x.kf.colour[l] = f.colour[l]
    <2>1. CASE l = k
        <3>1. About(x.sent, l) # {} /\ Latest(x.sent, l, s.value)
            BY <1>1, <1>2, <1>3, <2>1, AppendAbout
        <3> QED
            BY <1>2, <1>3, <2>1, <3>1
    <2>2. CASE l # k
        <3>1. l \in Keys \ (K \cup {k}) /\ s.key # l
            BY <1>3, <2>2
        <3>2. /\ Latest(e.sent, l, e.kf.colour[l])
              /\ About(e.sent, l) = {} => e.kf.colour[l] = f.colour[l]
            BY <3>1 DEF Ok, Told
        <3>3. About(x.sent, l) = About(e.sent, l) /\ Latest(x.sent, l, e.kf.colour[l])
            BY <1>1, <1>2, <1>3, <3>1, <3>2, AppendAbout
        <3>4. x.kf.colour[l] = e.kf.colour[l]
            BY <1>2, <3>1
        <3> QED
            BY <3>2, <3>3, <3>4
    <2> QED
        BY <2>1, <2>2
<1>6. Ok(x, f, K)
    BY <1>1, <1>2, <1>4, <1>5 DEF Ok, Told
<1> QED
    BY <1>4, <1>6 DEF x

LEMMA OkSetSize ==
    ASSUME NEW e, NEW f, NEW K, NEW n \in Sizes, Ok(e, f, K)
    PROVE  Ok(SetPaletteSize(e, n), f, K)
<1> DEFINE x == SetPaletteSize(e, n)
           s == [key |-> "palette_size", value |-> Unset, size |-> n]
<1>1. e \in Editor /\ e.open /\ e.sent \in Seq(Signal)
    BY EditorFields DEF Ok
<1>step. SizeSet(e, x, n)
    BY <1>1, SetSizeEffect
<1>2. /\ x \in Editor /\ x.open = e.open /\ x.kf.colour = e.kf.colour
      /\ x.sent = Append(e.sent, s)
    BY <1>step DEF SizeSet, Frame
<1>3. s \in Signal /\ s.key = "palette_size"
    BY DEF Signal
<1> HIDE DEF x, s
<1>4. x.sent # <<>>
    BY <1>1, <1>2, <1>3, AppendProperties
<1>5. ASSUME NEW l \in Keys \ K
      PROVE  /\ Latest(x.sent, l, x.kf.colour[l])
             /\ About(x.sent, l) = {} => x.kf.colour[l] = f.colour[l]
    <2>1. s.key # l
        BY <1>3 DEF Keys, Named, Pairs, Entries
    <2>2. /\ Latest(e.sent, l, e.kf.colour[l])
          /\ About(e.sent, l) = {} => e.kf.colour[l] = f.colour[l]
        BY DEF Ok, Told
    <2>3. About(x.sent, l) = About(e.sent, l) /\ Latest(x.sent, l, e.kf.colour[l])
        BY <1>1, <1>2, <1>3, <2>1, <2>2, AppendAbout
    <2> QED
        BY <1>2, <2>2, <2>3
<1>6. Ok(x, f, K)
    BY <1>1, <1>2, <1>4, <1>5 DEF Ok, Told
<1> QED
    BY <1>6 DEF x

LEMMA OkEntry ==
    ASSUME NEW e, NEW f, NEW K, NEW k \in Keys, NEW c \in Colour, Ok(e, f, K)
    PROVE  Ok([e EXCEPT !.kf.colour[k] = c], f, K \cup {k})
<1> DEFINE x == [e EXCEPT !.kf.colour[k] = c]
<1>0. e \in Editor
    BY DEF Ok
<1>step. EntrySet(e, x, k, c)
    BY <1>0, EntryEffect
<1>1. /\ x \in Editor /\ x.open = e.open /\ x.sent = e.sent
      /\ \A l \in Keys \ {k} : x.kf.colour[l] = e.kf.colour[l]
    BY <1>step DEF EntrySet, ColourSet, Frame
<1> HIDE DEF x
<1>2. ASSUME NEW l \in Keys \ (K \cup {k})
      PROVE  /\ Latest(x.sent, l, x.kf.colour[l])
             /\ About(x.sent, l) = {} => x.kf.colour[l] = f.colour[l]
    <2>1. l \in Keys \ K /\ x.kf.colour[l] = e.kf.colour[l]
        BY <1>1
    <2> QED
        BY <1>1, <2>1 DEF Ok, Told
<1>3. Ok(x, f, K \cup {k})
    BY <1>1, <1>2 DEF Ok, Told
<1> QED
    BY <1>3 DEF x

-----------------------------------------------------------------------------
(* Handlers.                                                               *)

Text == {"foreground", "background"}
Track == "fgbg_track_palette"

LEMMA Names ==
    /\ "foreground" \in Named /\ "background" \in Named /\ "foreground" # "background"
    /\ "cursor" \in Named /\ "cursorfg" \in Named /\ "bold" \in Named
    /\ Named \subseteq Keys /\ Entries \subseteq Keys /\ Text \subseteq Keys
    /\ "0" \in Entries /\ "7" \in Entries /\ "8" \in Entries
    /\ Named \cap Entries = {}
    /\ Track \in Toggles /\ "set_fgbg" \in Toggles /\ "use_custom_colours" \in Toggles
    /\ "set_cursor_colour" \in Toggles /\ "set_bold_colour" \in Toggles
BY DEF Named, Pairs, Keys, Entries, Text, Track, Toggles

\* Only the colours K have changed, in the key file, the cache and the dialog.
Keeps(e, x, K) ==
    /\ x.open = e.open /\ x.radio = e.radio /\ x.kf.size = e.kf.size
    /\ \A k \in Keys \ K : x.kf.colour[k] = e.kf.colour[k] /\ x.button[k] = e.button[k]
    /\ \A k \in Named \ K : x.cache[k] = e.cache[k]

LEMMA KeepsOn ==
    ASSUME NEW e, NEW x, NEW y, NEW K, Keeps(e, x, K), Keeps(x, y, K)
    PROVE  Keeps(e, y, K)
BY DEF Keeps

\* SetColourOption
OptionSet(e, x, k, c) ==
    /\ Keeps(e, x, {k}) /\ x.on = e.on /\ x.button = e.button
    /\ x.kf.colour[k] = c /\ x.cache[k] = c

LEMMA OptionEffect ==
    ASSUME NEW e, NEW f, NEW K, NEW k \in Named, NEW c \in Colour \cup {Unset},
           Ok(e, f, K \cup {k}),
           NEW x, x = SetColourOption(e, k, c)
    PROVE  Ok(x, f, K) /\ OptionSet(e, x, k, c) /\ x.sent # <<>>
<1> DEFINE w == Cache(e, k, c)
<1>1. e \in Editor
    BY DEF Ok
<1>2. CacheSet(e, w, k, c)
    BY <1>1, CacheEffect
<1>3. x = SetString(w, k, c)
    BY DEF SetColourOption
<1> HIDE DEF w
<1>4. w \in Editor
    BY <1>2 DEF CacheSet
<1>5. Ok(w, f, K \cup {k})
    BY <1>2, OkSame DEF CacheSet, Frame
<1>6. k \in Keys
    BY Names
<1>7. Ok(x, f, K) /\ x.sent # <<>>
    BY <1>3, <1>5, <1>6, OkSetString
<1>8. StringSet(w, x, k, c)
    BY <1>3, <1>4, <1>6, SetStringEffect
<1>9. Keeps(e, x, {k})
    BY <1>2, <1>8 DEF CacheSet, StringSet, ColourSet, Frame, Keeps
<1>10. x.on = e.on /\ x.button = e.button /\ x.kf.colour[k] = c /\ x.cache[k] = c
    BY <1>2, <1>8 DEF CacheSet, StringSet, ColourSet
<1> QED
    BY <1>7, <1>9, <1>10 DEF OptionSet

\* A toggle button's colours are those of the dialog, or cleared with it.
Saved(x, t, k) == x.kf.colour[k] = (IF t \in x.on THEN x.button[k] ELSE Unset)

ToggleSaved(e, x, t, k) ==
    /\ Keeps(e, x, {k}) /\ x.on = e.on /\ x.button = e.button
    /\ Saved(x, t, k)

LEMMA SetOrClearEffect ==
    ASSUME NEW e, NEW f, NEW K, NEW k \in Named, NEW t, Ok(e, f, K),
           NEW x, x = SetOrClear(e, t, k)
    PROVE  Ok(x, f, K) /\ ToggleSaved(e, x, t, k)
<1> DEFINE c == IF t \in e.on THEN e.button[k] ELSE Unset
<1>1. c \in Colour \cup {Unset}
    BY Names, EditorFields DEF Ok
<1>2. x = SetColourOption(e, k, c)
    BY DEF SetOrClear
<1> HIDE DEF c
<1>3. Ok(e, f, K \cup {k})
    BY OkMore
<1>4. Ok(x, f, K) /\ OptionSet(e, x, k, c)
    BY <1>1, <1>2, <1>3, OptionEffect
<1>5. x.on = e.on /\ x.button = e.button /\ x.kf.colour[k] = c /\ Keeps(e, x, {k})
    BY <1>4 DEF OptionSet
<1>6. Saved(x, t, k)
    BY <1>5 DEF c, Saved
<1> QED
    BY <1>4, <1>5, <1>6 DEF ToggleSaved

MirrorSet(e, x, s, k) ==
    /\ Keeps(e, x, {k}) /\ x.on = e.on /\ x.cache = e.cache
    /\ x.button[k] = e.button[s] /\ x.kf.colour[k] = e.button[s]

LEMMA MirrorEffect ==
    ASSUME NEW e, NEW f, NEW K, NEW s \in Keys, NEW k \in Named, Ok(e, f, K),
           NEW x, x = Mirror(e, s, k)
    PROVE  Ok(x, f, K) /\ MirrorSet(e, x, s, k)
<1> DEFINE c == e.button[s]
           w == [e EXCEPT !.button[k] = c]
<1>1. e \in Editor /\ c \in Colour /\ k \in Keys
    BY Names, EditorFields DEF Ok
<1>2. ButtonSet(e, w, k, c)
    BY <1>1, ButtonEffect
<1>3. x = SetString(w, k, c)
    BY DEF Mirror
<1> HIDE DEF w, c
<1>4. Ok(w, f, K) /\ w \in Editor
    BY <1>2, OkSame DEF ButtonSet, Frame
<1>5. Ok(w, f, K \cup {k})
    BY <1>4, OkMore
<1>6. Ok(x, f, K)
    BY <1>1, <1>3, <1>5, OkSetString
<1>7. StringSet(w, x, k, c)
    BY <1>1, <1>3, <1>4, SetStringEffect
<1>8. Keeps(e, x, {k})
    BY <1>2, <1>7 DEF ButtonSet, StringSet, ColourSet, Frame, Keeps
<1>9. x.on = e.on /\ x.cache = e.cache /\ x.button[k] = c /\ x.kf.colour[k] = c
    BY <1>2, <1>7 DEF ButtonSet, StringSet, ColourSet
<1> QED
    BY <1>6, <1>8, <1>9 DEF c, MirrorSet

\* The text and the background are the buttons of entries 0 and 7.
Mirrors(e, x) ==
    /\ x.button["foreground"] = e.button["0"] /\ x.kf.colour["foreground"] = e.button["0"]
    /\ x.button["background"] = e.button["7"] /\ x.kf.colour["background"] = e.button["7"]

LEMMA KeepsMore ==
    ASSUME NEW e, NEW x, NEW K, NEW L, K \subseteq L, Keeps(e, x, K)
    PROVE  Keeps(e, x, L)
<1>1. Keys \ L \subseteq Keys \ K /\ Named \ L \subseteq Named \ K
    OBVIOUS
<1> QED
    BY <1>1 DEF Keeps

LEMMA KeepsSelf == ASSUME NEW e, NEW K PROVE Keeps(e, e, K)
BY DEF Keeps

LEMMA TrackToggledEffect ==
    ASSUME NEW e, NEW f, NEW K, Ok(e, f, K), NEW x, x = OnTrackToggled(e)
    PROVE  /\ Ok(x, f, K) /\ Keeps(e, x, Text) /\ x.on = e.on /\ x.cache = e.cache
           /\ Track \in e.on => Mirrors(e, x)
           /\ Track \notin e.on => x = e
<1>1. CASE Track \in e.on
    <2> DEFINE w == Mirror(e, "7", "background")
    <2>1. x = Mirror(w, "0", "foreground")
        BY <1>1 DEF OnTrackToggled, Track
    <2>0. {"0", "7"} \subseteq Keys
        BY Names
    <2>2. Ok(w, f, K) /\ MirrorSet(e, w, "7", "background")
        BY <2>0, Names, MirrorEffect
    <2> HIDE DEF w
    <2>3. Ok(x, f, K) /\ MirrorSet(w, x, "0", "foreground")
        BY <2>0, <2>1, <2>2, Names, MirrorEffect
    <2>4. Keeps(e, w, Text) /\ Keeps(w, x, Text)
        BY <2>2, <2>3, KeepsMore DEF Text, MirrorSet
    <2>5. Keeps(e, x, Text)
        BY <2>4, KeepsOn
    <2>6. w.button["0"] = e.button["0"]
        BY <2>2 DEF MirrorSet, Keeps, Keys, Entries
    <2>7. /\ x.button["background"] = w.button["background"]
          /\ x.kf.colour["background"] = w.kf.colour["background"]
        BY <2>3, Names DEF MirrorSet, Keeps
    <2> QED
        BY <1>1, <2>2, <2>3, <2>5, <2>6, <2>7 DEF Mirrors, MirrorSet
<1>2. CASE Track \notin e.on
    <2>1. x = e
        BY <1>2 DEF OnTrackToggled, Track
    <2> QED
        BY <1>2, <2>1, KeepsSelf
<1> QED
    BY <1>1, <1>2

\* The colours that track the palette have been read from it.
CacheTracks(e) ==
    Track \in e.on =>
      /\ "set_fgbg" \in e.on /\ e.kf.size # 0
      /\ e.cache["foreground"] = Entry(e.kf, "0")
      /\ e.cache["background"] = Entry(e.kf, "7")

OtherToggles(e, x, T) == \A u \in Toggles \ T : (u \in x.on) <=> (u \in e.on)

\* SetTrackToggle up to the handler it may run.
TrackRead(e, x) ==
    /\ x \in Editor /\ Frame(e, x)
    /\ x.kf = e.kf /\ x.button = e.button /\ x.sent = e.sent
    /\ \A k \in Named \ Text : x.cache[k] = e.cache[k]
    /\ \A k \in Text : x.cache[k] \in {e.cache[k], Get(e, k)}
    /\ OtherToggles(e, x, {Track})
    /\ CacheTracks(x)

LEMMA TrackReadEffect ==
    ASSUME NEW e \in Editor, NEW ignore \in BOOLEAN
    PROVE  \E s : /\ TrackRead(e, s)
                  /\ SetTrackToggle(e, ignore)
                       = IF ignore \/ s.on = e.on THEN s ELSE OnTrackToggled(s)
<1> DEFINE asks == "set_fgbg" \in e.on /\ e.kf.size # 0
           fg == Get(e, "foreground")
           bg == Get(e, "background")
           v == Cache(e, "foreground", fg)
           w == Cache(v, "background", bg)
           r == IF asks THEN w ELSE e
           track == asks /\ fg = Entry(e.kf, "0") /\ bg = Entry(e.kf, "7")
           s == Ticked(r, Track, track)
<1>1. SetTrackToggle(e, ignore) = IF ignore \/ s.on = e.on THEN s ELSE OnTrackToggled(s)
    BY DEF SetTrackToggle, Track
<1>2. {fg, bg} \subseteq Colour \cup {Unset}
    BY Names, EditorFields DEF Get
<1>3. CacheSet(e, v, "foreground", fg)
    BY <1>2, Names, CacheEffect
<1> HIDE DEF v
<1>4. CacheSet(v, w, "background", bg)
    BY <1>2, <1>3, Names, CacheEffect DEF CacheSet
<1> HIDE DEF w
<1> DEFINE Read(x) ==
              /\ x \in Editor /\ Frame(e, x)
              /\ x.kf = e.kf /\ x.button = e.button /\ x.sent = e.sent /\ x.on = e.on
              /\ \A k \in Named \ Text : x.cache[k] = e.cache[k]
              /\ \A k \in Text : x.cache[k] \in {e.cache[k], Get(e, k)}
              /\ asks => x.cache["foreground"] = fg /\ x.cache["background"] = bg
<1>5. Read(w)
    <2>1. /\ w \in Editor /\ Frame(e, w)
          /\ w.kf = e.kf /\ w.button = e.button /\ w.sent = e.sent /\ w.on = e.on
        BY <1>3, <1>4 DEF CacheSet, Frame
    <2>2. w.cache["foreground"] = fg /\ w.cache["background"] = bg
        BY <1>3, <1>4, Names DEF CacheSet
    <2>3. \A k \in Named \ Text : w.cache[k] = e.cache[k]
        BY <1>3, <1>4 DEF CacheSet, Text
    <2>4. \A k \in Text : w.cache[k] \in {e.cache[k], Get(e, k)}
        BY <2>2 DEF Text
    <2> QED
        BY <2>1, <2>2, <2>3, <2>4
<1>6. ~asks => Read(e)
    BY DEF Frame
<1>7. Read(r)
    BY <1>5, <1>6
<1> HIDE DEF r, asks
<1>8. track \in BOOLEAN
    BY DEF asks
<1> HIDE DEF track
<1>9. ToggleSet(r, s, Track, track)
    BY <1>7, <1>8, Names, TickedEffect
<1> HIDE DEF s
<1>10. /\ s \in Editor /\ Frame(e, s)
       /\ s.kf = e.kf /\ s.button = e.button /\ s.sent = e.sent /\ s.cache = r.cache
    BY <1>7, <1>9 DEF ToggleSet, Frame
<1>11. OtherToggles(e, s, {Track})
    <2>1. \A u \in Toggles \ {Track} : (u \in s.on) <=> (u \in r.on)
        BY <1>9, Zenon DEF ToggleSet
    <2> QED
        BY <1>7, <2>1 DEF OtherToggles
<1>12. CacheTracks(s)
    <2> SUFFICES ASSUME Track \in s.on
                 PROVE  /\ "set_fgbg" \in s.on /\ s.kf.size # 0
                        /\ s.cache["foreground"] = Entry(s.kf, "0")
                        /\ s.cache["background"] = Entry(s.kf, "7")
        BY DEF CacheTracks
    <2>1. track
        BY <1>9, Zenon DEF ToggleSet
    <2>2. asks /\ fg = Entry(e.kf, "0") /\ bg = Entry(e.kf, "7")
        BY <2>1 DEF track
    <2>3. "set_fgbg" \in e.on /\ e.kf.size # 0
        BY <2>2 DEF asks
    <2>4. "set_fgbg" \in Toggles \ {Track}
        BY DEF Toggles, Track
    <2>5. "set_fgbg" \in s.on
        BY <1>11, <2>3, <2>4 DEF OtherToggles
    <2> QED
        BY <1>7, <1>10, <2>2, <2>3, <2>5
<1>13. TrackRead(e, s)
    <2>1. \A k \in Named \ Text : s.cache[k] = e.cache[k]
        BY <1>7, <1>10
    <2>2. \A k \in Text : s.cache[k] \in {e.cache[k], Get(e, k)}
        BY <1>7, <1>10
    <2> QED
        BY <1>10, <1>11, <1>12, <2>1, <2>2 DEF TrackRead
<1> QED
    BY <1>1, <1>13

\* colourgui_set_fgbg_track_toggle with its handler.
LEMMA TrackToggleEffect ==
    ASSUME NEW e, NEW f, NEW K, Ok(e, f, K), NEW x, x = SetTrackToggle(e, FALSE)
    PROVE  /\ Ok(x, f, K) /\ Keeps(e, x, Text) /\ OtherToggles(e, x, {Track})
           /\ CacheTracks(x)
           /\ Track \in x.on /\ Track \notin e.on => Mirrors(e, x)
<1>1. e \in Editor
    BY DEF Ok
<1>2. PICK s : /\ TrackRead(e, s)
               /\ x = IF s.on = e.on THEN s ELSE OnTrackToggled(s)
    BY <1>1, TrackReadEffect
<1>3. Keeps(e, s, Text)
    BY <1>2 DEF TrackRead, Keeps, Frame
<1>4. Ok(s, f, K)
    BY <1>2, OkSame DEF TrackRead, Frame
<1>5. CacheTracks(s) /\ OtherToggles(e, s, {Track}) /\ s.button = e.button
    BY <1>2 DEF TrackRead
<1>6. CASE s.on = e.on
    <2>1. x = s
        BY <1>2, <1>6
    <2> QED
        BY <1>3, <1>4, <1>5, <1>6, <2>1
<1>7. CASE s.on # e.on
    <2>1. x = OnTrackToggled(s)
        BY <1>2, <1>7
    <2>2. /\ Ok(x, f, K) /\ Keeps(s, x, Text) /\ x.on = s.on /\ x.cache = s.cache
          /\ Track \in s.on => Mirrors(s, x)
        BY <1>4, <2>1, TrackToggledEffect
    <2>3. Keeps(e, x, Text)
        BY <1>3, <2>2, KeepsOn
    <2>4. OtherToggles(e, x, {Track})
        BY <1>5, <2>2 DEF OtherToggles
    <2>5. Track \in x.on => Mirrors(e, x)
        BY <1>5, <2>2 DEF Mirrors
    <2>6. {"0", "7"} \subseteq Keys \ Text
        BY DEF Keys, Named, Pairs, Entries, Text
    <2>7. x.kf.size = s.kf.size /\ Entry(x.kf, "0") = Entry(s.kf, "0")
          /\ Entry(x.kf, "7") = Entry(s.kf, "7")
        BY <2>2, <2>6 DEF Keeps, Entry
    <2>8. CacheTracks(x)
        BY <1>5, <2>2, <2>7 DEF CacheTracks
    <2> QED
        BY <2>2, <2>3, <2>4, <2>5, <2>8
<1> QED
    BY <1>6, <1>7

LEMMA SetFgbgEffect ==
    ASSUME NEW e, NEW f, NEW K, Ok(e, f, K), NEW x, x = OnSetFgbgToggled(e)
    PROVE  /\ Ok(x, f, K) /\ Keeps(e, x, Text) /\ OtherToggles(e, x, {Track})
           /\ \A k \in Text : Saved(x, "set_fgbg", k)
           /\ Track \in x.on => "set_fgbg" \in x.on /\ x.kf.size # 0
           /\ Track \in x.on /\ Track \notin e.on =>
                /\ x.button["foreground"] = e.button["0"]
                /\ x.button["background"] = e.button["7"]
<1> DEFINE s == SetTrackToggle(e, FALSE)
           w == SetOrClear(s, "set_fgbg", "foreground")
<1>1. x = SetOrClear(w, "set_fgbg", "background")
    BY DEF OnSetFgbgToggled
<1>2. /\ Ok(s, f, K) /\ Keeps(e, s, Text) /\ OtherToggles(e, s, {Track})
      /\ CacheTracks(s)
      /\ Track \in s.on /\ Track \notin e.on => Mirrors(e, s)
    BY TrackToggleEffect
<1> HIDE DEF s
<1>3. Ok(w, f, K) /\ ToggleSaved(s, w, "set_fgbg", "foreground")
    BY <1>2, Names, SetOrClearEffect
<1> HIDE DEF w
<1>4. Ok(x, f, K) /\ ToggleSaved(w, x, "set_fgbg", "background")
    BY <1>1, <1>3, Names, SetOrClearEffect
<1>5. Keeps(e, x, Text)
    <2>1. Keeps(s, w, Text) /\ Keeps(w, x, Text)
        BY <1>3, <1>4, KeepsMore DEF Text, ToggleSaved
    <2> QED
        BY <1>2, <2>1, KeepsOn
<1>6. x.on = s.on /\ x.button = s.button
    BY <1>3, <1>4 DEF ToggleSaved
<1>7. OtherToggles(e, x, {Track})
    BY <1>2, <1>6 DEF OtherToggles
<1>8. x.kf.colour["foreground"] = w.kf.colour["foreground"]
    BY <1>4, Names DEF ToggleSaved, Keeps
<1>9. \A k \in Text : Saved(x, "set_fgbg", k)
    BY <1>3, <1>4, <1>8 DEF ToggleSaved, Saved, Text
<1>10. x.kf.size = s.kf.size
    BY <1>3, <1>4 DEF ToggleSaved, Keeps
<1>11. Track \in x.on => "set_fgbg" \in x.on /\ x.kf.size # 0
    BY <1>2, <1>6, <1>10 DEF CacheTracks
<1>12. Track \in x.on /\ Track \notin e.on =>
           /\ x.button["foreground"] = e.button["0"]
           /\ x.button["background"] = e.button["7"]
    BY <1>2, <1>6 DEF Mirrors
<1> QED
    BY <1>4, <1>5, <1>7, <1>9, <1>11, <1>12

LEMMA SetCursorEffect ==
    ASSUME NEW e, NEW f, NEW K, Ok(e, f, K), NEW x, x = OnSetCursorToggled(e)
    PROVE  /\ Ok(x, f, K) /\ Keeps(e, x, {"cursor", "cursorfg"}) /\ x.on = e.on
           /\ \A k \in {"cursor", "cursorfg"} : Saved(x, "set_cursor_colour", k)
<1> DEFINE w == SetOrClear(e, "set_cursor_colour", "cursor")
<1>1. x = SetOrClear(w, "set_cursor_colour", "cursorfg")
    BY DEF OnSetCursorToggled
<1>2. Ok(w, f, K) /\ ToggleSaved(e, w, "set_cursor_colour", "cursor")
    BY Names, SetOrClearEffect
<1> HIDE DEF w
<1>3. Ok(x, f, K) /\ ToggleSaved(w, x, "set_cursor_colour", "cursorfg")
    BY <1>1, <1>2, Names, SetOrClearEffect
<1>4. Keeps(e, x, {"cursor", "cursorfg"})
    <2>1. Keeps(e, w, {"cursor", "cursorfg"}) /\ Keeps(w, x, {"cursor", "cursorfg"})
        BY <1>2, <1>3, KeepsMore DEF ToggleSaved
    <2> QED
        BY <2>1, KeepsOn
<1>5. x.kf.colour["cursor"] = w.kf.colour["cursor"]
    BY <1>3, Names DEF ToggleSaved, Keeps
<1>6. \A k \in {"cursor", "cursorfg"} : Saved(x, "set_cursor_colour", k)
    BY <1>2, <1>3, <1>5 DEF ToggleSaved, Saved
<1> QED
    BY <1>2, <1>3, <1>4, <1>6 DEF ToggleSaved

LEMMA SetBoldEffect ==
    ASSUME NEW e, NEW f, NEW K, Ok(e, f, K), NEW x, x = OnSetBoldToggled(e)
    PROVE  /\ Ok(x, f, K) /\ Keeps(e, x, {"bold"}) /\ x.on = e.on
           /\ Saved(x, "set_bold_colour", "bold")
<1>1. x = SetOrClear(e, "set_bold_colour", "bold")
    BY DEF OnSetBoldToggled
<1>2. Ok(x, f, K) /\ ToggleSaved(e, x, "set_bold_colour", "bold")
    BY <1>1, Names, SetOrClearEffect
<1> QED
    BY <1>2 DEF ToggleSaved

-----------------------------------------------------------------------------
(* The palette.                                                            *)

LEMMA ShadeEffect ==
    ASSUME NEW e \in Editor, NEW x, x = ShadePalette(e)
    PROVE  /\ x \in Editor /\ x.open = e.open /\ x.radio = e.radio /\ x.kf = e.kf
           /\ x.cache = e.cache /\ x.button = e.button /\ x.on = e.on /\ x.sent = e.sent
<1> DEFINE n == IF "use_custom_colours" \in e.on THEN e.radio ELSE 0
<1>1. n \in Sizes
    BY EditorFields DEF Sizes
<1>2. x = [e EXCEPT !.rows = n]
    BY DEF ShadePalette
<1> HIDE DEF n
<1> QED
    BY <1>1, <1>2 DEF Editor

\* An entry may have got its button's colour if it had none.
Filled(e, x, k) ==
    \/ x.kf.colour[k] = e.kf.colour[k]
    \/ e.kf.colour[k] = Unset /\ x.kf.colour[k] = e.button[k]

EntryFilled(e, x, k) ==
    /\ Frame(e, x) /\ Filled(e, x, k)
    /\ \A l \in Keys \ {k} : x.kf.colour[l] = e.kf.colour[l]
    /\ x.kf.size = e.kf.size
    /\ x.cache = e.cache /\ x.button = e.button /\ x.on = e.on
    /\ e.kf.size >= SizeFor(k) => x.kf.colour[k] = e.kf.colour[k]

LEMMA FillEntryEffect ==
    ASSUME NEW e, NEW f, NEW K, Ok(e, f, K), NEW k \in Entries, NEW n \in Sizes,
           NEW x, x = FillEntry(e, k, n)
    PROVE  Ok(x, f, K) /\ EntryFilled(e, x, k)
<1>1. e \in Editor /\ k \in Keys
    BY Names DEF Ok
<1>2. /\ e.kf.size \in Nat /\ SizeFor(k) \in Nat /\ n \in Nat
      /\ e.button[k] \in Colour
    BY <1>1, EditorFields DEF Sizes, SizeFor
<1> DEFINE fills == /\ e.kf.size < SizeFor(k) /\ SizeFor(k) <= n
                    /\ e.kf.colour[k] = Unset
<1>3. CASE fills
    <2>1. x = SetString(e, k, e.button[k])
        BY <1>3 DEF FillEntry
    <2>2. Ok(x, f, K)
        BY <1>1, <1>2, <2>1, OkMore, OkSetString
    <2>3. StringSet(e, x, k, e.button[k])
        BY <1>1, <1>2, <2>1, SetStringEffect
    <2>4. ~ (e.kf.size >= SizeFor(k))
        BY <1>2, <1>3
    <2> QED
        BY <1>3, <2>2, <2>3, <2>4 DEF EntryFilled, Filled, StringSet, ColourSet
<1>4. CASE ~fills
    <2>1. x = e
        BY <1>4 DEF FillEntry
    <2> QED
        BY <2>1 DEF EntryFilled, Filled, Frame
<1> QED
    BY <1>3, <1>4

PaletteSize(e) == IF "use_custom_colours" \in e.on THEN e.radio ELSE 0

\* The size of the palette is set to what the dialog says.
CustomSet(e, x) ==
    /\ x.open = e.open /\ x.radio = e.radio /\ x.cache = e.cache /\ x.button = e.button
    /\ OtherToggles(e, x, {Track})
    /\ x.kf.size = PaletteSize(e)
    /\ \A k \in Named : x.kf.colour[k] = e.kf.colour[k]
    /\ \A k \in Entries : Filled(e, x, k)
    /\ e.kf.size # 0 => \A k \in {"0", "7"} : x.kf.colour[k] = e.kf.colour[k]
    /\ Track \in x.on => Track \in e.on /\ (x.kf.size # 0 \/ x = e)

LEMMA SetCustomEffect ==
    ASSUME NEW e, NEW f, NEW K, Ok(e, f, K), NEW x, x = OnUseCustomToggled(e)
    PROVE  Ok(x, f, K) /\ CustomSet(e, x)
<1> DEFINE n == PaletteSize(e)
           u == Untrack(e, n)
           h == ShadePalette(u)
           v == FillEntry(h, "0", n)
           w == FillEntry(v, "7", n)
           y == FillEntry(w, "8", n)
<1>0. x = IF n = e.kf.size THEN e ELSE SetPaletteSize(y, n)
    BY DEF OnUseCustomToggled, PaletteSize
<1>1. e \in Editor /\ e.kf.size \in Sizes /\ n \in Sizes
    BY EditorFields DEF Ok, PaletteSize, Sizes
<1>2. CASE n = e.kf.size
    <2>1. x = e
        BY <1>0, <1>2
    <2> QED
        BY <1>2, <2>1 DEF CustomSet, Filled, OtherToggles
<1>3. CASE n # e.kf.size
    <2>1. x = SetPaletteSize(y, n)
        BY <1>0, <1>3
    <2> HIDE DEF n
    <2>2. /\ u \in Editor /\ Frame(e, u) /\ OtherToggles(e, u, {Track})
          /\ u.kf = e.kf /\ u.cache = e.cache /\ u.button = e.button /\ u.sent = e.sent
          /\ Track \in u.on => Track \in e.on /\ n # 0
        <3>1. CASE n = 0
            <4>1. u = Ticked(e, Track, FALSE)
                BY <3>1 DEF Untrack, Track
            <4>2. ToggleSet(e, u, Track, FALSE)
                BY <1>1, <4>1, Names, TickedEffect
            <4>3. Track \notin u.on /\ OtherToggles(e, u, {Track})
                BY <4>2, Zenon DEF ToggleSet, OtherToggles
            <4> QED
                BY <4>2, <4>3 DEF ToggleSet
        <3>2. CASE n # 0
            <4>1. u = e
                BY <3>2 DEF Untrack
            <4> QED
                BY <1>1, <3>2, <4>1 DEF Frame, OtherToggles
        <3> QED
            BY <3>1, <3>2
    <2> HIDE DEF u
    <2>3. /\ h \in Editor /\ h.open = u.open /\ h.radio = u.radio /\ h.kf = u.kf
          /\ h.cache = u.cache /\ h.button = u.button /\ h.on = u.on /\ h.sent = u.sent
        BY <2>2, ShadeEffect
    <2> HIDE DEF h
    <2>4. Ok(h, f, K)
        BY <2>2, <2>3, OkSame DEF Frame
    <2>5. Ok(v, f, K) /\ EntryFilled(h, v, "0")
        BY <1>1, <2>4, Names, FillEntryEffect
    <2> HIDE DEF v
    <2>6. Ok(w, f, K) /\ EntryFilled(v, w, "7")
        BY <1>1, <2>5, Names, FillEntryEffect
    <2> HIDE DEF w
    <2>7. Ok(y, f, K) /\ EntryFilled(w, y, "8")
        BY <1>1, <2>6, Names, FillEntryEffect
    <2> HIDE DEF y
    <2>8. Ok(x, f, K) /\ SizeSet(y, x, n)
        <3>1. y \in Editor
            BY <2>7 DEF Ok
        <3> QED
            BY <1>1, <2>1, <2>7, <3>1, OkSetSize, SetSizeEffect
    <2>9. /\ x.open = e.open /\ x.radio = e.radio /\ x.cache = e.cache
          /\ x.button = e.button /\ x.on = u.on /\ x.kf.size = n
        BY <2>2, <2>3, <2>5, <2>6, <2>7, <2>8 DEF EntryFilled, SizeSet, Frame
    <2>10. \A k \in Named : x.kf.colour[k] = e.kf.colour[k]
        <3>1. \A k \in Named : k \in Keys \ {"0"} /\ k \in Keys \ {"7"} /\ k \in Keys \ {"8"}
            BY Names
        <3> QED
            BY <2>2, <2>3, <2>5, <2>6, <2>7, <2>8, <3>1 DEF EntryFilled, SizeSet
    <2>11. /\ "0" \in Keys \ {"7"} /\ "0" \in Keys \ {"8"} /\ "7" \in Keys \ {"0"}
           /\ "7" \in Keys \ {"8"} /\ "8" \in Keys \ {"0"} /\ "8" \in Keys \ {"7"}
        BY Names
    <2>12. v.button = e.button /\ w.button = e.button /\ h.button = e.button
        BY <2>2, <2>3, <2>5, <2>6 DEF EntryFilled
    <2>13. Filled(e, x, "0")
        BY <2>2, <2>3, <2>5, <2>6, <2>7, <2>8, <2>11, <2>12
           DEF EntryFilled, SizeSet, Filled
    <2>14. Filled(e, x, "7")
        BY <2>2, <2>3, <2>5, <2>6, <2>7, <2>8, <2>11, <2>12
           DEF EntryFilled, SizeSet, Filled
    <2>15. Filled(e, x, "8")
        BY <2>2, <2>3, <2>5, <2>6, <2>7, <2>8, <2>11, <2>12
           DEF EntryFilled, SizeSet, Filled
    <2>16. ASSUME e.kf.size # 0
           PROVE  x.kf.colour["0"] = e.kf.colour["0"] /\ x.kf.colour["7"] = e.kf.colour["7"]
        <3>1. /\ h.kf.size = e.kf.size /\ v.kf.size = e.kf.size
              /\ SizeFor("0") = 8 /\ SizeFor("7") = 8 /\ e.kf.size >= 8
            BY <1>1, <2>2, <2>3, <2>5, <2>16 DEF EntryFilled, SizeFor, Sizes
        <3>2. v.kf.colour["0"] = h.kf.colour["0"] /\ w.kf.colour["7"] = v.kf.colour["7"]
            BY <2>5, <2>6, <3>1 DEF EntryFilled
        <3> QED
            BY <2>2, <2>3, <2>5, <2>6, <2>7, <2>8, <2>11, <3>2 DEF EntryFilled, SizeSet
    <2>17. OtherToggles(e, x, {Track}) /\ (Track \in x.on => Track \in e.on /\ n # 0)
        BY <2>2, <2>9 DEF OtherToggles
    <2>18. \A k \in Entries : Filled(e, x, k)
        BY <2>13, <2>14, <2>15 DEF Entries
    <2>19. x.kf.size = PaletteSize(e)
        BY <2>9 DEF n
    <2> QED
        BY <2>8, <2>9, <2>10, <2>16, <2>17, <2>18, <2>19 DEF CustomSet
<1> QED
    BY <1>2, <1>3

-----------------------------------------------------------------------------
(* The colour buttons.                                                     *)

Follower(k) == IF k = "7" THEN "background" ELSE "foreground"
Following(e, k) == Track \in e.on /\ k \in {"0", "7"}

\* Entry k has got the colour c, and the colour that follows it.
EntryChosen(e, x, k, c) ==
    /\ x.open = e.open /\ x.radio = e.radio /\ x.kf.size = e.kf.size
    /\ x.on = e.on /\ x.cache = e.cache
    /\ x.kf.colour[k] = c
    /\ \A l \in Entries \ {k} : x.kf.colour[l] = e.kf.colour[l]
    /\ \A l \in Entries : x.button[l] = e.button[l]
    /\ \A l \in Named :
         IF Following(e, k) /\ l = Follower(k)
         THEN x.kf.colour[l] = c /\ x.button[l] = c
         ELSE x.kf.colour[l] = e.kf.colour[l] /\ x.button[l] = e.button[l]

LEMMA EntryChosenEffect ==
    ASSUME NEW e, NEW f, NEW K, NEW k \in Entries, NEW c \in Colour, Ok(e, f, K \cup {k}),
           NEW x, x = OnColorSet(e, k, c)
    PROVE  Ok(x, f, K) /\ EntryChosen(e, x, k, c) /\ x.sent # <<>>
<1> DEFINE s == [e EXCEPT !.kf.colour[k] = c]
           l == Follower(k)
           b == [s EXCEPT !.button[l] = c]
           w == IF Following(e, k) THEN SetString(b, l, c) ELSE s
<1>1. e \in Editor /\ k \in Keys /\ k \notin Named
    BY Names DEF Ok
<1>2. x = SetString(w, k, c)
    <2> DEFINE follow(m) == SetString([s EXCEPT !.button[m] = c], m, c)
    <2> HIDE DEF s
    <2>1. x = SetString(CASE k = "7" /\ Track \in e.on -> follow("background")
                          [] k = "0" /\ Track \in e.on -> follow("foreground")
                          [] OTHER -> s,
                        k, c)
        BY <1>1, Zenon DEF OnColorSet, Track, s
    <2> DEFINE t == Track \in e.on
    <2>2. w = IF t /\ k \in {"0", "7"} THEN follow(Follower(k)) ELSE s
        BY DEF Following
    <2>3. follow(Follower(k)) = follow(IF k = "7" THEN "background" ELSE "foreground")
        BY DEF Follower
    <2> HIDE DEF follow, t, w
    <2>4. w = CASE k = "7" /\ t -> follow("background")
                [] k = "0" /\ t -> follow("foreground")
                [] OTHER -> s
        <3>1. CASE t /\ k = "7"
            BY <2>2, <2>3, <3>1
        <3>2. CASE t /\ k = "0"
            BY <2>2, <2>3, <3>2
        <3>3. CASE ~t \/ k \notin {"0", "7"}
            BY <2>2, <3>3
        <3> QED
            BY <3>1, <3>2, <3>3
    <2> QED
        BY <2>1, <2>4 DEF t
<1>3. EntrySet(e, s, k, c)
    BY <1>1, EntryEffect
<1>4. Ok(s, f, K \cup {k})
    <2>1. Ok(s, f, (K \cup {k}) \cup {k})
        BY <1>1, OkEntry
    <2>2. (K \cup {k}) \cup {k} = K \cup {k}
        OBVIOUS
    <2> QED
        BY <2>1, <2>2, Zenon
<1> HIDE DEF s
<1>5. l \in Named /\ l \in Keys /\ l # k
    BY <1>1, Names DEF Follower
<1> HIDE DEF l
<1>6. /\ w.open = e.open /\ w.radio = e.radio /\ w.kf.size = e.kf.size
      /\ w.on = e.on /\ w.cache = e.cache
      /\ \A m \in Entries \ {k} : w.kf.colour[m] = e.kf.colour[m]
      /\ \A m \in Entries : w.button[m] = e.button[m]
      /\ \A m \in Named :
           IF Following(e, k) /\ m = l
           THEN w.kf.colour[m] = c /\ w.button[m] = c
           ELSE w.kf.colour[m] = e.kf.colour[m] /\ w.button[m] = e.button[m]
      /\ Ok(w, f, K \cup {k})
    <2>1. CASE Following(e, k)
        <3>1. w = SetString(b, l, c)
            BY <2>1
        <3>2. s \in Editor
            BY <1>3 DEF EntrySet
        <3>3. ButtonSet(s, b, l, c)
            BY <1>5, <3>2, ButtonEffect
        <3> HIDE DEF b, w
        <3>4. Ok(b, f, K \cup {k}) /\ b \in Editor
            BY <1>4, <3>3, OkSame DEF ButtonSet, Frame
        <3>5. Ok(b, f, (K \cup {k}) \cup {l})
            BY <3>4, OkMore
        <3>6. Ok(w, f, K \cup {k})
            BY <1>5, <3>1, <3>5, OkSetString
        <3>7. StringSet(b, w, l, c)
            BY <1>5, <3>1, <3>4, SetStringEffect
        <3>8. /\ w.open = e.open /\ w.radio = e.radio /\ w.kf.size = e.kf.size
              /\ w.on = e.on /\ w.cache = e.cache
            BY <1>3, <3>3, <3>7 DEF EntrySet, ButtonSet, StringSet, ColourSet, Frame
        <3>9. \A m \in Keys \ {k, l} : w.kf.colour[m] = e.kf.colour[m]
            BY <1>3, <3>3, <3>7 DEF EntrySet, ButtonSet, StringSet, ColourSet
        <3>10. \A m \in Keys \ {l} : w.button[m] = e.button[m]
            BY <1>3, <3>3, <3>7 DEF EntrySet, ButtonSet, StringSet
        <3>11. w.kf.colour[l] = c /\ w.button[l] = c
            BY <3>3, <3>7 DEF ButtonSet, StringSet, ColourSet
        <3>12. \A m \in Entries \ {k} : m \in Keys \ {k, l}
            BY <1>5, Names
        <3>13. \A m \in Entries : m \in Keys \ {l}
            BY <1>5, Names
        <3>14. \A m \in Named : m # l => m \in Keys \ {k, l} /\ m \in Keys \ {l}
            BY <1>1, Names
        <3> QED
            BY <2>1, <3>6, <3>8, <3>9, <3>10, <3>11, <3>12, <3>13, <3>14
    <2>2. CASE ~Following(e, k)
        <3>1. w = s
            BY <2>2
        <3> HIDE DEF w
        <3>2. \A m \in Named : m \in Keys \ {k}
            BY <1>1, Names
        <3>3. \A m \in Entries \ {k} : m \in Keys \ {k}
            BY Names
        <3> QED
            BY <1>3, <1>4, <2>2, <3>1, <3>2, <3>3 DEF EntrySet, ColourSet, Frame
    <2> QED
        BY <2>1, <2>2
<1> HIDE DEF w
<1>7. Ok(x, f, K) /\ x.sent # <<>>
    BY <1>1, <1>2, <1>6, OkSetString
<1>8. w \in Editor
    BY <1>6 DEF Ok
<1>9. StringSet(w, x, k, c)
    BY <1>1, <1>2, <1>8, SetStringEffect
<1>10. \A m \in Named : x.kf.colour[m] = w.kf.colour[m] /\ x.button[m] = w.button[m]
    BY <1>1, <1>9, Names DEF StringSet, ColourSet
<1>11. \A m \in Entries \ {k} : x.kf.colour[m] = w.kf.colour[m]
    BY <1>9, Names DEF StringSet, ColourSet
<1>12. /\ x.open = e.open /\ x.radio = e.radio /\ x.kf.size = e.kf.size
       /\ x.on = e.on /\ x.cache = e.cache /\ x.kf.colour[k] = c
       /\ \A m \in Entries : x.button[m] = e.button[m]
    BY <1>6, <1>9 DEF StringSet, ColourSet, Frame
<1>13. \A m \in Entries \ {k} : x.kf.colour[m] = e.kf.colour[m]
    BY <1>6, <1>11
<1>14. \A m \in Named :
         IF Following(e, k) /\ m = l
         THEN x.kf.colour[m] = c /\ x.button[m] = c
         ELSE x.kf.colour[m] = e.kf.colour[m] /\ x.button[m] = e.button[m]
    BY <1>6, <1>10
<1>15. EntryChosen(e, x, k, c)
    BY <1>12, <1>13, <1>14 DEF EntryChosen, l
<1> QED
    BY <1>7, <1>15

-----------------------------------------------------------------------------
(* What the user does leaves the dialog settled.                           *)

\* The steps that change named colours only leave the palette alone.
LEMMA KeepsEntries ==
    ASSUME NEW e, NEW x, NEW K, K \subseteq Named, Keeps(e, x, K)
    PROVE  /\ \A k \in Entries : /\ x.kf.colour[k] = e.kf.colour[k]
                                 /\ x.button[k] = e.button[k]
                                 /\ Entry(x.kf, k) = Entry(e.kf, k)
           /\ EntriesShown(e) => EntriesShown(x)
<1>1. \A k \in Entries : k \in Keys \ K
    BY Names
<1>2. \A k \in Entries : x.kf.colour[k] = e.kf.colour[k] /\ x.button[k] = e.button[k]
    BY <1>1 DEF Keeps
<1> QED
    BY <1>2 DEF Entry, EntriesShown

LEMMA KeepsPalette ==
    ASSUME NEW e, NEW x, x.kf.size = e.kf.size,
           ("use_custom_colours" \in x.on) <=> ("use_custom_colours" \in e.on),
           PaletteUsed(e)
    PROVE  PaletteUsed(x)
BY DEF PaletteUsed

\* A toggle button turned over, and nothing else.
LEMMA ClickEffect ==
    ASSUME NEW e, NEW f, NEW t \in Toggles, Ok(e, f, {}),
           NEW w, w = Ticked(e, t, t \notin e.on)
    PROVE  /\ Ok(w, f, {})
           /\ (t \in w.on) <=> (t \notin e.on)
           /\ OtherToggles(e, w, {t})
           /\ w.kf = e.kf /\ w.button = e.button /\ w.cache = e.cache /\ w.radio = e.radio
<1>1. e \in Editor /\ (t \notin e.on) \in BOOLEAN
    BY DEF Ok
<1>2. ToggleSet(e, w, t, t \notin e.on)
    BY <1>1, TickedEffect, Zenon
<1>3. Ok(w, f, {})
    BY <1>2, OkSame DEF ToggleSet, Frame
<1>4. (t \in w.on) <=> (t \notin e.on)
    BY <1>2, Zenon DEF ToggleSet
<1>5. OtherToggles(e, w, {t})
    BY <1>2, Zenon DEF ToggleSet, OtherToggles
<1> QED
    BY <1>2, <1>3, <1>4, <1>5 DEF ToggleSet, Frame

LEMMA FgbgSettled ==
    ASSUME NEW e, NEW f, Ok(e, f, {}), Settled(e),
           NEW x, x = OnSetFgbgToggled(Ticked(e, "set_fgbg", "set_fgbg" \notin e.on))
    PROVE  Ok(x, f, {}) /\ Settled(x) /\ (Shows(e) => Shows(x))
<1> DEFINE w == Ticked(e, "set_fgbg", "set_fgbg" \notin e.on)
<1>1. /\ Ok(w, f, {})
      /\ ("set_fgbg" \in w.on) <=> ("set_fgbg" \notin e.on)
      /\ OtherToggles(e, w, {"set_fgbg"})
      /\ w.kf = e.kf /\ w.button = e.button /\ w.cache = e.cache /\ w.radio = e.radio
    BY Names, ClickEffect
<1>2. x = OnSetFgbgToggled(w)
    OBVIOUS
<1> HIDE DEF w
<1>3. /\ Ok(x, f, {}) /\ Keeps(w, x, Text) /\ OtherToggles(w, x, {Track})
      /\ \A k \in Text : Saved(x, "set_fgbg", k)
      /\ Track \in x.on => "set_fgbg" \in x.on /\ x.kf.size # 0
      /\ Track \in x.on /\ Track \notin w.on =>
           /\ x.button["foreground"] = w.button["0"]
           /\ x.button["background"] = w.button["7"]
    BY <1>1, <1>2, SetFgbgEffect
<1>4. EntriesShown(w)
    BY <1>1 DEF Settled, EntriesShown
<1>5. /\ EntriesShown(x)
      /\ \A k \in Entries : x.button[k] = e.button[k] /\ Entry(x.kf, k) = e.button[k]
    <2>1. /\ EntriesShown(x)
          /\ \A k \in Entries : x.button[k] = w.button[k]
        BY <1>3, <1>4, Names, KeepsEntries DEF Text
    <2> QED
        BY <1>1, <2>1 DEF EntriesShown
<1>6. x.kf.size = e.kf.size /\ x.radio = e.radio
    BY <1>1, <1>3 DEF Keeps
<1>7. \A u \in Toggles \ {"set_fgbg", Track} : (u \in x.on) <=> (u \in e.on)
    BY <1>1, <1>3 DEF OtherToggles
<1>8. PaletteUsed(x)
    <2>1. "use_custom_colours" \in Toggles \ {"set_fgbg", Track}
        BY DEF Toggles, Track
    <2>2. ("use_custom_colours" \in x.on) <=> ("use_custom_colours" \in e.on)
        BY <1>7, <2>1
    <2> QED
        BY <1>6, <2>2, KeepsPalette DEF Settled
<1>9. Tracks(x)
    <2> SUFFICES ASSUME Track \in x.on
                 PROVE  /\ "set_fgbg" \in x.on /\ x.kf.size # 0
                        /\ x.kf.colour["foreground"] = Entry(x.kf, "0")
                        /\ x.kf.colour["background"] = Entry(x.kf, "7")
        BY DEF Tracks, Track
    <2>1. "set_fgbg" \in x.on /\ x.kf.size # 0
        BY <1>3
    <2>2. "set_fgbg" \in w.on
        <3>1. "set_fgbg" \in Toggles \ {Track}
            BY DEF Toggles, Track
        <3> QED
            BY <1>3, <2>1, <3>1 DEF OtherToggles
    <2>3. Track \notin w.on
        <3>1. Track \in Toggles \ {"set_fgbg"}
            BY DEF Toggles, Track
        <3>2. Track \in w.on => Track \in e.on
            BY <1>1, <3>1 DEF OtherToggles
        <3>3. Track \in e.on => "set_fgbg" \in e.on
            BY DEF Settled, Tracks, Track
        <3> QED
            BY <1>1, <2>2, <3>2, <3>3
    <2>4. x.button["foreground"] = e.button["0"] /\ x.button["background"] = e.button["7"]
        BY <1>1, <1>3, <2>3
    <2>5. /\ x.kf.colour["foreground"] = x.button["foreground"]
          /\ x.kf.colour["background"] = x.button["background"]
        BY <1>3, <2>1 DEF Saved, Text
    <2>6. Entry(x.kf, "0") = e.button["0"] /\ Entry(x.kf, "7") = e.button["7"]
        BY <1>5, Names
    <2> QED
        BY <2>1, <2>4, <2>5, <2>6
<1>10. Settled(x)
    BY <1>5, <1>8, <1>9 DEF Settled
<1>11. ASSUME Shows(e) PROVE Shows(x)
    <2>1. /\ x.button["foreground"] \in Colour /\ x.button["background"] \in Colour
          /\ Unset \notin Colour
        BY <1>3, Names, Kinds, EditorFields DEF Ok
    <2>2. ("set_fgbg" \in x.on) <=> \/ x.kf.colour["foreground"] # Unset
                                    \/ x.kf.colour["background"] # Unset
        BY <1>3, <2>1 DEF Saved, Text
    <2>3. \A k \in Named \ Text : /\ x.kf.colour[k] = e.kf.colour[k]
                                  /\ x.button[k] = e.button[k]
        BY <1>1, <1>3, Names DEF Keeps
    <2>4. ("set_cursor_colour" \in x.on) <=> x.kf.colour["cursor"] # Unset
        <3>1. "set_cursor_colour" \in Toggles \ {"set_fgbg", Track} /\ "cursor" \in Named \ Text
            BY DEF Toggles, Track, Named, Pairs, Text
        <3>2. ("set_cursor_colour" \in x.on) <=> ("set_cursor_colour" \in e.on)
            BY <1>7, <3>1
        <3> QED
            BY <1>11, <2>3, <3>1, <3>2 DEF Shows, NamedShown
    <2>5. ("set_bold_colour" \in x.on) <=> x.kf.colour["bold"] # Unset
        <3>1. "set_bold_colour" \in Toggles \ {"set_fgbg", Track} /\ "bold" \in Named \ Text
            BY DEF Toggles, Track, Named, Pairs, Text
        <3>2. ("set_bold_colour" \in x.on) <=> ("set_bold_colour" \in e.on)
            BY <1>7, <3>1
        <3> QED
            BY <1>11, <2>3, <3>1, <3>2 DEF Shows, NamedShown
    <2>6. x.kf.size \in {0, x.radio}
        BY <1>6, <1>11 DEF Shows, NamedShown
    <2>7. \A k \in Text : x.kf.colour[k] \in {Unset, x.button[k]}
        BY <1>3 DEF Saved
    <2>8. \A k \in Named \ Text : x.kf.colour[k] \in {Unset, x.button[k]}
        BY <1>11, <2>3 DEF Shows, NamedShown
    <2> QED
        BY <2>2, <2>4, <2>5, <2>6, <2>7, <2>8 DEF Shows, NamedShown
<1> QED
    BY <1>3, <1>10, <1>11

\* Named colours other than the text and background change.
LEMMA NamedSettled ==
    ASSUME NEW e, NEW x, Settled(e), Keeps(e, x, Named \ Text), x.on = e.on
    PROVE  Settled(x)
<1>1. EntriesShown(x) /\ \A k \in Entries : Entry(x.kf, k) = Entry(e.kf, k)
    BY KeepsEntries DEF Settled
<1>2. x.kf.size = e.kf.size
    BY DEF Keeps
<1>3. PaletteUsed(x)
    BY <1>2, KeepsPalette DEF Settled
<1>4. \A k \in Text : x.kf.colour[k] = e.kf.colour[k]
    BY Names DEF Keeps
<1>5. Tracks(x)
    BY <1>1, <1>2, <1>4, Names DEF Settled, Tracks, Text
<1> QED
    BY <1>1, <1>3, <1>5 DEF Settled

\* A toggle button that says nothing of the text and the palette.
LEMMA ClickSettled ==
    ASSUME NEW e, NEW t \in {"set_cursor_colour", "set_bold_colour"}, Settled(e),
           NEW w, OtherToggles(e, w, {t}), w.kf = e.kf, w.button = e.button
    PROVE  Settled(w)
<1>1. {"set_fgbg", Track, "use_custom_colours"} \subseteq Toggles \ {t}
    BY DEF Toggles, Track
<1>2. /\ ("set_fgbg" \in w.on) <=> ("set_fgbg" \in e.on)
      /\ (Track \in w.on) <=> (Track \in e.on)
      /\ ("use_custom_colours" \in w.on) <=> ("use_custom_colours" \in e.on)
    BY <1>1 DEF OtherToggles
<1>3. EntriesShown(w) /\ PaletteUsed(w)
    BY <1>2, KeepsPalette DEF Settled, EntriesShown
<1>4. Tracks(w)
    BY <1>2 DEF Settled, Tracks, Track
<1> QED
    BY <1>3, <1>4 DEF Settled

LEMMA CursorSettled ==
    ASSUME NEW e, NEW f, Ok(e, f, {}), Settled(e),
           NEW x, x = OnSetCursorToggled(Ticked(e, "set_cursor_colour",
                                                "set_cursor_colour" \notin e.on))
    PROVE  Ok(x, f, {}) /\ Settled(x) /\ (Shows(e) => Shows(x))
<1> DEFINE w == Ticked(e, "set_cursor_colour", "set_cursor_colour" \notin e.on)
           K == {"cursor", "cursorfg"}
<1>1. /\ Ok(w, f, {})
      /\ OtherToggles(e, w, {"set_cursor_colour"})
      /\ w.kf = e.kf /\ w.button = e.button /\ w.radio = e.radio
    BY Names, ClickEffect
<1>2. x = OnSetCursorToggled(w)
    OBVIOUS
<1> HIDE DEF w
<1>3. Settled(w)
    BY <1>1, ClickSettled
<1>4. /\ Ok(x, f, {}) /\ Keeps(w, x, K) /\ x.on = w.on
      /\ \A k \in K : Saved(x, "set_cursor_colour", k)
    BY <1>1, <1>2, SetCursorEffect
<1>5. K \subseteq Named \ Text
    BY DEF Named, Pairs, Text
<1>6. Settled(x)
    BY <1>3, <1>4, <1>5, KeepsMore, NamedSettled
<1>7. ASSUME Shows(e) PROVE Shows(x)
    <2>1. {"set_fgbg", "set_bold_colour"} \subseteq Toggles \ {"set_cursor_colour"}
        BY DEF Toggles
    <2>2. /\ ("set_fgbg" \in x.on) <=> ("set_fgbg" \in e.on)
          /\ ("set_bold_colour" \in x.on) <=> ("set_bold_colour" \in e.on)
        BY <1>1, <1>4, <2>1 DEF OtherToggles
    <2>3. \A k \in Named \ K : /\ x.kf.colour[k] = e.kf.colour[k]
                               /\ x.button[k] = e.button[k]
        BY <1>1, <1>4, Names DEF Keeps
    <2>4. {"foreground", "background", "bold"} \subseteq Named \ K
        BY DEF Named, Pairs
    <2>5. ("set_cursor_colour" \in x.on) <=> x.kf.colour["cursor"] # Unset
        <3>1. x.button["cursor"] # Unset
            BY <1>4, Names, Kinds, EditorFields DEF Ok
        <3> QED
            BY <1>4, <3>1 DEF Saved
    <2>6. \A k \in K : x.kf.colour[k] \in {Unset, x.button[k]}
        BY <1>4 DEF Saved
    <2>7. \A k \in Named \ K : x.kf.colour[k] \in {Unset, x.button[k]}
        BY <1>7, <2>3 DEF Shows, NamedShown
    <2>8. x.kf.size \in {0, x.radio}
        BY <1>1, <1>4, <1>7 DEF Shows, Keeps
    <2>9. ("set_fgbg" \in x.on) <=> \/ x.kf.colour["foreground"] # Unset
                                    \/ x.kf.colour["background"] # Unset
        BY <1>7, <2>2, <2>3, <2>4 DEF Shows, NamedShown
    <2>10. ("set_bold_colour" \in x.on) <=> x.kf.colour["bold"] # Unset
        BY <1>7, <2>2, <2>3, <2>4 DEF Shows, NamedShown
    <2> HIDE DEF K
    <2> QED
        BY <2>5, <2>6, <2>7, <2>8, <2>9, <2>10 DEF Shows, NamedShown
<1> QED
    BY <1>4, <1>6, <1>7

LEMMA BoldSettled ==
    ASSUME NEW e, NEW f, Ok(e, f, {}), Settled(e),
           NEW x, x = OnSetBoldToggled(Ticked(e, "set_bold_colour",
                                              "set_bold_colour" \notin e.on))
    PROVE  Ok(x, f, {}) /\ Settled(x) /\ (Shows(e) => Shows(x))
<1> DEFINE w == Ticked(e, "set_bold_colour", "set_bold_colour" \notin e.on)
<1>1. /\ Ok(w, f, {})
      /\ OtherToggles(e, w, {"set_bold_colour"})
      /\ w.kf = e.kf /\ w.button = e.button /\ w.radio = e.radio
    BY Names, ClickEffect
<1>2. x = OnSetBoldToggled(w)
    OBVIOUS
<1> HIDE DEF w
<1>3. Settled(w)
    BY <1>1, ClickSettled
<1>4. /\ Ok(x, f, {}) /\ Keeps(w, x, {"bold"}) /\ x.on = w.on
      /\ Saved(x, "set_bold_colour", "bold")
    BY <1>1, <1>2, SetBoldEffect
<1>5. {"bold"} \subseteq Named \ Text
    BY DEF Named, Pairs, Text
<1>6. Settled(x)
    BY <1>3, <1>4, <1>5, KeepsMore, NamedSettled
<1>7. ASSUME Shows(e) PROVE Shows(x)
    <2>1. {"set_fgbg", "set_cursor_colour"} \subseteq Toggles \ {"set_bold_colour"}
        BY DEF Toggles
    <2>2. /\ ("set_fgbg" \in x.on) <=> ("set_fgbg" \in e.on)
          /\ ("set_cursor_colour" \in x.on) <=> ("set_cursor_colour" \in e.on)
        BY <1>1, <1>4, <2>1 DEF OtherToggles
    <2>3. \A k \in Named \ {"bold"} : /\ x.kf.colour[k] = e.kf.colour[k]
                                      /\ x.button[k] = e.button[k]
        BY <1>1, <1>4, Names DEF Keeps
    <2>4. {"foreground", "background", "cursor"} \subseteq Named \ {"bold"}
        BY DEF Named, Pairs
    <2>5. ("set_bold_colour" \in x.on) <=> x.kf.colour["bold"] # Unset
        <3>1. x.button["bold"] # Unset
            BY <1>4, Names, Kinds, EditorFields DEF Ok
        <3> QED
            BY <1>4, <3>1 DEF Saved
    <2>6. x.kf.colour["bold"] \in {Unset, x.button["bold"]}
        BY <1>4 DEF Saved
    <2>7. \A k \in Named \ {"bold"} : x.kf.colour[k] \in {Unset, x.button[k]}
        BY <1>7, <2>3 DEF Shows, NamedShown
    <2>8. x.kf.size \in {0, x.radio}
        BY <1>1, <1>4, <1>7 DEF Shows, Keeps
    <2>9. ("set_fgbg" \in x.on) <=> \/ x.kf.colour["foreground"] # Unset
                                    \/ x.kf.colour["background"] # Unset
        BY <1>7, <2>2, <2>3, <2>4 DEF Shows, NamedShown
    <2>10. ("set_cursor_colour" \in x.on) <=> x.kf.colour["cursor"] # Unset
        BY <1>7, <2>2, <2>3, <2>4 DEF Shows, NamedShown
    <2> QED
        BY <2>5, <2>6, <2>7, <2>8, <2>9, <2>10 DEF Shows, NamedShown
<1> QED
    BY <1>4, <1>6, <1>7

LEMMA TrackSettled ==
    ASSUME NEW e, NEW f, Ok(e, f, {}), Settled(e),
           "set_fgbg" \in e.on, "use_custom_colours" \in e.on,
           NEW x, x = OnTrackToggled(Ticked(e, Track, Track \notin e.on))
    PROVE  Ok(x, f, {}) /\ Settled(x) /\ (Shows(e) => Shows(x))
<1> DEFINE w == Ticked(e, Track, Track \notin e.on)
<1>1. /\ Ok(w, f, {})
      /\ OtherToggles(e, w, {Track})
      /\ w.kf = e.kf /\ w.button = e.button /\ w.radio = e.radio
    BY Names, ClickEffect
<1>2. x = OnTrackToggled(w)
    OBVIOUS
<1> HIDE DEF w
<1>3. /\ Ok(x, f, {}) /\ Keeps(w, x, Text) /\ x.on = w.on
      /\ Track \in w.on => Mirrors(w, x)
      /\ Track \notin w.on => x = w
    BY <1>1, <1>2, TrackToggledEffect
<1>4. \A u \in Toggles \ {Track} : (u \in x.on) <=> (u \in e.on)
    BY <1>1, <1>3 DEF OtherToggles
<1>5. {"set_fgbg", "use_custom_colours", "set_cursor_colour", "set_bold_colour"}
        \subseteq Toggles \ {Track}
    BY DEF Toggles, Track
<1>6. EntriesShown(w)
    BY <1>1 DEF Settled, EntriesShown
<1>7. EntriesShown(x) /\ \A k \in Entries : x.button[k] = w.button[k]
    BY <1>3, <1>6, Names, KeepsEntries DEF Text
<1>8. x.kf.size = e.kf.size /\ x.radio = e.radio
    BY <1>1, <1>3 DEF Keeps
<1>9. PaletteUsed(x)
    <2>1. ("use_custom_colours" \in x.on) <=> ("use_custom_colours" \in e.on)
        BY <1>4, <1>5
    <2> QED
        BY <1>8, <2>1, KeepsPalette DEF Settled
<1>10. "set_fgbg" \in x.on /\ x.kf.size # 0
    BY <1>4, <1>5, <1>8 DEF Settled, PaletteUsed
<1>11. Tracks(x)
    <2> SUFFICES ASSUME Track \in x.on
                 PROVE  /\ x.kf.colour["foreground"] = Entry(x.kf, "0")
                        /\ x.kf.colour["background"] = Entry(x.kf, "7")
        BY <1>10 DEF Tracks, Track
    <2>1. Mirrors(w, x)
        BY <1>3
    <2> QED
        BY <1>7, <2>1, Names DEF Mirrors, EntriesShown
<1>12. Settled(x)
    BY <1>7, <1>9, <1>11 DEF Settled
<1>13. ASSUME Shows(e) PROVE Shows(x)
    <2>1. CASE Track \notin w.on
        <3>1. x.kf = e.kf /\ x.button = e.button
            BY <1>1, <1>3, <2>1
        <3> QED
            BY <1>4, <1>5, <1>8, <1>13, <3>1 DEF Shows, NamedShown
    <2>2. CASE Track \in w.on
        <3>1. Mirrors(w, x)
            BY <1>3, <2>2
        <3>2. \A k \in Named \ Text : /\ x.kf.colour[k] = e.kf.colour[k]
                                      /\ x.button[k] = e.button[k]
            BY <1>1, <1>3, Names DEF Keeps
        <3>3. {"cursor", "bold"} \subseteq Named \ Text
            BY DEF Named, Pairs, Text
        <3>4. \A k \in Text : x.kf.colour[k] = x.button[k]
            BY <3>1 DEF Mirrors, Text
        <3>5. x.button["foreground"] # Unset
            BY <1>3, Names, Kinds, EditorFields DEF Ok
        <3>6. x.kf.colour["foreground"] # Unset
            BY <3>4, <3>5 DEF Text
        <3>7. /\ ("set_cursor_colour" \in x.on) <=> x.kf.colour["cursor"] # Unset
              /\ ("set_bold_colour" \in x.on) <=> x.kf.colour["bold"] # Unset
            BY <1>4, <1>5, <1>13, <3>2, <3>3 DEF Shows, NamedShown
        <3>8. \A k \in Named \ Text : x.kf.colour[k] \in {Unset, x.button[k]}
            BY <1>13, <3>2 DEF Shows, NamedShown
        <3>9. \A k \in Named : x.kf.colour[k] \in {Unset, x.button[k]}
            BY <3>4, <3>8
        <3>10. x.kf.size \in {0, x.radio}
            BY <1>8, <1>13 DEF Shows
        <3> QED
            BY <1>10, <3>6, <3>7, <3>9, <3>10 DEF Shows, NamedShown
    <2> QED
        BY <2>1, <2>2
<1> QED
    BY <1>3, <1>12, <1>13

\* The palette's size follows its buttons.
LEMMA CustomSettled ==
    ASSUME NEW w, NEW f, Ok(w, f, {}), EntriesShown(w), Tracks(w),
           NEW x, x = OnUseCustomToggled(w)
    PROVE  Ok(x, f, {}) /\ Settled(x) /\ (NamedShown(w) => Shows(x))
<1>1. Ok(x, f, {}) /\ CustomSet(w, x)
    BY SetCustomEffect
<1>2. EntriesShown(x)
    <2> SUFFICES ASSUME NEW k \in Entries PROVE x.button[k] = Entry(x.kf, k)
        BY DEF EntriesShown
    <2>1. x.button[k] = w.button[k] /\ w.button[k] = Entry(w.kf, k) /\ Filled(w, x, k)
        BY <1>1 DEF CustomSet, EntriesShown
    <2>2. x.button[k] # Unset
        BY <1>1, Names, Kinds, EditorFields DEF Ok
    <2> QED
        BY <2>1, <2>2 DEF Filled, Entry
<1>3. {"set_fgbg", "use_custom_colours", "set_cursor_colour", "set_bold_colour"}
        \subseteq Toggles \ {Track}
    BY DEF Toggles, Track
<1>4. /\ ("set_fgbg" \in x.on) <=> ("set_fgbg" \in w.on)
      /\ ("use_custom_colours" \in x.on) <=> ("use_custom_colours" \in w.on)
      /\ ("set_cursor_colour" \in x.on) <=> ("set_cursor_colour" \in w.on)
      /\ ("set_bold_colour" \in x.on) <=> ("set_bold_colour" \in w.on)
    BY <1>1, <1>3 DEF CustomSet, OtherToggles
<1>5. x.radio = w.radio /\ x.radio # 0 /\ x.kf.size = PaletteSize(w)
    BY <1>1, EditorFields DEF Ok, CustomSet
<1>6. PaletteUsed(x)
    <2>1. CASE "use_custom_colours" \in w.on
        BY <1>4, <1>5, <2>1 DEF PaletteUsed, PaletteSize
    <2>2. CASE "use_custom_colours" \notin w.on
        BY <1>4, <1>5, <2>2 DEF PaletteUsed, PaletteSize
    <2> QED
        BY <2>1, <2>2
<1>7. Tracks(x)
    <2> SUFFICES ASSUME Track \in x.on
                 PROVE  /\ "set_fgbg" \in x.on /\ x.kf.size # 0
                        /\ x.kf.colour["foreground"] = Entry(x.kf, "0")
                        /\ x.kf.colour["background"] = Entry(x.kf, "7")
        BY DEF Tracks, Track
    <2>1. Track \in w.on /\ (x.kf.size # 0 \/ x = w)
        BY <1>1 DEF CustomSet
    <2>2. /\ "set_fgbg" \in w.on /\ w.kf.size # 0
          /\ w.kf.colour["foreground"] = Entry(w.kf, "0")
          /\ w.kf.colour["background"] = Entry(w.kf, "7")
        BY <2>1 DEF Tracks, Track
    <2>3. \A k \in {"0", "7"} : x.kf.colour[k] = w.kf.colour[k]
        BY <1>1, <2>2 DEF CustomSet
    <2>4. Entry(x.kf, "0") = Entry(w.kf, "0") /\ Entry(x.kf, "7") = Entry(w.kf, "7")
        BY <2>3 DEF Entry
    <2>5. /\ x.kf.colour["foreground"] = w.kf.colour["foreground"]
          /\ x.kf.colour["background"] = w.kf.colour["background"]
        BY <1>1, Names DEF CustomSet
    <2> QED
        BY <1>4, <2>1, <2>2, <2>4, <2>5
<1>8. Settled(x)
    BY <1>2, <1>6, <1>7 DEF Settled
<1>9. ASSUME NamedShown(w) PROVE Shows(x)
    <2>1. \A k \in Named : x.kf.colour[k] = w.kf.colour[k] /\ x.button[k] = w.button[k]
        BY <1>1 DEF CustomSet
    <2>2. /\ x.kf.colour["foreground"] = w.kf.colour["foreground"]
          /\ x.kf.colour["background"] = w.kf.colour["background"]
          /\ x.kf.colour["cursor"] = w.kf.colour["cursor"]
          /\ x.kf.colour["bold"] = w.kf.colour["bold"]
        BY <2>1, Names
    <2>3. NamedShown(x)
        BY <1>4, <1>9, <2>1, <2>2 DEF NamedShown
    <2>4. x.kf.size \in {0, x.radio}
        BY <1>5 DEF PaletteSize
    <2> QED
        BY <2>3, <2>4 DEF Shows
<1> QED
    BY <1>1, <1>8, <1>9

LEMMA ClickCustomSettled ==
    ASSUME NEW e, NEW f, Ok(e, f, {}), Settled(e),
           NEW x, x = OnUseCustomToggled(Ticked(e, "use_custom_colours",
                                                "use_custom_colours" \notin e.on))
    PROVE  Ok(x, f, {}) /\ Settled(x) /\ (Shows(e) => Shows(x))
<1> DEFINE w == Ticked(e, "use_custom_colours", "use_custom_colours" \notin e.on)
<1>1. /\ Ok(w, f, {})
      /\ OtherToggles(e, w, {"use_custom_colours"})
      /\ w.kf = e.kf /\ w.button = e.button /\ w.radio = e.radio
    BY Names, ClickEffect
<1>2. x = OnUseCustomToggled(w)
    OBVIOUS
<1> HIDE DEF w
<1>3. {"set_fgbg", Track, "set_cursor_colour", "set_bold_colour"}
        \subseteq Toggles \ {"use_custom_colours"}
    BY DEF Toggles, Track
<1>4. /\ ("set_fgbg" \in w.on) <=> ("set_fgbg" \in e.on)
      /\ (Track \in w.on) <=> (Track \in e.on)
      /\ ("set_cursor_colour" \in w.on) <=> ("set_cursor_colour" \in e.on)
      /\ ("set_bold_colour" \in w.on) <=> ("set_bold_colour" \in e.on)
    BY <1>1, <1>3 DEF OtherToggles
<1>5. EntriesShown(w) /\ Tracks(w)
    BY <1>1, <1>4 DEF Settled, EntriesShown, Tracks, Track
<1>6. Shows(e) => NamedShown(w)
    BY <1>1, <1>4 DEF Shows, NamedShown
<1> QED
    BY <1>1, <1>2, <1>5, <1>6, CustomSettled

LEMMA ClickSizeSettled ==
    ASSUME NEW e, NEW f, NEW n \in {8, 16}, Ok(e, f, {}), Settled(e),
           NEW x, x = OnUseCustomToggled([e EXCEPT !.radio = n])
    PROVE  Ok(x, f, {}) /\ Settled(x) /\ (Shows(e) => Shows(x))
<1> DEFINE w == [e EXCEPT !.radio = n]
<1>1. e \in Editor
    BY DEF Ok
<1>2. /\ w \in Editor /\ w.open = e.open /\ w.kf = e.kf /\ w.sent = e.sent
      /\ w.on = e.on /\ w.button = e.button
    BY <1>1 DEF Editor
<1>3. x = OnUseCustomToggled(w)
    OBVIOUS
<1> HIDE DEF w
<1>4. Ok(w, f, {})
    BY <1>2, OkSame
<1>5. EntriesShown(w) /\ Tracks(w)
    BY <1>2 DEF Settled, EntriesShown, Tracks
<1>6. Shows(e) => NamedShown(w)
    BY <1>2 DEF Shows, NamedShown
<1> QED
    BY <1>3, <1>4, <1>5, <1>6, CustomSettled

\* A colour that is chosen.
LEMMA ChosenSettled ==
    ASSUME NEW e, NEW f, Ok(e, f, {}), Settled(e), NEW k \in Sensitive(e), NEW c \in Colours,
           NEW x, x = OnColorSet([e EXCEPT !.button[k] = c], k, c)
    PROVE  Ok(x, f, {}) /\ Settled(x) /\ (Shows(e) => Shows(x))
<1> DEFINE w == [e EXCEPT !.button[k] = c]
<1>1. e \in Editor /\ c \in Colour /\ c # Unset /\ k \in Keys
    BY Names, ColoursAssumption DEF Ok, Colour, Sensitive
<1>2. ButtonSet(e, w, k, c)
    BY <1>1, ButtonEffect
<1>3. x = OnColorSet(w, k, c)
    OBVIOUS
<1> HIDE DEF w
<1>4. Ok(w, f, {}) /\ Ok(w, f, {} \cup {k})
    <2>1. Ok(w, f, {})
        BY <1>2, OkSame DEF ButtonSet, Frame
    <2> QED
        BY <2>1, OkMore
<1>5. /\ w.kf = e.kf /\ w.on = e.on /\ w.radio = e.radio /\ w.button[k] = c
      /\ \A l \in Keys \ {k} : w.button[l] = e.button[l]
    BY <1>2 DEF ButtonSet, Frame
<1>6. CASE k \in Named
    <2>1. x = SetColourOption(w, k, c)
        BY <1>3, <1>6 DEF OnColorSet
    <2>2. Ok(x, f, {}) /\ OptionSet(w, x, k, c)
        BY <1>1, <1>4, <1>6, <2>1, OptionEffect
    <2>3. /\ x.on = e.on /\ x.radio = e.radio /\ x.kf.size = e.kf.size
          /\ x.kf.colour[k] = c /\ x.button[k] = c
          /\ \A l \in Keys \ {k} : /\ x.kf.colour[l] = e.kf.colour[l]
                                   /\ x.button[l] = e.button[l]
        BY <1>5, <2>2 DEF OptionSet, Keeps
    <2>4. /\ k \in Text => "set_fgbg" \in e.on /\ Track \notin e.on
          /\ k = "cursor" => "set_cursor_colour" \in e.on
          /\ k = "bold" => "set_bold_colour" \in e.on
        BY <1>6, Names DEF Sensitive, Text, Track, Entries
    <2>5. \A l \in Entries : l \in Keys \ {k}
        BY <1>6, Names
    <2>6. EntriesShown(x)
        BY <2>3, <2>5 DEF Settled, EntriesShown, Entry
    <2>7. PaletteUsed(x)
        BY <2>3 DEF Settled, PaletteUsed
    <2>8. Tracks(x)
        <3> SUFFICES ASSUME Track \in x.on PROVE Tracks(x)
            BY DEF Tracks, Track
        <3>1. k \notin Text
            BY <2>3, <2>4
        <3>2. \A l \in Text \cup Entries : x.kf.colour[l] = e.kf.colour[l]
            BY <2>3, <2>5, <3>1, Names
        <3> QED
            BY <2>3, <3>2, Names DEF Settled, Tracks, Entry, Text
    <2>9. ASSUME Shows(e) PROVE Shows(x)
        <3>1. \A l \in Named : x.kf.colour[l] \in {Unset, x.button[l]}
            BY <2>3, <2>9, Names DEF Shows, NamedShown
        <3>2. ("set_fgbg" \in x.on) <=> \/ x.kf.colour["foreground"] # Unset
                                        \/ x.kf.colour["background"] # Unset
            <4>1. CASE k \in Text
                BY <1>1, <2>3, <2>4, <4>1 DEF Text
            <4>2. CASE k \notin Text
                BY <2>3, <2>9, <4>2, Names DEF Shows, NamedShown, Text
            <4> QED
                BY <4>1, <4>2
        <3>3. ("set_cursor_colour" \in x.on) <=> x.kf.colour["cursor"] # Unset
            <4>1. CASE k = "cursor"
                BY <1>1, <2>3, <2>4, <4>1
            <4>2. CASE k # "cursor"
                BY <2>3, <2>9, <4>2, Names DEF Shows, NamedShown
            <4> QED
                BY <4>1, <4>2
        <3>4. ("set_bold_colour" \in x.on) <=> x.kf.colour["bold"] # Unset
            <4>1. CASE k = "bold"
                BY <1>1, <2>3, <2>4, <4>1
            <4>2. CASE k # "bold"
                BY <2>3, <2>9, <4>2, Names DEF Shows, NamedShown
            <4> QED
                BY <4>1, <4>2
        <3>5. x.kf.size \in {0, x.radio}
            BY <2>3, <2>9 DEF Shows
        <3> QED
            BY <3>1, <3>2, <3>3, <3>4, <3>5 DEF Shows, NamedShown
    <2> QED
        BY <2>2, <2>6, <2>7, <2>8, <2>9 DEF Settled
<1>7. CASE k \notin Named
    <2>1. k \in Entries
        BY <1>1, <1>7, Kinds
    <2>2. Ok(x, f, {}) /\ EntryChosen(w, x, k, c)
        BY <1>1, <1>3, <1>4, <2>1, EntryChosenEffect
    <2>3. /\ x.on = e.on /\ x.radio = e.radio /\ x.kf.size = e.kf.size
          /\ x.kf.colour[k] = c /\ x.button[k] = c
          /\ \A l \in Entries \ {k} : /\ x.kf.colour[l] = e.kf.colour[l]
                                      /\ x.button[l] = e.button[l]
        BY <1>5, <2>1, <2>2, Names DEF EntryChosen
    <2>4. \A l \in Named :
            IF Following(e, k) /\ l = Follower(k)
            THEN x.kf.colour[l] = c /\ x.button[l] = c
            ELSE x.kf.colour[l] = e.kf.colour[l] /\ x.button[l] = e.button[l]
        <3>1. Following(w, k) <=> Following(e, k)
            BY <1>5 DEF Following
        <3>2. \A l \in Named : w.button[l] = e.button[l]
            BY <1>5, <1>7, Names
        <3> QED
            BY <1>5, <2>2, <3>1, <3>2 DEF EntryChosen
    <2>5. EntriesShown(x) /\ Entry(x.kf, k) = c
        BY <1>1, <2>3 DEF Settled, EntriesShown, Entry
    <2>6. PaletteUsed(x)
        BY <2>3 DEF Settled, PaletteUsed
    <2>7. Tracks(x)
        <3> SUFFICES ASSUME Track \in e.on
                     PROVE  /\ "set_fgbg" \in e.on /\ e.kf.size # 0
                            /\ x.kf.colour["foreground"] = Entry(x.kf, "0")
                            /\ x.kf.colour["background"] = Entry(x.kf, "7")
            BY <2>3 DEF Tracks, Track
        <3>1. /\ "set_fgbg" \in e.on /\ e.kf.size # 0
              /\ e.kf.colour["foreground"] = Entry(e.kf, "0")
              /\ e.kf.colour["background"] = Entry(e.kf, "7")
            BY DEF Settled, Tracks, Track
        <3>2. x.kf.colour["foreground"] = Entry(x.kf, "0")
            <4>1. CASE k = "0"
                BY <2>4, <2>5, <4>1, Names DEF Following, Follower
            <4>2. CASE k # "0"
                <5>1. Entry(x.kf, "0") = Entry(e.kf, "0")
                    BY <2>3, <4>2, Names DEF Entry
                <5>2. x.kf.colour["foreground"] = e.kf.colour["foreground"]
                    BY <2>4, <4>2, Names DEF Following, Follower
                <5> QED
                    BY <3>1, <5>1, <5>2
            <4> QED
                BY <4>1, <4>2
        <3>3. x.kf.colour["background"] = Entry(x.kf, "7")
            <4>1. CASE k = "7"
                BY <2>4, <2>5, <4>1, Names DEF Following, Follower
            <4>2. CASE k # "7"
                <5>1. Entry(x.kf, "7") = Entry(e.kf, "7")
                    BY <2>3, <4>2, Names DEF Entry
                <5>2. x.kf.colour["background"] = e.kf.colour["background"]
                    BY <2>4, <4>2, Names DEF Following, Follower
                <5> QED
                    BY <3>1, <5>1, <5>2
            <4> QED
                BY <4>1, <4>2
        <3> QED
            BY <3>1, <3>2, <3>3
    <2>8. ASSUME Shows(e) PROVE Shows(x)
        <3>1. \A l \in Named : x.kf.colour[l] \in {Unset, x.button[l]}
            BY <2>4, <2>8 DEF Shows, NamedShown
        <3>2. \A l \in Named \ Text : x.kf.colour[l] = e.kf.colour[l]
            BY <2>4 DEF Follower, Text
        <3>3. {"cursor", "bold"} \subseteq Named \ Text
            BY DEF Named, Pairs, Text
        <3>4. /\ ("set_cursor_colour" \in x.on) <=> x.kf.colour["cursor"] # Unset
              /\ ("set_bold_colour" \in x.on) <=> x.kf.colour["bold"] # Unset
            BY <2>3, <2>8, <3>2, <3>3 DEF Shows, NamedShown
        <3>5. ("set_fgbg" \in x.on) <=> \/ x.kf.colour["foreground"] # Unset
                                        \/ x.kf.colour["background"] # Unset
            <4>1. CASE Following(e, k)
                <5>1. "set_fgbg" \in e.on
                    BY <4>1 DEF Following, Settled, Tracks, Track
                <5>2. Follower(k) \in Text /\ x.kf.colour[Follower(k)] = c
                    BY <2>4, <4>1, Names DEF Follower, Text
                <5> QED
                    BY <1>1, <2>3, <5>1, <5>2 DEF Text
            <4>2. CASE ~Following(e, k)
                <5>1. /\ x.kf.colour["foreground"] = e.kf.colour["foreground"]
                      /\ x.kf.colour["background"] = e.kf.colour["background"]
                    BY <2>4, <4>2, Names
                <5> QED
                    BY <2>3, <2>8, <5>1 DEF Shows, NamedShown
            <4> QED
                BY <4>1, <4>2
        <3>6. x.kf.size \in {0, x.radio}
            BY <2>3, <2>8 DEF Shows
        <3> QED
            BY <3>1, <3>4, <3>5, <3>6 DEF Shows, NamedShown
    <2> QED
        BY <2>2, <2>5, <2>6, <2>7, <2>8 DEF Settled
<1> QED
    BY <1>6, <1>7

-----------------------------------------------------------------------------
(* The dialog opens: filled in without a handler running.                  *)

\* x is g with the colours K filled in; the others have been cached as they
\* are in the key file, or not at all.
Filling(g, x, K) ==
    /\ x \in Editor /\ x.open = g.open /\ x.radio = g.radio /\ x.kf = g.kf /\ x.on = g.on
    /\ x.sent = g.sent
    /\ \A k \in K : x.button[k] = Entry(x.kf, k)
    /\ \A k \in Named \ K : x.cache[k] \in {Unset, x.kf.colour[k]}

LEMMA ColourOfEffect ==
    ASSUME NEW e \in Editor, NEW k \in Keys
    PROVE  ColourOf(e, k) \in Colour
<1>1. /\ k \in Colour /\ e.kf.colour[k] \in Colour \cup {Unset}
      /\ k \in Named => e.cache[k] \in Colour \cup {Unset}
    BY Kinds, EditorFields
<1>2. CASE k \in Named
    <2>1. ColourOf(e, k) = GetOrDefault(e, k)
        BY <1>2 DEF ColourOf
    <2> QED
        BY <1>1, <1>2, <2>1 DEF GetOrDefault, Get
<1>3. CASE k \notin Named
    <2>1. ColourOf(e, k) = Entry(e.kf, k)
        BY <1>3 DEF ColourOf
    <2> QED
        BY <1>1, <2>1 DEF Entry
<1> QED
    BY <1>2, <1>3

ColourShown(e, w, k, c) ==
    /\ w \in Editor /\ Frame(e, w) /\ w.kf = e.kf /\ w.on = e.on /\ w.sent = e.sent
    /\ w.button[k] = c /\ \A l \in Keys \ {k} : w.button[l] = e.button[l]
    /\ \A l \in Named \ {k} : w.cache[l] = e.cache[l]

LEMMA ShowColourEffect ==
    ASSUME NEW e \in Editor, NEW k \in Keys
    PROVE  ColourShown(e, ShowColour(e, k), k, ColourOf(e, k))
<1> DEFINE c == ColourOf(e, k)
           w == ShowColour(e, k)
<1>1. c \in Colour
    BY ColourOfEffect
<1>2. CASE k \in Named
    <2> DEFINE r == Cache(e, k, c)
    <2>1. w = [r EXCEPT !.button[k] = c]
        BY <1>2 DEF ShowColour
    <2> HIDE DEF c, w
    <2>2. CacheSet(e, r, k, c)
        BY <1>1, <1>2, CacheEffect
    <2> HIDE DEF r
    <2>3. r \in Editor
        BY <2>2 DEF CacheSet
    <2>4. ButtonSet(r, w, k, c)
        BY <1>1, <2>1, <2>3, ButtonEffect
    <2>5. ColourShown(e, w, k, c)
        BY <2>2, <2>4 DEF CacheSet, ButtonSet, Frame, ColourShown
    <2> QED
        BY <2>5 DEF c, w
<1>3. CASE k \notin Named
    <2>1. w = [e EXCEPT !.button[k] = c]
        BY <1>3 DEF ShowColour
    <2> HIDE DEF c, w
    <2>2. ButtonSet(e, w, k, c)
        BY <1>1, <2>1, ButtonEffect
    <2>3. ColourShown(e, w, k, c)
        BY <2>2 DEF ButtonSet, ColourShown
    <2> QED
        BY <2>3 DEF c, w
<1> QED
    BY <1>2, <1>3

LEMMA QuietFill ==
    ASSUME NEW g, NEW e, NEW K \in SUBSET Keys, NEW L, NEW k \in Keys, k \notin K,
           L = K \cup {k}, Filling(g, e, K), NEW x, x = SetColourWidget(e, k, TRUE)
    PROVE  Filling(g, x, L)
<1>1. e \in Editor
    BY DEF Filling
<1>2. ColourOf(e, k) = Entry(e.kf, k)
    <2>1. CASE k \in Named
        <3>1. e.cache[k] \in {Unset, e.kf.colour[k]}
            BY <2>1 DEF Filling
        <3>2. ColourOf(e, k) = GetOrDefault(e, k)
            BY <2>1 DEF ColourOf
        <3> QED
            BY <3>1, <3>2 DEF GetOrDefault, Get, Entry
    <2>2. CASE k \notin Named
        BY <2>2 DEF ColourOf
    <2> QED
        BY <2>1, <2>2
<1>3. x = ShowColour(e, k)
    BY DEF SetColourWidget
<1>4. ColourShown(e, x, k, ColourOf(e, k))
    BY <1>1, <1>3, ShowColourEffect
<1>5. \A l \in L : x.button[l] = Entry(x.kf, l)
    BY <1>2, <1>4 DEF ColourShown, Filling
<1>6. \A l \in Named \ L : x.cache[l] \in {Unset, x.kf.colour[l]}
    BY <1>4 DEF ColourShown, Filling
<1> QED
    BY <1>4, <1>5, <1>6 DEF ColourShown, Filling, Frame

\* The toggle buttons are set to what the key file says.
Toggled(e, x) ==
    /\ x \in Editor /\ x.open = e.open /\ x.kf = e.kf /\ x.sent = e.sent
    /\ "set_fgbg" \in x.on <=> \/ e.kf.colour["foreground"] # Unset
                               \/ e.kf.colour["background"] # Unset
    /\ "set_cursor_colour" \in x.on <=> e.kf.colour["cursor"] # Unset
    /\ "set_bold_colour" \in x.on <=> e.kf.colour["bold"] # Unset
    /\ "use_custom_colours" \in x.on <=> e.kf.size # 0
    /\ e.kf.size \in {0, x.radio}
    /\ Tracks(x)
    /\ \A k \in Named : x.cache[k] \in {Unset, x.kf.colour[k]}

LEMMA QuietToggles ==
    ASSUME NEW e \in Editor, \A k \in Named : e.cache[k] = Unset,
           NEW x, x = SetAllToggles(e, TRUE)
    PROVE  Toggled(e, x)
<1> DEFINE text == IsSet(e, {"foreground", "background"})
           a == Ticked(e, "set_fgbg", text)
           b == SetTrackToggle(a, TRUE)
           custom == b.kf.size # 0
           v == Ticked(b, "use_custom_colours", custom)
           c == SetPaletteToggles(b, TRUE)
           cursor == IsSet(c, {"cursor"})
           d == Ticked(c, "set_cursor_colour", cursor)
           bold == IsSet(d, {"bold"})
<1>1. x = Ticked(d, "set_bold_colour", bold)
    BY DEF SetAllToggles, SetToggle
<1>2. c = IF b.kf.size = 0 THEN v ELSE [v EXCEPT !.radio = b.kf.size]
    BY DEF SetPaletteToggles, SetToggle
<1>3. text \in BOOLEAN /\ ToggleSet(e, a, "set_fgbg", text)
    <2>1. text \in BOOLEAN
        BY DEF IsSet
    <2> HIDE DEF text
    <2> QED
        BY <2>1, Names, TickedEffect
<1> HIDE DEF a
<1>4. a \in Editor
    BY <1>3 DEF ToggleSet
<1>5. TrackRead(a, b)
    <2>1. PICK s : /\ TrackRead(a, s)
                   /\ SetTrackToggle(a, TRUE)
                        = IF TRUE \/ s.on = a.on THEN s ELSE OnTrackToggled(s)
        BY <1>4, TrackReadEffect
    <2> QED
        BY <2>1
<1> HIDE DEF b
<1>6. ToggleSet(b, v, "use_custom_colours", custom)
    <2>1. b \in Editor /\ custom \in BOOLEAN
        BY <1>5 DEF TrackRead
    <2> HIDE DEF custom
    <2> QED
        BY <2>1, Names, TickedEffect
<1> HIDE DEF v
<1>7. /\ c \in Editor /\ c.open = v.open /\ c.kf = v.kf /\ c.sent = v.sent
      /\ c.cache = v.cache /\ c.on = v.on /\ (b.kf.size # 0 => c.radio = b.kf.size)
    <2>1. v \in Editor
        BY <1>6 DEF ToggleSet
    <2>2. CASE b.kf.size = 0
        BY <1>2, <2>1, <2>2
    <2>3. CASE b.kf.size # 0
        <3>1. c = [v EXCEPT !.radio = b.kf.size]
            BY <1>2, <2>3
        <3>2. b.kf.size \in {8, 16}
            BY <1>5, <2>3, EditorFields DEF TrackRead, Sizes
        <3> HIDE DEF c
        <3> QED
            BY <2>1, <3>1, <3>2 DEF Editor
    <2> QED
        BY <2>2, <2>3
<1> HIDE DEF c
<1>8. cursor \in BOOLEAN /\ ToggleSet(c, d, "set_cursor_colour", cursor)
    <2>1. cursor \in BOOLEAN
        BY DEF IsSet
    <2> HIDE DEF cursor
    <2> QED
        BY <1>7, <2>1, Names, TickedEffect
<1> HIDE DEF d
<1>9. bold \in BOOLEAN /\ ToggleSet(d, x, "set_bold_colour", bold)
    <2>1. bold \in BOOLEAN /\ d \in Editor
        BY <1>8 DEF IsSet, ToggleSet
    <2> HIDE DEF bold
    <2> QED
        BY <1>1, <2>1, Names, TickedEffect
<1>10. /\ a.kf = e.kf /\ b.kf = e.kf /\ c.kf = e.kf /\ d.kf = e.kf /\ x.kf = e.kf
       /\ x \in Editor /\ x.open = e.open /\ x.sent = e.sent
       /\ a.cache = e.cache /\ x.cache = b.cache /\ x.radio = c.radio
    <2> HIDE DEF text, custom, cursor, bold
    <2>1. a.kf = e.kf /\ a.cache = e.cache /\ a.open = e.open /\ a.sent = e.sent
        BY <1>3 DEF ToggleSet, Frame
    <2>2. b.kf = a.kf /\ b.open = a.open /\ b.sent = a.sent
        BY <1>5 DEF TrackRead, Frame
    <2>3. v.kf = b.kf /\ v.open = b.open /\ v.sent = b.sent /\ v.cache = b.cache
        BY <1>6 DEF ToggleSet, Frame
    <2>4. d.kf = c.kf /\ d.open = c.open /\ d.sent = c.sent /\ d.cache = c.cache
          /\ d.radio = c.radio
        BY <1>8 DEF ToggleSet, Frame
    <2>5. /\ x.kf = d.kf /\ x.open = d.open /\ x.sent = d.sent /\ x.cache = d.cache
          /\ x.radio = d.radio /\ x \in Editor
        BY <1>9 DEF ToggleSet, Frame
    <2> QED
        BY <1>7, <2>1, <2>2, <2>3, <2>4, <2>5
<1>11. /\ text <=> \/ e.kf.colour["foreground"] # Unset
                   \/ e.kf.colour["background"] # Unset
       /\ cursor <=> e.kf.colour["cursor"] # Unset
       /\ bold <=> e.kf.colour["bold"] # Unset
    BY <1>10 DEF IsSet
<1> HIDE DEF text, cursor, bold, custom
<1>12. ("set_fgbg" \in x.on) <=> text
    <2>1. ("set_fgbg" \in a.on) <=> text
        BY <1>3, Zenon DEF ToggleSet
    <2>2. /\ "set_fgbg" \in Toggles \ {Track}
          /\ "set_fgbg" \in Toggles \ {"use_custom_colours"}
          /\ "set_fgbg" \in Toggles \ {"set_cursor_colour"}
          /\ "set_fgbg" \in Toggles \ {"set_bold_colour"}
        BY DEF Toggles, Track
    <2>3. ("set_fgbg" \in b.on) <=> ("set_fgbg" \in a.on)
        BY <1>5, <2>2, Zenon DEF TrackRead, OtherToggles
    <2>4. ("set_fgbg" \in v.on) <=> ("set_fgbg" \in b.on)
        BY <1>6, <2>2, Zenon DEF ToggleSet
    <2>5. ("set_fgbg" \in d.on) <=> ("set_fgbg" \in c.on)
        BY <1>8, <2>2, Zenon DEF ToggleSet
    <2>6. ("set_fgbg" \in x.on) <=> ("set_fgbg" \in d.on)
        BY <1>9, <2>2, Zenon DEF ToggleSet
    <2> QED
        BY <1>7, <2>1, <2>3, <2>4, <2>5, <2>6
<1>13. ("use_custom_colours" \in x.on) <=> custom
    <2>1. ("use_custom_colours" \in v.on) <=> custom
        BY <1>6, Zenon DEF ToggleSet
    <2>2. /\ "use_custom_colours" \in Toggles \ {"set_cursor_colour"}
          /\ "use_custom_colours" \in Toggles \ {"set_bold_colour"}
        BY DEF Toggles
    <2>3. ("use_custom_colours" \in d.on) <=> ("use_custom_colours" \in c.on)
        BY <1>8, <2>2, Zenon DEF ToggleSet
    <2>4. ("use_custom_colours" \in x.on) <=> ("use_custom_colours" \in d.on)
        BY <1>9, <2>2, Zenon DEF ToggleSet
    <2> QED
        BY <1>7, <2>1, <2>3, <2>4
<1>14. ("set_cursor_colour" \in x.on) <=> cursor
    <2>1. ("set_cursor_colour" \in d.on) <=> cursor
        BY <1>8, Zenon DEF ToggleSet
    <2>2. "set_cursor_colour" \in Toggles \ {"set_bold_colour"}
        BY DEF Toggles
    <2>3. ("set_cursor_colour" \in x.on) <=> ("set_cursor_colour" \in d.on)
        BY <1>9, <2>2, Zenon DEF ToggleSet
    <2> QED
        BY <2>1, <2>3
<1>15. ("set_bold_colour" \in x.on) <=> bold
    BY <1>9, Zenon DEF ToggleSet
<1>16. (Track \in x.on) <=> (Track \in b.on)
    <2>1. /\ Track \in Toggles \ {"use_custom_colours"}
          /\ Track \in Toggles \ {"set_cursor_colour"}
          /\ Track \in Toggles \ {"set_bold_colour"}
        BY DEF Toggles, Track
    <2>2. (Track \in v.on) <=> (Track \in b.on)
        BY <1>6, <2>1, Zenon DEF ToggleSet
    <2>3. (Track \in d.on) <=> (Track \in c.on)
        BY <1>8, <2>1, Zenon DEF ToggleSet
    <2>4. (Track \in x.on) <=> (Track \in d.on)
        BY <1>9, <2>1, Zenon DEF ToggleSet
    <2> QED
        BY <1>7, <2>2, <2>3, <2>4
<1>17. \A k \in Named : b.cache[k] \in {Unset, e.kf.colour[k]}
    <2>1. \A k \in Named \ Text : b.cache[k] = Unset
        BY <1>5, <1>10 DEF TrackRead
    <2>2. \A k \in Text : Get(a, k) = e.kf.colour[k] /\ a.cache[k] = Unset
        BY <1>10, Names DEF Get, Text
    <2>3. \A k \in Text : b.cache[k] \in {Unset, e.kf.colour[k]}
        BY <1>5, <2>2 DEF TrackRead
    <2> QED
        BY <2>1, <2>3
<1>18. Tracks(x)
    <2> SUFFICES ASSUME Track \in x.on
                 PROVE  /\ "set_fgbg" \in x.on /\ x.kf.size # 0
                        /\ x.kf.colour["foreground"] = Entry(x.kf, "0")
                        /\ x.kf.colour["background"] = Entry(x.kf, "7")
        BY DEF Tracks, Track
    <2>1. CacheTracks(b) /\ Track \in b.on
        BY <1>5, <1>16 DEF TrackRead
    <2>2. /\ "set_fgbg" \in b.on /\ b.kf.size # 0
          /\ b.cache["foreground"] = Entry(e.kf, "0")
          /\ b.cache["background"] = Entry(e.kf, "7")
        BY <1>10, <2>1 DEF CacheTracks
    <2>3. Entry(e.kf, "0") # Unset /\ Entry(e.kf, "7") # Unset
        BY DEF Entry, Unset
    <2>4. /\ e.kf.colour["foreground"] = Entry(e.kf, "0")
          /\ e.kf.colour["background"] = Entry(e.kf, "7")
        BY <1>17, <2>2, <2>3, Names
    <2>5. "set_fgbg" \in x.on
        <3>1. "set_fgbg" \in Toggles \ {Track}
            BY DEF Toggles, Track
        <3>2. ("set_fgbg" \in b.on) <=> ("set_fgbg" \in a.on)
            BY <1>5, <3>1, Zenon DEF TrackRead, OtherToggles
        <3>3. ("set_fgbg" \in a.on) <=> text
            BY <1>3, Zenon DEF ToggleSet
        <3> QED
            BY <1>12, <2>2, <3>2, <3>3
    <2> QED
        BY <1>10, <2>2, <2>4, <2>5
<1>19. custom <=> e.kf.size # 0
    BY <1>10 DEF custom
<1>20. e.kf.size \in {0, x.radio}
    BY <1>7, <1>10
<1>21. \A k \in Named : x.cache[k] \in {Unset, x.kf.colour[k]}
    BY <1>10, <1>17
<1> QED
    BY <1>10, <1>11, <1>12, <1>13, <1>14, <1>15, <1>18, <1>19, <1>20, <1>21 DEF Toggled

\* The colours filled in so far, in the order of colourgui_fill_in_dialog.
F0 == {}
F1 == F0 \cup {"0"}
F2 == F1 \cup {"7"}
F3 == F2 \cup {"8"}
F4 == F3 \cup {"foreground"}
F5 == F4 \cup {"background"}
F6 == F5 \cup {"cursor"}
F7 == F6 \cup {"cursorfg"}
F8 == F7 \cup {"bold"}

LEMMA FillOrder ==
    /\ F0 \in SUBSET Keys /\ "0" \in Keys \ F0
    /\ Keys \ F0 = (Keys \ F1) \cup {"0"}
    /\ F1 \in SUBSET Keys /\ "7" \in Keys \ F1
    /\ Keys \ F1 = (Keys \ F2) \cup {"7"}
    /\ F2 \in SUBSET Keys /\ "8" \in Keys \ F2
    /\ Keys \ F2 = (Keys \ F3) \cup {"8"}
    /\ F3 \in SUBSET Keys /\ "foreground" \in Keys \ F3
    /\ Keys \ F3 = (Keys \ F4) \cup {"foreground"}
    /\ F4 \in SUBSET Keys /\ "background" \in Keys \ F4
    /\ Keys \ F4 = (Keys \ F5) \cup {"background"}
    /\ F5 \in SUBSET Keys /\ "cursor" \in Keys \ F5
    /\ Keys \ F5 = (Keys \ F6) \cup {"cursor"}
    /\ F6 \in SUBSET Keys /\ "cursorfg" \in Keys \ F6
    /\ Keys \ F6 = (Keys \ F7) \cup {"cursorfg"}
    /\ F7 \in SUBSET Keys /\ "bold" \in Keys \ F7
    /\ Keys \ F7 = (Keys \ F8) \cup {"bold"}
    /\ F8 = Keys /\ Keys \ F8 = {} /\ Keys \ F0 = Keys /\ F3 = Entries
BY DEF F0, F1, F2, F3, F4, F5, F6, F7, F8, Keys, Named, Pairs, Entries

\* colourgui_open fills the dialog in.
LEMMA OpenFills ==
    ASSUME NEW e \in Editor, \A k \in Named : e.cache[k] = Unset,
           NEW x, x = FillInDialog(e, TRUE)
    PROVE  /\ x \in Editor /\ x.open = e.open /\ x.kf = e.kf /\ x.sent = e.sent
           /\ Settled(x) /\ Shows(x)
<1> DEFINE t == SetAllToggles(e, TRUE)
           x0 == ShadePalette(t)
           x1 == SetColourWidget(x0, "0", TRUE)
           x2 == SetColourWidget(x1, "7", TRUE)
           x3 == SetColourWidget(x2, "8", TRUE)
           x4 == SetColourWidget(x3, "foreground", TRUE)
           x5 == SetColourWidget(x4, "background", TRUE)
           x6 == SetColourWidget(x5, "cursor", TRUE)
           x7 == SetColourWidget(x6, "cursorfg", TRUE)
<1>1. x = SetColourWidget(x7, "bold", TRUE)
    BY DEF FillInDialog
<1>2. Toggled(e, t)
    BY QuietToggles
<1> HIDE DEF t
<1>3. Filling(t, x0, F0)
    <2>1. /\ x0 \in Editor /\ x0.open = t.open /\ x0.radio = t.radio /\ x0.kf = t.kf
          /\ x0.cache = t.cache /\ x0.on = t.on /\ x0.sent = t.sent
        BY <1>2, ShadeEffect DEF Toggled
    <2> HIDE DEF x0
    <2> QED
        BY <1>2, <2>1 DEF Filling, Toggled, F0
<1> HIDE DEF x0
<1>4. Filling(t, x1, F1)
    BY <1>3, FillOrder, QuietFill DEF F1
<1> HIDE DEF x1
<1>5. Filling(t, x2, F2)
    BY <1>4, FillOrder, QuietFill DEF F2
<1> HIDE DEF x2
<1>6. Filling(t, x3, F3)
    BY <1>5, FillOrder, QuietFill DEF F3
<1> HIDE DEF x3
<1>7. Filling(t, x4, F4)
    BY <1>6, FillOrder, QuietFill DEF F4
<1> HIDE DEF x4
<1>8. Filling(t, x5, F5)
    BY <1>7, FillOrder, QuietFill DEF F5
<1> HIDE DEF x5
<1>9. Filling(t, x6, F6)
    BY <1>8, FillOrder, QuietFill DEF F6
<1> HIDE DEF x6
<1>10. Filling(t, x7, F7)
    BY <1>9, FillOrder, QuietFill DEF F7
<1> HIDE DEF x7
<1>11. Filling(t, x, F8)
    <2>1. F7 \in SUBSET Keys /\ "bold" \in Keys /\ "bold" \notin F7
        BY FillOrder
    <2>2. F8 = F7 \cup {"bold"}
        BY DEF F8
    <2> QED
        BY <1>1, <1>10, <2>1, <2>2, QuietFill
<1>12. Filling(t, x, Keys)
    BY <1>11, FillOrder
<1>13. /\ x \in Editor /\ x.open = e.open /\ x.kf = e.kf /\ x.sent = e.sent
       /\ x.on = t.on /\ x.radio = t.radio
       /\ \A k \in Keys : x.button[k] = Entry(e.kf, k)
    BY <1>2, <1>12 DEF Filling, Toggled
<1>14. EntriesShown(x) /\ PaletteUsed(x)
    BY <1>2, <1>13, Names DEF EntriesShown, PaletteUsed, Toggled
<1>15. Tracks(x)
    BY <1>2, <1>13 DEF Toggled, Tracks
<1>16. NamedShown(x)
    <2>1. \A k \in Named : e.kf.colour[k] \in {Unset, x.button[k]}
        BY <1>13, Names DEF Entry
    <2> QED
        BY <1>2, <1>13, <2>1 DEF NamedShown, Toggled
<1>17. x.kf.size \in {0, x.radio}
    BY <1>2, <1>13 DEF Toggled
<1> QED
    BY <1>13, <1>14, <1>15, <1>16, <1>17 DEF Settled, Shows

-----------------------------------------------------------------------------
(* The scheme is reverted: filled in with the handlers running.  They may   *)
(* change what is filled in later, but leave what the dialog needs.         *)

Guarded(e) == CacheTracks(e) /\ PaletteUsed(e)

\* Steps that have nothing to do with text, background and palette.
LEMMA GuardedAside ==
    ASSUME NEW e, NEW t \in {"set_cursor_colour", "set_bold_colour"}, Guarded(e),
           NEW w, OtherToggles(e, w, {t}), w.kf = e.kf, w.cache = e.cache,
           NEW x, Keeps(w, x, Named \ Text), x.on = w.on
    PROVE  Guarded(x)
<1>1. {"set_fgbg", Track, "use_custom_colours"} \subseteq Toggles \ {t}
    BY DEF Toggles, Track
<1>2. /\ ("set_fgbg" \in x.on) <=> ("set_fgbg" \in e.on)
      /\ (Track \in x.on) <=> (Track \in e.on)
      /\ ("use_custom_colours" \in x.on) <=> ("use_custom_colours" \in e.on)
    BY <1>1 DEF OtherToggles
<1>3. x.kf.size = e.kf.size
    BY DEF Keeps
<1>4. \A k \in Entries : Entry(x.kf, k) = Entry(e.kf, k)
    BY KeepsEntries
<1>5. \A k \in Text : x.cache[k] = e.cache[k]
    <2>1. \A k \in Text : k \in Named \ (Named \ Text)
        BY Names DEF Text
    <2> QED
        BY <2>1 DEF Keeps
<1>6. CacheTracks(x)
    BY <1>2, <1>3, <1>4, <1>5, Names DEF Guarded, CacheTracks, Text
<1>7. PaletteUsed(x)
    BY <1>2, <1>3, KeepsPalette DEF Guarded
<1> QED
    BY <1>6, <1>7 DEF Guarded

\* colourgui_set_palette_toggles
LEMMA GuardedPalette ==
    ASSUME NEW e, NEW f, NEW K, Ok(e, f, K), CacheTracks(e),
           NEW x, x = SetPaletteToggles(e, FALSE)
    PROVE  Ok(x, f, K) /\ Guarded(x)
<1> DEFINE custom == e.kf.size # 0
           w == Ticked(e, "use_custom_colours", custom)
           v == IF w.on = e.on THEN w ELSE OnUseCustomToggled(w)
<1>1. x = IF e.kf.size = 0 THEN v ELSE [v EXCEPT !.radio = e.kf.size]
    BY DEF SetPaletteToggles, SetToggle
<1>2. e \in Editor /\ custom \in BOOLEAN
    BY DEF Ok
<1> HIDE DEF custom
<1>3. ToggleSet(e, w, "use_custom_colours", custom)
    BY <1>2, Names, TickedEffect
<1> HIDE DEF w
<1>4. ("use_custom_colours" \in w.on) <=> custom
    BY <1>3, Zenon DEF ToggleSet
<1>5. Ok(w, f, K)
    BY <1>3, OkSame DEF ToggleSet, Frame
<1>6. CacheTracks(w)
    <2>1. "set_fgbg" \in Toggles \ {"use_custom_colours"} /\ Track \in Toggles \ {"use_custom_colours"}
        BY DEF Toggles, Track
    <2>2. /\ ("set_fgbg" \in w.on) <=> ("set_fgbg" \in e.on)
          /\ (Track \in w.on) <=> (Track \in e.on)
        BY <1>3, <2>1, Zenon DEF ToggleSet
    <2>3. w.kf = e.kf /\ w.cache = e.cache
        BY <1>3 DEF ToggleSet
    <2> QED
        BY <2>2, <2>3 DEF CacheTracks
<1>7. w.kf = e.kf
    BY <1>3 DEF ToggleSet
<1>8. Ok(v, f, K) /\ Guarded(v)
    <2>1. CASE w.on = e.on
        <3>1. v = w
            BY <2>1
        <3>2. PaletteUsed(w)
            BY <1>4, <1>7 DEF PaletteUsed, custom
        <3> QED
            BY <1>5, <1>6, <3>1, <3>2 DEF Guarded
    <2>2. CASE w.on # e.on
        <3>1. v = OnUseCustomToggled(w)
            BY <2>2
        <3> HIDE DEF v
        <3>2. Ok(v, f, K) /\ CustomSet(w, v)
            BY <1>5, <3>1, SetCustomEffect
        <3>3. {"set_fgbg", "use_custom_colours"} \subseteq Toggles \ {Track}
            BY DEF Toggles, Track
        <3>4. /\ ("set_fgbg" \in v.on) <=> ("set_fgbg" \in w.on)
              /\ ("use_custom_colours" \in v.on) <=> ("use_custom_colours" \in w.on)
            BY <3>2, <3>3 DEF CustomSet, OtherToggles
        <3>5. w.radio # 0
            BY <1>5, EditorFields DEF Ok
        <3>6. PaletteUsed(v)
            <4>1. CASE "use_custom_colours" \in w.on
                BY <3>2, <3>4, <3>5, <4>1 DEF PaletteUsed, PaletteSize, CustomSet
            <4>2. CASE "use_custom_colours" \notin w.on
                BY <3>2, <3>4, <4>2 DEF PaletteUsed, PaletteSize, CustomSet
            <4> QED
                BY <4>1, <4>2
        <3>7. CacheTracks(v)
            <4> SUFFICES ASSUME Track \in v.on
                         PROVE  /\ "set_fgbg" \in v.on /\ v.kf.size # 0
                                /\ v.cache["foreground"] = Entry(v.kf, "0")
                                /\ v.cache["background"] = Entry(v.kf, "7")
                BY DEF CacheTracks
            <4>1. Track \in w.on /\ (v.kf.size # 0 \/ v = w)
                BY <3>2 DEF CustomSet
            <4>2. /\ "set_fgbg" \in w.on /\ w.kf.size # 0
                  /\ w.cache["foreground"] = Entry(w.kf, "0")
                  /\ w.cache["background"] = Entry(w.kf, "7")
                BY <1>6, <4>1 DEF CacheTracks
            <4>3. \A k \in {"0", "7"} : v.kf.colour[k] = w.kf.colour[k]
                BY <3>2, <4>2 DEF CustomSet
            <4>4. Entry(v.kf, "0") = Entry(w.kf, "0") /\ Entry(v.kf, "7") = Entry(w.kf, "7")
                BY <4>3 DEF Entry
            <4>5. v.cache = w.cache
                BY <3>2 DEF CustomSet
            <4> QED
                BY <3>4, <4>1, <4>2, <4>4, <4>5
        <3> QED
            BY <3>2, <3>6, <3>7 DEF Guarded
    <2> QED
        BY <2>1, <2>2
<1> HIDE DEF v
<1>9. CASE e.kf.size = 0
    BY <1>1, <1>8, <1>9
<1>10. CASE e.kf.size # 0
    <2>1. x = [v EXCEPT !.radio = e.kf.size]
        BY <1>1, <1>10
    <2>2. e.kf.size \in {8, 16} /\ v \in Editor
        BY <1>2, <1>8, <1>10, EditorFields DEF Sizes, Ok
    <2>3. /\ x \in Editor /\ x.open = v.open /\ x.kf = v.kf /\ x.sent = v.sent
          /\ x.on = v.on /\ x.cache = v.cache
        BY <2>1, <2>2 DEF Editor
    <2>4. Ok(x, f, K)
        BY <1>8, <2>3, OkSame
    <2>5. Guarded(x)
        BY <1>8, <2>3 DEF Guarded, CacheTracks, PaletteUsed
    <2> QED
        BY <2>4, <2>5
<1> QED
    BY <1>9, <1>10

LEMMA GuardedToggles ==
    ASSUME NEW e, NEW f, NEW K, Ok(e, f, K), NEW x, x = SetAllToggles(e, FALSE)
    PROVE  Ok(x, f, K) /\ Guarded(x)
<1> DEFINE text == IsSet(e, {"foreground", "background"})
           u == Ticked(e, "set_fgbg", text)
           a == IF u.on = e.on THEN u ELSE OnSetFgbgToggled(u)
           b == SetTrackToggle(a, FALSE)
           c == SetPaletteToggles(b, FALSE)
           cursor == IsSet(c, {"cursor"})
           v == Ticked(c, "set_cursor_colour", cursor)
           d == IF v.on = c.on THEN v ELSE OnSetCursorToggled(v)
           bold == IsSet(d, {"bold"})
           w == Ticked(d, "set_bold_colour", bold)
<1>1. x = IF w.on = d.on THEN w ELSE OnSetBoldToggled(w)
    BY DEF SetAllToggles, SetToggle
<1>2. text \in BOOLEAN /\ cursor \in BOOLEAN /\ bold \in BOOLEAN
    BY DEF IsSet
<1> HIDE DEF text, cursor, bold
<1>3. Ok(u, f, K)
    <2>1. ToggleSet(e, u, "set_fgbg", text)
        BY <1>2, Names, TickedEffect DEF Ok
    <2> HIDE DEF u
    <2> QED
        BY <2>1, OkSame DEF ToggleSet, Frame
<1> HIDE DEF u
<1>4. Ok(a, f, K)
    BY <1>3, SetFgbgEffect
<1> HIDE DEF a
<1>5. Ok(b, f, K) /\ CacheTracks(b)
    BY <1>4, TrackToggleEffect
<1> HIDE DEF b
<1>6. Ok(c, f, K) /\ Guarded(c)
    BY <1>5, GuardedPalette
<1> HIDE DEF c
<1>7. ToggleSet(c, v, "set_cursor_colour", cursor)
    BY <1>2, <1>6, Names, TickedEffect DEF Ok
<1> HIDE DEF v
<1>8. /\ Ok(v, f, K) /\ OtherToggles(c, v, {"set_cursor_colour"})
      /\ v.kf = c.kf /\ v.cache = c.cache
    <2>1. OtherToggles(c, v, {"set_cursor_colour"})
        BY <1>7, Zenon DEF ToggleSet, OtherToggles
    <2> QED
        BY <1>6, <1>7, <2>1, OkSame DEF ToggleSet, Frame
<1>9. Ok(d, f, K) /\ Keeps(v, d, Named \ Text) /\ d.on = v.on
    <2>1. CASE v.on = c.on
        BY <1>8, <2>1, KeepsSelf
    <2>2. CASE v.on # c.on
        <3>1. d = OnSetCursorToggled(v)
            BY <2>2
        <3> HIDE DEF d
        <3>2. /\ Ok(d, f, K) /\ Keeps(v, d, {"cursor", "cursorfg"}) /\ d.on = v.on
            BY <1>8, <3>1, SetCursorEffect
        <3>3. {"cursor", "cursorfg"} \subseteq Named \ Text
            BY DEF Named, Pairs, Text
        <3> QED
            BY <3>2, <3>3, KeepsMore
    <2> QED
        BY <2>1, <2>2
<1> HIDE DEF d
<1>10. Guarded(d)
    BY <1>6, <1>8, <1>9, GuardedAside
<1>11. ToggleSet(d, w, "set_bold_colour", bold)
    BY <1>2, <1>9, Names, TickedEffect DEF Ok
<1> HIDE DEF w
<1>12. /\ Ok(w, f, K) /\ OtherToggles(d, w, {"set_bold_colour"})
       /\ w.kf = d.kf /\ w.cache = d.cache
    <2>1. OtherToggles(d, w, {"set_bold_colour"})
        BY <1>11, Zenon DEF ToggleSet, OtherToggles
    <2> QED
        BY <1>9, <1>11, <2>1, OkSame DEF ToggleSet, Frame
<1>13. Ok(x, f, K) /\ Keeps(w, x, Named \ Text) /\ x.on = w.on
    <2>1. CASE w.on = d.on
        BY <1>1, <1>12, <2>1, KeepsSelf
    <2>2. CASE w.on # d.on
        <3>1. x = OnSetBoldToggled(w)
            BY <1>1, <2>2
        <3>2. Ok(x, f, K) /\ Keeps(w, x, {"bold"}) /\ x.on = w.on
            BY <1>12, <3>1, SetBoldEffect
        <3>3. {"bold"} \subseteq Named \ Text
            BY DEF Named, Pairs, Text
        <3> QED
            BY <3>2, <3>3, KeepsMore
    <2> QED
        BY <2>1, <2>2
<1>14. Guarded(x)
    BY <1>10, <1>12, <1>13, GuardedAside
<1> QED
    BY <1>13, <1>14

\* The entries in M have been filled in.
EntriesIn(e, M) == \A k \in M : e.button[k] = Entry(e.kf, k)

\* A palette entry is filled in, and saved.
LEMMA LoudEntry ==
    ASSUME NEW e, NEW f, NEW K, NEW L, NEW M \in SUBSET Entries, NEW N,
           NEW k \in Entries,
           L = K \cup {k}, N = M \cup {k}, Ok(e, f, L), Guarded(e), EntriesIn(e, M),
           NEW x, x = SetColourWidget(e, k, FALSE)
    PROVE  Ok(x, f, K) /\ Guarded(x) /\ EntriesIn(x, N)
<1> DEFINE w == ShowColour(e, k)
           c == ColourOf(e, k)
<1>1. x = OnColorSet(w, k, c)
    BY DEF SetColourWidget
<1>2. e \in Editor /\ k \in Keys /\ k \notin Named
    BY Names DEF Ok
<1>3. c = Entry(e.kf, k)
    BY <1>2 DEF ColourOf
<1>4. c \in Colour /\ ColourShown(e, w, k, c)
    BY <1>2, ColourOfEffect, ShowColourEffect
<1> HIDE DEF w, c
<1>5. Ok(w, f, K \cup {k})
    BY <1>4, OkSame DEF ColourShown, Frame
<1>6. Ok(x, f, K) /\ EntryChosen(w, x, k, c)
    BY <1>1, <1>4, <1>5, EntryChosenEffect
<1>7. /\ x.on = e.on /\ x.kf.size = e.kf.size
      /\ x.kf.colour[k] = c /\ x.button[k] = c
      /\ \A l \in Entries \ {k} : x.kf.colour[l] = e.kf.colour[l] /\ x.button[l] = e.button[l]
      /\ \A l \in Named : x.cache[l] = e.cache[l]
    <2>1. \A l \in Entries \ {k} : l \in Keys \ {k}
        BY Names
    <2>2. \A l \in Named : l \in Named \ {k}
        BY <1>2
    <2> QED
        BY <1>4, <1>6, <2>1, <2>2 DEF EntryChosen, ColourShown, Frame
<1>8. c # Unset
    BY <1>4, Kinds
<1>9. \A l \in Entries : Entry(x.kf, l) = Entry(e.kf, l)
    BY <1>3, <1>7, <1>8 DEF Entry
<1>10. EntriesIn(x, N)
    BY <1>3, <1>7, <1>9 DEF EntriesIn
<1>11. CacheTracks(x)
    BY <1>7, <1>9, Names DEF Guarded, CacheTracks
<1>12. PaletteUsed(x)
    BY <1>7 DEF Guarded, PaletteUsed
<1> QED
    BY <1>6, <1>10, <1>11, <1>12 DEF Guarded

\* The colours that track the palette, of those in M.
TrackIn(e, M) ==
    Track \in e.on =>
      /\ "foreground" \in M => e.kf.colour["foreground"] = Entry(e.kf, "0")
      /\ "background" \in M => e.kf.colour["background"] = Entry(e.kf, "7")

\* A named colour is filled in, and saved.
LEMMA LoudNamed ==
    ASSUME NEW e, NEW f, NEW K, NEW L, NEW M, NEW N, NEW k \in Named,
           L = K \cup {k}, N = M \cup {k}, Ok(e, f, L), Guarded(e), EntriesShown(e),
           TrackIn(e, M),
           NEW x, x = SetColourWidget(e, k, FALSE)
    PROVE  /\ Ok(x, f, K) /\ Guarded(x) /\ EntriesShown(x) /\ TrackIn(x, N)
           /\ x.sent # <<>>
<1> DEFINE w == ShowColour(e, k)
           c == ColourOf(e, k)
<1>1. x = OnColorSet(w, k, c)
    BY DEF SetColourWidget
<1>2. e \in Editor /\ k \in Keys
    BY Names DEF Ok
<1>3. c = GetOrDefault(e, k)
    BY DEF ColourOf
<1>4. c \in Colour /\ ColourShown(e, w, k, c)
    BY <1>2, ColourOfEffect, ShowColourEffect
<1> HIDE DEF w, c
<1>5. Ok(w, f, K \cup {k})
    BY <1>4, OkSame DEF ColourShown, Frame
<1>6. x = SetColourOption(w, k, c)
    BY <1>1 DEF OnColorSet
<1>7. c \in Colour \cup {Unset}
    BY <1>4
<1>8. Ok(x, f, K) /\ OptionSet(w, x, k, c) /\ x.sent # <<>>
    BY <1>5, <1>6, <1>7, OptionEffect
<1>9. /\ x.on = e.on /\ x.kf.size = e.kf.size
      /\ x.kf.colour[k] = c /\ x.cache[k] = c
      /\ \A l \in Keys \ {k} : x.kf.colour[l] = e.kf.colour[l] /\ x.button[l] = e.button[l]
      /\ \A l \in Named \ {k} : x.cache[l] = e.cache[l]
    BY <1>4, <1>8 DEF OptionSet, Keeps, ColourShown
<1>10. \A l \in Entries : l \in Keys \ {k}
    BY Names
<1>11. \A l \in Entries : Entry(x.kf, l) = Entry(e.kf, l)
    BY <1>9, <1>10 DEF Entry
<1>12. EntriesShown(x)
    BY <1>9, <1>10, <1>11 DEF EntriesShown
<1>13. \A l \in Entries : Entry(e.kf, l) # Unset
    BY DEF Entry, Unset, Entries
<1>14. ASSUME Track \in e.on, NEW j \in Text, NEW l \in Entries, e.cache[j] = Entry(e.kf, l),
              k = j
       PROVE  c = Entry(e.kf, l)
    BY <1>3, <1>13, <1>14 DEF GetOrDefault, Get
<1>15. CacheTracks(x)
    <2> SUFFICES ASSUME Track \in e.on
                 PROVE  /\ "set_fgbg" \in e.on /\ e.kf.size # 0
                        /\ x.cache["foreground"] = Entry(e.kf, "0")
                        /\ x.cache["background"] = Entry(e.kf, "7")
        BY <1>9, <1>11, Names DEF CacheTracks
    <2>1. /\ "set_fgbg" \in e.on /\ e.kf.size # 0
          /\ e.cache["foreground"] = Entry(e.kf, "0")
          /\ e.cache["background"] = Entry(e.kf, "7")
        BY DEF Guarded, CacheTracks
    <2>2. x.cache["foreground"] = Entry(e.kf, "0")
        <3>1. CASE k = "foreground"
            BY <1>9, <1>14, <2>1, <3>1, Names DEF Text
        <3>2. CASE k # "foreground"
            BY <1>9, <2>1, <3>2, Names
        <3> QED
            BY <3>1, <3>2
    <2>3. x.cache["background"] = Entry(e.kf, "7")
        <3>1. CASE k = "background"
            BY <1>9, <1>14, <2>1, <3>1, Names DEF Text
        <3>2. CASE k # "background"
            BY <1>9, <2>1, <3>2, Names
        <3> QED
            BY <3>1, <3>2
    <2> QED
        BY <2>1, <2>2, <2>3
<1>16. PaletteUsed(x)
    BY <1>9 DEF Guarded, PaletteUsed
<1>17. TrackIn(x, N)
    <2> SUFFICES ASSUME Track \in e.on
                 PROVE  /\ "foreground" \in N => x.kf.colour["foreground"] = Entry(e.kf, "0")
                        /\ "background" \in N => x.kf.colour["background"] = Entry(e.kf, "7")
        BY <1>9, <1>11, Names DEF TrackIn
    <2>1. /\ x.cache["foreground"] = Entry(e.kf, "0")
          /\ x.cache["background"] = Entry(e.kf, "7")
        BY <1>9, <1>11, <1>15, Names DEF CacheTracks
    <2>2. "foreground" \in N => x.kf.colour["foreground"] = Entry(e.kf, "0")
        <3>1. CASE k = "foreground"
            BY <1>9, <2>1, <3>1
        <3>2. CASE k # "foreground"
            BY <1>9, <3>2, Names DEF TrackIn
        <3> QED
            BY <3>1, <3>2
    <2>3. "background" \in N => x.kf.colour["background"] = Entry(e.kf, "7")
        <3>1. CASE k = "background"
            BY <1>9, <2>1, <3>1
        <3>2. CASE k # "background"
            BY <1>9, <3>2, Names DEF TrackIn
        <3> QED
            BY <3>1, <3>2
    <2> QED
        BY <2>2, <2>3
<1> QED
    BY <1>8, <1>12, <1>15, <1>16, <1>17 DEF Guarded

\* colourgui_revert
LEMMA RevertFills ==
    ASSUME NEW e \in Editor, e.open, NEW f,
           NEW x, x = FillInDialog([e EXCEPT !.kf = orig,
                                             !.cache = [k \in Named |-> Unset]], FALSE),
           orig \in Scheme
    PROVE  Ok(x, f, {}) /\ Settled(x) /\ x.sent # <<>>
<1> DEFINE e0 == [e EXCEPT !.kf = orig, !.cache = [k \in Named |-> Unset]]
           t == SetAllToggles(e0, FALSE)
           x0 == ShadePalette(t)
           x1 == SetColourWidget(x0, "0", FALSE)
           x2 == SetColourWidget(x1, "7", FALSE)
           x3 == SetColourWidget(x2, "8", FALSE)
           x4 == SetColourWidget(x3, "foreground", FALSE)
           x5 == SetColourWidget(x4, "background", FALSE)
           x6 == SetColourWidget(x5, "cursor", FALSE)
           x7 == SetColourWidget(x6, "cursorfg", FALSE)
<1>0. x = FillInDialog(e0, FALSE)
    OBVIOUS
<1>1. Ok(e0, f, Keys)
    <2> DEFINE n == [k \in Named |-> Unset]
    <2>1. n \in [Named -> Colour \cup {Unset}]
        OBVIOUS
    <2>2. e0 = [e EXCEPT !.kf = orig, !.cache = n]
        OBVIOUS
    <2> HIDE DEF n, e0
    <2>3. e0 \in Editor /\ e0.open = e.open
        BY <2>1, <2>2 DEF Editor
    <2>4. Keys # {}
        BY Names
    <2> QED
        BY <2>3, <2>4 DEF Ok, Told
<1> HIDE DEF e0
<1>2. x = SetColourWidget(x7, "bold", FALSE)
    BY <1>0 DEF FillInDialog
<1>3. Ok(t, f, Keys) /\ Guarded(t)
    BY <1>1, GuardedToggles
<1> HIDE DEF t
<1>4. Ok(x0, f, Keys \ F0) /\ Guarded(x0)
    <2>1. t \in Editor
        BY <1>3 DEF Ok
    <2>2. /\ x0 \in Editor /\ x0.open = t.open /\ x0.kf = t.kf
          /\ x0.cache = t.cache /\ x0.on = t.on /\ x0.sent = t.sent
        BY <2>1, ShadeEffect
    <2> HIDE DEF x0
    <2>3. Ok(x0, f, Keys)
        BY <1>3, <2>2, OkSame
    <2>4. Guarded(x0)
        BY <1>3, <2>2 DEF Guarded, CacheTracks, PaletteUsed
    <2> QED
        BY <2>3, <2>4, FillOrder
<1> HIDE DEF x0
<1>5. Ok(x1, f, Keys \ F1) /\ Guarded(x1) /\ EntriesIn(x1, F1)
    <2>1. F0 \in SUBSET Entries /\ "0" \in Entries /\ F1 = F0 \cup {"0"}
        BY Names DEF F0, F1
    <2>2. EntriesIn(x0, F0)
        BY DEF F0, EntriesIn
    <2>3. Keys \ F0 = (Keys \ F1) \cup {"0"}
        BY FillOrder
    <2> QED
        BY <1>4, <2>1, <2>2, <2>3, LoudEntry
<1> HIDE DEF x1
<1>6. Ok(x2, f, Keys \ F2) /\ Guarded(x2) /\ EntriesIn(x2, F2)
    <2>1. F1 \in SUBSET Entries /\ "7" \in Entries /\ F2 = F1 \cup {"7"}
        BY Names DEF F0, F1, F2
    <2>2. Keys \ F1 = (Keys \ F2) \cup {"7"}
        BY FillOrder
    <2> QED
        BY <1>5, <2>1, <2>2, LoudEntry
<1> HIDE DEF x2
<1>7. Ok(x3, f, Keys \ F3) /\ Guarded(x3) /\ EntriesShown(x3)
    <2>1. F2 \in SUBSET Entries /\ "8" \in Entries /\ F3 = F2 \cup {"8"}
        BY Names DEF F0, F1, F2, F3
    <2>2. Keys \ F2 = (Keys \ F3) \cup {"8"} /\ F3 = Entries
        BY FillOrder
    <2>3. Ok(x3, f, Keys \ F3) /\ Guarded(x3) /\ EntriesIn(x3, F3)
        BY <1>6, <2>1, <2>2, LoudEntry
    <2> QED
        BY <2>2, <2>3 DEF EntriesShown, EntriesIn
<1> HIDE DEF x3
<1>8. TrackIn(x3, F3)
    BY FillOrder, Names DEF TrackIn
<1>9. /\ Ok(x4, f, Keys \ F4) /\ Guarded(x4) /\ EntriesShown(x4)
      /\ TrackIn(x4, F4)
    <2>1. "foreground" \in Named /\ Keys \ F3 = (Keys \ F4) \cup {"foreground"}
        BY FillOrder, Names
    <2>2. F4 = F3 \cup {"foreground"}
        BY DEF F4
    <2> QED
        BY <1>7, <1>8, <2>1, <2>2, LoudNamed
<1> HIDE DEF x4
<1>10. /\ Ok(x5, f, Keys \ F5) /\ Guarded(x5) /\ EntriesShown(x5)
      /\ TrackIn(x5, F5)
    <2>1. "background" \in Named /\ Keys \ F4 = (Keys \ F5) \cup {"background"}
        BY FillOrder, Names
    <2>2. F5 = F4 \cup {"background"}
        BY DEF F5
    <2> QED
        BY <1>9, <2>1, <2>2, LoudNamed
<1> HIDE DEF x5
<1>11. /\ Ok(x6, f, Keys \ F6) /\ Guarded(x6) /\ EntriesShown(x6)
      /\ TrackIn(x6, F6)
    <2>1. "cursor" \in Named /\ Keys \ F5 = (Keys \ F6) \cup {"cursor"}
        BY FillOrder, Names
    <2>2. F6 = F5 \cup {"cursor"}
        BY DEF F6
    <2> QED
        BY <1>10, <2>1, <2>2, LoudNamed
<1> HIDE DEF x6
<1>12. /\ Ok(x7, f, Keys \ F7) /\ Guarded(x7) /\ EntriesShown(x7)
      /\ TrackIn(x7, F7)
    <2>1. "cursorfg" \in Named /\ Keys \ F6 = (Keys \ F7) \cup {"cursorfg"}
        BY FillOrder, Names
    <2>2. F7 = F6 \cup {"cursorfg"}
        BY DEF F7
    <2> QED
        BY <1>11, <2>1, <2>2, LoudNamed
<1> HIDE DEF x7
<1>13. /\ Ok(x, f, Keys \ F8) /\ Guarded(x) /\ EntriesShown(x)
      /\ TrackIn(x, F8) /\ x.sent # <<>>
    <2>1. "bold" \in Named /\ Keys \ F7 = (Keys \ F8) \cup {"bold"}
        BY FillOrder, Names
    <2>2. F8 = F7 \cup {"bold"}
        BY DEF F8
    <2> QED
        BY <1>2, <1>12, <2>1, <2>2, LoudNamed
<1>14. TrackIn(x, F8) /\ F8 = Keys /\ Keys \ F8 = {}
    BY <1>13, FillOrder
<1>15. Tracks(x)
    BY <1>13, <1>14, Names DEF TrackIn, Tracks, Track, Guarded, CacheTracks
<1> QED
    BY <1>13, <1>14, <1>15 DEF Settled, Guarded

-----------------------------------------------------------------------------
(* The end of a handler.                                                   *)

LEMMA NothingSent == ASSUME NEW k PROVE About(<<>>, k) = {}
BY DEF About

\* What a handler leaves is the editor's next state, and the file and the bus
\* have what it saved and sent.
LEMMA FinishKeeps ==
    ASSUME IInv, NEW x, Ok(x, file, {}), Settled(x), Finish(x),
           orig' = orig, changes' \in 0 .. MaxChanges, reverted' \in BOOLEAN,
           reverted' \/ Shows(x), UNCHANGED <<users, scheme, shown>>
    PROVE  IInv'
<1>1. TypeOK /\ BusTells /\ SchemeFollows /\ ShownFollows
    BY DEF IInv
<1>2. /\ file \in Scheme /\ bus \in Seq(Signal) /\ orig \in Scheme
      /\ x \in Editor /\ x.open /\ x.kf \in Scheme /\ x.sent \in Seq(Signal)
    BY <1>1, EditorFields DEF TypeOK, EditorTypeOK, Ok
<1>3. /\ \A k \in Keys : /\ Latest(x.sent, k, x.kf.colour[k])
                         /\ About(x.sent, k) = {} => x.kf.colour[k] = file.colour[k]
      /\ x.sent = <<>> => x.kf.size = file.size
    BY DEF Ok, Told
<1>4. file' = x.kf
    <2>1. CASE x.sent = <<>>
        <3>1. file' = file
            BY <2>1 DEF Finish
        <3>2. \A k \in Keys : x.kf.colour[k] = file.colour[k]
            BY <1>3, <2>1, NothingSent
        <3>3. x.kf.colour = file.colour
            BY <1>2, <3>2 DEF Scheme
        <3> QED
            BY <1>2, <1>3, <2>1, <3>1, <3>3 DEF Scheme
    <2>2. CASE x.sent # <<>>
        BY <2>2 DEF Finish
    <2> QED
        BY <2>1, <2>2
<1>5. /\ editor' \in Editor /\ editor'.sent = <<>> /\ editor'.open
      /\ editor'.kf = x.kf /\ editor'.button = x.button /\ editor'.on = x.on
      /\ editor'.radio = x.radio
    <2>1. editor' = [x EXCEPT !.sent = <<>>] /\ <<>> \in Seq(Signal)
        BY DEF Finish
    <2> QED
        BY <1>2, <2>1 DEF Editor
<1>6. bus' = bus \o x.sent /\ bus' \in Seq(Signal)
    BY <1>2, ConcatProperties DEF Finish
<1>7. TypeOK'
    BY <1>1, <1>2, <1>4, <1>5, <1>6 DEF TypeOK, EditorTypeOK
<1>8. Settled(editor)' /\ (Shows(x) => Shows(editor)')
    BY <1>5 DEF Settled, Shows, NamedShown, EntriesShown, PaletteUsed, Tracks
<1>9. ASSUME NEW k \in Keys
      PROVE  /\ Latest(bus', k, file'.colour[k])
             /\ About(bus', k) = {} => About(bus, k) = {} /\ file'.colour[k] = file.colour[k]
    <2>1. Latest(bus, k, file.colour[k])
        BY <1>1 DEF BusTells
    <2> QED
        BY <1>2, <1>3, <1>4, <1>6, <2>1, JoinedAbout
<1>10. BusTells'
    BY <1>9 DEF BusTells
<1>11. SchemeFollows'
    <2> SUFFICES ASSUME users # {}, NEW k \in Keys, About(bus', k) = {}
                 PROVE  Says(scheme, k) = Says(file', k)
        BY DEF SchemeFollows
    <2>1. Says(scheme, k) = Says(file, k)
        BY <1>1, <1>9 DEF SchemeFollows
    <2> QED
        BY <1>9, <2>1 DEF Says, Entry
<1>12. ShownFollows'
    BY <1>1 DEF ShownFollows
<1> QED
    BY <1>4, <1>5, <1>7, <1>8, <1>10, <1>11, <1>12 DEF IInv

\* One of the user's changes.
LEMMA EditKeeps ==
    ASSUME IInv, NEW x, Ok(x, file, {}), Settled(x), Shows(editor) => Shows(x),
           Edit(x), UNCHANGED <<users, scheme, shown>>
    PROVE  IInv'
<1>1. Finish(x) /\ orig' = orig /\ reverted' = reverted /\ editor.open
    BY DEF Edit, Change
<1>2. changes' \in 0 .. MaxChanges
    BY MaxChangesAssumption DEF Edit, Change, IInv, TypeOK, EditorTypeOK
<1>3. reverted \in BOOLEAN /\ (reverted \/ Shows(x))
    BY <1>1 DEF IInv, TypeOK, EditorTypeOK
<1> QED
    BY <1>1, <1>2, <1>3, FinishKeeps

\* Between two handlers nothing is left to be told.
LEMMA Rested ==
    ASSUME IInv, editor.open
    PROVE  Ok(editor, file, {}) /\ Settled(editor)
<1>1. /\ editor \in Editor /\ editor.sent = <<>> /\ editor.kf = file
      /\ Settled(editor)
    BY DEF IInv, TypeOK, EditorTypeOK
<1>2. \A k \in Keys : Latest(editor.sent, k, editor.kf.colour[k])
    BY <1>1, NothingSent DEF Latest
<1> QED
    BY <1>1, <1>2 DEF Ok, Told

-----------------------------------------------------------------------------
(* The actions.                                                            *)

\* An editor of the scheme s that nothing has been filled in.
Blank(e, s) == /\ e \in Editor /\ e.kf = s /\ e.sent = <<>>
               /\ \A k \in Named : e.cache[k] = Unset

LEMMA FreshBlank ==
    ASSUME NEW s \in Scheme
    PROVE  Blank(Fresh(s), s) /\ ~Fresh(s).open
<1> DEFINE cache == [k \in Named |-> Unset]
           button == [k \in Keys |-> k]
           e == [open |-> FALSE, kf |-> s, cache |-> cache, button |-> button, on |-> {},
                 radio |-> 8, rows |-> 0, sent |-> <<>>]
<1>1. cache \in [Named -> Colour \cup {Unset}] /\ \A k \in Named : cache[k] = Unset
    OBVIOUS
<1>2. button \in [Keys -> Colour]
    BY Kinds
<1>3. 8 \in {8, 16} /\ 0 \in Sizes /\ <<>> \in Seq(Signal) /\ {} \in SUBSET Toggles
    BY DEF Sizes
<1>4. Fresh(s) = e
    BY DEF Fresh
<1> HIDE DEF cache, button
<1>5. e \in Editor
    BY <1>1, <1>2, <1>3 DEF Editor
<1>6. e.kf = s /\ e.sent = <<>> /\ e.cache = cache /\ e.open = FALSE
    OBVIOUS
<1> HIDE DEF e
<1> QED
    BY <1>1, <1>4, <1>5, <1>6 DEF Blank

LEMMA OpenBlank ==
    ASSUME NEW e, NEW s, Blank(e, s), NEW x, x = [e EXCEPT !.open = TRUE]
    PROVE  Blank(x, s) /\ x.open
<1>1. /\ x \in Editor /\ x.open /\ x.kf = e.kf /\ x.sent = e.sent /\ x.cache = e.cache
    BY DEF Blank, Editor
<1> QED
    BY <1>1 DEF Blank

LEMMA OpenKeeps ==
    ASSUME IInv, Open, UNCHANGED <<users, scheme, shown>> PROVE IInv'
<1> DEFINE e == [Fresh(file) EXCEPT !.open = TRUE]
<1>1. /\ file \in Scheme /\ bus \in Seq(Signal) /\ TypeOK
      /\ BusTells /\ SchemeFollows /\ ShownFollows
    BY DEF IInv, TypeOK, EditorTypeOK
<1>2. /\ e \in Editor /\ e.open /\ e.kf = file /\ e.sent = <<>>
      /\ \A k \in Named : e.cache[k] = Unset
    BY <1>1, FreshBlank, OpenBlank DEF Blank
<1>3. editor' = FillInDialog(e, TRUE)
    BY DEF Open
<1> HIDE DEF e
<1>4. /\ editor' \in Editor /\ editor'.open /\ editor'.kf = file /\ editor'.sent = <<>>
      /\ Settled(editor') /\ Shows(editor')
    BY <1>2, <1>3, OpenFills
<1>5. /\ orig' = file /\ reverted' = FALSE /\ file' = file /\ bus' = bus
      /\ changes' = changes
    BY DEF Open
<1>6. TypeOK'
    BY <1>1, <1>4, <1>5 DEF TypeOK, EditorTypeOK
<1>7. BusTells' /\ SchemeFollows' /\ ShownFollows'
    BY <1>1, <1>5 DEF BusTells, SchemeFollows, ShownFollows
<1> QED
    BY <1>4, <1>5, <1>6, <1>7 DEF IInv

LEMMA CloseKeeps ==
    ASSUME IInv, Close, UNCHANGED <<users, scheme, shown>> PROVE IInv'
<1>1. /\ file \in Scheme /\ TypeOK /\ BusTells /\ SchemeFollows /\ ShownFollows
    BY DEF IInv, TypeOK, EditorTypeOK
<1>2. /\ editor' \in Editor /\ ~editor'.open /\ editor'.kf = file /\ editor'.sent = <<>>
    BY <1>1, FreshBlank DEF Close, Blank
<1>3. UNCHANGED <<orig, file, bus, changes, reverted>>
    BY DEF Close
<1>4. TypeOK'
    BY <1>1, <1>2, <1>3 DEF TypeOK, EditorTypeOK
<1>5. BusTells' /\ SchemeFollows' /\ ShownFollows'
    BY <1>1, <1>3 DEF BusTells, SchemeFollows, ShownFollows
<1> QED
    BY <1>2, <1>3, <1>4, <1>5 DEF IInv

LEMMA RevertKeeps ==
    ASSUME IInv, Revert, UNCHANGED <<users, scheme, shown>> PROVE IInv'
<1> DEFINE e == [editor EXCEPT !.kf = orig, !.cache = [k \in Named |-> Unset]]
           x == FillInDialog(e, FALSE)
<1>1. Change(x) /\ reverted' = TRUE
    BY DEF Revert
<1>2. editor \in Editor /\ orig \in Scheme /\ changes \in 0 .. MaxChanges
    BY DEF IInv, TypeOK, EditorTypeOK
<1>3. editor.open
    BY <1>1, Zenon DEF Change
<1>4. Ok(x, file, {}) /\ Settled(x)
    BY <1>2, <1>3, RevertFills
<1> HIDE DEF x
<1>5. Finish(x) /\ orig' = orig /\ changes' \in 0 .. MaxChanges
    BY <1>1, <1>2, MaxChangesAssumption DEF Change
<1> QED
    BY <1>1, <1>4, <1>5, FinishKeeps

LEMMA ClickKeeps ==
    ASSUME IInv, UNCHANGED <<users, scheme, shown>>,
           ClickFgbg \/ ClickTrack \/ ClickCustom \/ ClickCursor \/ ClickBold
    PROVE  IInv'
<1>1. CASE ClickFgbg
    <2> DEFINE x == OnSetFgbgToggled(Clicked("set_fgbg"))
    <2>1. Edit(x) /\ x = OnSetFgbgToggled(Ticked(editor, "set_fgbg", "set_fgbg" \notin editor.on))
        BY <1>1 DEF ClickFgbg, Clicked
    <2> HIDE DEF x
    <2>2. editor.open
        BY <2>1 DEF Edit, Change
    <2>3. Ok(x, file, {}) /\ Settled(x) /\ (Shows(editor) => Shows(x))
        BY <2>1, <2>2, Rested, FgbgSettled
    <2> QED
        BY <2>1, <2>3, EditKeeps
<1>2. CASE ClickTrack
    <2> DEFINE x == OnTrackToggled(Clicked(Track))
    <2>1. /\ Edit(x) /\ x = OnTrackToggled(Ticked(editor, Track, Track \notin editor.on))
          /\ "set_fgbg" \in editor.on /\ "use_custom_colours" \in editor.on
        BY <1>2 DEF ClickTrack, Clicked, Track
    <2> HIDE DEF x
    <2>2. editor.open
        BY <2>1 DEF Edit, Change
    <2>3. Ok(x, file, {}) /\ Settled(x) /\ (Shows(editor) => Shows(x))
        BY <2>1, <2>2, Rested, TrackSettled
    <2> QED
        BY <2>1, <2>3, EditKeeps
<1>3. CASE ClickCustom
    <2> DEFINE x == OnUseCustomToggled(Clicked("use_custom_colours"))
    <2>1. /\ Edit(x)
          /\ x = OnUseCustomToggled(Ticked(editor, "use_custom_colours",
                                           "use_custom_colours" \notin editor.on))
        BY <1>3 DEF ClickCustom, Clicked
    <2> HIDE DEF x
    <2>2. editor.open
        BY <2>1 DEF Edit, Change
    <2>3. Ok(x, file, {}) /\ Settled(x) /\ (Shows(editor) => Shows(x))
        BY <2>1, <2>2, Rested, ClickCustomSettled
    <2> QED
        BY <2>1, <2>3, EditKeeps
<1>4. CASE ClickCursor
    <2> DEFINE x == OnSetCursorToggled(Clicked("set_cursor_colour"))
    <2>1. /\ Edit(x)
          /\ x = OnSetCursorToggled(Ticked(editor, "set_cursor_colour",
                                           "set_cursor_colour" \notin editor.on))
        BY <1>4 DEF ClickCursor, Clicked
    <2> HIDE DEF x
    <2>2. editor.open
        BY <2>1 DEF Edit, Change
    <2>3. Ok(x, file, {}) /\ Settled(x) /\ (Shows(editor) => Shows(x))
        BY <2>1, <2>2, Rested, CursorSettled
    <2> QED
        BY <2>1, <2>3, EditKeeps
<1>5. CASE ClickBold
    <2> DEFINE x == OnSetBoldToggled(Clicked("set_bold_colour"))
    <2>1. /\ Edit(x)
          /\ x = OnSetBoldToggled(Ticked(editor, "set_bold_colour",
                                         "set_bold_colour" \notin editor.on))
        BY <1>5 DEF ClickBold, Clicked
    <2> HIDE DEF x
    <2>2. editor.open
        BY <2>1 DEF Edit, Change
    <2>3. Ok(x, file, {}) /\ Settled(x) /\ (Shows(editor) => Shows(x))
        BY <2>1, <2>2, Rested, BoldSettled
    <2> QED
        BY <2>1, <2>3, EditKeeps
<1> QED
    BY <1>1, <1>2, <1>3, <1>4, <1>5

LEMMA SizeKeeps ==
    ASSUME IInv, UNCHANGED <<users, scheme, shown>>, NEW n \in {8, 16}, ClickSize(n)
    PROVE  IInv'
<1> DEFINE x == OnUseCustomToggled([editor EXCEPT !.radio = n])
<1>1. Edit(x)
    BY DEF ClickSize
<1>2. x = OnUseCustomToggled([editor EXCEPT !.radio = n])
    OBVIOUS
<1> HIDE DEF x
<1>3. editor.open
    BY <1>1 DEF Edit, Change
<1>4. Ok(x, file, {}) /\ Settled(x) /\ (Shows(editor) => Shows(x))
    BY <1>2, <1>3, Rested, ClickSizeSettled
<1> QED
    BY <1>1, <1>4, EditKeeps

LEMMA ChooseKeeps ==
    ASSUME IInv, UNCHANGED <<users, scheme, shown>>,
           NEW k \in Keys, NEW c \in Colours, ChooseColour(k, c)
    PROVE  IInv'
<1> DEFINE x == OnColorSet([editor EXCEPT !.button[k] = c], k, c)
<1>1. Edit(x) /\ k \in Sensitive(editor)
    BY DEF ChooseColour
<1>2. x = OnColorSet([editor EXCEPT !.button[k] = c], k, c)
    OBVIOUS
<1> HIDE DEF x
<1>3. editor.open
    BY <1>1 DEF Edit, Change
<1>4. Ok(x, file, {}) /\ Settled(x) /\ (Shows(editor) => Shows(x))
    BY <1>1, <1>2, <1>3, Rested, ChosenSettled
<1> QED
    BY <1>1, <1>4, EditKeeps

\* What a terminal shows once the scheme has been applied to it.
LEMMA ViewFollows ==
    ASSUME NEW s \in Scheme
    PROVE  /\ View(s) \in [Keys -> Colour \cup {Unset, Derived}]
           /\ \A k \in Keys :
                \/ k \in Pairs /\ View(s)[k] = s.colour[k]
                \/ k = "bold" /\ (s.colour[k] = Unset \/ View(s)[k] = s.colour[k])
                \/ k \in Entries /\ View(s)[k] \in {Unset, Entry(s, k)}
<1>1. \A k \in Keys : s.colour[k] \in Colour \cup {Unset}
    BY DEF Scheme
<1> DEFINE V(k) == CASE k \in Pairs -> s.colour[k]
                     [] k = "bold" -> BoldColour(s)
                     [] k \in Entries -> IF SizeFor(k) <= s.size THEN Entry(s, k) ELSE Unset
<1>0. View(s) = [k \in Keys |-> V(k)]
    BY DEF View
<1>2. ASSUME NEW k \in Pairs PROVE View(s)[k] = s.colour[k]
    <2>1. k \in Keys /\ k # "bold" /\ k \notin Entries
        BY DEF Pairs, Keys, Named, Entries
    <2>2. V(k) = s.colour[k]
        BY <2>1
    <2> HIDE DEF V
    <2> QED
        BY <1>0, <2>1, <2>2
<1>3. View(s)["bold"] = BoldColour(s)
    <2>1. "bold" \in Keys /\ "bold" \notin Pairs /\ "bold" \notin Entries
        BY DEF Pairs, Keys, Named, Entries
    <2>2. V("bold") = BoldColour(s)
        BY <2>1
    <2> HIDE DEF V
    <2> QED
        BY <1>0, <2>1, <2>2
<1>4. /\ BoldColour(s) \in {Derived, s.colour["bold"]}
      /\ s.colour["bold"] = Unset \/ BoldColour(s) = s.colour["bold"]
    BY DEF BoldColour
<1>5. ASSUME NEW k \in Entries
      PROVE  View(s)[k] = IF SizeFor(k) <= s.size THEN Entry(s, k) ELSE Unset
    <2>1. k \in Keys /\ k \notin Pairs /\ k # "bold"
        BY DEF Pairs, Keys, Named, Entries
    <2>2. V(k) = IF SizeFor(k) <= s.size THEN Entry(s, k) ELSE Unset
        BY <2>1
    <2> HIDE DEF V
    <2> QED
        BY <1>0, <2>1, <2>2
<1>6. \A k \in Entries : View(s)[k] \in {Unset, Entry(s, k)}
    BY <1>5
<1>7. \A k \in Entries : Entry(s, k) \in Colour
    BY <1>1, Kinds DEF Entry
<1> HIDE DEF V
<1>8. View(s) = [k \in Keys |-> View(s)[k]]
    BY <1>0
<1>9. ASSUME NEW k \in Keys
      PROVE  View(s)[k] \in Colour \cup {Unset, Derived}
    <2>1. CASE k \in Pairs
        BY <1>1, <1>2, <2>1
    <2>2. CASE k = "bold"
        BY <1>1, <1>3, <1>4, <2>2
    <2>3. CASE k \in Entries
        BY <1>6, <1>7, <2>3
    <2> QED
        BY <2>1, <2>2, <2>3 DEF Keys, Named
<1>10. View(s) \in [Keys -> Colour \cup {Unset, Derived}]
    BY <1>8, <1>9
<1> QED
    BY <1>2, <1>3, <1>4, <1>6, <1>10 DEF Keys, Named

LEMMA SelectKeeps ==
    ASSUME IInv, NEW t \in Terms, Select(t) PROVE IInv'
<1>1. /\ file \in Scheme /\ scheme \in Scheme /\ TypeOK
      /\ BusTells /\ SchemeFollows /\ ShownFollows
    BY DEF IInv, TypeOK, EditorTypeOK
<1>2. /\ UNCHANGED <<editor, orig, file, changes, reverted, bus>>
      /\ users' = users \cup {t} /\ shown' = [shown EXCEPT ![t] = View(scheme')]
      /\ scheme' = IF users = {} THEN file ELSE scheme
    BY DEF Select, editorVars
<1>3. scheme' \in Scheme
    BY <1>1, <1>2
<1>4. View(scheme') \in [Keys -> Colour \cup {Unset, Derived}]
    BY <1>3, ViewFollows
<1>5. TypeOK'
    BY <1>1, <1>2, <1>3, <1>4 DEF TypeOK, EditorTypeOK
<1>6. SchemeFollows'
    BY <1>1, <1>2 DEF SchemeFollows
<1>7. ShownFollows'
    <2> SUFFICES ASSUME NEW u \in users', NEW k \in Keys
                 PROVE  \/ k \in Pairs /\ shown'[u][k] = scheme'.colour[k]
                        \/ k = "bold" /\ (scheme'.colour[k] = Unset
                                            \/ shown'[u][k] = scheme'.colour[k])
                        \/ k \in Entries /\ shown'[u][k] \in {Unset, Entry(scheme', k)}
        BY DEF ShownFollows
    <2>1. u \in Terms /\ shown \in [Terms -> [Keys -> Colour \cup {Unset, Derived}]]
        BY <1>1, <1>2 DEF TypeOK
    <2>2. CASE u = t
        BY <1>2, <1>3, <2>1, <2>2, ViewFollows
    <2>3. CASE u # t
        BY <1>1, <1>2, <2>1, <2>3 DEF ShownFollows
    <2> QED
        BY <2>2, <2>3
<1>8. BusTells'
    BY <1>1, <1>2 DEF BusTells
<1> QED
    BY <1>2, <1>5, <1>6, <1>7, <1>8 DEF IInv, Settled, EntriesShown, PaletteUsed, Tracks, Shows, NamedShown

LEMMA LeaveKeeps ==
    ASSUME IInv, NEW t \in Terms, Leave(t) PROVE IInv'
<1>1. TypeOK /\ BusTells /\ SchemeFollows /\ ShownFollows
    BY DEF IInv
<1>2. /\ UNCHANGED <<editor, orig, file, changes, reverted, bus, scheme, shown>>
      /\ users' \subseteq users
    BY DEF Leave, editorVars
<1>3. TypeOK' /\ BusTells' /\ SchemeFollows' /\ ShownFollows'
    BY <1>1, <1>2 DEF TypeOK, EditorTypeOK, BusTells, SchemeFollows, ShownFollows
<1> QED
    BY <1>2, <1>3 DEF IInv, Settled, EntriesShown, PaletteUsed, Tracks, Shows, NamedShown

\* The scheme follows a signal.
LEMMA UpdateFollows ==
    ASSUME NEW s \in Scheme, NEW k \in Keys, NEW c \in Colour \cup {Unset},
           NEW x, x = UpdateColour(s, k, c)
    PROVE  /\ x \in Scheme
           /\ \A l \in Keys \ {k} : x.colour[l] = s.colour[l]
           /\ \A f \in Scheme : f.colour[k] = c => Says(x, k) = Says(f, k)
<1>1. \A l \in Keys : s.colour[l] \in Colour \cup {Unset}
    BY DEF Scheme
<1>2. \A l \in Entries : Entry(s, l) # Unset
    BY <1>1, Kinds DEF Entry
<1>3. CASE x = s /\ c = (IF k \in Entries THEN Entry(s, k) ELSE s.colour[k])
    BY <1>2, <1>3 DEF Says, Entry
<1>4. CASE x = [s EXCEPT !.colour[k] = c]
    <2>1. x \in Scheme /\ x.colour[k] = c /\ \A l \in Keys \ {k} : x.colour[l] = s.colour[l]
        BY <1>4 DEF Scheme
    <2> QED
        BY <2>1 DEF Says, Entry
<1> QED
    BY <1>3, <1>4 DEF UpdateColour

\* What a terminal that follows the scheme s shows.
Follows(v, s) ==
    /\ v \in [Keys -> Colour \cup {Unset, Derived}]
    /\ \A k \in Keys :
         \/ k \in Pairs /\ v[k] = s.colour[k]
         \/ k = "bold" /\ (s.colour[k] = Unset \/ v[k] = s.colour[k])
         \/ k \in Entries /\ v[k] \in {Unset, Entry(s, k)}

LEMMA TypeFollows ==
    ASSUME shown \in [Terms -> [Keys -> Colour \cup {Unset, Derived}]], users \subseteq Terms
    PROVE  ShownFollows <=> \A t \in users : Follows(shown[t], scheme)
BY DEF ShownFollows, Follows

\* One colour arrives at a terminal that followed.
LEMMA ColourFollows ==
    ASSUME NEW s \in Scheme, NEW x \in Scheme, NEW k \in {"cursor", "cursorfg", "bold"},
           \A l \in Keys \ {k} : x.colour[l] = s.colour[l],
           NEW v, Follows(v, s)
    PROVE  Follows([v EXCEPT ![k] = x.colour[k]], x)
<1> DEFINE w == [v EXCEPT ![k] = x.colour[k]]
<1>1. k \in Keys /\ k \notin Entries /\ x.colour[k] \in Colour \cup {Unset}
    BY DEF Keys, Named, Pairs, Entries, Scheme
<1>2. v \in [Keys -> Colour \cup {Unset, Derived}]
    BY DEF Follows
<1>3. w \in [Keys -> Colour \cup {Unset, Derived}]
    BY <1>1, <1>2
<1>4. w[k] = x.colour[k] /\ \A l \in Keys \ {k} : w[l] = v[l]
    BY <1>1, <1>2
<1> HIDE DEF w
<1>5. k \in Pairs \/ k = "bold"
    BY DEF Pairs
<1>6. ASSUME NEW l \in Keys
      PROVE  \/ l \in Pairs /\ w[l] = x.colour[l]
             \/ l = "bold" /\ (x.colour[l] = Unset \/ w[l] = x.colour[l])
             \/ l \in Entries /\ w[l] \in {Unset, Entry(x, l)}
    <2>1. CASE l = k
        BY <1>4, <1>5, <2>1
    <2>2. CASE l # k
        <3>1. w[l] = v[l] /\ x.colour[l] = s.colour[l]
            BY <1>4, <2>2
        <3> QED
            BY <3>1 DEF Follows, Entry
    <2> QED
        BY <2>1, <2>2
<1>7. Follows(w, x)
    BY <1>3, <1>6 DEF Follows
<1> QED
    BY <1>7 DEF w

LEMMA ReflectFollows ==
    ASSUME NEW s \in Scheme, NEW x \in Scheme, NEW k \in Keys \cup {"palette_size"},
           \A l \in Keys \ {k} : x.colour[l] = s.colour[l],
           shown \in [Terms -> [Keys -> Colour \cup {Unset, Derived}]], users \subseteq Terms,
           \A t \in users : Follows(shown[t], s),
           Reflect(x, k)
    PROVE  /\ shown' \in [Terms -> [Keys -> Colour \cup {Unset, Derived}]]
           /\ \A t \in users : Follows(shown'[t], x)
<1> DEFINE one == k \in {"cursor", "cursorfg", "bold"}
           New(t) == IF t \notin users THEN shown[t]
                     ELSE IF one THEN [shown[t] EXCEPT ![k] = x.colour[k]] ELSE View(x)
<1>1. shown' = [t \in Terms |-> New(t)]
    BY DEF Reflect
<1>2. Follows(View(x), x)
    BY ViewFollows DEF Follows
<1>3. ASSUME NEW t \in users PROVE Follows(New(t), x)
    <2>1. CASE one
        <3>1. New(t) = [shown[t] EXCEPT ![k] = x.colour[k]]
            BY <2>1
        <3> HIDE DEF New
        <3> QED
            BY <2>1, <3>1, ColourFollows
    <2>2. CASE ~one
        <3>1. New(t) = View(x)
            BY <2>2
        <3> HIDE DEF New
        <3> QED
            BY <1>2, <3>1
    <2> QED
        BY <2>1, <2>2
<1>4. \A t \in Terms \ users : New(t) = shown[t]
    OBVIOUS
<1> HIDE DEF New
<1>5. ASSUME NEW t \in Terms PROVE New(t) \in [Keys -> Colour \cup {Unset, Derived}]
    BY <1>3, <1>4 DEF Follows
<1> QED
    BY <1>1, <1>3, <1>5

LEMMA ReceiveKeeps ==
    ASSUME IInv, Receive PROVE IInv'
<1> DEFINE s == Head(bus)
<1>1. /\ file \in Scheme /\ scheme \in Scheme /\ TypeOK /\ bus \in Seq(Signal)
      /\ BusTells /\ SchemeFollows /\ ShownFollows
    BY DEF IInv, TypeOK, EditorTypeOK
<1>2. /\ UNCHANGED <<editor, orig, file, changes, reverted, users>>
      /\ bus # <<>> /\ bus' = Tail(bus)
    BY DEF Receive, editorVars
<1>3. /\ s \in Signal /\ bus' \in Seq(Signal)
      /\ \A k \in Keys : /\ Latest(bus', k, file.colour[k])
                         /\ About(bus', k) = {} => IF s.key = k THEN s.value = file.colour[k]
                                                                ELSE About(bus, k) = {}
    <2>1. \A k \in Keys : Latest(bus, k, file.colour[k])
        BY <1>1 DEF BusTells
    <2>2. "0" \in Keys
        BY Names
    <2> QED
        BY <1>1, <1>2, <2>1, <2>2, TailAbout
<1>4. /\ shown \in [Terms -> [Keys -> Colour \cup {Unset, Derived}]] /\ users \subseteq Terms
      /\ \A t \in users : Follows(shown[t], scheme)
    BY <1>1, TypeFollows DEF TypeOK
<1>5. /\ scheme' \in Scheme /\ shown' \in [Terms -> [Keys -> Colour \cup {Unset, Derived}]]
      /\ \A t \in users : Follows(shown'[t], scheme')
      /\ users # {} => \A k \in Keys : About(bus', k) = {} => Says(scheme', k) = Says(file, k)
    <2>1. CASE users = {}
        BY <1>1, <1>4, <2>1 DEF Receive
    <2>2. CASE users # {} /\ s.key = "palette_size"
        <3>1. /\ scheme' = scheme
              /\ IF s.size = scheme.size THEN UNCHANGED shown
                 ELSE Reflect(scheme, "palette_size")
            BY <2>2 DEF Receive, SizeArrives
        <3>2. "palette_size" \notin Keys
            BY DEF Keys, Named, Pairs, Entries
        <3>3. \A k \in Keys : About(bus', k) = {} => Says(scheme, k) = Says(file, k)
            BY <1>1, <1>3, <2>2, <3>2 DEF SchemeFollows
        <3>4. CASE UNCHANGED shown
            BY <1>1, <1>4, <3>1, <3>3, <3>4
        <3>5. CASE Reflect(scheme, "palette_size")
            <4>1. /\ shown' \in [Terms -> [Keys -> Colour \cup {Unset, Derived}]]
                  /\ \A t \in users : Follows(shown'[t], scheme)
                BY <1>1, <1>4, <3>5, ReflectFollows
            <4> QED
                BY <1>1, <3>1, <3>3, <4>1
        <3> QED
            BY <3>1, <3>4, <3>5
    <2>3. CASE users # {} /\ s.key # "palette_size"
        <3> DEFINE x == UpdateColour(scheme, s.key, s.value)
        <3>1. s.key \in Keys /\ s.value \in Colour \cup {Unset}
            BY <1>3, <2>3 DEF Signal
        <3>2. scheme' = x /\ IF x = scheme THEN UNCHANGED shown ELSE Reflect(x, s.key)
            BY <2>3 DEF Receive, ColourArrives
        <3>3. /\ x \in Scheme /\ \A l \in Keys \ {s.key} : x.colour[l] = scheme.colour[l]
              /\ file.colour[s.key] = s.value => Says(x, s.key) = Says(file, s.key)
            BY <1>1, <3>1, UpdateFollows
        <3> HIDE DEF x, s
        <3>4. ASSUME NEW k \in Keys, About(bus', k) = {} PROVE Says(x, k) = Says(file, k)
            <4>1. CASE s.key = k
                BY <1>3, <3>3, <3>4, <4>1
            <4>2. CASE s.key # k
                <5>1. Says(scheme, k) = Says(file, k)
                    BY <1>1, <1>3, <2>3, <3>4, <4>2 DEF SchemeFollows
                <5>2. x.colour[k] = scheme.colour[k]
                    BY <3>3, <4>2
                <5> QED
                    BY <5>1, <5>2 DEF Says, Entry
            <4> QED
                BY <4>1, <4>2
        <3>5. CASE x = scheme
            BY <1>1, <1>4, <3>2, <3>4, <3>5
        <3>6. CASE Reflect(x, s.key)
            <4>1. /\ shown' \in [Terms -> [Keys -> Colour \cup {Unset, Derived}]]
                  /\ \A t \in users : Follows(shown'[t], x)
                BY <1>1, <1>4, <3>1, <3>3, <3>6, ReflectFollows
            <4> QED
                BY <3>2, <3>3, <3>4, <4>1
        <3> QED
            BY <3>2, <3>5, <3>6
    <2> QED
        BY <2>1, <2>2, <2>3
<1>6. TypeOK'
    BY <1>1, <1>2, <1>3, <1>5 DEF TypeOK, EditorTypeOK
<1>7. BusTells' /\ SchemeFollows'
    BY <1>2, <1>3, <1>5 DEF BusTells, SchemeFollows
<1>8. ShownFollows'
    BY <1>2, <1>5 DEF ShownFollows, Follows
<1> QED
    BY <1>2, <1>6, <1>7, <1>8
    DEF IInv, Settled, EntriesShown, PaletteUsed, Tracks, Shows, NamedShown

-----------------------------------------------------------------------------

LEMMA InitIInv == ASSUME Init PROVE IInv
<1>1. /\ file \in Scheme /\ editor = Fresh(file) /\ orig = file
      /\ bus = <<>> /\ changes = 0 /\ reverted = FALSE /\ users = {} /\ scheme = file
      /\ shown = [t \in Terms |-> [k \in Keys |-> Unset]]
    BY InitialAssumption DEF Init, EditorInit
<1>2. editor \in Editor /\ ~editor.open /\ editor.kf = file /\ editor.sent = <<>>
    BY <1>1, FreshBlank DEF Blank
<1>3. TypeOK
    <2>1. EditorTypeOK
        <3>1. file \in Scheme /\ orig \in Scheme /\ reverted \in BOOLEAN
            BY <1>1
        <3>2. bus \in Seq(Signal)
            BY <1>1
        <3>3. changes \in 0 .. MaxChanges
            BY <1>1, MaxChangesAssumption
        <3> QED
            BY <1>2, <3>1, <3>2, <3>3 DEF EditorTypeOK
    <2>2. shown \in [Terms -> [Keys -> Colour \cup {Unset, Derived}]]
        BY <1>1
    <2>3. users \subseteq Terms /\ scheme \in Scheme
        BY <1>1
    <2> QED
        BY <2>1, <2>2, <2>3 DEF TypeOK
<1>4. BusTells
    BY <1>1, NothingSent DEF BusTells, Latest
<1>5. SchemeFollows /\ ShownFollows
    BY <1>1 DEF SchemeFollows, ShownFollows
<1> QED
    BY <1>2, <1>3, <1>4, <1>5 DEF IInv

LEMMA StutterKeeps == ASSUME IInv, UNCHANGED vars PROVE IInv'
<1>1. UNCHANGED <<editor, orig, file, changes, reverted, bus, users, scheme, shown>>
    BY DEF vars, editorVars
<1>2. TypeOK /\ BusTells /\ SchemeFollows /\ ShownFollows
    BY DEF IInv
<1>3. TypeOK' /\ BusTells' /\ SchemeFollows' /\ ShownFollows'
    BY <1>1, <1>2 DEF TypeOK, EditorTypeOK, BusTells, SchemeFollows, ShownFollows
<1> QED
    BY <1>1, <1>3
    DEF IInv, Settled, EntriesShown, PaletteUsed, Tracks, Shows, NamedShown

LEMMA NextIInv == ASSUME IInv, [Next]_vars PROVE IInv'
<1>1. ASSUME EditorNext, UNCHANGED <<users, scheme, shown>> PROVE IInv'
    <2>1. CASE Open
        BY <1>1, <2>1, OpenKeeps
    <2>2. CASE Close
        BY <1>1, <2>2, CloseKeeps
    <2>3. CASE Revert
        BY <1>1, <2>3, RevertKeeps
    <2>4. CASE ClickFgbg \/ ClickTrack \/ ClickCustom \/ ClickCursor \/ ClickBold
        BY <1>1, <2>4, ClickKeeps
    <2>5. ASSUME NEW n \in {8, 16}, ClickSize(n) PROVE IInv'
        BY <1>1, <2>5, SizeKeeps
    <2>6. ASSUME NEW k \in Keys, NEW c \in Colours, ChooseColour(k, c) PROVE IInv'
        BY <1>1, <2>6, ChooseKeeps
    <2> QED
        BY <1>1, <2>1, <2>2, <2>3, <2>4, <2>5, <2>6 DEF EditorNext
<1>2. CASE Receive
    BY <1>2, ReceiveKeeps
<1>3. ASSUME NEW t \in Terms, Select(t) \/ Leave(t) PROVE IInv'
    BY <1>3, SelectKeeps, LeaveKeeps
<1>4. CASE UNCHANGED vars
    BY <1>4, StutterKeeps
<1> QED
    BY <1>1, <1>2, <1>3, <1>4 DEF Next

LEMMA IInvAlways == Spec => []IInv
<1>1. Init => IInv
    BY InitIInv
<1>2. IInv /\ [Next]_vars => IInv'
    BY NextIInv
<1> QED
    BY <1>1, <1>2, PTL DEF Spec

-----------------------------------------------------------------------------
(* The theorems.                                                           *)

\* The editor, its file, the signals and the terminals always have their types.
THEOREM TypesCorrect == Spec => []TypeOK
<1>1. IInv => TypeOK
    BY DEF IInv
<1> QED
    BY <1>1, IInvAlways, PTL

\* As long as nothing has been reverted, the dialog says what is in the file:
\* which colours are set, which they are, and how large a palette is used
\* (colourgui.c).
THEOREM DialogCorrect == Spec => []DialogShowsFile
<1>1. ASSUME IInv PROVE DialogShowsFile
    <2> SUFFICES ASSUME editor.open, ~reverted
                 PROVE  DialogShowsFile
        BY DEF DialogShowsFile
    <2>1. /\ editor.kf = file /\ EntriesShown(editor) /\ PaletteUsed(editor)
          /\ NamedShown(editor) /\ editor.kf.size \in {0, editor.radio}
        BY <1>1 DEF IInv, Settled, Shows
    <2>2. ASSUME NEW k \in Keys PROVE file.colour[k] \in {Unset, editor.button[k]}
        <3>1. CASE k \in Named
            BY <2>1, <3>1 DEF NamedShown
        <3>2. CASE k \in Entries
            BY <2>1, <3>2 DEF EntriesShown, Entry
        <3> QED
            BY <3>1, <3>2 DEF Keys
    <2>3. /\ "set_fgbg" \in editor.on <=> \E k \in {"foreground", "background"} :
                                             file.colour[k] # Unset
          /\ "set_cursor_colour" \in editor.on <=> file.colour["cursor"] # Unset
          /\ "set_bold_colour" \in editor.on <=> file.colour["bold"] # Unset
          /\ "use_custom_colours" \in editor.on <=> file.size # 0
        BY <2>1 DEF NamedShown, PaletteUsed
    <2> QED
        BY <2>1, <2>2, <2>3 DEF DialogShowsFile
<1> QED
    BY <1>1, IInvAlways, PTL

\* Text and background that track the palette are its entries 0 and 7 in the
\* file, whatever the user does and whatever he reverts.
THEOREM TrackingCorrect == Spec => []TrackedColoursAgree
<1>1. IInv => TrackedColoursAgree
    BY DEF IInv, Settled, Tracks, TrackedColoursAgree
<1> QED
    BY <1>1, IInvAlways, PTL

\* With no signal on its way, the terminals show what the file says.
THEOREM TerminalsCorrect == Spec => []TerminalsShowFile
<1>1. ASSUME IInv PROVE TerminalsShowFile
    <2> SUFFICES ASSUME bus = <<>>, NEW t \in users, NEW k \in Keys
                 PROVE  \/ k \in Entries /\ (shown[t][k] = Unset \/ file.size < SizeFor(k))
                        \/ k = "bold" /\ file.colour[k] = Unset
                        \/ shown[t][k] = View(file)[k]
        BY DEF TerminalsShowFile
    <2>1. /\ file \in Scheme /\ Says(scheme, k) = Says(file, k)
          /\ \/ k \in Pairs /\ shown[t][k] = scheme.colour[k]
             \/ k = "bold" /\ (scheme.colour[k] = Unset \/ shown[t][k] = scheme.colour[k])
             \/ k \in Entries /\ shown[t][k] \in {Unset, Entry(scheme, k)}
        BY <1>1, NothingSent DEF IInv, TypeOK, EditorTypeOK, SchemeFollows, ShownFollows
    <2>2. /\ k \in Pairs => View(file)[k] = file.colour[k]
          /\ k = "bold" => file.colour[k] = Unset \/ View(file)[k] = file.colour[k]
        BY <2>1, ViewFollows DEF Pairs, Entries
    <2>3. k \in Entries /\ ~(file.size < SizeFor(k)) => View(file)[k] = Entry(file, k)
        <3> SUFFICES ASSUME k \in Entries, ~(file.size < SizeFor(k))
                     PROVE  View(file)[k] = Entry(file, k)
            OBVIOUS
        <3>1. k \notin Pairs /\ k # "bold"
            BY DEF Pairs, Entries
        <3>2. SizeFor(k) <= file.size
            BY <2>1 DEF SizeFor, Scheme, Sizes
        <3> QED
            BY <3>1, <3>2 DEF View
    <2>4. CASE k \in Pairs
        BY <2>1, <2>2, <2>4 DEF Says, Pairs, Entries
    <2>5. CASE k = "bold"
        BY <2>1, <2>2, <2>5 DEF Says, Pairs, Entries
    <2>6. CASE k \in Entries
        BY <2>1, <2>3, <2>6 DEF Says, Pairs, Entries
    <2> QED
        BY <2>4, <2>5, <2>6 DEF Keys, Named
<1> QED
    BY <1>1, IInvAlways, PTL
=============================================================================
