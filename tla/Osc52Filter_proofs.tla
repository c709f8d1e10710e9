------------------------- MODULE Osc52Filter_proofs -------------------------
(***************************************************************************)
(* The scanner keeps its limit, takes no other output of a program for a   *)
(* text and delivers exactly the texts that fit, for any bytes, any limits *)
(* and any way reads cut them; the last two unless one cuts a text.        *)
(*                                                                         *)
(* IInv says what the state tells of the bytes scanned: whatever is        *)
(* captured was sent as a text. TInv says the converse: wherever the bytes *)
(* scanned end in a sequence, the state tells so, and the texts complete   *)
(* by now are the ones delivered.                                          *)
(***************************************************************************)
EXTENDS Osc52Filter, SequenceTheorems, NaturalsInduction, WellFoundedInduction, TLAPS

-----------------------------------------------------------------------------
(* Facts about byte sequences.                                             *)

LEMMA HeadTail ==
    ASSUME NEW S, NEW b \in Seq(S), b # <<>>
    PROVE  /\ Head(b) \in S /\ Head(b) = b[1] /\ Len(b) > 0
           /\ Tail(b) \in Seq(S) /\ Len(Tail(b)) = Len(b) - 1
           /\ \A i \in 1 .. Len(b) - 1 : Tail(b)[i] = b[i + 1]
<1>1. Len(b) \in Nat /\ Len(b) > 0
    BY EmptySeq, LenProperties
<1> QED
    BY <1>1, HeadTailProperties, ElementOfSeq

LEMMA Part ==
    ASSUME NEW S, NEW s \in Seq(S), NEW m \in 1 .. Len(s) + 1, NEW n \in m - 1 .. Len(s)
    PROVE  /\ SubSeq(s, m, n) \in Seq(S)
           /\ Len(SubSeq(s, m, n)) = n - m + 1
           /\ \A i \in 1 .. n - m + 1 : SubSeq(s, m, n)[i] = s[m + i - 1]
<1>1. Len(s) \in Nat
    BY LenProperties
<1>2. \A i \in m .. n : s[i] \in S
    BY <1>1, ElementOfSeq
<1> QED
    BY <1>1, <1>2, SubSeqProperties

LEMMA Rest ==
    ASSUME NEW S, NEW s \in Seq(S), NEW n \in 1 .. Len(s)
    PROVE  /\ SubSeq(s, n + 1, Len(s)) \in Seq(S)
           /\ Len(SubSeq(s, n + 1, Len(s))) = Len(s) - n
           /\ \A i \in 1 .. Len(s) - n : SubSeq(s, n + 1, Len(s))[i] = s[n + i]
<1>1. Len(s) \in Nat
    BY LenProperties
<1>2. n + 1 \in 1 .. Len(s) + 1 /\ Len(s) \in (n + 1) - 1 .. Len(s)
    BY <1>1
<1>3. /\ SubSeq(s, n + 1, Len(s)) \in Seq(S)
      /\ Len(SubSeq(s, n + 1, Len(s))) = Len(s) - (n + 1) + 1
      /\ \A i \in 1 .. Len(s) - (n + 1) + 1 :
            SubSeq(s, n + 1, Len(s))[i] = s[(n + 1) + i - 1]
    BY <1>2, Part
<1>4. Len(s) - (n + 1) + 1 = Len(s) - n
    BY <1>1
<1>5. ASSUME NEW i \in 1 .. Len(s) - n
      PROVE  SubSeq(s, n + 1, Len(s))[i] = s[n + i]
    <2>1. SubSeq(s, n + 1, Len(s))[i] = s[(n + 1) + i - 1]
        BY <1>3, <1>4
    <2>2. (n + 1) + i - 1 = n + i
        OBVIOUS
    <2> QED
        BY <2>1, <2>2
<1> QED
    BY <1>3, <1>4, <1>5

LEMMA Joined ==
    ASSUME NEW S, NEW s \in Seq(S), NEW t \in Seq(S)
    PROVE  /\ s \o t \in Seq(S) /\ Len(s \o t) = Len(s) + Len(t)
           /\ \A i \in 1 .. Len(s) : (s \o t)[i] = s[i]
           /\ \A i \in 1 .. Len(t) : (s \o t)[Len(s) + i] = t[i]
<1>1. Len(s) \in Nat /\ Len(t) \in Nat
    BY LenProperties
<1> QED
    BY <1>1, ConcatProperties

-----------------------------------------------------------------------------
(* The invariant: what the state of the scanner says about the bytes it    *)
(* has scanned.                                                            *)

Scanned == Len(sent) - Len(buf)

\* The buffer holds the bytes that came last.
BufIsRest ==
    /\ Len(buf) <= Len(sent)
    /\ \A i \in 1 .. Len(buf) : buf[i] = sent[Scanned + i]

Capturing == {"CAPTURE_OSC52", "CAPTURE_TERM_ESC"}

\* Bytes are captured in the capturing states only.
DataCaptured == state \notin Capturing => data = <<>>

\* A capture stops for the end of a read only.
CaptureWaits == state = "CAPTURE_OSC52" /\ buf # <<>> => spanned

\* An OSC in one of its forms ends at byte p of s.
Opened(s, p) == \/ p > 0 /\ s[p] = "OSC"
                \/ p > 1 /\ s[p] = "bracket" /\ s[p - 1] = "ESC"

\* IntroducedAt, byte by byte.
Introduced(s, k) == /\ k > 3 /\ s[k] = "semicolon" /\ s[k - 1] = "2" /\ s[k - 2] = "5"
                    /\ Opened(s, k - 3)

\* How the first p bytes of s end in a state that follows a part of a sequence.
Mark(s, p, st) ==
    /\ st \in {"ESC_RECEIVED", "OTHER_TERM", "CAPTURE_TERM_ESC"} => p > 0 /\ s[p] = "ESC"
    /\ st = "OSC_RECEIVED" => Opened(s, p)
    /\ st = "5_RECEIVED" => p > 1 /\ s[p] = "5" /\ Opened(s, p - 1)
    /\ st = "52_RECEIVED" => /\ p > 2 /\ s[p] = "2" /\ s[p - 1] = "5"
                             /\ Opened(s, p - 2)

\* d stands in s right after byte k.
TextAt(s, k, d) == \A i \in 1 .. Len(d) : s[k + i] = d[i]

\* The captured bytes d have come after an introducer, the last of which, and
\* perhaps an ESC, is byte p of s.
Held(s, p, st, d) ==
    st \in Capturing =>
        \E k \in 1 .. Len(s) :
            /\ Introduced(s, k) /\ TextAt(s, k, d)
            /\ p = k + Len(d) + (IF st = "CAPTURE_TERM_ESC" THEN 1 ELSE 0)

\* The text d was sent as one.
Sent(s, d) ==
    \E k \in 1 .. Len(s) :
        /\ Introduced(s, k) /\ TextAt(s, k, d)
        /\ EndsProperly(s, k + Len(d) + 1)

AllSent == \A d \in 1 .. Len(delivered) : Sent(sent, delivered[d])

Types == /\ state \in State /\ data \in Seq(Byte) /\ maxBuflen \in Size
         /\ buf \in Seq(Byte) /\ delivered \in Seq(Seq(Byte))
         /\ sent \in Seq(Byte) /\ reads \in 0 .. MaxReads

IInv == /\ Types /\ spanned \in BOOLEAN
        /\ BufIsRest /\ DataCaptured /\ CaptureWaits /\ CaptureFits
        /\ Mark(sent, Scanned, state)
        /\ ~spanned => Held(sent, Scanned, state, data) /\ AllSent

LEMMA InitIInv == Init => IInv
<1> SUFFICES ASSUME Init PROVE IInv
    OBVIOUS
<1>1. Len(sent) = 0 /\ Len(buf) = 0 /\ Len(delivered) = 0
    BY EmptySeq DEF Init
<1>2. Types
    BY SizeAssumption, ReadsAssumption DEF Init, Types, State
<1>3. spanned \in BOOLEAN
    BY Zenon DEF Init
<1>4. BufIsRest /\ DataCaptured /\ CaptureWaits /\ CaptureFits
    BY <1>1 DEF Init, BufIsRest, DataCaptured, CaptureWaits, CaptureFits, Capturing
<1>5. /\ Mark(sent, Scanned, state) /\ AllSent
      /\ Held(sent, Scanned, state, data)
    BY <1>1 DEF Init, Mark, AllSent, Held, Capturing
<1> QED
    BY <1>2, <1>3, <1>4, <1>5 DEF IInv

-----------------------------------------------------------------------------
(* The turns of the loop.                                                  *)

\* n bytes of the buffer have been scanned.
Consumes(n) ==
    /\ buf' \in Seq(Byte) /\ Len(buf') = Len(buf) - n
    /\ \A i \in 1 .. Len(buf') : buf'[i] = buf[n + i]
    /\ UNCHANGED <<maxBuflen, sent, reads>>

\* What every turn keeps, and where it leaves the scanner.
LEMMA ConsumedProperties ==
    ASSUME IInv, NEW n \in 0 .. Len(buf), Consumes(n)
    PROVE  BufIsRest' /\ Scanned' = Scanned + n /\ Scanned \in Nat
<1>1. Len(buf) \in Nat /\ Len(sent) \in Nat /\ Len(buf') = Len(buf) - n
    BY LenProperties DEF IInv, Types, Consumes
<1>2. Scanned' = Scanned + n /\ Scanned \in Nat
    BY <1>1 DEF Consumes, Scanned, IInv, BufIsRest
<1>3. \A i \in 1 .. Len(buf') : buf'[i] = sent'[Scanned' + i]
    <2> SUFFICES ASSUME NEW i \in 1 .. Len(buf') PROVE buf'[i] = sent'[Scanned' + i]
        OBVIOUS
    <2>1. buf'[i] = buf[n + i] /\ n + i \in 1 .. Len(buf)
        BY <1>1 DEF Consumes
    <2>2. buf[n + i] = sent[Scanned + (n + i)]
        BY <2>1 DEF IInv, BufIsRest
    <2> QED
        BY <1>2, <2>1, <2>2 DEF Consumes
<1>4. Len(buf') <= Len(sent')
    BY <1>1 DEF Consumes, IInv, BufIsRest
<1>5. BufIsRest'
    BY <1>3, <1>4 DEF BufIsRest
<1> QED
    BY <1>2, <1>5

LEMMA NextByte ==
    ASSUME IInv, buf # <<>>
    PROVE  /\ byte = sent[Scanned + 1] /\ byte \in Byte
           /\ Scanned \in Nat /\ Scanned + 1 <= Len(sent)
           /\ Len(buf) \in Nat /\ Len(buf) > 0
           /\ Tail(buf) \in Seq(Byte) /\ Len(Tail(buf)) = Len(buf) - 1
           /\ \A i \in 1 .. Len(buf) - 1 : Tail(buf)[i] = sent[Scanned + 1 + i]
<1>1. Len(buf) \in Nat /\ Len(sent) \in Nat
    BY LenProperties DEF IInv, Types
<1>2. /\ Head(buf) \in Byte /\ Head(buf) = buf[1] /\ Len(buf) > 0
      /\ Tail(buf) \in Seq(Byte) /\ Len(Tail(buf)) = Len(buf) - 1
      /\ \A i \in 1 .. Len(buf) - 1 : Tail(buf)[i] = buf[i + 1]
    BY HeadTail DEF IInv, Types
<1>3. Scanned \in Nat /\ Scanned + 1 <= Len(sent)
    BY <1>1, <1>2 DEF IInv, BufIsRest, Scanned
<1>4. ASSUME NEW i \in 1 .. Len(buf) - 1 PROVE Tail(buf)[i] = sent[Scanned + 1 + i]
    <2>1. buf[i + 1] = sent[Scanned + (i + 1)]
        BY <1>1 DEF IInv, BufIsRest
    <2> QED
        BY <1>2, <1>3, <2>1
<1> QED
    BY <1>1, <1>2, <1>3, <1>4 DEF byte, IInv, BufIsRest

\* A turn that captures nothing.
LEMMA PlainTurn ==
    ASSUME IInv, NEW n \in 0 .. Len(buf), Consumes(n), NEW s \in State \ Capturing,
           state' = s, data' = <<>>, delivered' = delivered, spanned' = spanned,
           Mark(sent, Scanned + n, s)
    PROVE  IInv'
<1>1. BufIsRest' /\ Scanned' = Scanned + n
    BY ConsumedProperties
<1>2. Types'
    BY EmptySeq DEF Consumes, IInv, Types
<1>3. spanned' \in BOOLEAN /\ (~spanned' <=> ~spanned)
    BY Zenon DEF IInv
<1>4. DataCaptured' /\ CaptureWaits' /\ CaptureFits'
    BY DEF DataCaptured, CaptureWaits, CaptureFits, Capturing
<1>5. Mark(sent, Scanned, state)'
    BY <1>1 DEF Consumes
<1>6. Held(sent, Scanned, state, data)'
    BY DEF Held
<1>7. ~spanned' => AllSent'
    BY <1>3 DEF IInv, AllSent, Consumes
<1> QED
    BY <1>1, <1>2, <1>3, <1>4, <1>5, <1>6, <1>7 DEF IInv

LEMMA EnterTurn ==
    ASSUME IInv, buf # <<>>, state \notin Capturing, NEW s \in State \ Capturing,
           Enter(s), Mark(sent, Scanned + 1, s)
    PROVE  IInv'
<1>1. Consumes(1) /\ 1 \in 0 .. Len(buf)
    BY HeadTail, NextByte DEF IInv, Types, Consumes, Enter, history
<1>2. data' = <<>> /\ delivered' = delivered /\ spanned' = spanned /\ state' = s
    BY DEF Enter, history, IInv, DataCaptured
<1> QED
    BY <1>1, <1>2, PlainTurn

LEMMA EnterAgainTurn ==
    ASSUME IInv, buf # <<>>, state \notin Capturing, NEW s \in State \ Capturing,
           EnterAgain(s), Mark(sent, Scanned, s)
    PROVE  IInv'
<1>1. Consumes(0) /\ 0 \in 0 .. Len(buf)
    BY NextByte DEF IInv, Types, Consumes, EnterAgain, history
<1>2. data' = <<>> /\ delivered' = delivered /\ spanned' = spanned /\ state' = s
    BY DEF EnterAgain, history, IInv, DataCaptured
<1>3. Scanned + 0 = Scanned
    BY NextByte
<1> QED
    BY <1>1, <1>2, <1>3, PlainTurn

LEMMA DefaultIInv == ASSUME IInv, InDefault PROVE IInv'
<1>1. buf # <<>> /\ state = "DEFAULT" /\ state \notin Capturing
    BY DEF InDefault, Due, Capturing
<1>2. Scanned \in Nat /\ byte = sent[Scanned + 1]
    BY <1>1, NextByte
<1>3. CASE byte = "ESC" /\ Enter("ESC_RECEIVED")
    BY <1>1, <1>2, <1>3, EnterTurn DEF Mark, State, Capturing
<1>4. CASE byte = "OSC" /\ Enter("OSC_RECEIVED")
    BY <1>1, <1>2, <1>4, EnterTurn DEF Mark, Opened, State, Capturing
<1>5. CASE Enter("DEFAULT")
    BY <1>1, <1>2, <1>5, EnterTurn DEF Mark, State, Capturing
<1> QED
    BY <1>3, <1>4, <1>5 DEF InDefault

LEMMA EscReceivedIInv == ASSUME IInv, InEscReceived PROVE IInv'
<1>1. buf # <<>> /\ state = "ESC_RECEIVED" /\ state \notin Capturing
    BY DEF InEscReceived, Due, Capturing
<1>2. Scanned \in Nat /\ byte = sent[Scanned + 1] /\ Scanned > 0 /\ sent[Scanned] = "ESC"
    BY <1>1, NextByte DEF IInv, Mark
<1>3. CASE byte = "bracket" /\ Enter("OSC_RECEIVED")
    BY <1>1, <1>2, <1>3, EnterTurn DEF Mark, Opened, State, Capturing
<1>4. CASE byte = "ESC" /\ Enter("ESC_RECEIVED")
    BY <1>1, <1>2, <1>4, EnterTurn DEF Mark, State, Capturing
<1>5. CASE Enter("OTHER_ESC")
    BY <1>1, <1>2, <1>5, EnterTurn DEF Mark, State, Capturing
<1> QED
    BY <1>3, <1>4, <1>5 DEF InEscReceived

LEMMA OscReceivedIInv == ASSUME IInv, InOscReceived PROVE IInv'
<1>1. buf # <<>> /\ state = "OSC_RECEIVED" /\ state \notin Capturing
    BY DEF InOscReceived, Due, Capturing
<1>2. Scanned \in Nat /\ byte = sent[Scanned + 1] /\ Opened(sent, Scanned) /\ Scanned > 0
    BY <1>1, NextByte DEF IInv, Mark, Opened
<1>3. CASE byte = "5" /\ Enter("5_RECEIVED")
    <2>1. Mark(sent, Scanned + 1, "5_RECEIVED")
        BY <1>2, <1>3 DEF Mark
    <2> QED
        BY <1>1, <1>3, <2>1, EnterTurn DEF State, Capturing
<1>4. CASE EnterAgain("OTHER_ESC")
    BY <1>1, <1>2, <1>4, EnterAgainTurn DEF Mark, State, Capturing
<1> QED
    BY <1>3, <1>4 DEF InOscReceived

LEMMA FiveReceivedIInv == ASSUME IInv, In5Received PROVE IInv'
<1>1. buf # <<>> /\ state = "5_RECEIVED" /\ state \notin Capturing
    BY DEF In5Received, Due, Capturing
<1>2. /\ Scanned \in Nat /\ byte = sent[Scanned + 1]
      /\ Scanned > 1 /\ sent[Scanned] = "5" /\ Opened(sent, Scanned - 1)
    BY <1>1, NextByte DEF IInv, Mark
<1>3. CASE byte = "2" /\ Enter("52_RECEIVED")
    <2>1. Mark(sent, Scanned + 1, "52_RECEIVED")
        BY <1>2, <1>3 DEF Mark
    <2> QED
        BY <1>1, <1>3, <2>1, EnterTurn DEF State, Capturing
<1>4. CASE EnterAgain("OTHER_ESC")
    BY <1>1, <1>2, <1>4, EnterAgainTurn DEF Mark, State, Capturing
<1> QED
    BY <1>3, <1>4 DEF In5Received

LEMMA OtherEscIInv == ASSUME IInv, InOtherEsc PROVE IInv'
<1>1. buf # <<>> /\ state = "OTHER_ESC" /\ state \notin Capturing
    BY DEF InOtherEsc, Due, Capturing
<1>2. Scanned \in Nat /\ byte = sent[Scanned + 1]
    BY <1>1, NextByte
<1>3. CASE byte = "ESC" /\ Enter("OTHER_TERM")
    BY <1>1, <1>2, <1>3, EnterTurn DEF Mark, State, Capturing
<1>4. CASE Enter("DEFAULT")
    BY <1>1, <1>2, <1>4, EnterTurn DEF Mark, State, Capturing
<1>5. CASE Enter("OTHER_ESC")
    BY <1>1, <1>2, <1>5, EnterTurn DEF Mark, State, Capturing
<1> QED
    BY <1>3, <1>4, <1>5 DEF InOtherEsc

LEMMA OtherTermIInv == ASSUME IInv, InOtherTerm PROVE IInv'
<1>1. buf # <<>> /\ state = "OTHER_TERM" /\ state \notin Capturing
    BY DEF InOtherTerm, Due, Capturing
<1>2. Scanned \in Nat /\ Scanned > 0 /\ sent[Scanned] = "ESC"
    BY <1>1, NextByte DEF IInv, Mark
<1>3. CASE Enter("DEFAULT")
    BY <1>1, <1>2, <1>3, EnterTurn DEF Mark, State, Capturing
<1>4. CASE EnterAgain("ESC_RECEIVED")
    BY <1>1, <1>2, <1>4, EnterAgainTurn DEF Mark, State, Capturing
<1> QED
    BY <1>3, <1>4 DEF InOtherTerm

-----------------------------------------------------------------------------
(* The turns that capture.                                                 *)

\* osc52filter_capture_buffer begins where the last turn has left the buffer,
\* one byte on, and either a text begins there or a read has cut one.
CaptureBegins ==
    /\ buf # <<>>
    /\ \/ state = "52_RECEIVED" /\ byte = "semicolon"
       \/ state = "CAPTURE_OSC52"

LEMMA IntroducerEnds ==
    ASSUME NEW s \in Seq(Byte), NEW p \in Nat, p + 1 <= Len(s), Len(s) \in Nat,
           Mark(s, p, "52_RECEIVED"), s[p + 1] = "semicolon"
    PROVE  p + 1 \in 1 .. Len(s) /\ Introduced(s, p + 1)
<1>1. p > 2 /\ s[p] = "2" /\ s[p - 1] = "5" /\ Opened(s, p - 2)
    BY DEF Mark
<1>2. p + 1 > 3 /\ p + 1 \in 1 .. Len(s)
    BY <1>1
<1>3. (p + 1) - 1 = p /\ (p + 1) - 2 = p - 1 /\ (p + 1) - 3 = p - 2
    OBVIOUS
<1> QED
    BY <1>1, <1>2, <1>3 DEF Introduced

\* Unless a read has cut it, the text begins right at the bytes searched.
LEMMA BeginsAfterIntroducer ==
    ASSUME IInv, CaptureBegins, ~spanned
    PROVE  /\ data = <<>> /\ Scanned + 1 \in 1 .. Len(sent)
           /\ Introduced(sent, Scanned + 1)
<1>1. state = "52_RECEIVED" /\ byte = "semicolon"
    BY DEF CaptureBegins, IInv, CaptureWaits
<1>2. data = <<>>
    BY <1>1 DEF IInv, DataCaptured, Capturing
<1>3. /\ Scanned \in Nat /\ Len(sent) \in Nat /\ Scanned + 1 <= Len(sent)
      /\ sent[Scanned + 1] = "semicolon"
    BY <1>1, NextByte, LenProperties DEF CaptureBegins, IInv, Types
<1>4. Mark(sent, Scanned, "52_RECEIVED")
    BY <1>1 DEF IInv
<1> QED
    BY <1>2, <1>3, <1>4, IntroducerEnds DEF IInv, Types

\* All the bytes of the buffer are captured, or too many.
LEMMA CaptureAllIInv ==
    ASSUME IInv, CaptureBegins, CaptureAll(Tail(buf))
    PROVE  IInv'
<1> DEFINE bytes == Tail(buf)
<1>1. /\ Scanned \in Nat /\ Scanned + 1 <= Len(sent)
      /\ Len(buf) \in Nat /\ Len(buf) > 0
      /\ bytes \in Seq(Byte) /\ Len(bytes) = Len(buf) - 1
      /\ \A i \in 1 .. Len(bytes) : bytes[i] = sent[Scanned + 1 + i]
    BY NextByte DEF CaptureBegins
<1>2. Consumes(Len(buf))
    BY <1>1, EmptySeq DEF CaptureAll, Consumes, history
<1>3. BufIsRest' /\ Scanned' = Scanned + Len(buf)
    BY <1>1, <1>2, ConsumedProperties
<1>4. /\ data \o bytes \in Seq(Byte) /\ (bytes = <<>> => data \o bytes = data)
      /\ (data = <<>> => data \o bytes = bytes)
    BY <1>1, Joined, ConcatEmptySeq DEF IInv, Types
<1>5. /\ buf' = <<>> /\ delivered' = delivered /\ spanned' = spanned
      /\ maxBuflen' = maxBuflen /\ sent' = sent /\ reads' = reads
    BY DEF CaptureAll, history
<1>6. spanned' \in BOOLEAN /\ (~spanned' <=> ~spanned)
    BY <1>5, Zenon DEF IInv
<1>7. ~spanned' => AllSent'
    BY <1>5, <1>6 DEF IInv, AllSent
<1>8. CASE data' = <<>> /\ state' = Cancelled("CAPTURE_OSC52")
    <2>1. state' = "OTHER_ESC"
        BY <1>8 DEF Cancelled
    <2>2. Types' /\ DataCaptured' /\ CaptureWaits' /\ CaptureFits'
        BY <1>5, <1>8, <2>1, EmptySeq
        DEF IInv, Types, State, DataCaptured, CaptureWaits, CaptureFits
    <2>3. Mark(sent, Scanned, state)' /\ Held(sent, Scanned, state, data)'
        BY <2>1 DEF Mark, Held, Capturing
    <2> QED
        BY <1>3, <1>6, <1>7, <2>2, <2>3 DEF IInv
<1>9. CASE /\ bytes = <<>> \/ Fits(data \o bytes)
           /\ data' = data \o bytes /\ state' = "CAPTURE_OSC52"
    <2>1. CaptureFits'
        <3>1. CASE Fits(data \o bytes)
            BY <1>5, <1>9, <3>1 DEF CaptureFits, Fits
        <3>2. CASE bytes = <<>>
            <4>1. data' = data /\ (data # <<>> => state = "CAPTURE_OSC52")
                BY <1>4, <1>9, <3>2
                DEF CaptureBegins, IInv, DataCaptured, Capturing
            <4> QED
                BY <1>5, <4>1 DEF IInv, CaptureFits
        <3> QED
            BY <1>9, <3>1, <3>2
    <2>2. Types' /\ DataCaptured' /\ CaptureWaits'
        BY <1>4, <1>5, <1>9, EmptySeq
        DEF IInv, Types, State, DataCaptured, CaptureWaits, Capturing
    <2>3. Mark(sent, Scanned, state)'
        BY <1>9 DEF Mark
    <2>4. ASSUME ~spanned PROVE Held(sent, Scanned, state, data)'
        <3>1. /\ data = <<>> /\ Scanned + 1 \in 1 .. Len(sent)
              /\ Introduced(sent, Scanned + 1)
            BY <2>4, BeginsAfterIntroducer
        <3>2. data' = bytes
            BY <1>4, <1>9, <3>1
        <3>3. TextAt(sent, Scanned + 1, bytes)
            BY <1>1 DEF TextAt
        <3>4. Scanned' = (Scanned + 1) + Len(bytes)
            BY <1>1, <1>3
        <3> QED
            BY <1>5, <1>9, <3>1, <3>2, <3>3, <3>4 DEF Held
    <2> QED
        BY <1>3, <1>6, <1>7, <2>1, <2>2, <2>3, <2>4 DEF IInv
<1> QED
    BY <1>8, <1>9 DEF CaptureAll

\* The search stops at byte n of those left after the current one: n + 1 bytes
\* have been scanned.
LEMMA SearchConsumes ==
    ASSUME IInv, CaptureBegins, NEW n \in 1 .. Len(Tail(buf)),
           CaptureUpTo(Tail(buf), n)
    PROVE  Consumes(n + 1) /\ n + 1 \in 0 .. Len(buf)
<1> DEFINE bytes == Tail(buf)
<1>1. /\ Len(buf) \in Nat /\ Len(buf) > 0
      /\ bytes \in Seq(Byte) /\ Len(bytes) = Len(buf) - 1
    BY NextByte DEF CaptureBegins
<1>2. /\ buf' = SubSeq(bytes, n + 1, Len(bytes))
      /\ maxBuflen' = maxBuflen /\ sent' = sent /\ reads' = reads
    BY DEF CaptureUpTo, history
<1>3. /\ buf' \in Seq(Byte) /\ Len(buf') = Len(bytes) - n
      /\ \A i \in 1 .. Len(buf') : buf'[i] = bytes[n + i]
    <2> DEFINE rest == SubSeq(bytes, n + 1, Len(bytes))
    <2>1. /\ rest \in Seq(Byte) /\ Len(rest) = Len(bytes) - n
          /\ \A i \in 1 .. Len(bytes) - n : rest[i] = bytes[n + i]
        BY <1>1, Rest
    <2>2. buf' = rest
        BY <1>2
    <2> HIDE DEF rest, bytes
    <2> QED
        BY <2>1, <2>2
<1>4. \A i \in 1 .. Len(buf') : buf'[i] = buf[(n + 1) + i]
    <2> SUFFICES ASSUME NEW i \in 1 .. Len(buf') PROVE buf'[i] = buf[(n + 1) + i]
        OBVIOUS
    <2>1. i \in 1 .. Len(bytes) - n /\ n + i \in 1 .. Len(buf) - 1
        BY <1>1, <1>3
    <2>2. buf'[i] = bytes[n + i]
        BY <1>3
    <2>3. bytes[n + i] = buf[(n + i) + 1]
        BY <2>1, HeadTail DEF CaptureBegins, IInv, Types
    <2>4. (n + i) + 1 = (n + 1) + i
        BY <1>1
    <2> QED
        BY <2>2, <2>3, <2>4
<1>5. Len(bytes) - n = Len(buf) - (n + 1) /\ n + 1 \in 0 .. Len(buf)
    BY <1>1
<1> QED
    BY <1>2, <1>3, <1>4, <1>5 DEF Consumes

LEMMA CaptureUpToIInv ==
    ASSUME IInv, CaptureBegins, NEW n \in 1 .. Len(Tail(buf)),
           CaptureUpTo(Tail(buf), n)
    PROVE  IInv'
<1> DEFINE bytes == Tail(buf)
           some == SubSeq(bytes, 1, n - 1)
           text == data \o some
           s == AfterStop(bytes[n])
<1>1. /\ Scanned \in Nat /\ Scanned + 1 <= Len(sent)
      /\ Len(buf) \in Nat /\ Len(buf) > 0 /\ Len(sent) \in Nat
      /\ bytes \in Seq(Byte) /\ Len(bytes) = Len(buf) - 1
      /\ \A i \in 1 .. Len(bytes) : bytes[i] = sent[Scanned + 1 + i]
    BY NextByte, LenProperties DEF CaptureBegins, IInv, Types
<1>2. /\ some \in Seq(Byte) /\ Len(some) = n - 1
      /\ \A i \in 1 .. n - 1 : some[i] = bytes[i]
    BY <1>1, Part
<1>3. /\ buf' = SubSeq(bytes, n + 1, Len(bytes)) /\ spanned' = spanned
      /\ maxBuflen' = maxBuflen /\ sent' = sent /\ reads' = reads
    BY DEF CaptureUpTo, history
<1>4. Consumes(n + 1) /\ n + 1 \in 0 .. Len(buf)
    BY SearchConsumes
<1>5. BufIsRest' /\ Scanned' = Scanned + (n + 1)
    BY <1>4, ConsumedProperties
<1>6. text \in Seq(Byte) /\ (data = <<>> => text = some)
    BY <1>2, Joined, ConcatEmptySeq DEF IInv, Types
<1>7. spanned' \in BOOLEAN /\ (~spanned' <=> ~spanned)
    BY <1>3, Zenon DEF IInv
<1>8. ASSUME ~spanned
      PROVE  /\ Scanned + 1 \in 1 .. Len(sent) /\ Introduced(sent, Scanned + 1)
             /\ TextAt(sent, Scanned + 1, text) /\ Len(text) = n - 1
    <2>1. /\ data = <<>> /\ Scanned + 1 \in 1 .. Len(sent)
          /\ Introduced(sent, Scanned + 1)
        BY <1>8, BeginsAfterIntroducer
    <2>2. TextAt(sent, Scanned + 1, some)
        BY <1>1, <1>2 DEF TextAt
    <2> QED
        BY <1>2, <1>6, <2>1, <2>2
<1>9. bytes[n] = sent[Scanned + 1 + n]
    BY <1>1
<1> HIDE DEF some, text
<1>10. CASE /\ data' = <<>> /\ delivered' = delivered /\ state' = Cancelled(s)
    <2>1. /\ Cancelled(s) \in State \ Capturing
          /\ Cancelled(s) \in {"OTHER_TERM", "OTHER_ESC", "DEFAULT"}
        BY DEF Cancelled, AfterStop, State, Capturing
    <2>2. Cancelled(s) = "OTHER_TERM" => bytes[n] = "ESC"
        BY DEF Cancelled, AfterStop
    <2>3. Mark(sent, Scanned + (n + 1), Cancelled(s))
        BY <1>1, <1>9, <2>1, <2>2 DEF Mark
    <2> HIDE DEF s
    <2> QED
        BY <1>3, <1>4, <1>10, <2>1, <2>3, PlainTurn
<1>11. CASE /\ bytes[n] = "ESC" /\ data' = text /\ state' = s /\ delivered' = delivered
    <2>1. state' = "CAPTURE_TERM_ESC"
        BY <1>11 DEF AfterStop
    <2>2. Types' /\ DataCaptured' /\ CaptureWaits' /\ CaptureFits'
        BY <1>3, <1>4, <1>6, <1>11, <2>1
        DEF Consumes, IInv, Types, State, DataCaptured, CaptureWaits, CaptureFits,
            Capturing
    <2>3. Mark(sent, Scanned, state)'
        BY <1>1, <1>3, <1>5, <1>9, <1>11, <2>1 DEF Mark
    <2>4. ASSUME ~spanned PROVE Held(sent, Scanned, state, data)' /\ AllSent'
        <3>1. Scanned' = (Scanned + 1) + Len(text) + 1
            BY <1>1, <1>5, <1>8, <2>4
        <3> QED
            BY <1>3, <1>8, <1>11, <2>1, <2>4, <3>1 DEF Held, IInv, AllSent
    <2> QED
        BY <1>5, <1>7, <2>2, <2>3, <2>4 DEF IInv
<1>12. CASE /\ IsTerminator(bytes[n]) /\ data' = <<>> /\ state' = s
            /\ delivered' = Append(delivered, text)
    <2>1. state' = "DEFAULT"
        BY <1>12 DEF AfterStop, IsTerminator
    <2>2. /\ delivered' \in Seq(Seq(Byte)) /\ Len(delivered') = Len(delivered) + 1
          /\ \A d \in 1 .. Len(delivered) : delivered'[d] = delivered[d]
          /\ delivered'[Len(delivered) + 1] = text
        BY <1>6, <1>12, AppendProperties DEF IInv, Types
    <2>3. Types' /\ DataCaptured' /\ CaptureWaits' /\ CaptureFits'
        BY <1>3, <1>4, <1>12, <2>1, <2>2, EmptySeq
        DEF Consumes, IInv, Types, State, DataCaptured, CaptureWaits, CaptureFits
    <2>4. Mark(sent, Scanned, state)' /\ Held(sent, Scanned, state, data)'
        BY <2>1 DEF Mark, Held, Capturing
    <2>5. ASSUME ~spanned PROVE AllSent'
        <3>1. Sent(sent, text)
            <4>1. EndsProperly(sent, Scanned + 1 + n)
                <5>1. Scanned + Len(buf) = Len(sent)
                    BY <1>1 DEF Scanned
                <5>2. Scanned + 1 + n <= Len(sent)
                    BY <1>1, <5>1
                <5> QED
                    BY <1>9, <1>12, <5>2 DEF EndsProperly
            <4>2. Len(text) = n - 1
                BY <1>8, <2>5
            <4>3. Scanned + 1 + n = (Scanned + 1) + Len(text) + 1
                <5>1. n \in Int /\ Scanned \in Int
                    BY <1>1
                <5> QED
                    BY <4>2, <5>1
            <4>4. /\ Scanned + 1 \in 1 .. Len(sent) /\ Introduced(sent, Scanned + 1)
                  /\ TextAt(sent, Scanned + 1, text)
                BY <1>8, <2>5
            <4>5. EndsProperly(sent, (Scanned + 1) + Len(text) + 1)
                BY <4>1, <4>3
            <4> QED
                BY <4>4, <4>5, Zenon DEF Sent
        <3>2. \A d \in 1 .. Len(delivered) : Sent(sent, delivered[d])
            BY <2>5 DEF IInv, AllSent
        <3>3. Len(delivered) \in Nat
            BY LenProperties DEF IInv, Types
        <3>4. ASSUME NEW d \in 1 .. Len(delivered) + 1 PROVE Sent(sent, delivered'[d])
            <4>1. d \in 1 .. Len(delivered) \/ d = Len(delivered) + 1
                BY <3>3
            <4> QED
                BY <2>2, <3>1, <3>2, <4>1
        <3> QED
            BY <1>3, <2>2, <3>4 DEF AllSent
    <2> QED
        BY <1>5, <1>7, <2>3, <2>4, <2>5 DEF IInv
<1> QED
    BY <1>10, <1>11, <1>12 DEF CaptureUpTo, text, some

LEMMA CaptureIInv == ASSUME IInv, CaptureBegins, CaptureBuffer(Tail(buf)) PROVE IInv'
<1>1. DOMAIN Tail(buf) = 1 .. Len(Tail(buf))
    BY NextByte, LenProperties DEF CaptureBegins
<1> QED
    BY <1>1, CaptureAllIInv, CaptureUpToIInv DEF CaptureBuffer

LEMMA FiftyTwoIInv == ASSUME IInv, In52Received PROVE IInv'
<1>1. buf # <<>> /\ state = "52_RECEIVED" /\ state \notin Capturing
    BY DEF In52Received, Due, Capturing
<1>2. CASE byte = "semicolon" /\ CaptureBuffer(Tail(buf))
    BY <1>1, <1>2, CaptureIInv DEF CaptureBegins
<1>3. CASE Enter("OTHER_ESC")
    BY <1>1, <1>3, EnterTurn DEF Mark, State, Capturing
<1> QED
    BY <1>2, <1>3 DEF In52Received

LEMMA InCaptureIInv == ASSUME IInv, InCapture PROVE IInv'
BY CaptureIInv DEF InCapture, Due, CaptureBegins

\* The end of a text with ESC, or its loss to another sequence.
LEMMA CaptureTermEscIInv == ASSUME IInv, InCaptureTermEsc PROVE IInv'
<1>1. buf # <<>> /\ state = "CAPTURE_TERM_ESC" /\ data' = <<>> /\ spanned' = spanned
    BY DEF InCaptureTermEsc, Due, history
<1>2. /\ Scanned \in Nat /\ Scanned + 1 <= Len(sent) /\ byte = sent[Scanned + 1]
      /\ Len(buf) \in Nat /\ Len(buf) > 0 /\ Len(sent) \in Nat
    BY <1>1, NextByte, LenProperties DEF IInv, Types
<1>3. Scanned > 0 /\ sent[Scanned] = "ESC"
    BY <1>1 DEF IInv, Mark
<1>4. CASE byte # "backslash"
    <2>1. state' = "ESC_RECEIVED" /\ delivered' = delivered /\ Consumes(0)
        BY <1>2, <1>4 DEF InCaptureTermEsc, history, Consumes, IInv, Types
    <2>2. Mark(sent, Scanned + 0, "ESC_RECEIVED")
        BY <1>2, <1>3 DEF Mark
    <2>3. "ESC_RECEIVED" \in State \ Capturing /\ 0 \in 0 .. Len(buf)
        BY <1>2 DEF State, Capturing
    <2> QED
        BY <1>1, <2>1, <2>2, <2>3, PlainTurn
<1>5. CASE byte = "backslash"
    <2>1. /\ state' = "DEFAULT" /\ delivered' = Append(delivered, data)
          /\ buf' = Tail(buf) /\ maxBuflen' = maxBuflen
          /\ sent' = sent /\ reads' = reads
        BY <1>5 DEF InCaptureTermEsc, history
    <2>2. Consumes(1) /\ 1 \in 0 .. Len(buf)
        BY <1>1, <1>2, <2>1, HeadTail DEF Consumes, IInv, Types
    <2>3. BufIsRest' /\ Scanned' = Scanned + 1
        BY <2>2, ConsumedProperties
    <2>4. spanned' \in BOOLEAN /\ (~spanned' <=> ~spanned)
        BY <1>1, Zenon DEF IInv
    <2>5. /\ delivered' \in Seq(Seq(Byte)) /\ Len(delivered') = Len(delivered) + 1
          /\ \A d \in 1 .. Len(delivered) : delivered'[d] = delivered[d]
          /\ delivered'[Len(delivered) + 1] = data
        BY <2>1, AppendProperties DEF IInv, Types
    <2>6. Types' /\ DataCaptured' /\ CaptureWaits' /\ CaptureFits'
        BY <1>1, <2>1, <2>2, <2>5, EmptySeq
        DEF Consumes, IInv, Types, State, DataCaptured, CaptureWaits, CaptureFits
    <2>7. Mark(sent, Scanned, state)' /\ Held(sent, Scanned, state, data)'
        BY <2>1 DEF Mark, Held, Capturing
    <2>8. ASSUME ~spanned PROVE AllSent'
        <3>1. PICK k \in 1 .. Len(sent) :
                  /\ Introduced(sent, k) /\ TextAt(sent, k, data)
                  /\ Scanned = k + Len(data) + 1
            BY <1>1, <2>8 DEF IInv, Held, Capturing
        <3>2. EndsProperly(sent, Scanned)
            BY <1>2, <1>3, <1>5 DEF EndsProperly
        <3>3. Sent(sent, data)
            BY <3>1, <3>2 DEF Sent
        <3>4. Len(delivered) \in Nat
            BY LenProperties DEF IInv, Types
        <3>5. ASSUME NEW d \in 1 .. Len(delivered) + 1 PROVE Sent(sent, delivered'[d])
            <4>1. d \in 1 .. Len(delivered) \/ d = Len(delivered) + 1
                BY <3>4
            <4>2. \A i \in 1 .. Len(delivered) : Sent(sent, delivered[i])
                BY <2>8 DEF IInv, AllSent
            <4> QED
                BY <2>5, <3>3, <4>1, <4>2
        <3> QED
            BY <2>1, <2>5, <3>5 DEF AllSent
    <2> QED
        BY <2>3, <2>4, <2>6, <2>7, <2>8 DEF IInv
<1> QED
    BY <1>4, <1>5

-----------------------------------------------------------------------------
(* Between two reads.                                                      *)

LEMMA StillEndsProperly ==
    ASSUME NEW s \in Seq(Byte), NEW t \in Seq(Byte), NEW j \in Nat \ {0},
           EndsProperly(s, j)
    PROVE  EndsProperly(s \o t, j)
<1>1. Len(s) \in Nat /\ Len(t) \in Nat
    BY LenProperties
<1> QED
    BY <1>1, Joined DEF EndsProperly, IsTerminator

LEMMA StillMarked ==
    ASSUME NEW s \in Seq(Byte), NEW t \in Seq(Byte), NEW p \in 0 .. Len(s),
           NEW st, Mark(s, p, st)
    PROVE  Mark(s \o t, p, st)
<1>1. Len(s) \in Nat /\ Len(t) \in Nat
    BY LenProperties
<1> QED
    BY <1>1, Joined DEF Mark, Opened

LEMMA StillIntroduced ==
    ASSUME NEW s \in Seq(Byte), NEW t \in Seq(Byte), NEW k \in 1 .. Len(s),
           Introduced(s, k)
    PROVE  Introduced(s \o t, k)
<1>1. Len(s) \in Nat /\ Len(t) \in Nat
    BY LenProperties
<1> QED
    BY <1>1, Joined DEF Introduced, Opened

LEMMA StillTextAt ==
    ASSUME NEW s \in Seq(Byte), NEW t \in Seq(Byte), NEW d \in Seq(Byte),
           NEW k \in 1 .. Len(s), k + Len(d) <= Len(s), TextAt(s, k, d)
    PROVE  TextAt(s \o t, k, d)
<1>1. Len(s) \in Nat /\ Len(t) \in Nat /\ Len(d) \in Nat
    BY LenProperties
<1>2. ASSUME NEW i \in 1 .. Len(d) PROVE (s \o t)[k + i] = d[i]
    <2>1. s[k + i] = d[i]
        BY DEF TextAt
    <2>2. k + i \in 1 .. Len(s)
        <3>1. i <= Len(d) /\ i > 0 /\ i \in Int /\ k > 0 /\ k \in Int
            BY <1>1
        <3> QED
            BY <1>1, <3>1
    <2>3. \A n \in 1 .. Len(s) : (s \o t)[n] = s[n]
        BY Joined
    <2> QED
        BY <2>1, <2>2, <2>3
<1> QED
    BY <1>2 DEF TextAt

\* A further read: what held of the bytes before still holds.
LEMMA ReadIInv == ASSUME IInv, NEW chunk \in Chunk, Read(chunk) PROVE IInv'
<1>1. /\ buf = <<>> /\ buf' = chunk /\ sent' = sent \o chunk /\ reads < MaxReads
      /\ reads' = reads + 1 /\ state' = state /\ data' = data
      /\ maxBuflen' = maxBuflen /\ delivered' = delivered
    BY DEF Read
<1>2. spanned' \in BOOLEAN /\ (~spanned' <=> (~spanned /\ state # "CAPTURE_OSC52"))
    BY Zenon DEF Read, IInv
<1>3. chunk \in Seq(Byte)
    BY ChunkAssumption
<1>4. /\ Len(sent) \in Nat /\ Len(buf) = 0 /\ Scanned = Len(sent)
      /\ Len(chunk) \in Nat
    BY <1>1, <1>3, EmptySeq, LenProperties DEF IInv, Types, Scanned
<1>5. /\ sent' \in Seq(Byte) /\ Len(sent') = Len(sent) + Len(chunk)
      /\ \A i \in 1 .. Len(chunk) : sent'[Len(sent) + i] = chunk[i]
    BY <1>1, <1>3, Joined DEF IInv, Types
<1>6. Scanned' = Len(sent) /\ BufIsRest'
    BY <1>1, <1>4, <1>5 DEF Scanned, BufIsRest
<1>7. Types'
    BY <1>1, <1>3, <1>5, ReadsAssumption DEF IInv, Types
<1>8. DataCaptured' /\ CaptureWaits' /\ CaptureFits'
    <2>1. DataCaptured' /\ CaptureFits'
        BY <1>1 DEF IInv, DataCaptured, CaptureFits
    <2>2. CaptureWaits'
        BY <1>1, <1>2 DEF CaptureWaits
    <2> QED
        BY <2>1, <2>2
<1>9. Mark(sent, Scanned, state)'
    <2>1. Mark(sent \o chunk, Len(sent), state)
        BY <1>3, <1>4, StillMarked DEF IInv, Types
    <2> QED
        BY <1>1, <1>6, <2>1
<1>10. ASSUME ~spanned PROVE AllSent' /\ Held(sent, Scanned, state, data)'
    <2>1. ASSUME NEW d \in 1 .. Len(delivered) PROVE Sent(sent', delivered[d])
        <3>1. delivered[d] \in Seq(Byte)
            BY ElementOfSeq DEF IInv, Types
        <3>2. PICK k \in 1 .. Len(sent) :
                  /\ Introduced(sent, k) /\ TextAt(sent, k, delivered[d])
                  /\ EndsProperly(sent, k + Len(delivered[d]) + 1)
            BY <1>10 DEF IInv, AllSent, Sent
        <3>3. Len(delivered[d]) \in Nat /\ k + Len(delivered[d]) + 1 \in Nat \ {0}
            BY <1>4, <3>1, LenProperties
        <3>4. k + Len(delivered[d]) <= Len(sent)
            BY <1>4, <3>2, <3>3 DEF EndsProperly
        <3>5. Introduced(sent', k) /\ TextAt(sent', k, delivered[d])
            BY <1>1, <1>3, <3>1, <3>2, <3>4, StillIntroduced, StillTextAt
            DEF IInv, Types
        <3>6. EndsProperly(sent', k + Len(delivered[d]) + 1)
            BY <1>1, <1>3, <3>2, <3>3, StillEndsProperly DEF IInv, Types
        <3>7. k \in 1 .. Len(sent')
            BY <1>4, <1>5
        <3> QED
            BY <3>5, <3>6, <3>7 DEF Sent
    <2>2. ASSUME state \in Capturing PROVE Held(sent', Len(sent), state, data)
        <3>1. PICK k \in 1 .. Len(sent) :
                  /\ Introduced(sent, k) /\ TextAt(sent, k, data)
                  /\ Len(sent) = k + Len(data)
                                 + (IF state = "CAPTURE_TERM_ESC" THEN 1 ELSE 0)
            BY <1>4, <1>10, <2>2 DEF IInv, Held
        <3>2. data \in Seq(Byte) /\ Len(data) \in Nat
            BY LenProperties DEF IInv, Types
        <3>3. k + Len(data) <= Len(sent)
            BY <1>4, <3>1, <3>2
        <3>4. Introduced(sent', k) /\ TextAt(sent', k, data)
            BY <1>1, <1>3, <3>1, <3>2, <3>3, StillIntroduced, StillTextAt
            DEF IInv, Types
        <3>5. k \in 1 .. Len(sent')
            BY <1>4, <1>5
        <3> QED
            BY <3>1, <3>4, <3>5 DEF Held
    <2>3. AllSent'
        BY <1>1, <2>1 DEF AllSent
    <2>4. Held(sent, Scanned, state, data)'
        BY <1>1, <1>6, <2>2 DEF Held
    <2> QED
        BY <2>3, <2>4
<1> QED
    BY <1>2, <1>6, <1>7, <1>8, <1>9, <1>10 DEF IInv

\* A new limit, which a capture under way may exceed.
LEMMA SetBufferSizeIInv ==
    ASSUME IInv, NEW size \in Size, SetBufferSize(size) PROVE IInv'
<1>1. /\ buf = <<>> /\ maxBuflen' = size /\ buf' = buf /\ delivered' = delivered
      /\ sent' = sent /\ reads' = reads /\ spanned' = spanned
    BY DEF SetBufferSize, history
<1>3. spanned' \in BOOLEAN /\ (~spanned' <=> ~spanned)
    BY <1>1, Zenon DEF IInv
<1>4. Scanned' = Scanned /\ BufIsRest'
    BY <1>1 DEF IInv, Scanned, BufIsRest
<1>5. ~spanned' => AllSent'
    BY <1>1, <1>3 DEF IInv, AllSent
<1>6. CASE Len(data) >= size /\ state = "CAPTURE_OSC52"
    <2>1. data' = <<>> /\ state' = "OTHER_ESC"
        BY <1>6 DEF SetBufferSize, Cancelled
    <2>2. Types' /\ DataCaptured' /\ CaptureWaits' /\ CaptureFits'
        BY <1>1, <2>1, EmptySeq
        DEF IInv, Types, State, DataCaptured, CaptureWaits, CaptureFits
    <2>3. Mark(sent, Scanned, state)' /\ Held(sent, Scanned, state, data)'
        BY <2>1 DEF Mark, Held, Capturing
    <2> QED
        BY <1>3, <1>4, <1>5, <2>2, <2>3 DEF IInv
<1>7. CASE ~(Len(data) >= size /\ state = "CAPTURE_OSC52")
    <2>1. data' = data /\ state' = state
        BY <1>7 DEF SetBufferSize
    <2>2. CaptureFits'
        <3>1. Len(data) \in Nat /\ size \in Nat
            BY SizeAssumption, LenProperties DEF IInv, Types
        <3> QED
            BY <1>1, <1>7, <2>1, <3>1 DEF CaptureFits
    <2>3. Types' /\ DataCaptured' /\ CaptureWaits'
        BY <1>1, <2>1 DEF IInv, Types, DataCaptured, CaptureWaits
    <2>4. Mark(sent, Scanned, state)'
        BY <1>1, <1>4, <2>1 DEF IInv
    <2>5. ~spanned' => Held(sent, Scanned, state, data)'
        BY <1>1, <1>3, <1>4, <2>1 DEF IInv
    <2> QED
        BY <1>3, <1>4, <1>5, <2>2, <2>3, <2>4, <2>5 DEF IInv
<1> QED
    BY <1>6, <1>7

-----------------------------------------------------------------------------
(* What follows from the invariant.                                        *)

LEMMA StepIInv == IInv /\ [Next]_vars => IInv'
<1> SUFFICES ASSUME IInv, [Next]_vars PROVE IInv'
    OBVIOUS
<1>1. CASE Scan
    BY <1>1, DefaultIInv, EscReceivedIInv, OscReceivedIInv, FiveReceivedIInv,
       FiftyTwoIInv, InCaptureIInv, CaptureTermEscIInv, OtherEscIInv,
       OtherTermIInv DEF Scan
<1>2. CASE \E chunk \in Chunk : Read(chunk)
    BY <1>2, ReadIInv
<1>3. CASE \E size \in Size : SetBufferSize(size)
    BY <1>3, SetBufferSizeIInv
<1>4. CASE UNCHANGED vars
    BY <1>4, Zenon
    DEF vars, IInv, Types, BufIsRest, Scanned, DataCaptured, CaptureWaits,
        CaptureFits, AllSent
<1> QED
    BY <1>1, <1>2, <1>3, <1>4 DEF Next

LEMMA SpecIInv == Spec => []IInv
BY InitIInv, StepIInv, PTL DEF Spec

\* osc52filter_capture_buffer and osc52filter_set_buffer_size keep a capture
\* that waits below the limit in force.
THEOREM CaptureFitsCorrect == Spec => []CaptureFits
<1>1. IInv => CaptureFits
    BY DEF IInv
<1> QED
    BY <1>1, SpecIInv, PTL

LEMMA Four ==
    ASSUME NEW s \in Seq(Byte), NEW i \in Nat \ {0}, i + 3 <= Len(s),
           NEW a \in Byte, NEW b \in Byte, NEW c \in Byte, NEW d \in Byte,
           s[i] = a, s[i + 1] = b, s[i + 2] = c, s[i + 3] = d
    PROVE  StandsAt(<<a, b, c, d>>, s, i)
<1> DEFINE w == <<a, b, c, d>>
           r == SubSeq(s, i, i + 3)
<1>1. Len(s) \in Nat
    BY LenProperties
<1>2. w \in Seq(Byte) /\ Len(w) = 4 /\ w[1] = a /\ w[2] = b /\ w[3] = c /\ w[4] = d
    OBVIOUS
<1>3. i \in 1 .. Len(s) + 1 /\ i + 3 \in i - 1 .. Len(s)
    BY <1>1
<1>4. /\ r \in Seq(Byte) /\ Len(r) = (i + 3) - i + 1
      /\ \A n \in 1 .. (i + 3) - i + 1 : r[n] = s[i + n - 1]
    BY <1>3, Part
<1>5. (i + 3) - i + 1 = 4
    OBVIOUS
<1>6. r[1] = s[i] /\ r[2] = s[i + 1] /\ r[3] = s[i + 2] /\ r[4] = s[i + 3]
    <2>1. \A n \in 1 .. 4 : r[n] = s[i + n - 1]
        BY <1>4, <1>5
    <2>2. i + 1 - 1 = i /\ i + 2 - 1 = i + 1 /\ i + 3 - 1 = i + 2 /\ i + 4 - 1 = i + 3
        OBVIOUS
    <2> HIDE DEF r
    <2> QED
        BY <2>1, <2>2
<1> HIDE DEF w, r
<1>7. r = w
    <2>1. \A n \in 1 .. 4 : n = 1 \/ n = 2 \/ n = 3 \/ n = 4
        OBVIOUS
    <2>2. \A n \in 1 .. Len(r) : r[n] = w[n]
        BY <1>2, <1>4, <1>5, <1>6, <2>1
    <2> QED
        BY <1>2, <1>4, <1>5, <2>2, SeqEqual
<1>8. i + Len(w) - 1 = i + 3
    BY <1>2
<1> QED
    BY <1>7, <1>8 DEF StandsAt, r, w

LEMMA IntroducedIsIntroducedAt ==
    ASSUME NEW s \in Seq(Byte), NEW k \in 1 .. Len(s), Introduced(s, k)
    PROVE  IntroducedAt(s, k)
<1>1. Len(s) \in Nat /\ k \in Nat /\ k > 3
    BY LenProperties DEF Introduced
<1>2. /\ s[k] = "semicolon" /\ s[k - 1] = "2" /\ s[k - 2] = "5"
      /\ Opened(s, k - 3)
    BY DEF Introduced
<1>3. (k - 3) + 1 = k - 2 /\ (k - 3) + 2 = k - 1 /\ (k - 3) + 3 = k
    BY <1>1
<1>4. {"OSC", "ESC", "bracket", "5", "2", "semicolon"} \subseteq Byte
    BY DEF Byte, Special
<1>5. CASE s[k - 3] = "OSC"
    <2>1. k - 3 \in Nat \ {0} /\ (k - 3) + 3 <= Len(s)
        BY <1>1
    <2>2. StandsAt(<<"OSC", "5", "2", "semicolon">>, s, k - 3)
        BY <1>2, <1>3, <1>4, <1>5, <2>1, Four
    <2> QED
        BY <2>2 DEF IntroducedAt
<1>6. CASE k - 3 > 1 /\ s[k - 3] = "bracket" /\ s[(k - 3) - 1] = "ESC"
    <2> DEFINE i == k - 4
    <2>1. /\ i \in Nat \ {0} /\ i + 4 = k
          /\ i + 1 = k - 3 /\ i + 2 = k - 2 /\ i + 3 = k - 1 /\ (k - 3) - 1 = i
        BY <1>1, <1>6
    <2> HIDE DEF i
    <2>2. i + 3 <= Len(s) /\ i + 4 <= Len(s)
        BY <1>1, <2>1
    <2>3. StandsAt(<<"ESC", "bracket", "5", "2">>, s, i)
        BY <1>2, <1>4, <1>6, <2>1, <2>2, Four
    <2>4. /\ Unfinished \in Seq(Byte) /\ Len(Unfinished) = 4
          /\ Unfinished = SubSeq(s, i, i + 3)
        <3>1. <<"ESC", "bracket", "5", "2">> \in Seq(Byte)
            BY <1>4
        <3>2. Len(<<"ESC", "bracket", "5", "2">>) = 4 /\ i + 4 - 1 = i + 3
            BY <2>1
        <3> QED
            BY <2>3, <3>1, <3>2 DEF Unfinished, StandsAt
    <2>5. /\ Intro \in Seq(Byte) /\ Len(Intro) = 5 /\ Intro[5] = "semicolon"
          /\ \A n \in 1 .. 4 : Intro[n] = Unfinished[n]
        <3>1. "semicolon" \in Byte
            BY <1>4
        <3> QED
            BY <2>4, <3>1, AppendProperties DEF Intro
    <2>6. i \in 1 .. Len(s) + 1 /\ i + 3 \in i - 1 .. Len(s) /\ i + 4 \in i - 1 .. Len(s)
        BY <1>1, <2>1, <2>2
    <2>7. /\ SubSeq(s, i, i + 4) \in Seq(Byte)
          /\ Len(SubSeq(s, i, i + 4)) = (i + 4) - i + 1
          /\ \A n \in 1 .. (i + 4) - i + 1 : SubSeq(s, i, i + 4)[n] = s[i + n - 1]
        BY <2>6, Part
    <2>8. \A n \in 1 .. (i + 3) - i + 1 : SubSeq(s, i, i + 3)[n] = s[i + n - 1]
        BY <2>6, Part
    <2>9. (i + 4) - i + 1 = 5 /\ (i + 3) - i + 1 = 4 /\ i + 5 - 1 = k
        BY <2>1
    <2>10. ASSUME NEW n \in 1 .. 5 PROVE SubSeq(s, i, i + 4)[n] = Intro[n]
        <3>1. CASE n \in 1 .. 4
            <4>1. SubSeq(s, i, i + 4)[n] = s[i + n - 1]
                BY <2>7, <2>9
            <4>2. Intro[n] = s[i + n - 1]
                BY <2>4, <2>5, <2>8, <2>9, <3>1
            <4> QED
                BY <4>1, <4>2
        <3>2. CASE n = 5
            <4>1. SubSeq(s, i, i + 4)[5] = s[i + 5 - 1]
                BY <2>7, <2>9
            <4> QED
                BY <1>2, <2>5, <2>9, <3>2, <4>1
        <3>3. n \in 1 .. 4 \/ n = 5
            OBVIOUS
        <3> QED
            BY <3>1, <3>2, <3>3, Zenon
    <2>11. SubSeq(s, i, i + 4) = Intro
        <3> DEFINE r == SubSeq(s, i, i + 4)
        <3>1. r \in Seq(Byte) /\ Len(r) = 5
            BY <2>7, <2>9
        <3>2. \A n \in 1 .. 5 : r[n] = Intro[n]
            BY <2>10
        <3> HIDE DEF r
        <3>3. r = Intro
            BY <2>5, <3>1, <3>2, SeqEqual
        <3> QED
            BY <3>3 DEF r
    <2>12. i + 5 - 1 = i + 4 /\ i > 0
        BY <2>1
    <2>13. StandsAt(Intro, s, i)
        BY <2>2, <2>5, <2>11, <2>12 DEF StandsAt
    <2> QED
        BY <2>13 DEF IntroducedAt, i
<1> QED
    BY <1>2, <1>5, <1>6 DEF Opened

\* A text that stands in s, byte by byte, is a part of s.
LEMMA TextIsPart ==
    ASSUME NEW s \in Seq(Byte), NEW d \in Seq(Byte), NEW k \in 1 .. Len(s),
           k + Len(d) <= Len(s), TextAt(s, k, d)
    PROVE  d = SubSeq(s, k + 1, (k + Len(d) + 1) - 1)
<1> DEFINE m == k + 1
           n == (k + Len(d) + 1) - 1
           r == SubSeq(s, m, n)
<1>1. Len(s) \in Nat /\ Len(d) \in Nat /\ k \in Nat
    BY LenProperties
<1>2. n = k + Len(d) /\ m \in 1 .. Len(s) + 1 /\ n \in m - 1 .. Len(s)
    BY <1>1
<1>3. n - m + 1 = Len(d)
    BY <1>1, <1>2
<1> HIDE DEF m, n
<1>4. /\ r \in Seq(Byte) /\ Len(r) = n - m + 1
      /\ \A i \in 1 .. n - m + 1 : r[i] = s[m + i - 1]
    BY <1>2, Part
<1> HIDE DEF r
<1>5. ASSUME NEW i \in 1 .. Len(d) PROVE r[i] = d[i]
    <2>1. r[i] = s[m + i - 1]
        BY <1>3, <1>4
    <2>2. m + i - 1 = k + i
        BY <1>1 DEF m
    <2> QED
        BY <2>1, <2>2 DEF TextAt
<1>6. r = d
    BY <1>3, <1>4, <1>5, SeqEqual
<1> QED
    BY <1>6 DEF r, m, n

\* Nothing a program sends is taken for a text for the clipboard but the texts
\* of OSC 52 sequences, unless a read cuts one.
THEOREM OnlyTextsDelivered == Spec => []TextsWereSent
<1>1. ASSUME IInv, ~spanned, NEW d \in DOMAIN delivered
      PROVE  \E k \in DOMAIN sent :
                 LET j == k + Len(delivered[d]) + 1
                 IN /\ IntroducedAt(sent, k)
                    /\ EndsProperly(sent, j)
                    /\ delivered[d] = SubSeq(sent, k + 1, j - 1)
    <2>1. /\ sent \in Seq(Byte) /\ DOMAIN sent = 1 .. Len(sent) /\ Len(sent) \in Nat
          /\ DOMAIN delivered = 1 .. Len(delivered)
        BY <1>1, LenProperties DEF IInv, Types
    <2>2. delivered[d] \in Seq(Byte)
        BY <1>1, <2>1, ElementOfSeq DEF IInv, Types
    <2>3. PICK k \in 1 .. Len(sent) :
              /\ Introduced(sent, k) /\ TextAt(sent, k, delivered[d])
              /\ EndsProperly(sent, k + Len(delivered[d]) + 1)
        BY <1>1, <2>1 DEF IInv, AllSent, Sent
    <2>4. k + Len(delivered[d]) <= Len(sent)
        <3>1. Len(delivered[d]) \in Nat
            BY <2>2, LenProperties
        <3>2. k + Len(delivered[d]) + 1 <= Len(sent)
            BY <2>3 DEF EndsProperly
        <3> DEFINE n == Len(delivered[d])
        <3>3. n \in Nat /\ k + n + 1 <= Len(sent) /\ k \in Int
            BY <2>1, <3>1, <3>2
        <3> HIDE DEF n
        <3>4. k + n <= Len(sent)
            BY <2>1, <3>3
        <3> QED
            BY <3>4 DEF n
    <2>5. /\ IntroducedAt(sent, k)
          /\ delivered[d] = SubSeq(sent, k + 1, (k + Len(delivered[d]) + 1) - 1)
        <3>1. IntroducedAt(sent, k)
            BY <2>1, <2>3, IntroducedIsIntroducedAt
        <3>2. delivered[d] = SubSeq(sent, k + 1, (k + Len(delivered[d]) + 1) - 1)
            BY <2>1, <2>2, <2>3, <2>4, TextIsPart
        <3> QED
            BY <3>1, <3>2
    <2> QED
        BY <2>1, <2>3, <2>5
<1>2. IInv => TextsWereSent
    BY <1>1 DEF TextsWereSent
<1> QED
    BY <1>2, SpecIInv, PTL

-----------------------------------------------------------------------------
(* The other invariant: the state tells which part of a sequence the bytes *)
(* scanned end with, and the texts they complete have been delivered.      *)

\* A sequence begins at byte i of s, and its introducer is there up to byte n of it.
Introducing(s, i, n) ==
    /\ i > 0 /\ i + n - 1 <= Len(s)
    /\ \A m \in 1 .. n : s[i + m - 1] = Intro[m]
    /\ ~Swallowed(s, i)

NextIsNot(s, p, b) == p < Len(s) /\ s[p + 1] # b

AfterEsc == {"ESC_RECEIVED", "OTHER_TERM", "CAPTURE_TERM_ESC"}

\* The state tells which part of an introducer the first p bytes of s end with.
\* A state that rejects the next byte has already been left.
Marks(s, p, st) ==
    /\ Introducing(s, p, 1) <=> st \in AfterEsc
    /\ st = "OSC_RECEIVED" => Introducing(s, p - 1, 2)
    /\ Introducing(s, p - 1, 2) => st = "OSC_RECEIVED" \/ NextIsNot(s, p, "5")
    /\ st = "5_RECEIVED" => Introducing(s, p - 2, 3)
    /\ Introducing(s, p - 2, 3) => st = "5_RECEIVED" \/ NextIsNot(s, p, "2")
    /\ Introducing(s, p - 3, 4) <=> st = "52_RECEIVED"

\* The text of the sequence that begins at byte i of s goes on at byte p.
GoesOn(s, i, p) ==
    /\ Introducing(s, i, 5) /\ i + 4 <= p
    /\ \A k \in i + 5 .. p : ~IsStop(s[k])

\* That text has had no room at some time.
TooLong(lim, i, p) == \E k \in i + 4 .. p : lim[k] <= p - (i + 4)

\* It is being captured, then.
Waits(s, lim, p, st, d) ==
    \A i \in 1 .. p :
        GoesOn(s, i, p) => \/ st = "CAPTURE_OSC52" /\ Len(d) = p - (i + 4)
                           \/ TooLong(lim, i, p)

\* A text that fits goes from byte i of s to byte e, which is no part of it.
Stops(s, lim, i, e) ==
    /\ i > 5 /\ i <= e /\ e <= Len(s)
    /\ GoesOn(s, i - 5, e - 1) /\ IsStop(s[e]) /\ ~TooLong(lim, i - 5, e - 1)

\* CAPTURE_TERM_ESC holds a text at its ESC.
Halfway(s, lim, p, st, d) ==
    /\ st = "CAPTURE_TERM_ESC" =>
           \E i \in 1 .. p : /\ Stops(s, lim, i, p)
                             /\ TextAt(s, i - 1, d) /\ Len(d) = p - i
    /\ \A i \in 1 .. p : Stops(s, lim, i, p) /\ s[p] = "ESC" =>
           st = "CAPTURE_TERM_ESC" \/ NextIsNot(s, p, "backslash")

\* The texts that are complete with byte p of s.
Complete(s, lim, p) ==
    {t \in (1 .. p) \X (1 .. p) :
        /\ Stops(s, lim, t[1], t[2])
        /\ \/ IsTerminator(s[t[2]])
           \/ s[t[2]] = "ESC" /\ t[2] < p /\ s[t[2] + 1] = "backslash"}

\* The texts in del are these, in their order.
InOrder(s, texts, del) ==
    \E at \in [1 .. Len(del) -> texts] :
        /\ \A t \in texts : \E k \in 1 .. Len(del) : t = at[k]
        /\ \A k, l \in 1 .. Len(del) : k < l => at[k][1] < at[l][1]
        /\ \A k \in 1 .. Len(del) : /\ TextAt(s, at[k][1] - 1, del[k])
                                    /\ Len(del[k]) = at[k][2] - at[k][1]

\* The bytes of the buffer were read under the limit in force.
LimitsOfBuf == \A k \in Scanned + 1 .. Len(sent) : limits[k] = maxBuflen

\* What a scanner in state st that holds the bytes d and has delivered del makes
\* of the first p bytes of s.
Exact(s, lim, p, st, d, del) ==
    /\ Marks(s, p, st)
    /\ Waits(s, lim, p, st, d)
    /\ Halfway(s, lim, p, st, d)
    /\ InOrder(s, Complete(s, lim, p), del)

\* OSC comes in its seven bit form only, the one that Introducing knows.
SevenBit(s) == \A k \in 1 .. Len(s) : s[k] # "OSC"

\* What was sent decides what has been delivered.
TInv == /\ limits \in Seq(Size) /\ Len(limits) = Len(sent) /\ LimitsOfBuf
        /\ ~spanned /\ SevenBit(sent) =>
               Exact(sent, limits, Scanned, state, data, delivered)

-----------------------------------------------------------------------------
(* Where sequences begin.                                                  *)

\* A set of numbers has a least one.
LEMMA LeastOf ==
    ASSUME NEW S \in SUBSET Nat, S # {}
    PROVE  \E x \in S : \A y \in S : x <= y
<1> DEFINE R == OpToRel(<, Nat)
<1>1. IsWellFoundedOn(R, Nat)
    BY NatLessThanWellFounded
<1>2. \E x \in S : \A y \in S : ~ (<<y, x>> \in R)
    BY <1>1, WFMin
<1>3. \A x, y \in S : y < x => <<y, x>> \in R
    BY DEF OpToRel
<1> HIDE DEF R
<1>4. PICK x \in S : \A y \in S : ~ (<<y, x>> \in R)
    BY <1>2
<1>5. \A y \in S : ~(y < x)
    BY <1>3, <1>4
<1> QED
    BY <1>5

LEMMA HalfOf == ASSUME NEW n \in Nat PROVE \E h \in 0 .. n : n = 2 * h \/ n = 2 * h + 1
<1> DEFINE h == n \div 2
<1>1. h \in 0 .. n /\ (n = 2 * h \/ n = 2 * h + 1)
    OBVIOUS
<1> QED
    BY <1>1

\* StandsAt, byte by byte.
LEMMA Stands ==
    ASSUME NEW s \in Seq(Byte), NEW w \in Seq(Byte), NEW i \in Int
    PROVE  StandsAt(w, s, i) <=> /\ i > 0 /\ i + Len(w) - 1 <= Len(s)
                                 /\ \A m \in 1 .. Len(w) : s[i + m - 1] = w[m]
<1> SUFFICES ASSUME i > 0, i + Len(w) - 1 <= Len(s)
             PROVE  SubSeq(s, i, i + Len(w) - 1) = w
                    <=> \A m \in 1 .. Len(w) : s[i + m - 1] = w[m]
    BY Zenon DEF StandsAt
<1> DEFINE e == i + Len(w) - 1
           r == SubSeq(s, i, e)
<1>1. Len(s) \in Nat /\ Len(w) \in Nat
    BY LenProperties
<1>2. i \in 1 .. Len(s) + 1 /\ e \in i - 1 .. Len(s) /\ e - i + 1 = Len(w)
    BY <1>1
<1> HIDE DEF e
<1>3. /\ r \in Seq(Byte) /\ Len(r) = e - i + 1
      /\ \A m \in 1 .. e - i + 1 : r[m] = s[i + m - 1]
    BY <1>2, Part
<1> HIDE DEF r
<1>4. r = w <=> \A m \in 1 .. Len(w) : r[m] = w[m]
    BY <1>2, <1>3, SeqEqual
<1> QED
    BY <1>2, <1>3, <1>4 DEF r, e

\* Append, at every place of the sequence.
LEMMA OneMore ==
    ASSUME NEW u \in Seq(Byte), NEW b \in Byte, NEW n \in Nat, Len(u) = n
    PROVE  /\ Append(u, b) \in Seq(Byte) /\ Len(Append(u, b)) = n + 1
           /\ Append(u, b)[n + 1] = b
           /\ \A m \in 1 .. n : Append(u, b)[m] = u[m]
BY AppendProperties

LEMMA IntroBytes ==
    /\ Intro \in Seq(Byte) /\ Len(Intro) = 5
    /\ Unfinished \in Seq(Byte) /\ Len(Unfinished) = 4
    /\ Intro[1] = "ESC" /\ Intro[2] = "bracket" /\ Intro[3] = "5" /\ Intro[4] = "2"
    /\ Intro[5] = "semicolon"
    /\ \A m \in 1 .. 4 : Unfinished[m] = Intro[m]
<1>1. {"ESC", "bracket", "5", "2", "semicolon"} \subseteq Byte
    BY DEF Byte, Special
<1>2. /\ Unfinished \in Seq(Byte) /\ Len(Unfinished) = 4
      /\ Unfinished[1] = "ESC" /\ Unfinished[2] = "bracket"
      /\ Unfinished[3] = "5" /\ Unfinished[4] = "2"
    BY <1>1 DEF Unfinished
<1>3. /\ Intro \in Seq(Byte) /\ Len(Intro) = 5 /\ Intro[5] = "semicolon"
      /\ \A m \in 1 .. 4 : Intro[m] = Unfinished[m]
    <2>1. "semicolon" \in Byte /\ 4 \in Nat
        BY <1>1
    <2>2. /\ Intro \in Seq(Byte) /\ Len(Intro) = 4 + 1 /\ Intro[4 + 1] = "semicolon"
          /\ \A m \in 1 .. 4 : Intro[m] = Unfinished[m]
        BY <1>2, <2>1, OneMore DEF Intro
    <2> QED
        BY <2>2
<1> QED
    BY <1>2, <1>3

\* A row before i is one longer than the row before the last of it.
LEMMA RowGrows ==
    ASSUME NEW s, NEW i \in Int, NEW n \in Nat
    PROVE  UnfinishedBefore(s, i, n + 1)
           <=> StandsAt(Unfinished, s, i - 4) /\ UnfinishedBefore(s, i - 4, n)
<1> DEFINE U(x) == StandsAt(Unfinished, s, x)
<1>1. U(i - 4 * ((n + 1) + 1)) <=> U((i - 4) - 4 * (n + 1))
    <2>1. i - 4 * ((n + 1) + 1) = (i - 4) - 4 * (n + 1)
        OBVIOUS
    <2> QED
        BY <2>1
<1>2. ASSUME \A m \in 1 .. n + 1 : U(i - 4 * m)
      PROVE  U(i - 4) /\ \A m \in 1 .. n : U((i - 4) - 4 * m)
    <2>1. U(i - 4 * 1) /\ i - 4 * 1 = i - 4
        <3>1. 1 \in 1 .. n + 1 /\ i - 4 * 1 = i - 4
            OBVIOUS
        <3> HIDE DEF U
        <3> QED
            BY <1>2, <3>1
    <2>2. ASSUME NEW m \in 1 .. n PROVE U((i - 4) - 4 * m)
        <3>1. m + 1 \in 1 .. n + 1 /\ i - 4 * (m + 1) = (i - 4) - 4 * m
            OBVIOUS
        <3>2. U(i - 4 * (m + 1))
            <4> HIDE DEF U
            <4> QED
                BY <1>2, <3>1
        <3> QED
            BY <3>1, <3>2
    <2> QED
        BY <2>1, <2>2
<1>3. ASSUME U(i - 4), \A m \in 1 .. n : U((i - 4) - 4 * m), NEW m \in 1 .. n + 1
      PROVE  U(i - 4 * m)
    <2>1. CASE m = 1
        <3>1. i - 4 * m = i - 4
            BY <2>1
        <3> QED
            BY <1>3, <3>1
    <2>2. CASE m # 1
        <3>1. m - 1 \in 1 .. n /\ i - 4 * m = (i - 4) - 4 * (m - 1)
            BY <2>2
        <3>2. U((i - 4) - 4 * (m - 1))
            <4> HIDE DEF U
            <4> QED
                BY <1>3, <3>1
        <3> QED
            BY <3>1, <3>2
    <2> QED
        BY <2>1, <2>2
<1>4. UnfinishedBefore(s, i, n + 1)
      <=> (\A m \in 1 .. n + 1 : U(i - 4 * m)) /\ ~U(i - 4 * ((n + 1) + 1))
    BY Zenon DEF UnfinishedBefore
<1>5. UnfinishedBefore(s, i - 4, n)
      <=> (\A m \in 1 .. n : U((i - 4) - 4 * m)) /\ ~U((i - 4) - 4 * (n + 1))
    BY Zenon DEF UnfinishedBefore
<1> HIDE DEF U
<1>6. (\A m \in 1 .. n + 1 : U(i - 4 * m))
      <=> U(i - 4) /\ \A m \in 1 .. n : U((i - 4) - 4 * m)
    BY <1>2, <1>3, Zenon
<1> QED
    BY <1>1, <1>4, <1>5, <1>6, Zenon DEF U

LEMMA OneRow ==
    ASSUME NEW s, NEW i \in Int, NEW m \in Nat, NEW n \in Nat,
           UnfinishedBefore(s, i, m), UnfinishedBefore(s, i, n)
    PROVE  m = n
<1>1. ASSUME NEW k \in Nat, NEW l \in Nat, k < l,
             UnfinishedBefore(s, i, k), UnfinishedBefore(s, i, l)
      PROVE  FALSE
    <2>1. k + 1 \in 1 .. l
        BY <1>1
    <2> QED
        BY <1>1, <2>1 DEF UnfinishedBefore
<1>2. m < n \/ n < m \/ m = n
    OBVIOUS
<1> QED
    BY <1>1, <1>2

LEMMA SomeRow ==
    ASSUME NEW s, NEW i \in Nat
    PROVE  \E n \in 0 .. i : UnfinishedBefore(s, i, n)
<1> DEFINE N == {n \in 0 .. i : ~StandsAt(Unfinished, s, i - 4 * (n + 1))}
<1>1. i \in N
    <2>1. i - 4 * (i + 1) \in Int /\ ~(i - 4 * (i + 1) > 0)
        OBVIOUS
    <2> QED
        BY <2>1 DEF StandsAt
<1>2. N \in SUBSET Nat /\ N # {}
    <2>1. \A n \in N : n \in Nat
        OBVIOUS
    <2> HIDE DEF N
    <2> QED
        BY <1>1, <2>1
<1> HIDE DEF N
<1>3. PICK n \in N : \A k \in N : n <= k
    BY <1>2, LeastOf
<1>4. n \in 0 .. i /\ ~StandsAt(Unfinished, s, i - 4 * (n + 1))
    BY <1>3 DEF N
<1>5. ASSUME NEW m \in 1 .. n PROVE StandsAt(Unfinished, s, i - 4 * m)
    <2>1. m - 1 \in 0 .. i /\ m - 1 < n /\ (m - 1) + 1 = m
        BY <1>4
    <2>2. m - 1 \notin N
        BY <1>2, <1>3, <2>1
    <2>3. StandsAt(Unfinished, s, i - 4 * ((m - 1) + 1))
        BY <2>1, <2>2 DEF N
    <2> QED
        BY <2>1, <2>3
<1> QED
    BY <1>4, <1>5 DEF UnfinishedBefore

\* An ESC is a part of an unfinished introducer exactly when the ESC of that is not.
LEMMA SwallowedIs ==
    ASSUME NEW s \in Seq(Byte), NEW i \in Nat
    PROVE  Swallowed(s, i) <=> StandsAt(Unfinished, s, i - 4) /\ ~Swallowed(s, i - 4)
<1>1. ASSUME Swallowed(s, i)
      PROVE  StandsAt(Unfinished, s, i - 4) /\ ~Swallowed(s, i - 4)
    <2>1. PICK h \in 0 .. i : UnfinishedBefore(s, i, 2 * h + 1)
        BY <1>1, Zenon DEF Swallowed
    <2>2. 2 * h \in Nat
        OBVIOUS
    <2>3. StandsAt(Unfinished, s, i - 4) /\ UnfinishedBefore(s, i - 4, 2 * h)
        BY <2>1, <2>2, RowGrows
    <2>4. ASSUME Swallowed(s, i - 4) PROVE FALSE
        <3>1. PICK g \in 0 .. i - 4 : UnfinishedBefore(s, i - 4, 2 * g + 1)
            BY <2>4, Zenon DEF Swallowed
        <3>2. 2 * g + 1 \in Nat /\ i - 4 \in Int
            OBVIOUS
        <3>3. 2 * g + 1 = 2 * h
            BY <2>2, <2>3, <3>1, <3>2, OneRow
        <3> QED
            BY <3>3
    <2> QED
        BY <2>3, <2>4
<1>2. ASSUME StandsAt(Unfinished, s, i - 4), ~Swallowed(s, i - 4)
      PROVE  Swallowed(s, i)
    <2>1. i - 4 \in Nat
        BY <1>2 DEF StandsAt
    <2>2. PICK n \in 0 .. i - 4 : UnfinishedBefore(s, i - 4, n)
        BY <2>1, SomeRow
    <2>3. n \in Nat
        BY <2>2
    <2>4. PICK h \in 0 .. n : n = 2 * h \/ n = 2 * h + 1
        BY <2>3, HalfOf
    <2>5. h \in 0 .. i - 4 /\ h \in 0 .. i
        BY <2>1, <2>2, <2>4
    <2>6. CASE n = 2 * h + 1
        BY <1>2, <2>2, <2>5, <2>6 DEF Swallowed
    <2>7. CASE n = 2 * h
        <3>1. UnfinishedBefore(s, i, 2 * h + 1)
            BY <1>2, <2>2, <2>3, <2>7, RowGrows
        <3> QED
            BY <2>5, <3>1 DEF Swallowed
    <2> QED
        BY <2>4, <2>6, <2>7
<1> QED
    BY <1>1, <1>2

\* An ESC is swallowed right after the unfinished introducer of a sequence.
LEMMA SwallowedNext ==
    ASSUME NEW s \in Seq(Byte), NEW p \in Nat
    PROVE  Swallowed(s, p + 1) <=> Introducing(s, p - 3, 4)
<1> DEFINE i == p - 3
<1>1. p + 1 \in Nat /\ (p + 1) - 4 = i /\ i \in Int
    OBVIOUS
<1> HIDE DEF i
<1>2. Swallowed(s, p + 1) <=> StandsAt(Unfinished, s, i) /\ ~Swallowed(s, i)
    BY <1>1, SwallowedIs
<1>3. StandsAt(Unfinished, s, i) <=> /\ i > 0 /\ i + 4 - 1 <= Len(s)
                                     /\ \A m \in 1 .. 4 : s[i + m - 1] = Intro[m]
    <2>1. StandsAt(Unfinished, s, i) <=> /\ i > 0 /\ i + 4 - 1 <= Len(s)
                                         /\ \A m \in 1 .. 4 : s[i + m - 1] = Unfinished[m]
        <3>1. Unfinished \in Seq(Byte) /\ Len(Unfinished) = 4
            BY IntroBytes
        <3> DEFINE w == Unfinished
        <3>2. StandsAt(w, s, i) <=> /\ i > 0 /\ i + Len(w) - 1 <= Len(s)
                                    /\ \A m \in 1 .. Len(w) : s[i + m - 1] = w[m]
            BY <1>1, <3>1, Stands
        <3> QED
            BY <3>1, <3>2
    <2> QED
        BY <2>1, IntroBytes
<1>4. Introducing(s, i, 4) <=> StandsAt(Unfinished, s, i) /\ ~Swallowed(s, i)
    BY <1>3, Zenon DEF Introducing
<1> QED
    BY <1>2, <1>4 DEF i

\* A sequence begins with every ESC that is not swallowed ...
LEMMA IntroducingOne ==
    ASSUME NEW s \in Seq(Byte), NEW i \in Int
    PROVE  Introducing(s, i, 1)
           <=> i > 0 /\ i <= Len(s) /\ s[i] = "ESC" /\ ~Swallowed(s, i)
<1>1. (\A m \in 1 .. 1 : s[i + m - 1] = Intro[m]) <=> s[i] = "ESC"
    BY IntroBytes
<1>2. i + 1 - 1 <= Len(s) <=> i <= Len(s)
    BY LenProperties
<1> QED
    BY <1>1, <1>2, Zenon DEF Introducing

\* ... and goes on as long as the bytes are those of Intro.
LEMMA IntroducingMore ==
    ASSUME NEW s \in Seq(Byte), NEW i \in Int, NEW n \in 1 .. 4
    PROVE  Introducing(s, i, n + 1)
           <=> Introducing(s, i, n) /\ i + n <= Len(s) /\ s[i + n] = Intro[n + 1]
<1>1. Len(s) \in Nat /\ n + 1 \in 1 .. 5 /\ i + (n + 1) - 1 = i + n
    BY LenProperties
<1>2. (\A m \in 1 .. n + 1 : s[i + m - 1] = Intro[m])
      <=> (\A m \in 1 .. n : s[i + m - 1] = Intro[m]) /\ s[i + n] = Intro[n + 1]
    <2>1. \A m : m \in 1 .. n + 1 <=> m \in 1 .. n \/ m = n + 1
        OBVIOUS
    <2> QED
        BY <1>1, <2>1
<1>3. i + n <= Len(s) => i + n - 1 <= Len(s)
    BY <1>1
<1> QED
    BY <1>1, <1>2, <1>3, Zenon DEF Introducing

\* What a byte b adds to what the state st tells.
Follows(s, p, st, b) ==
    /\ Introducing(s, p + 1, 1) <=> b = "ESC" /\ st # "52_RECEIVED"
    /\ Introducing(s, p, 2) <=> b = "bracket" /\ st \in AfterEsc
    /\ Introducing(s, p - 1, 3) <=> b = "5" /\ st = "OSC_RECEIVED"
    /\ Introducing(s, p - 2, 4) <=> b = "2" /\ st = "5_RECEIVED"
    /\ Introducing(s, p - 3, 5) <=> b = "semicolon" /\ st = "52_RECEIVED"

\* The state before a byte tells what the byte makes of an introducer.
LEMMA MarksNext ==
    ASSUME NEW s \in Seq(Byte), NEW p \in Nat, p + 1 <= Len(s), NEW st, Marks(s, p, st)
    PROVE  Follows(s, p, st, s[p + 1])
<1> DEFINE b == s[p + 1]
<1>1. Introducing(s, p + 1, 1) <=> b = "ESC" /\ st # "52_RECEIVED"
    <2>1. Swallowed(s, p + 1) <=> st = "52_RECEIVED"
        BY SwallowedNext DEF Marks
    <2>2. Introducing(s, p + 1, 1) <=> b = "ESC" /\ ~Swallowed(s, p + 1)
        BY IntroducingOne
    <2> QED
        BY <2>1, <2>2
<1>2. Introducing(s, p, 2) <=> b = "bracket" /\ st \in AfterEsc
    <2>1. Introducing(s, p, 1 + 1)
          <=> Introducing(s, p, 1) /\ p + 1 <= Len(s) /\ b = Intro[1 + 1]
        BY IntroducingMore
    <2>2. Introducing(s, p, 2) <=> Introducing(s, p, 1) /\ b = "bracket"
        BY <2>1, IntroBytes
    <2> QED
        BY <2>2, Zenon DEF Marks
<1>3. Introducing(s, p - 1, 3) <=> b = "5" /\ st = "OSC_RECEIVED"
    <2> DEFINE i == p - 1
    <2>1. i \in Int /\ i + 2 = p + 1
        OBVIOUS
    <2> HIDE DEF i
    <2>2. Introducing(s, i, 2 + 1)
          <=> Introducing(s, i, 2) /\ i + 2 <= Len(s) /\ s[i + 2] = Intro[2 + 1]
        BY <2>1, IntroducingMore
    <2>3. Introducing(s, i, 3) <=> Introducing(s, i, 2) /\ b = "5"
        BY <2>1, <2>2, IntroBytes
    <2>4. /\ st = "OSC_RECEIVED" => Introducing(s, i, 2)
          /\ Introducing(s, i, 2) /\ b = "5" => st = "OSC_RECEIVED"
        BY Zenon DEF Marks, NextIsNot, i
    <2> QED
        BY <2>3, <2>4, Zenon DEF i
<1>4. Introducing(s, p - 2, 4) <=> b = "2" /\ st = "5_RECEIVED"
    <2> DEFINE i == p - 2
    <2>1. i \in Int /\ i + 3 = p + 1
        OBVIOUS
    <2> HIDE DEF i
    <2>2. Introducing(s, i, 3 + 1)
          <=> Introducing(s, i, 3) /\ i + 3 <= Len(s) /\ s[i + 3] = Intro[3 + 1]
        BY <2>1, IntroducingMore
    <2>3. Introducing(s, i, 4) <=> Introducing(s, i, 3) /\ b = "2"
        BY <2>1, <2>2, IntroBytes
    <2>4. /\ st = "5_RECEIVED" => Introducing(s, i, 3)
          /\ Introducing(s, i, 3) /\ b = "2" => st = "5_RECEIVED"
        BY Zenon DEF Marks, NextIsNot, i
    <2> QED
        BY <2>3, <2>4, Zenon DEF i
<1>5. Introducing(s, p - 3, 5) <=> b = "semicolon" /\ st = "52_RECEIVED"
    <2> DEFINE i == p - 3
    <2>1. i \in Int /\ i + 4 = p + 1
        OBVIOUS
    <2> HIDE DEF i
    <2>2. Introducing(s, i, 4 + 1)
          <=> Introducing(s, i, 4) /\ i + 4 <= Len(s) /\ s[i + 4] = Intro[4 + 1]
        BY <2>1, IntroducingMore
    <2>3. Introducing(s, i, 5) <=> Introducing(s, i, 4) /\ b = "semicolon"
        BY <2>1, <2>2, IntroBytes
    <2> QED
        BY <2>3, Zenon DEF Marks, i
<1> QED
    BY <1>1, <1>2, <1>3, <1>4, <1>5 DEF Follows

\* The states a turn may go to with a byte it consumes.
GoesTo(st, b, to) ==
    /\ to \in AfterEsc <=> b = "ESC" /\ st # "52_RECEIVED"
    /\ to = "OSC_RECEIVED" <=> b = "bracket" /\ st \in AfterEsc
    /\ to = "5_RECEIVED" <=> b = "5" /\ st = "OSC_RECEIVED"
    /\ to = "52_RECEIVED" <=> b = "2" /\ st = "5_RECEIVED"

\* A state that the byte leads to tells it again.
LEMMA MarksTurn ==
    ASSUME NEW s \in Seq(Byte), NEW p \in Nat, NEW st, NEW b, NEW to,
           Follows(s, p, st, b), GoesTo(st, b, to)
    PROVE  Marks(s, p + 1, to)
<1>1. (p + 1) - 1 = p /\ (p + 1) - 2 = p - 1 /\ (p + 1) - 3 = p - 2
    OBVIOUS
<1>2. /\ Introducing(s, p + 1, 1) <=> to \in AfterEsc
      /\ Introducing(s, p, 2) <=> to = "OSC_RECEIVED"
      /\ Introducing(s, p - 1, 3) <=> to = "5_RECEIVED"
      /\ Introducing(s, p - 2, 4) <=> to = "52_RECEIVED"
    BY Zenon DEF Follows, GoesTo
<1> QED
    BY <1>1, <1>2 DEF Marks

\* A byte that is put back decides between the states.
LEMMA MarksAgain ==
    ASSUME NEW s \in Seq(Byte), NEW p \in Nat, p + 1 <= Len(s), NEW st, NEW to,
           Marks(s, p, st),
           \/ st = "OSC_RECEIVED" /\ s[p + 1] # "5" /\ to = "OTHER_ESC"
           \/ st = "5_RECEIVED" /\ s[p + 1] # "2" /\ to = "OTHER_ESC"
           \/ st \in AfterEsc /\ to = "ESC_RECEIVED"
    PROVE  Marks(s, p, to)
<1>1. p < Len(s)
    BY LenProperties
<1>2. CASE st = "OSC_RECEIVED" /\ s[p + 1] # "5" /\ to = "OTHER_ESC"
    BY <1>1, <1>2 DEF Marks, NextIsNot, AfterEsc
<1>3. CASE st = "5_RECEIVED" /\ s[p + 1] # "2" /\ to = "OTHER_ESC"
    BY <1>1, <1>3 DEF Marks, NextIsNot, AfterEsc
<1>4. CASE st \in AfterEsc /\ to = "ESC_RECEIVED"
    BY <1>4 DEF Marks, AfterEsc
<1> QED
    BY <1>2, <1>3, <1>4

-----------------------------------------------------------------------------
(* Where texts go on and stop.                                             *)

\* An introducer has one ESC, and no byte that ends a text.
LEMMA IntroducerBytes ==
    ASSUME NEW s \in Seq(Byte), NEW i \in Int, Introducing(s, i, 5)
    PROVE  /\ i > 0 /\ i + 4 <= Len(s) /\ s[i] = "ESC"
           /\ \A k \in i + 1 .. i + 4 : ~IsStop(s[k])
<1>1. Len(s) \in Nat
    BY LenProperties
<1>2. i > 0 /\ i + 5 - 1 <= Len(s) /\ \A m \in 1 .. 5 : s[i + m - 1] = Intro[m]
    BY Zenon DEF Introducing
<1>3. ASSUME NEW m \in 1 .. 5 PROVE s[i + (m - 1)] = Intro[m]
    <2>1. i + (m - 1) = i + m - 1
        OBVIOUS
    <2> QED
        BY <1>2, <2>1
<1>4. /\ s[i + (1 - 1)] = "ESC" /\ s[i + (2 - 1)] = "bracket" /\ s[i + (3 - 1)] = "5"
      /\ s[i + (4 - 1)] = "2" /\ s[i + (5 - 1)] = "semicolon"
    BY <1>3, IntroBytes
<1>5. i + (1 - 1) = i
    OBVIOUS
<1>6. ASSUME NEW k \in i + 1 .. i + 4 PROVE ~IsStop(s[k])
    <2>1. k = i + (2 - 1) \/ k = i + (3 - 1) \/ k = i + (4 - 1) \/ k = i + (5 - 1)
        OBVIOUS
    <2> QED
        BY <1>4, <2>1 DEF IsStop, IsTerminator
<1> QED
    BY <1>1, <1>2, <1>4, <1>5, <1>6

\* Nor has the text.
LEMMA NoStopInside ==
    ASSUME NEW s \in Seq(Byte), NEW p \in Int, NEW i \in Int, GoesOn(s, i, p)
    PROVE  i > 0 /\ i + 4 <= p /\ s[i] = "ESC" /\ \A k \in i + 1 .. p : ~IsStop(s[k])
<1>1. /\ i > 0 /\ s[i] = "ESC" /\ i + 4 <= p
      /\ \A k \in i + 1 .. i + 4 : ~IsStop(s[k])
      /\ \A k \in i + 5 .. p : ~IsStop(s[k])
    BY IntroducerBytes DEF GoesOn
<1>2. \A k \in i + 1 .. p : k \in i + 1 .. i + 4 \/ k \in i + 5 .. p
    OBVIOUS
<1> QED
    BY <1>1, <1>2

LEMMA NoEscInside ==
    ASSUME NEW s \in Seq(Byte), NEW p \in Int, NEW i \in Int, GoesOn(s, i, p)
    PROVE  i > 0 /\ i + 4 <= p /\ s[i] = "ESC" /\ \A k \in i + 1 .. p : s[k] # "ESC"
BY NoStopInside DEF IsStop

\* One text at a time.
LEMMA OneGoesOn ==
    ASSUME NEW s \in Seq(Byte), NEW p \in Int, NEW i \in Int, NEW j \in Int,
           GoesOn(s, i, p), GoesOn(s, j, p)
    PROVE  i = j
<1>1. /\ i + 4 <= p /\ s[i] = "ESC" /\ \A k \in i + 1 .. p : s[k] # "ESC"
      /\ j + 4 <= p /\ s[j] = "ESC" /\ \A k \in j + 1 .. p : s[k] # "ESC"
    BY NoEscInside
<1>2. CASE i < j
    <2>1. j \in i + 1 .. p
        BY <1>1, <1>2
    <2> QED
        BY <1>1, <2>1
<1>3. CASE j < i
    <2>1. i \in j + 1 .. p
        BY <1>1, <1>3
    <2> QED
        BY <1>1, <2>1
<1> QED
    BY <1>2, <1>3

\* A text that goes on at a byte went on before, or has just begun.
LEMMA GoesOnNext ==
    ASSUME NEW s \in Seq(Byte), NEW p \in Nat, NEW i \in Int, GoesOn(s, i, p + 1)
    PROVE  \/ GoesOn(s, i, p) /\ ~IsStop(s[p + 1])
           \/ i = p - 3 /\ Introducing(s, p - 3, 5)
<1>1. Introducing(s, i, 5) /\ i + 4 <= p + 1 /\ \A k \in i + 5 .. p + 1 : ~IsStop(s[k])
    BY DEF GoesOn
<1>2. CASE i + 4 <= p
    <2>1. \A k \in i + 5 .. p : k \in i + 5 .. p + 1
        OBVIOUS
    <2>2. p + 1 \in i + 5 .. p + 1
        BY <1>2
    <2> QED
        BY <1>1, <1>2, <2>1, <2>2 DEF GoesOn
<1>3. CASE ~(i + 4 <= p)
    <2>1. i = p - 3
        BY <1>1, <1>3
    <2> QED
        BY <1>1, <2>1
<1> QED
    BY <1>2, <1>3

\* The limits of the bytes of s.
Limits(s, lim) == \A k \in 1 .. Len(s) : lim[k] \in Nat

\* A text without room has none later.
LEMMA TooLongStays ==
    ASSUME NEW s \in Seq(Byte), NEW lim, Limits(s, lim), NEW p \in Nat, p < Len(s),
           NEW i \in Nat, TooLong(lim, i, p)
    PROVE  TooLong(lim, i, p + 1)
<1>1. Len(s) \in Nat
    BY LenProperties
<1>2. PICK k \in i + 4 .. p : lim[k] <= p - (i + 4)
    BY DEF TooLong
<1>3. k \in 1 .. Len(s) /\ k \in i + 4 .. p + 1
    BY <1>1, <1>2
<1>4. lim[k] \in Nat
    BY <1>3 DEF Limits
<1>5. lim[k] <= (p + 1) - (i + 4)
    BY <1>2, <1>4
<1> QED
    BY <1>3, <1>5 DEF TooLong

Closes(s, e, p) == \/ IsTerminator(s[e])
                   \/ s[e] = "ESC" /\ e < p /\ s[e + 1] = "backslash"

\* Stops, part by part.
LEMMA StopsFacts ==
    ASSUME NEW s \in Seq(Byte), NEW lim, NEW i \in Int, NEW e \in Int, Stops(s, lim, i, e)
    PROVE  /\ i > 5 /\ i <= e /\ e <= Len(s)
           /\ GoesOn(s, i - 5, e - 1) /\ IsStop(s[e]) /\ ~TooLong(lim, i - 5, e - 1)
BY Zenon DEF Stops

\* Complete, by first byte and end.
LEMMA CompleteIs ==
    ASSUME NEW s \in Seq(Byte), NEW lim, NEW p \in Nat
    PROVE  /\ \A t \in Complete(s, lim, p) :
                  t = <<t[1], t[2]>> /\ t[1] \in 1 .. p /\ t[2] \in 1 .. p
           /\ \A i \in Int, e \in Int :
                  <<i, e>> \in Complete(s, lim, p)
                  <=> e \in 1 .. p /\ Stops(s, lim, i, e) /\ Closes(s, e, p)
<1>1. \A t \in Complete(s, lim, p) :
          t = <<t[1], t[2]>> /\ t[1] \in 1 .. p /\ t[2] \in 1 .. p
    BY DEF Complete
<1>2. ASSUME NEW i \in Int, NEW e \in Int
      PROVE  <<i, e>> \in Complete(s, lim, p)
             <=> e \in 1 .. p /\ Stops(s, lim, i, e) /\ Closes(s, e, p)
    <2>1. <<i, e>> \in Complete(s, lim, p)
          <=> i \in 1 .. p /\ e \in 1 .. p /\ Stops(s, lim, i, e) /\ Closes(s, e, p)
        BY DEF Complete, Closes
    <2>2. e \in 1 .. p /\ Stops(s, lim, i, e) => i \in 1 .. p
        BY StopsFacts
    <2> QED
        BY <2>1, <2>2, Zenon
<1> QED
    BY <1>1, <1>2

\* Two sets of pairs with the same pairs.
LEMMA SameComplete ==
    ASSUME NEW s \in Seq(Byte), NEW lim, NEW p \in Nat, NEW q \in Nat,
           NEW r \in Seq(Byte), NEW lam,
           \A i \in Int, e \in Int : <<i, e>> \in Complete(s, lim, p)
                                     <=> <<i, e>> \in Complete(r, lam, q)
    PROVE  Complete(s, lim, p) = Complete(r, lam, q)
<1>1. ASSUME NEW t \in Complete(s, lim, p) PROVE t \in Complete(r, lam, q)
    <2>1. t = <<t[1], t[2]>> /\ t[1] \in Int /\ t[2] \in Int
        BY CompleteIs
    <2> QED
        BY <1>1, <2>1
<1>2. ASSUME NEW t \in Complete(r, lam, q) PROVE t \in Complete(s, lim, p)
    <2>1. t = <<t[1], t[2]>> /\ t[1] \in Int /\ t[2] \in Int
        BY CompleteIs
    <2> QED
        BY <1>2, <2>1
<1> QED
    BY <1>1, <1>2, Zenon

\* One more pair.
Adds(s, lim, p, q, j, f) ==
    \A i \in Int, e \in Int :
        <<i, e>> \in Complete(s, lim, q)
        <=> <<i, e>> \in Complete(s, lim, p) \/ (i = j /\ e = f)

\* One more text is complete.
LEMMA MoreComplete ==
    ASSUME NEW s \in Seq(Byte), NEW lim, NEW p \in Nat, NEW q \in Nat,
           NEW j \in Int, NEW f \in Int, Adds(s, lim, p, q, j, f), NEW x, x = <<j, f>>
    PROVE  Complete(s, lim, q) = Complete(s, lim, p) \cup {x}
<1>0. \A i \in Int, e \in Int : <<i, e>> \in Complete(s, lim, q)
                                 <=> <<i, e>> \in Complete(s, lim, p) \/ (i = j /\ e = f)
    BY Zenon DEF Adds
<1>1. ASSUME NEW t \in Complete(s, lim, q) PROVE t \in Complete(s, lim, p) \cup {x}
    <2>1. t = <<t[1], t[2]>> /\ t[1] \in Int /\ t[2] \in Int
        BY CompleteIs
    <2>2. t \in Complete(s, lim, p) \/ (t[1] = j /\ t[2] = f)
        BY <1>0, <1>1, <2>1
    <2> QED
        BY <2>1, <2>2
<1>2. ASSUME NEW t \in Complete(s, lim, p) PROVE t \in Complete(s, lim, q)
    <2>1. t = <<t[1], t[2]>> /\ t[1] \in Int /\ t[2] \in Int
        BY CompleteIs
    <2> QED
        BY <1>0, <1>2, <2>1
<1>3. x \in Complete(s, lim, q)
    BY <1>0
<1> QED
    BY <1>1, <1>2, <1>3

\* A text that begins after all the others comes last.
LEMMA InOrderAppend ==
    ASSUME NEW s, NEW T, NEW del \in Seq(Seq(Byte)), InOrder(s, T, del),
           NEW d \in Seq(Byte), NEW t, \A u \in T : u[1] < t[1],
           TextAt(s, t[1] - 1, d), Len(d) = t[2] - t[1]
    PROVE  InOrder(s, T \cup {t}, Append(del, d))
<1> DEFINE n == Len(del)
           all == Append(del, d)
<1>1. n \in Nat /\ n + 1 \in Nat
    BY LenProperties
<1>2. /\ Len(all) = n + 1 /\ all[n + 1] = d
      /\ \A k \in 1 .. n : all[k] = del[k]
    BY AppendProperties
<1>3. PICK at \in [1 .. n -> T] :
          /\ \A u \in T : \E k \in 1 .. n : u = at[k]
          /\ \A k, l \in 1 .. n : k < l => at[k][1] < at[l][1]
          /\ \A k \in 1 .. n : /\ TextAt(s, at[k][1] - 1, del[k])
                               /\ Len(del[k]) = at[k][2] - at[k][1]
    BY Zenon DEF InOrder
<1> DEFINE to == [k \in 1 .. n + 1 |-> IF k = n + 1 THEN t ELSE at[k]]
<1>4. \A k \in 1 .. n + 1 : k \in 1 .. n \/ k = n + 1
    BY <1>1
<1>5. \A k \in 1 .. n : k \in 1 .. n + 1 /\ k # n + 1
    BY <1>1
<1>6. \A k \in 1 .. n : to[k] = at[k] /\ at[k] \in T
    BY <1>3, <1>5
<1>7. to[n + 1] = t /\ n + 1 \in 1 .. n + 1
    BY <1>1
<1>8. to \in [1 .. n + 1 -> T \cup {t}]
    BY <1>3, <1>4
<1> HIDE DEF all, n, to
<1>9. \A u \in T \cup {t} : \E k \in 1 .. n + 1 : u = to[k]
    BY <1>3, <1>5, <1>6, <1>7
<1>10. ASSUME NEW k \in 1 .. n + 1, NEW l \in 1 .. n + 1, k < l
       PROVE  to[k][1] < to[l][1]
    <2>1. k \in 1 .. n
        BY <1>1, <1>10
    <2>2. CASE l = n + 1
        BY <1>6, <1>7, <2>1, <2>2
    <2>3. CASE l \in 1 .. n
        BY <1>3, <1>6, <1>10, <2>1, <2>3
    <2> QED
        BY <1>4, <2>2, <2>3
<1>11. ASSUME NEW k \in 1 .. n + 1
       PROVE  TextAt(s, to[k][1] - 1, all[k]) /\ Len(all[k]) = to[k][2] - to[k][1]
    <2>1. CASE k = n + 1
        BY <1>2, <1>7, <2>1
    <2>2. CASE k \in 1 .. n
        <3>1. to[k] = at[k] /\ all[k] = del[k]
            BY <1>2, <1>6, <2>2
        <3>2. TextAt(s, at[k][1] - 1, del[k]) /\ Len(del[k]) = at[k][2] - at[k][1]
            BY <1>3, <2>2
        <3> QED
            BY <3>1, <3>2
    <2> QED
        BY <1>4, <2>1, <2>2
<1>12. InOrder(s, T \cup {t}, all)
    BY <1>2, <1>8, <1>9, <1>10, <1>11 DEF InOrder
<1> QED
    BY <1>12 DEF all

-----------------------------------------------------------------------------
(* What a turn makes of Exact.                                             *)

\* A text that a further byte would end is not there.
LEMMA NoneStops ==
    ASSUME NEW s \in Seq(Byte), NEW lim, NEW p \in Nat, NEW st, NEW d,
           Waits(s, lim, p, st, d), st # "CAPTURE_OSC52",
           ~(Introducing(s, p - 3, 5) /\ ~IsStop(s[p + 1])),
           NEW i \in Int
    PROVE  ~Stops(s, lim, i, p + 1)
<1> SUFFICES ASSUME Stops(s, lim, i, p + 1) PROVE FALSE
    OBVIOUS
<1>1. p + 1 \in Int /\ (p + 1) - 1 = p /\ i - 5 \in Int
    OBVIOUS
<1>2. GoesOn(s, i - 5, (p + 1) - 1) /\ ~TooLong(lim, i - 5, (p + 1) - 1)
    BY <1>1, StopsFacts
<1>3. GoesOn(s, i - 5, p) /\ ~TooLong(lim, i - 5, p)
    BY <1>1, <1>2
<1>4. i - 5 \in 1 .. p
    BY <1>1, <1>3, NoEscInside
<1> QED
    BY <1>3, <1>4 DEF Waits

\* A text that stops earlier begins earlier.
LEMMA TextBefore ==
    ASSUME NEW s \in Seq(Byte), NEW lim, NEW i \in Int, NEW e \in Int, NEW j \in Int,
           NEW f \in Int, Stops(s, lim, i, e), Stops(s, lim, j, f), e < f
    PROVE  i < j
<1>1. /\ i <= e /\ GoesOn(s, i - 5, e - 1) /\ IsStop(s[e])
      /\ j <= f /\ GoesOn(s, j - 5, f - 1)
    BY StopsFacts
<1>2. /\ s[i - 5] = "ESC" /\ \A k \in (j - 5) + 1 .. f - 1 : s[k] # "ESC"
      /\ (i - 5) + 4 <= e - 1
    BY <1>1, NoEscInside
<1>3. \A k \in (j - 5) + 5 .. f - 1 : ~IsStop(s[k])
    BY <1>1, Zenon DEF GoesOn
<1>4. ~(j <= e)
    <2> SUFFICES ASSUME j <= e PROVE FALSE
        OBVIOUS
    <2>1. e \in (j - 5) + 5 .. f - 1
        OBVIOUS
    <2> QED
        BY <1>1, <1>3, <2>1
<1> QED
    BY <1>1, <1>4

\* A turn that consumes a byte outside of the texts.
LEMMA QuietTurn ==
    ASSUME NEW s \in Seq(Byte), NEW lim, Limits(s, lim), NEW p \in Nat, p + 1 <= Len(s),
           NEW st, NEW d, NEW del, Exact(s, lim, p, st, d, del), st \notin Capturing,
           ~Introducing(s, p - 3, 5),
           NEW to, to \notin Capturing, Marks(s, p + 1, to)
    PROVE  Exact(s, lim, p + 1, to, <<>>, del)
<1>1. /\ Waits(s, lim, p, st, d) /\ Halfway(s, lim, p, st, d)
      /\ InOrder(s, Complete(s, lim, p), del)
    BY Zenon DEF Exact
<1>2. st # "CAPTURE_OSC52" /\ st # "CAPTURE_TERM_ESC"
      /\ to # "CAPTURE_OSC52" /\ to # "CAPTURE_TERM_ESC"
    BY DEF Capturing
<1>3. \A i \in Int : ~Stops(s, lim, i, p + 1)
    BY <1>1, <1>2, NoneStops
<1>4. Waits(s, lim, p + 1, to, <<>>)
    <2> SUFFICES ASSUME NEW i \in 1 .. p + 1, GoesOn(s, i, p + 1)
                 PROVE  TooLong(lim, i, p + 1)
        BY DEF Waits
    <2>1. GoesOn(s, i, p)
        BY GoesOnNext
    <2>2. i \in 1 .. p /\ p < Len(s)
        BY <2>1, NoEscInside, LenProperties
    <2>3. TooLong(lim, i, p)
        BY <1>1, <1>2, <2>1, <2>2 DEF Waits
    <2> QED
        BY <2>2, <2>3, TooLongStays
<1>5. Halfway(s, lim, p + 1, to, <<>>)
    BY <1>2, <1>3 DEF Halfway
<1>6. Complete(s, lim, p + 1) = Complete(s, lim, p)
    <2>1. ASSUME NEW i \in Int, NEW e \in Int
          PROVE  <<i, e>> \in Complete(s, lim, p + 1) <=> <<i, e>> \in Complete(s, lim, p)
        <3>1. /\ <<i, e>> \in Complete(s, lim, p + 1)
                 <=> e \in 1 .. p + 1 /\ Stops(s, lim, i, e) /\ Closes(s, e, p + 1)
              /\ <<i, e>> \in Complete(s, lim, p)
                 <=> e \in 1 .. p /\ Stops(s, lim, i, e) /\ Closes(s, e, p)
            BY CompleteIs
        <3>2. ASSUME e \in 1 .. p + 1, Stops(s, lim, i, e), Closes(s, e, p + 1)
              PROVE  e \in 1 .. p /\ Closes(s, e, p)
            <4>1. e \in 1 .. p
                BY <1>3, <3>2
            <4>2. CASE IsTerminator(s[e])
                BY <4>1, <4>2 DEF Closes
            <4>3. CASE s[e] = "ESC" /\ s[e + 1] = "backslash"
                <5>1. i \in 1 .. e
                    BY <3>2, StopsFacts
                <5>2. e # p
                    <6> SUFFICES ASSUME e = p PROVE FALSE
                        OBVIOUS
                    <6>1. NextIsNot(s, p, "backslash")
                        BY <1>1, <1>2, <3>2, <4>3, <5>1 DEF Halfway
                    <6> QED
                        BY <4>3, <6>1 DEF NextIsNot
                <5> QED
                    BY <4>1, <4>3, <5>2 DEF Closes
            <4> QED
                BY <3>2, <4>2, <4>3 DEF Closes
        <3>3. e \in 1 .. p /\ Closes(s, e, p) => e \in 1 .. p + 1 /\ Closes(s, e, p + 1)
            BY DEF Closes
        <3> QED
            BY <3>1, <3>2, <3>3, Zenon
    <2> QED
        BY <2>1, SameComplete
<1> QED
    BY <1>1, <1>4, <1>5, <1>6, Zenon DEF Exact

\* A turn that puts its byte back.
LEMMA AgainTurn ==
    ASSUME NEW s \in Seq(Byte), NEW lim, NEW p \in Nat,
           NEW st, NEW d, NEW del, Exact(s, lim, p, st, d, del), st # "CAPTURE_OSC52",
           st = "CAPTURE_TERM_ESC" => NextIsNot(s, p, "backslash"),
           NEW to, to \notin Capturing, Marks(s, p, to)
    PROVE  Exact(s, lim, p, to, <<>>, del)
<1>1. /\ Waits(s, lim, p, st, d) /\ Halfway(s, lim, p, st, d)
      /\ InOrder(s, Complete(s, lim, p), del)
    BY Zenon DEF Exact
<1>2. Waits(s, lim, p, to, <<>>)
    BY <1>1 DEF Waits
<1>3. Halfway(s, lim, p, to, <<>>)
    BY <1>1 DEF Halfway, Capturing
<1> QED
    BY <1>1, <1>2, <1>3, Zenon DEF Exact

\* The ESC of CAPTURE_TERM_ESC turns out to end its text.
LEMMA BackslashTurn ==
    ASSUME NEW s \in Seq(Byte), NEW lim, Limits(s, lim), NEW p \in Nat, p + 1 <= Len(s),
           NEW d \in Seq(Byte), NEW del \in Seq(Seq(Byte)),
           Exact(s, lim, p, "CAPTURE_TERM_ESC", d, del),
           s[p] = "ESC", s[p + 1] = "backslash", Marks(s, p + 1, "DEFAULT")
    PROVE  Exact(s, lim, p + 1, "DEFAULT", <<>>, Append(del, d))
<1>1. /\ Waits(s, lim, p, "CAPTURE_TERM_ESC", d)
      /\ Halfway(s, lim, p, "CAPTURE_TERM_ESC", d)
      /\ InOrder(s, Complete(s, lim, p), del)
    BY Zenon DEF Exact
<1>2. PICK j \in 1 .. p : Stops(s, lim, j, p) /\ TextAt(s, j - 1, d) /\ Len(d) = p - j
    BY <1>1, Zenon DEF Halfway
<1>3. ~IsStop(s[p + 1]) => ~Introducing(s, p - 3, 5)
    <2> SUFFICES ASSUME Introducing(s, p - 3, 5) PROVE FALSE
        OBVIOUS
    <2>1. \A k \in (p - 3) + 1 .. (p - 3) + 4 : s[k] # "ESC"
        BY IntroducerBytes DEF IsStop
    <2> QED
        BY <2>1
<1>4. \A i \in Int : ~Stops(s, lim, i, p + 1)
    BY <1>1, <1>3, NoneStops
<1>5. Waits(s, lim, p + 1, "DEFAULT", <<>>)
    <2> SUFFICES ASSUME NEW i \in 1 .. p + 1, GoesOn(s, i, p + 1) PROVE FALSE
        BY DEF Waits
    <2>1. /\ i + 4 <= p + 1 /\ \A k \in i + 1 .. p + 1 : s[k] # "ESC"
        BY NoEscInside
    <2>2. p \in i + 1 .. p + 1
        BY <2>1
    <2> QED
        BY <2>1, <2>2
<1>6. Halfway(s, lim, p + 1, "DEFAULT", <<>>)
    BY <1>4 DEF Halfway
<1> DEFINE t == <<j, p>>
<1>10. t = <<j, p>> /\ t[1] = j /\ t[2] = p
    OBVIOUS
<1> HIDE DEF t
<1>7. Complete(s, lim, p + 1) = Complete(s, lim, p) \cup {t}
    <2>0. p + 1 \in Nat /\ j \in Int /\ p \in Int
        OBVIOUS
    <2>1. ASSUME NEW i \in Int, NEW e \in Int
          PROVE  <<i, e>> \in Complete(s, lim, p + 1)
                 <=> <<i, e>> \in Complete(s, lim, p) \/ (i = j /\ e = p)
        <3>1. /\ <<i, e>> \in Complete(s, lim, p + 1)
                 <=> e \in 1 .. p + 1 /\ Stops(s, lim, i, e) /\ Closes(s, e, p + 1)
              /\ <<i, e>> \in Complete(s, lim, p)
                 <=> e \in 1 .. p /\ Stops(s, lim, i, e) /\ Closes(s, e, p)
            BY <2>0, CompleteIs, Zenon
        <3>2. ASSUME e \in 1 .. p + 1, Stops(s, lim, i, e), Closes(s, e, p + 1), e # p
              PROVE  e \in 1 .. p /\ Closes(s, e, p)
            <4>1. e \in 1 .. p /\ e < p
                BY <1>4, <3>2
            <4> QED
                BY <3>2, <4>1 DEF Closes
        <3>3. ASSUME Stops(s, lim, i, p) PROVE i = j
            <4>1. GoesOn(s, i - 5, p - 1) /\ GoesOn(s, j - 5, p - 1)
                BY <1>2, <3>3, StopsFacts
            <4>2. i - 5 = j - 5
                BY <4>1, OneGoesOn
            <4> QED
                BY <4>2
        <3>4. e \in 1 .. p /\ Closes(s, e, p) => e \in 1 .. p + 1 /\ Closes(s, e, p + 1)
            BY DEF Closes
        <3>5. p \in 1 .. p + 1 /\ Stops(s, lim, j, p) /\ Closes(s, p, p + 1)
            BY <1>2 DEF Closes
        <3> QED
            BY <3>1, <3>2, <3>3, <3>4, <3>5, Zenon
    <2> QED
        <3> DEFINE q == p + 1
        <3>1. q \in Nat /\ j \in Int /\ p \in Int
            BY <2>0
        <3>2. Adds(s, lim, p, q, j, p)
            BY <2>1, Zenon DEF Adds
        <3> HIDE DEF q
        <3>3. Complete(s, lim, q) = Complete(s, lim, p) \cup {t}
            BY <1>10, <3>1, <3>2, MoreComplete
        <3> QED
            BY <3>3 DEF q
<1>8. ASSUME NEW u \in Complete(s, lim, p) PROVE u[1] < j
    <2>1. u = <<u[1], u[2]>> /\ u[1] \in 1 .. p /\ u[2] \in 1 .. p
        BY CompleteIs
    <2>2. Stops(s, lim, u[1], u[2]) /\ Closes(s, u[2], p)
        BY <1>8, <2>1, CompleteIs
    <2>3. u[2] # p
        BY <2>2 DEF Closes, IsTerminator
    <2> QED
        BY <1>2, <2>1, <2>2, <2>3, TextBefore
<1>9. InOrder(s, Complete(s, lim, p + 1), Append(del, d))
    <2>1. InOrder(s, Complete(s, lim, p) \cup {t}, Append(del, d))
        BY <1>1, <1>2, <1>8, <1>10, InOrderAppend
    <2> QED
        BY <1>7, <2>1
<1> QED
    BY <1>5, <1>6, <1>9, Zenon DEF Exact

-----------------------------------------------------------------------------
(* What osc52filter_capture_buffer makes of Exact: the text begins after   *)
(* byte p + 1.                                                             *)

\* The text begins.
LEMMA TextGoesOn ==
    ASSUME NEW s \in Seq(Byte), NEW p \in Nat, Introducing(s, p - 3, 5),
           NEW q \in Nat, p + 1 <= q, \A k \in p + 2 .. q : ~IsStop(s[k])
    PROVE  GoesOn(s, p - 3, q)
<1>1. (p - 3) + 4 = p + 1 /\ (p - 3) + 5 = p + 2
    OBVIOUS
<1> QED
    BY <1>1 DEF GoesOn

\* Under one limit, what counts is the length.
LEMMA RoomIs ==
    ASSUME NEW p \in Nat, NEW q \in Nat, p + 1 <= q, NEW lim, NEW n \in Nat,
           \A k \in p + 1 .. q : lim[k] = n
    PROVE  TooLong(lim, p - 3, q) <=> n <= q - (p + 1)
<1>1. (p - 3) + 4 = p + 1
    OBVIOUS
<1>2. TooLong(lim, p - 3, q) <=> \E k \in p + 1 .. q : lim[k] <= q - (p + 1)
    BY <1>1 DEF TooLong
<1>3. q \in p + 1 .. q
    OBVIOUS
<1> QED
    BY <1>2, <1>3

LEMMA IntroducingIsEsc ==
    ASSUME NEW s \in Seq(Byte), NEW k \in Int, NEW n \in Nat \ {0}, Introducing(s, k, n)
    PROVE  s[k] = "ESC"
<1>1. 1 \in 1 .. n /\ k + 1 - 1 = k
    OBVIOUS
<1> QED
    BY <1>1, IntroBytes DEF Introducing

PlainState == {"DEFAULT", "OTHER_ESC", "OTHER_TERM", "CAPTURE_OSC52", "CAPTURE_TERM_ESC"}

\* Inside a text no introducer is under way.
LEMMA MarksInText ==
    ASSUME NEW s \in Seq(Byte), NEW q \in Nat, NEW i \in Int, GoesOn(s, i, q),
           NEW to \in PlainState \ AfterEsc
    PROVE  Marks(s, q, to)
<1>1. i + 4 <= q /\ \A k \in i + 1 .. q : s[k] # "ESC"
    BY NoEscInside
<1>2. \A k \in i + 1 .. q, n \in Nat \ {0} : ~Introducing(s, k, n)
    BY <1>1, IntroducingIsEsc
<1>3. /\ q \in i + 1 .. q /\ q - 1 \in i + 1 .. q /\ q - 2 \in i + 1 .. q
      /\ q - 3 \in i + 1 .. q
    BY <1>1
<1>4. /\ ~Introducing(s, q, 1) /\ ~Introducing(s, q - 1, 2)
      /\ ~Introducing(s, q - 2, 3) /\ ~Introducing(s, q - 3, 4)
    BY <1>2, <1>3
<1> QED
    BY <1>4 DEF Marks, PlainState, AfterEsc

\* Where it stops, only its ESC may begin another one.
LEMMA MarksAtStop ==
    ASSUME NEW s \in Seq(Byte), NEW r \in Nat, NEW i \in Int, GoesOn(s, i, r),
           r + 1 <= Len(s), NEW to \in PlainState, to \in AfterEsc <=> s[r + 1] = "ESC"
    PROVE  Marks(s, r + 1, to)
<1>1. i + 4 <= r /\ \A k \in i + 1 .. r : s[k] # "ESC"
    BY NoEscInside
<1>2. \A k \in i + 1 .. r, n \in Nat \ {0} : ~Introducing(s, k, n)
    BY <1>1, IntroducingIsEsc
<1>3. /\ r \in i + 1 .. r /\ r - 1 \in i + 1 .. r /\ r - 2 \in i + 1 .. r
      /\ r - 3 \in i + 1 .. r
    BY <1>1
<1>4. /\ ~Introducing(s, r, 2) /\ ~Introducing(s, r - 1, 3)
      /\ ~Introducing(s, r - 2, 4) /\ ~Introducing(s, r - 3, 4)
    BY <1>2, <1>3
<1>5. Introducing(s, r + 1, 1) <=> s[r + 1] = "ESC"
    BY <1>4, SwallowedNext, IntroducingOne
<1>6. (r + 1) - 1 = r /\ (r + 1) - 2 = r - 1 /\ (r + 1) - 3 = r - 2
    OBVIOUS
<1>7. to \notin {"OSC_RECEIVED", "5_RECEIVED", "52_RECEIVED"}
    BY DEF PlainState
<1> QED
    BY <1>4, <1>5, <1>6, <1>7 DEF Marks

\* No text becomes complete while another goes on.
LEMMA CompleteInText ==
    ASSUME NEW s \in Seq(Byte), NEW lim, NEW p \in Nat, NEW q \in Nat,
           GoesOn(s, p - 3, q)
    PROVE  \A i \in Int, e \in Int :
               e \in 1 .. q /\ Stops(s, lim, i, e) /\ Closes(s, e, q + 1)
               <=> e \in 1 .. p /\ Stops(s, lim, i, e) /\ Closes(s, e, p)
<1> SUFFICES ASSUME NEW i \in Int, NEW e \in Int
             PROVE  e \in 1 .. q /\ Stops(s, lim, i, e) /\ Closes(s, e, q + 1)
                    <=> e \in 1 .. p /\ Stops(s, lim, i, e) /\ Closes(s, e, p)
    OBVIOUS
<1>1. p + 1 <= q /\ \A k \in p - 2 .. q : ~IsStop(s[k])
    <2>1. (p - 3) + 4 = p + 1 /\ (p - 3) + 1 = p - 2
        OBVIOUS
    <2> QED
        BY <2>1, NoStopInside
<1>2. ASSUME e \in 1 .. q, Stops(s, lim, i, e), Closes(s, e, q + 1)
      PROVE  e \in 1 .. p /\ Closes(s, e, p)
    <2>1. IsStop(s[e])
        BY <1>2, StopsFacts
    <2>2. e \in 1 .. p /\ e < p
        BY <1>1, <1>2, <2>1
    <2> QED
        BY <1>2, <2>2 DEF Closes
<1>3. ASSUME e \in 1 .. p, Closes(s, e, p)
      PROVE  e \in 1 .. q /\ Closes(s, e, q + 1)
    BY <1>1, <1>3 DEF Closes
<1> QED
    BY <1>2, <1>3, Zenon

\* The read ends inside the text, or it is too long already.
LEMMA CaptureAllTurn ==
    ASSUME NEW s \in Seq(Byte), NEW lim, NEW p \in Nat, NEW d0, NEW del,
           Exact(s, lim, p, "52_RECEIVED", d0, del),
           NEW q \in Nat, GoesOn(s, p - 3, q), NEW to, NEW d,
           \/ to = "CAPTURE_OSC52" /\ Len(d) = q - (p + 1)
           \/ to = "OTHER_ESC" /\ TooLong(lim, p - 3, q)
    PROVE  Exact(s, lim, q, to, d, del)
<1>1. Marks(s, q, to)
    BY MarksInText DEF PlainState, AfterEsc
<1>2. Waits(s, lim, q, to, d)
    <2> SUFFICES ASSUME NEW i \in 1 .. q, GoesOn(s, i, q)
                 PROVE  \/ to = "CAPTURE_OSC52" /\ Len(d) = q - (i + 4)
                        \/ TooLong(lim, i, q)
        BY DEF Waits
    <2>1. i = p - 3
        BY OneGoesOn
    <2>2. i + 4 = p + 1
        BY <2>1
    <2> QED
        BY <2>1, <2>2
<1>3. p + 1 <= q /\ q \in p - 2 .. q /\ \A k \in p - 2 .. q : ~IsStop(s[k])
    <2>1. (p - 3) + 4 = p + 1 /\ (p - 3) + 1 = p - 2
        OBVIOUS
    <2> QED
        BY <2>1, NoStopInside
<1>4. Halfway(s, lim, q, to, d)
    <2>1. \A i \in Int : ~Stops(s, lim, i, q)
        BY <1>3, StopsFacts
    <2> QED
        BY <2>1 DEF Halfway
<1>5. Complete(s, lim, q) = Complete(s, lim, p)
    <2>1. ASSUME NEW i \in Int, NEW e \in Int
          PROVE  <<i, e>> \in Complete(s, lim, q) <=> <<i, e>> \in Complete(s, lim, p)
        <3>1. /\ <<i, e>> \in Complete(s, lim, q)
                 <=> e \in 1 .. q /\ Stops(s, lim, i, e) /\ Closes(s, e, q)
              /\ <<i, e>> \in Complete(s, lim, p)
                 <=> e \in 1 .. p /\ Stops(s, lim, i, e) /\ Closes(s, e, p)
            BY CompleteIs
        <3>2. /\ e \in 1 .. q /\ Closes(s, e, q) => Closes(s, e, q + 1)
              /\ e \in 1 .. p /\ Closes(s, e, p) => e \in 1 .. q /\ Closes(s, e, q)
            BY <1>3 DEF Closes
        <3>3. e \in 1 .. q /\ Stops(s, lim, i, e) /\ Closes(s, e, q + 1)
              <=> e \in 1 .. p /\ Stops(s, lim, i, e) /\ Closes(s, e, p)
            BY CompleteInText
        <3> QED
            BY <3>1, <3>2, <3>3, Zenon
    <2> QED
        BY <2>1, SameComplete
<1>6. InOrder(s, Complete(s, lim, q), del)
    BY <1>5, Zenon DEF Exact
<1> QED
    BY <1>1, <1>2, <1>4, <1>6, Zenon DEF Exact

\* What the byte r + 1 that stops the search makes of the texts.
StopAfter(s, lim, p, r) ==
    /\ p + 1 <= r
    /\ \A i \in Int : ~GoesOn(s, i, r + 1)
    /\ \A i \in Int : Stops(s, lim, i, r + 1) <=> i = p + 2 /\ ~TooLong(lim, p - 3, r)
    /\ \A i \in Int, e \in Int :
           <<i, e>> \in Complete(s, lim, r + 1)
           <=> \/ <<i, e>> \in Complete(s, lim, p)
               \/ /\ i = p + 2 /\ e = r + 1
                  /\ ~TooLong(lim, p - 3, r) /\ IsTerminator(s[r + 1])

\* A text that stops at byte r + 1 is complete, unless it has no room.
LEMMA AtStop ==
    ASSUME NEW s \in Seq(Byte), NEW lim, NEW p \in Nat, NEW r \in Nat,
           GoesOn(s, p - 3, r), r + 1 <= Len(s), IsStop(s[r + 1])
    PROVE  StopAfter(s, lim, p, r)
<1>1. p + 1 <= r /\ p - 3 > 0 /\ \A k \in p - 2 .. r : ~IsStop(s[k])
    <2>1. (p - 3) + 4 = p + 1 /\ (p - 3) + 1 = p - 2
        OBVIOUS
    <2> QED
        BY <2>1, NoStopInside
<1>2. ASSUME NEW i \in Int, GoesOn(s, i, r + 1) PROVE FALSE
    <2>1. i + 4 <= r + 1 /\ \A k \in i + 1 .. r + 1 : ~IsStop(s[k])
        BY <1>2, NoStopInside
    <2>2. r + 1 \in i + 1 .. r + 1
        BY <2>1
    <2> QED
        BY <2>1, <2>2
<1>3. ASSUME NEW i \in Int
      PROVE  Stops(s, lim, i, r + 1) <=> i = p + 2 /\ ~TooLong(lim, p - 3, r)
    <2>1. (r + 1) - 1 = r /\ (p + 2) - 5 = p - 3 /\ i - 5 \in Int /\ r + 1 \in Int
        OBVIOUS
    <2>2. ASSUME Stops(s, lim, i, r + 1) PROVE i = p + 2 /\ ~TooLong(lim, p - 3, r)
        <3>1. GoesOn(s, i - 5, r) /\ ~TooLong(lim, i - 5, r)
            <4>1. GoesOn(s, i - 5, (r + 1) - 1) /\ ~TooLong(lim, i - 5, (r + 1) - 1)
                BY <2>1, <2>2, StopsFacts
            <4> QED
                BY <2>1, <4>1
        <3>2. i - 5 = p - 3
            BY <2>1, <3>1, OneGoesOn
        <3> QED
            BY <3>1, <3>2
    <2>3. ASSUME i = p + 2, ~TooLong(lim, p - 3, r) PROVE Stops(s, lim, i, r + 1)
        <3>1. i - 5 = p - 3 /\ i > 5 /\ i <= r + 1
            BY <1>1, <2>3
        <3> QED
            BY <2>1, <2>3, <3>1 DEF Stops
    <2> QED
        BY <2>2, <2>3
<1>4. ASSUME NEW i \in Int, NEW e \in Int
      PROVE  <<i, e>> \in Complete(s, lim, r + 1)
             <=> \/ <<i, e>> \in Complete(s, lim, p)
                 \/ /\ i = p + 2 /\ e = r + 1
                    /\ ~TooLong(lim, p - 3, r) /\ IsTerminator(s[r + 1])
    <2>0. r + 1 \in Nat
        OBVIOUS
    <2>1. /\ <<i, e>> \in Complete(s, lim, r + 1)
             <=> e \in 1 .. r + 1 /\ Stops(s, lim, i, e) /\ Closes(s, e, r + 1)
          /\ <<i, e>> \in Complete(s, lim, p)
             <=> e \in 1 .. p /\ Stops(s, lim, i, e) /\ Closes(s, e, p)
        BY <2>0, CompleteIs, Zenon
    <2>2. e \in 1 .. r /\ Stops(s, lim, i, e) /\ Closes(s, e, r + 1)
          <=> e \in 1 .. p /\ Stops(s, lim, i, e) /\ Closes(s, e, p)
        BY CompleteInText
    <2>3. CASE e = r + 1
        <3>1. ~(e \in 1 .. p) /\ e \in 1 .. r + 1
            BY <1>1, <2>3
        <3>2. Closes(s, e, r + 1) <=> IsTerminator(s[r + 1])
            BY <2>3 DEF Closes
        <3>3. Stops(s, lim, i, e) <=> i = p + 2 /\ ~TooLong(lim, p - 3, r)
            BY <1>3, <2>3
        <3> QED
            BY <2>1, <2>3, <3>1, <3>2, <3>3, Zenon
    <2>4. CASE e # r + 1
        <3>1. e \in 1 .. r + 1 <=> e \in 1 .. r
            BY <2>4
        <3> QED
            BY <2>1, <2>2, <2>4, <3>1, Zenon
    <2> QED
        BY <2>3, <2>4
<1> QED
    BY <1>1, <1>2, <1>3, <1>4, Zenon DEF StopAfter

\* A query, or a text that had no room.
LEMMA DropTurn ==
    ASSUME NEW s \in Seq(Byte), NEW lim, NEW p \in Nat, NEW d0, NEW del,
           Exact(s, lim, p, "52_RECEIVED", d0, del),
           NEW r \in Nat, GoesOn(s, p - 3, r), r + 1 <= Len(s), IsStop(s[r + 1]),
           s[r + 1] = "query" \/ TooLong(lim, p - 3, r),
           NEW to \in {"DEFAULT", "OTHER_ESC", "OTHER_TERM"},
           to = "OTHER_TERM" <=> s[r + 1] = "ESC"
    PROVE  Exact(s, lim, r + 1, to, <<>>, del)
<1>1. p - 3 \in Int /\ r + 1 \in Nat
    OBVIOUS
<1>0. StopAfter(s, lim, p, r)
    BY AtStop
<1>2. Marks(s, r + 1, to)
    BY <1>1, MarksAtStop DEF PlainState, AfterEsc
<1>3. Waits(s, lim, r + 1, to, <<>>)
    BY <1>0 DEF Waits, StopAfter
<1>4. Halfway(s, lim, r + 1, to, <<>>)
    <2>1. \A i \in Int : Stops(s, lim, i, r + 1) => ~TooLong(lim, p - 3, r)
        BY <1>0 DEF StopAfter
    <2>2. \A i \in Int : Stops(s, lim, i, r + 1) => s[r + 1] # "ESC"
        BY <2>1
    <2> QED
        BY <2>2 DEF Halfway
<1>5. Complete(s, lim, r + 1) = Complete(s, lim, p)
    <2>1. ~(~TooLong(lim, p - 3, r) /\ IsTerminator(s[r + 1]))
        BY DEF IsTerminator
    <2>2. \A i \in Int, e \in Int : <<i, e>> \in Complete(s, lim, r + 1)
                                    <=> <<i, e>> \in Complete(s, lim, p)
        BY <1>0, <2>1, Zenon DEF StopAfter
    <2> QED
        BY <1>1, <2>2, SameComplete
<1>6. InOrder(s, Complete(s, lim, r + 1), del)
    BY <1>5, Zenon DEF Exact
<1> QED
    BY <1>2, <1>3, <1>4, <1>6, Zenon DEF Exact

\* An ESC, which may end the text.
LEMMA EscTurn ==
    ASSUME NEW s \in Seq(Byte), NEW lim, NEW p \in Nat, NEW d0, NEW del,
           Exact(s, lim, p, "52_RECEIVED", d0, del),
           NEW r \in Nat, GoesOn(s, p - 3, r), r + 1 <= Len(s), s[r + 1] = "ESC",
           ~TooLong(lim, p - 3, r), NEW d, TextAt(s, p + 1, d), Len(d) = r - (p + 1)
    PROVE  Exact(s, lim, r + 1, "CAPTURE_TERM_ESC", d, del)
<1>1. p - 3 \in Int /\ r + 1 \in Nat /\ IsStop(s[r + 1])
    BY DEF IsStop
<1>0. StopAfter(s, lim, p, r)
    BY <1>1, AtStop
<1>2. Marks(s, r + 1, "CAPTURE_TERM_ESC")
    BY <1>1, MarksAtStop DEF PlainState, AfterEsc
<1>3. Waits(s, lim, r + 1, "CAPTURE_TERM_ESC", d)
    BY <1>0 DEF Waits, StopAfter
<1>4. Halfway(s, lim, r + 1, "CAPTURE_TERM_ESC", d)
    <2>1. p + 1 <= r /\ Stops(s, lim, p + 2, r + 1)
        BY <1>0, <1>1 DEF StopAfter
    <2>2. p + 2 \in 1 .. r + 1 /\ (p + 2) - 1 = p + 1 /\ (r + 1) - (p + 2) = r - (p + 1)
        BY <2>1
    <2> QED
        BY <2>1, <2>2 DEF Halfway
<1>5. Complete(s, lim, r + 1) = Complete(s, lim, p)
    <2>1. ~IsTerminator(s[r + 1])
        BY DEF IsTerminator
    <2>2. \A i \in Int, e \in Int : <<i, e>> \in Complete(s, lim, r + 1)
                                    <=> <<i, e>> \in Complete(s, lim, p)
        BY <1>0, <2>1, Zenon DEF StopAfter
    <2> QED
        BY <1>1, <2>2, SameComplete
<1>6. InOrder(s, Complete(s, lim, r + 1), del)
    BY <1>5, Zenon DEF Exact
<1> QED
    BY <1>2, <1>3, <1>4, <1>6, Zenon DEF Exact

\* A terminator of one byte.
LEMMA TerminatorTurn ==
    ASSUME NEW s \in Seq(Byte), NEW lim, NEW p \in Nat, NEW d0,
           NEW del \in Seq(Seq(Byte)),
           Exact(s, lim, p, "52_RECEIVED", d0, del),
           NEW r \in Nat, GoesOn(s, p - 3, r), r + 1 <= Len(s), IsTerminator(s[r + 1]),
           ~TooLong(lim, p - 3, r),
           NEW d \in Seq(Byte), TextAt(s, p + 1, d), Len(d) = r - (p + 1)
    PROVE  Exact(s, lim, r + 1, "DEFAULT", <<>>, Append(del, d))
<1>1. p - 3 \in Int /\ r + 1 \in Nat /\ IsStop(s[r + 1]) /\ s[r + 1] # "ESC"
    BY DEF IsStop, IsTerminator
<1>0. StopAfter(s, lim, p, r)
    BY <1>1, AtStop
<1>2. Marks(s, r + 1, "DEFAULT")
    BY <1>1, MarksAtStop DEF PlainState, AfterEsc
<1>3. Waits(s, lim, r + 1, "DEFAULT", <<>>)
    BY <1>0 DEF Waits, StopAfter
<1>4. Halfway(s, lim, r + 1, "DEFAULT", <<>>)
    BY <1>1 DEF Halfway
<1> DEFINE j == p + 2
           q == r + 1
           t == <<j, q>>
<1>5. t = <<j, q>> /\ t[1] = j /\ t[2] = q
    OBVIOUS
<1>6. j \in Int /\ q \in Nat /\ q \in Int
    OBVIOUS
<1>8. Adds(s, lim, p, q, j, q)
    <2>1. \A i \in Int, e \in Int : <<i, e>> \in Complete(s, lim, q)
              <=> <<i, e>> \in Complete(s, lim, p) \/ (i = j /\ e = q)
        BY <1>0, Zenon DEF StopAfter
    <2> QED
        BY <2>1, Zenon DEF Adds
<1>9. ASSUME NEW u \in Complete(s, lim, p) PROVE u[1] < j
    <2>1. u = <<u[1], u[2]>> /\ u[1] \in 1 .. p /\ u[2] \in 1 .. p
        BY CompleteIs
    <2> QED
        BY <2>1
<1>10. t[1] - 1 = p + 1 /\ t[2] - t[1] = r - (p + 1)
    BY <1>5
<1> HIDE DEF t, j, q
<1>11. Complete(s, lim, q) = Complete(s, lim, p) \cup {t}
    BY <1>5, <1>6, <1>8, MoreComplete
<1>12. InOrder(s, Complete(s, lim, q), Append(del, d))
    <2>1. InOrder(s, Complete(s, lim, p), del)
        BY Zenon DEF Exact
    <2>2. \A u \in Complete(s, lim, p) : u[1] < t[1]
        BY <1>5, <1>9
    <2>3. TextAt(s, t[1] - 1, d) /\ Len(d) = t[2] - t[1]
        BY <1>10
    <2>4. InOrder(s, Complete(s, lim, p) \cup {t}, Append(del, d))
        BY <2>1, <2>2, <2>3, InOrderAppend
    <2> QED
        BY <1>11, <2>4
<1> QED
    BY <1>2, <1>3, <1>4, <1>12, Zenon DEF Exact, q

-----------------------------------------------------------------------------
(* Exact looks at the scanned bytes only.                                  *)

Agree(s, r, p) == p <= Len(s) /\ p <= Len(r) /\ \A k \in 1 .. p : r[k] = s[k]
AgreeBefore(lim, lam, p) == \A k \in 1 .. p - 1 : lam[k] = lim[k]

LEMMA SwallowedSame ==
    ASSUME NEW s \in Seq(Byte), NEW r \in Seq(Byte), NEW p \in Nat, Agree(s, r, p),
           NEW i \in Int, i <= p + 1
    PROVE  Swallowed(s, i) <=> Swallowed(r, i)
<1>1. ASSUME NEW x \in Int, x <= p - 3
      PROVE  StandsAt(Unfinished, s, x) <=> StandsAt(Unfinished, r, x)
    <2> DEFINE w == Unfinished
    <2>1. w \in Seq(Byte) /\ Len(w) = 4
        BY IntroBytes
    <2>2. /\ StandsAt(w, s, x) <=> /\ x > 0 /\ x + Len(w) - 1 <= Len(s)
                                   /\ \A m \in 1 .. Len(w) : s[x + m - 1] = w[m]
          /\ StandsAt(w, r, x) <=> /\ x > 0 /\ x + Len(w) - 1 <= Len(r)
                                   /\ \A m \in 1 .. Len(w) : r[x + m - 1] = w[m]
        BY <2>1, Stands
    <2> HIDE DEF w
    <2>3. ASSUME x > 0 PROVE /\ x + Len(w) - 1 <= Len(s) /\ x + Len(w) - 1 <= Len(r)
                             /\ \A m \in 1 .. Len(w) : s[x + m - 1] = r[x + m - 1]
        <3>1. x + Len(w) - 1 <= p /\ \A m \in 1 .. Len(w) : x + m - 1 \in 1 .. p
            BY <1>1, <2>1, <2>3
        <3>2. Len(s) \in Nat /\ Len(r) \in Nat
            BY LenProperties
        <3> QED
            BY <2>1, <3>1, <3>2 DEF Agree
    <2> QED
        BY <2>2, <2>3 DEF w
<1>2. ASSUME NEW n \in Nat
      PROVE  UnfinishedBefore(s, i, n) <=> UnfinishedBefore(r, i, n)
    <2>1. \A m \in Nat \ {0} : i - 4 * m \in Int /\ i - 4 * m <= p - 3
        OBVIOUS
    <2>2. \A m \in Nat \ {0} : StandsAt(Unfinished, s, i - 4 * m)
                               <=> StandsAt(Unfinished, r, i - 4 * m)
        BY <1>1, <2>1
    <2>3. n + 1 \in Nat \ {0} /\ \A m \in 1 .. n : m \in Nat \ {0}
        OBVIOUS
    <2> QED
        BY <2>2, <2>3, Zenon DEF UnfinishedBefore
<1>3. \A h \in 0 .. i : 2 * h + 1 \in Nat
    OBVIOUS
<1> QED
    BY <1>2, <1>3, Zenon DEF Swallowed

LEMMA IntroducingSame ==
    ASSUME NEW s \in Seq(Byte), NEW r \in Seq(Byte), NEW p \in Nat, Agree(s, r, p),
           NEW i \in Int, NEW n \in 1 .. 5, i + n - 1 <= p
    PROVE  Introducing(s, i, n) <=> Introducing(r, i, n)
<1>1. i <= p + 1 /\ Len(s) \in Nat /\ Len(r) \in Nat
    BY LenProperties
<1>2. Swallowed(s, i) <=> Swallowed(r, i)
    BY <1>1, SwallowedSame
<1>3. i + n - 1 <= Len(s) /\ i + n - 1 <= Len(r)
    BY <1>1 DEF Agree
<1>4. ASSUME i > 0 PROVE \A m \in 1 .. n : s[i + m - 1] = r[i + m - 1]
    <2>1. \A m \in 1 .. n : i + m - 1 \in 1 .. p
        BY <1>4
    <2> QED
        BY <2>1 DEF Agree
<1> QED
    BY <1>2, <1>3, <1>4 DEF Introducing

LEMMA GoesOnSame ==
    ASSUME NEW s \in Seq(Byte), NEW r \in Seq(Byte), NEW p \in Nat, Agree(s, r, p),
           NEW i \in Int, NEW q \in Int, q <= p
    PROVE  GoesOn(s, i, q) <=> GoesOn(r, i, q)
<1> SUFFICES ASSUME i + 4 <= q PROVE GoesOn(s, i, q) <=> GoesOn(r, i, q)
    BY DEF GoesOn
<1>1. Introducing(s, i, 5) <=> Introducing(r, i, 5)
    <2>1. i + 5 - 1 <= p /\ 5 \in 1 .. 5
        OBVIOUS
    <2> QED
        BY <2>1, IntroducingSame
<1>2. ASSUME i > 0 PROVE \A k \in i + 5 .. q : r[k] = s[k]
    <2>1. \A k \in i + 5 .. q : k \in 1 .. p
        BY <1>2
    <2> QED
        BY <2>1 DEF Agree
<1>3. Introducing(s, i, 5) => i > 0
    BY Zenon DEF Introducing
<1> QED
    BY <1>1, <1>2, <1>3 DEF GoesOn

LEMMA StopsSame ==
    ASSUME NEW s \in Seq(Byte), NEW r \in Seq(Byte), NEW p \in Nat, Agree(s, r, p),
           NEW lim, NEW lam, AgreeBefore(lim, lam, p),
           NEW i \in Int, NEW e \in Int, e <= p
    PROVE  Stops(s, lim, i, e) <=> Stops(r, lam, i, e)
<1> SUFFICES ASSUME i > 5, i <= e
             PROVE  Stops(s, lim, i, e) <=> Stops(r, lam, i, e)
    BY Zenon DEF Stops
<1>1. i - 5 \in Int /\ e - 1 \in Int /\ e - 1 <= p /\ e \in 1 .. p
    OBVIOUS
<1>2. GoesOn(s, i - 5, e - 1) <=> GoesOn(r, i - 5, e - 1)
    BY <1>1, GoesOnSame
<1>3. e <= Len(s) /\ e <= Len(r) /\ s[e] = r[e]
    <2>1. Len(s) \in Nat /\ Len(r) \in Nat
        BY LenProperties
    <2> QED
        BY <1>1, <2>1 DEF Agree
<1>4. TooLong(lim, i - 5, e - 1) <=> TooLong(lam, i - 5, e - 1)
    <2>1. \A k \in (i - 5) + 4 .. e - 1 : k \in 1 .. p - 1
        OBVIOUS
    <2>2. \A k \in (i - 5) + 4 .. e - 1 : lam[k] = lim[k]
        BY <2>1 DEF AgreeBefore
    <2> QED
        BY <2>2 DEF TooLong
<1> QED
    BY <1>2, <1>3, <1>4 DEF Stops

LEMMA TextAtSame ==
    ASSUME NEW s, NEW r, NEW p \in Nat, Agree(s, r, p),
           NEW k \in Nat, NEW d \in Seq(Byte), k + Len(d) <= p, TextAt(s, k, d)
    PROVE  TextAt(r, k, d)
<1>1. Len(d) \in Nat
    BY LenProperties
<1>2. \A n \in 1 .. Len(d) : k + n \in 1 .. p
    BY <1>1
<1> QED
    BY <1>2 DEF TextAt, Agree

LEMMA CompleteSame ==
    ASSUME NEW s \in Seq(Byte), NEW r \in Seq(Byte), NEW p \in Nat, Agree(s, r, p),
           NEW lim, NEW lam, AgreeBefore(lim, lam, p)
    PROVE  Complete(s, lim, p) = Complete(r, lam, p)
<1>1. ASSUME NEW i \in Int, NEW e \in Int
      PROVE  <<i, e>> \in Complete(s, lim, p) <=> <<i, e>> \in Complete(r, lam, p)
    <2>1. /\ <<i, e>> \in Complete(s, lim, p)
             <=> e \in 1 .. p /\ Stops(s, lim, i, e) /\ Closes(s, e, p)
          /\ <<i, e>> \in Complete(r, lam, p)
             <=> e \in 1 .. p /\ Stops(r, lam, i, e) /\ Closes(r, e, p)
        BY CompleteIs
    <2>2. ASSUME e \in 1 .. p
          PROVE  /\ Stops(s, lim, i, e) <=> Stops(r, lam, i, e)
                 /\ Closes(s, e, p) <=> Closes(r, e, p)
        <3>1. Stops(s, lim, i, e) <=> Stops(r, lam, i, e)
            <4>1. e <= p
                BY <2>2
            <4> QED
                BY <4>1, StopsSame
        <3>2. r[e] = s[e] /\ (e < p => r[e + 1] = s[e + 1])
            <4>1. e < p => e + 1 \in 1 .. p
                BY <2>2
            <4> QED
                BY <2>2, <4>1 DEF Agree
        <3> QED
            BY <3>1, <3>2 DEF Closes
    <2> QED
        BY <2>1, <2>2, Zenon
<1> QED
    BY <1>1, SameComplete

LEMMA InOrderSame ==
    ASSUME NEW s \in Seq(Byte), NEW r \in Seq(Byte), NEW p \in Nat, Agree(s, r, p),
           NEW lim, NEW del \in Seq(Seq(Byte)), InOrder(s, Complete(s, lim, p), del)
    PROVE  InOrder(r, Complete(s, lim, p), del)
<1> DEFINE n == Len(del)
           C == Complete(s, lim, p)
<1>1. PICK at \in [1 .. n -> C] :
          /\ \A u \in C : \E k \in 1 .. n : u = at[k]
          /\ \A k, l \in 1 .. n : k < l => at[k][1] < at[l][1]
          /\ \A k \in 1 .. n : /\ TextAt(s, at[k][1] - 1, del[k])
                               /\ Len(del[k]) = at[k][2] - at[k][1]
    BY Zenon DEF InOrder
<1>2. ASSUME NEW k \in 1 .. n PROVE TextAt(r, at[k][1] - 1, del[k])
    <2> DEFINE i == at[k][1]
               e == at[k][2]
    <2>1. at[k] \in C
        BY <1>1
    <2>2. i \in 1 .. p /\ e \in 1 .. p
        BY <2>1, CompleteIs
    <2>3. del[k] \in Seq(Byte) /\ TextAt(s, i - 1, del[k]) /\ Len(del[k]) = e - i
        BY <1>1, ElementOfSeq
    <2> HIDE DEF i, e
    <2>4. i - 1 \in Nat /\ (i - 1) + Len(del[k]) <= p
        BY <2>2, <2>3
    <2>5. TextAt(r, i - 1, del[k])
        BY <2>3, <2>4, TextAtSame
    <2> QED
        BY <2>5 DEF i
<1> HIDE DEF C
<1>3. InOrder(r, C, del)
    BY <1>1, <1>2 DEF InOrder
<1> QED
    BY <1>3 DEF C

\* Between two reads: more bytes come, or the limit of the last one changes.
LEMMA ExactStill ==
    ASSUME NEW s \in Seq(Byte), NEW r \in Seq(Byte), NEW p \in Nat, Agree(s, r, p),
           p = Len(s), NEW lim, NEW lam, AgreeBefore(lim, lam, p),
           NEW st, NEW d \in Seq(Byte), NEW del \in Seq(Seq(Byte)),
           Exact(s, lim, p, st, d, del),
           NEW to, NEW x, Waits(r, lam, p, to, x),
           \/ to = st /\ x = d
           \/ st = "CAPTURE_OSC52" /\ to = "OTHER_ESC"
    PROVE  Exact(r, lam, p, to, x, del)
<1>1. /\ Marks(s, p, st) /\ Halfway(s, lim, p, st, d)
      /\ InOrder(s, Complete(s, lim, p), del)
    BY Zenon DEF Exact
<1>2. \A b : ~NextIsNot(s, p, b)
    BY LenProperties DEF NextIsNot
<1>3. Marks(r, p, to)
    <2>1. /\ Introducing(s, p, 1) <=> Introducing(r, p, 1)
          /\ Introducing(s, p - 1, 2) <=> Introducing(r, p - 1, 2)
          /\ Introducing(s, p - 2, 3) <=> Introducing(r, p - 2, 3)
          /\ Introducing(s, p - 3, 4) <=> Introducing(r, p - 3, 4)
        <3>1. /\ p + 1 - 1 <= p /\ (p - 1) + 2 - 1 <= p /\ (p - 2) + 3 - 1 <= p
              /\ (p - 3) + 4 - 1 <= p
            OBVIOUS
        <3>2. /\ 1 \in 1 .. 5 /\ 2 \in 1 .. 5 /\ 3 \in 1 .. 5 /\ 4 \in 1 .. 5
              /\ p \in Int /\ p - 1 \in Int /\ p - 2 \in Int /\ p - 3 \in Int
            OBVIOUS
        <3> QED
            BY <3>1, <3>2, IntroducingSame
    <2> QED
        BY <1>1, <1>2, <2>1 DEF Marks, AfterEsc
<1>4. Halfway(r, lam, p, to, x)
    <2>1. ASSUME to = "CAPTURE_TERM_ESC"
          PROVE  \E i \in 1 .. p : /\ Stops(r, lam, i, p)
                                   /\ TextAt(r, i - 1, x) /\ Len(x) = p - i
        <3>1. st = to /\ x = d
            BY <2>1
        <3>2. PICK i \in 1 .. p : /\ Stops(s, lim, i, p)
                                  /\ TextAt(s, i - 1, d) /\ Len(d) = p - i
            BY <1>1, <2>1, <3>1, Zenon DEF Halfway
        <3>3. i - 1 \in Nat /\ (i - 1) + Len(d) <= p /\ p <= p /\ i \in Int /\ p \in Int
            BY <3>2
        <3>4. Stops(r, lam, i, p)
            BY <3>2, <3>3, StopsSame
        <3>5. TextAt(r, i - 1, d)
            BY <3>2, <3>3, TextAtSame
        <3> QED
            BY <3>1, <3>2, <3>4, <3>5
    <2>2. ASSUME NEW i \in 1 .. p, Stops(r, lam, i, p), r[p] = "ESC"
          PROVE  to = "CAPTURE_TERM_ESC"
        <3>1. p <= p /\ p \in 1 .. p /\ i \in Int /\ p \in Int
            OBVIOUS
        <3>4. Stops(s, lim, i, p)
            BY <2>2, <3>1, StopsSame
        <3>5. s[p] = "ESC"
            BY <2>2, <3>1 DEF Agree
        <3>2. Stops(s, lim, i, p) /\ s[p] = "ESC"
            BY <3>4, <3>5
        <3>3. st = "CAPTURE_TERM_ESC"
            BY <1>1, <1>2, <3>2 DEF Halfway
        <3> QED
            BY <3>3
    <2> QED
        BY <2>1, <2>2 DEF Halfway
<1>5. InOrder(r, Complete(r, lam, p), del)
    <2>1. Complete(s, lim, p) = Complete(r, lam, p)
        BY CompleteSame
    <2>2. InOrder(r, Complete(s, lim, p), del)
        BY <1>1, InOrderSame
    <2> QED
        BY <2>1, <2>2
<1> QED
    BY <1>3, <1>4, <1>5, Zenon DEF Exact

-----------------------------------------------------------------------------
(* The turns of the loop, once more.                                       *)

LEMMA InitTInv == Init => TInv
<1> SUFFICES ASSUME Init PROVE TInv
    OBVIOUS
<1>1. /\ sent = <<>> /\ limits = <<>> /\ delivered = <<>> /\ state = "DEFAULT"
      /\ Len(sent) = 0 /\ Len(limits) = 0 /\ Len(delivered) = 0 /\ Scanned = 0
    BY EmptySeq DEF Init, Scanned
<1>2. limits \in Seq(Size) /\ Len(limits) = Len(sent) /\ LimitsOfBuf
    BY <1>1, EmptySeq DEF LimitsOfBuf
<1>3. Marks(sent, 0, "DEFAULT")
    <2>1. \A i \in Int, n \in 1 .. 4 : ~Introducing(sent, i, n)
        BY <1>1 DEF Introducing
    <2> QED
        BY <2>1 DEF Marks, AfterEsc
<1>4. Waits(sent, limits, 0, "DEFAULT", data) /\ Halfway(sent, limits, 0, "DEFAULT", data)
    BY DEF Waits, Halfway
<1>5. InOrder(sent, Complete(sent, limits, 0), delivered)
    <2>1. Complete(sent, limits, 0) = {}
        BY DEF Complete
    <2> DEFINE at == [k \in {} |-> k]
    <2>2. at \in [1 .. Len(delivered) -> {}]
        BY <1>1
    <2> HIDE DEF at
    <2>3. InOrder(sent, {}, delivered)
        <3>1. \A k \in 1 .. Len(delivered) : FALSE
            BY <1>1
        <3> QED
            BY <2>2, <3>1 DEF InOrder
    <2> QED
        BY <2>1, <2>3
<1> QED
    BY <1>1, <1>2, <1>3, <1>4, <1>5 DEF TInv, Exact

LEMMA TInvFacts ==
    ASSUME IInv, TInv
    PROVE  /\ sent \in Seq(Byte) /\ Len(sent) \in Nat
           /\ \A k \in 1 .. Len(sent) : limits[k] \in Size /\ limits[k] \in Nat
           /\ maxBuflen \in Nat \ {0}
           /\ Limits(sent, limits)
<1>1. sent \in Seq(Byte) /\ Len(sent) \in Nat /\ maxBuflen \in Nat \ {0}
    BY SizeAssumption, LenProperties DEF IInv, Types
<1>2. \A k \in 1 .. Len(sent) : limits[k] \in Size
    BY ElementOfSeq DEF TInv
<1>3. \A k \in 1 .. Len(sent) : limits[k] \in Nat
    BY <1>2, SizeAssumption
<1> QED
    BY <1>1, <1>2, <1>3 DEF Limits

\* A turn keeps TInv when it keeps Exact.
LEMMA TurnTInv ==
    ASSUME IInv, TInv, NEW n \in 0 .. Len(buf), Consumes(n),
           limits' = limits, spanned' = spanned,
           ~spanned /\ SevenBit(sent) =>
               Exact(sent, limits, Scanned + n, state', data', delivered')
    PROVE  TInv'
<1>1. Scanned' = Scanned + n /\ Scanned \in Nat /\ sent' = sent /\ maxBuflen' = maxBuflen
    BY ConsumedProperties DEF Consumes
<1>2. Len(sent) \in Nat
    BY TInvFacts
<1>3. LimitsOfBuf'
    <2>1. \A k \in Scanned + n + 1 .. Len(sent) : k \in Scanned + 1 .. Len(sent)
        BY <1>1
    <2> QED
        BY <1>1, <2>1 DEF LimitsOfBuf, TInv
<1>4. Exact(sent, limits, Scanned, state, data, delivered)'
      <=> Exact(sent, limits, Scanned + n, state', data', delivered')
    BY <1>1
<1>5. (~spanned /\ SevenBit(sent))' <=> ~spanned /\ SevenBit(sent)
    BY <1>1, Zenon DEF SevenBit
<1> QED
    BY <1>1, <1>3, <1>4, <1>5 DEF TInv

\* The turns that read one byte outside a text.
LEMMA EnterTInv ==
    ASSUME IInv, TInv, buf # <<>>, state \notin Capturing,
           ~(state = "52_RECEIVED" /\ byte = "semicolon"),
           NEW to, to \notin Capturing, Enter(to),
           SevenBit(sent) => GoesTo(state, byte, to)
    PROVE  TInv'
<1>1. Consumes(1) /\ 1 \in 0 .. Len(buf)
    BY HeadTail, NextByte DEF IInv, Types, Consumes, Enter, history
<1>2. /\ data' = <<>> /\ delivered' = delivered /\ spanned' = spanned
      /\ limits' = limits /\ state' = to
    BY DEF Enter, history, IInv, DataCaptured
<1>3. /\ Scanned \in Nat /\ Scanned + 1 <= Len(sent) /\ byte = sent[Scanned + 1]
      /\ sent \in Seq(Byte) /\ Limits(sent, limits)
    BY NextByte, TInvFacts
<1>4. ASSUME ~spanned, SevenBit(sent)
      PROVE  Exact(sent, limits, Scanned + 1, to, <<>>, delivered)
    <2>1. Exact(sent, limits, Scanned, state, data, delivered)
        BY <1>4 DEF TInv
    <2>2. Follows(sent, Scanned, state, byte)
        BY <1>3, <2>1, MarksNext DEF Exact
    <2>3. Marks(sent, Scanned + 1, to)
        BY <1>3, <1>4, <2>2, MarksTurn
    <2>4. ~Introducing(sent, Scanned - 3, 5)
        BY <2>2 DEF Follows
    <2> QED
        BY <1>3, <2>1, <2>3, <2>4, QuietTurn
<1> QED
    BY <1>1, <1>2, <1>4, TurnTInv

\* The turns that put it back.
LEMMA EnterAgainTInv ==
    ASSUME IInv, TInv, buf # <<>>, NEW to, to \notin Capturing, EnterAgain(to),
           \/ state = "OSC_RECEIVED" /\ byte # "5" /\ to = "OTHER_ESC"
           \/ state = "5_RECEIVED" /\ byte # "2" /\ to = "OTHER_ESC"
           \/ state = "OTHER_TERM" /\ to = "ESC_RECEIVED"
    PROVE  TInv'
<1>0. state \notin Capturing
    BY DEF Capturing
<1>1. Consumes(0) /\ 0 \in 0 .. Len(buf)
    BY NextByte DEF IInv, Types, Consumes, EnterAgain, history
<1>2. /\ data' = <<>> /\ delivered' = delivered /\ spanned' = spanned
      /\ limits' = limits /\ state' = to
    BY <1>0 DEF EnterAgain, history, IInv, DataCaptured
<1>3. /\ Scanned \in Nat /\ Scanned + 1 <= Len(sent) /\ byte = sent[Scanned + 1]
      /\ sent \in Seq(Byte) /\ Scanned + 0 = Scanned
    BY NextByte, TInvFacts
<1>4. ASSUME ~spanned, SevenBit(sent)
      PROVE  Exact(sent, limits, Scanned, to, <<>>, delivered)
    <2>1. Exact(sent, limits, Scanned, state, data, delivered)
        BY <1>4 DEF TInv
    <2>2. Marks(sent, Scanned, state)
        BY <2>1 DEF Exact
    <2>3. \/ state = "OSC_RECEIVED" /\ sent[Scanned + 1] # "5" /\ to = "OTHER_ESC"
          \/ state = "5_RECEIVED" /\ sent[Scanned + 1] # "2" /\ to = "OTHER_ESC"
          \/ state \in AfterEsc /\ to = "ESC_RECEIVED"
        BY <1>3 DEF AfterEsc
    <2>4. Marks(sent, Scanned, to)
        BY <1>3, <2>2, <2>3, MarksAgain
    <2>5. state # "CAPTURE_OSC52" /\ state # "CAPTURE_TERM_ESC"
        BY <1>0 DEF Capturing
    <2> QED
        BY <1>3, <2>1, <2>4, <2>5, AgainTurn
<1> QED
    BY <1>1, <1>2, <1>3, <1>4, TurnTInv

LEMMA DefaultTInv == ASSUME IInv, TInv, InDefault PROVE TInv'
<1>1. buf # <<>> /\ state = "DEFAULT" /\ state \notin Capturing
    BY DEF InDefault, Due, Capturing
<1>2. SevenBit(sent) => byte # "OSC"
    BY <1>1, NextByte, TInvFacts DEF SevenBit
<1>3. CASE byte = "ESC" /\ Enter("ESC_RECEIVED")
    BY <1>1, <1>3, EnterTInv DEF GoesTo, AfterEsc, Capturing
<1>4. CASE byte = "OSC" /\ Enter("OSC_RECEIVED")
    BY <1>1, <1>2, <1>4, EnterTInv DEF Capturing
<1>5. CASE byte \notin {"ESC", "OSC"} /\ Enter("DEFAULT")
    BY <1>1, <1>5, EnterTInv DEF GoesTo, AfterEsc, Capturing
<1> QED
    BY <1>3, <1>4, <1>5 DEF InDefault

LEMMA EscReceivedTInv == ASSUME IInv, TInv, InEscReceived PROVE TInv'
<1>1. buf # <<>> /\ state = "ESC_RECEIVED" /\ state \notin Capturing
    BY DEF InEscReceived, Due, Capturing
<1>3. CASE byte = "bracket" /\ Enter("OSC_RECEIVED")
    BY <1>1, <1>3, EnterTInv DEF GoesTo, AfterEsc, Capturing
<1>4. CASE byte = "ESC" /\ Enter("ESC_RECEIVED")
    BY <1>1, <1>4, EnterTInv DEF GoesTo, AfterEsc, Capturing
<1>5. CASE byte \notin {"bracket", "ESC"} /\ Enter("OTHER_ESC")
    BY <1>1, <1>5, EnterTInv DEF GoesTo, AfterEsc, Capturing
<1> QED
    BY <1>3, <1>4, <1>5 DEF InEscReceived

LEMMA OscReceivedTInv == ASSUME IInv, TInv, InOscReceived PROVE TInv'
<1>1. buf # <<>> /\ state = "OSC_RECEIVED" /\ state \notin Capturing
    BY DEF InOscReceived, Due, Capturing
<1>3. CASE byte = "5" /\ Enter("5_RECEIVED")
    BY <1>1, <1>3, EnterTInv DEF GoesTo, AfterEsc, Capturing
<1>4. CASE byte # "5" /\ EnterAgain("OTHER_ESC")
    BY <1>1, <1>4, EnterAgainTInv DEF Capturing
<1> QED
    BY <1>3, <1>4 DEF InOscReceived

LEMMA FiveReceivedTInv == ASSUME IInv, TInv, In5Received PROVE TInv'
<1>1. buf # <<>> /\ state = "5_RECEIVED" /\ state \notin Capturing
    BY DEF In5Received, Due, Capturing
<1>3. CASE byte = "2" /\ Enter("52_RECEIVED")
    BY <1>1, <1>3, EnterTInv DEF GoesTo, AfterEsc, Capturing
<1>4. CASE byte # "2" /\ EnterAgain("OTHER_ESC")
    BY <1>1, <1>4, EnterAgainTInv DEF Capturing
<1> QED
    BY <1>3, <1>4 DEF In5Received

LEMMA OtherEscTInv == ASSUME IInv, TInv, InOtherEsc PROVE TInv'
<1>1. buf # <<>> /\ state = "OTHER_ESC" /\ state \notin Capturing
    BY DEF InOtherEsc, Due, Capturing
<1>3. CASE byte = "ESC" /\ Enter("OTHER_TERM")
    BY <1>1, <1>3, EnterTInv DEF GoesTo, AfterEsc, Capturing
<1>4. CASE IsTerminator(byte) /\ Enter("DEFAULT")
    BY <1>1, <1>4, EnterTInv DEF GoesTo, AfterEsc, Capturing, IsTerminator
<1>5. CASE byte # "ESC" /\ Enter("OTHER_ESC")
    BY <1>1, <1>5, EnterTInv DEF GoesTo, AfterEsc, Capturing
<1> QED
    BY <1>3, <1>4, <1>5 DEF InOtherEsc

LEMMA OtherTermTInv == ASSUME IInv, TInv, InOtherTerm PROVE TInv'
<1>1. buf # <<>> /\ state = "OTHER_TERM" /\ state \notin Capturing
    BY DEF InOtherTerm, Due, Capturing
<1>3. CASE byte = "backslash" /\ Enter("DEFAULT")
    BY <1>1, <1>3, EnterTInv DEF GoesTo, AfterEsc, Capturing
<1>4. CASE EnterAgain("ESC_RECEIVED")
    BY <1>1, <1>4, EnterAgainTInv DEF Capturing
<1> QED
    BY <1>3, <1>4 DEF InOtherTerm

-----------------------------------------------------------------------------
(* The capture of a text that no read cuts.                                *)

\* The introducer ends with the byte before those searched.
LEMMA TextBegins ==
    ASSUME IInv, TInv, CaptureBegins, ~spanned, SevenBit(sent)
    PROVE  /\ Exact(sent, limits, Scanned, "52_RECEIVED", data, delivered)
           /\ Introducing(sent, Scanned - 3, 5) /\ data = <<>>
<1>1. state = "52_RECEIVED" /\ byte = "semicolon" /\ buf # <<>>
    BY DEF CaptureBegins, IInv, CaptureWaits
<1>2. data = <<>>
    BY <1>1 DEF IInv, DataCaptured, Capturing
<1>3. Exact(sent, limits, Scanned, "52_RECEIVED", data, delivered)
    BY <1>1 DEF TInv
<1>4. /\ Scanned \in Nat /\ Scanned + 1 <= Len(sent) /\ sent \in Seq(Byte)
      /\ sent[Scanned + 1] = "semicolon"
    BY <1>1, NextByte, TInvFacts
<1>5. Follows(sent, Scanned, "52_RECEIVED", sent[Scanned + 1])
    BY <1>3, <1>4, MarksNext DEF Exact
<1> QED
    BY <1>2, <1>3, <1>4, <1>5 DEF Follows

\* The text goes on to byte q, and what was read under the limit in force has
\* room for it or not.
LEMMA TextRoom ==
    ASSUME IInv, TInv, CaptureBegins, ~spanned, SevenBit(sent),
           NEW q \in Nat, Scanned + 1 <= q, q <= Len(sent),
           \A k \in Scanned + 2 .. q : ~IsStop(sent[k])
    PROVE  /\ GoesOn(sent, Scanned - 3, q)
           /\ TooLong(limits, Scanned - 3, q) <=> maxBuflen <= q - (Scanned + 1)
<1>1. Introducing(sent, Scanned - 3, 5)
    BY TextBegins
<1>2. Scanned \in Nat /\ sent \in Seq(Byte) /\ maxBuflen \in Nat /\ Len(sent) \in Nat
    BY NextByte, TInvFacts DEF CaptureBegins
<1>3. GoesOn(sent, Scanned - 3, q)
    BY <1>1, <1>2, TextGoesOn
<1>4. \A k \in Scanned + 1 .. q : limits[k] = maxBuflen
    <2>1. \A k \in Scanned + 1 .. q : k \in Scanned + 1 .. Len(sent)
        BY <1>2
    <2> QED
        BY <2>1 DEF TInv, LimitsOfBuf
<1> QED
    BY <1>2, <1>3, <1>4, RoomIs

LEMMA CaptureAllTInv ==
    ASSUME IInv, TInv, CaptureBegins, CaptureAll(Tail(buf))
    PROVE  TInv'
<1> DEFINE bytes == Tail(buf)
           q == Scanned + Len(buf)
<1>1. /\ Scanned \in Nat /\ Scanned + 1 <= Len(sent)
      /\ Len(buf) \in Nat /\ Len(buf) > 0 /\ Len(sent) \in Nat
      /\ bytes \in Seq(Byte) /\ Len(bytes) = Len(buf) - 1
      /\ \A i \in 1 .. Len(bytes) : bytes[i] = sent[Scanned + 1 + i]
      /\ sent \in Seq(Byte) /\ maxBuflen \in Nat \ {0} /\ DOMAIN bytes = 1 .. Len(bytes)
    BY NextByte, TInvFacts, LenProperties DEF CaptureBegins
<1>2. Consumes(Len(buf)) /\ Len(buf) \in 0 .. Len(buf)
    BY <1>1, EmptySeq DEF CaptureAll, Consumes, history
<1>3. limits' = limits /\ spanned' = spanned /\ delivered' = delivered
    BY DEF CaptureAll, history
<1>4. ASSUME ~spanned, SevenBit(sent)
      PROVE  Exact(sent, limits, Scanned + Len(buf), state', data', delivered')
    <2>1. /\ Exact(sent, limits, Scanned, "52_RECEIVED", data, delivered)
          /\ data = <<>>
        BY <1>4, TextBegins
    <2>2. data \o bytes = bytes
        BY <1>1, <2>1, ConcatEmptySeq
    <2>3. \A k \in Scanned + 2 .. q : ~IsStop(sent[k])
        <3> SUFFICES ASSUME NEW k \in Scanned + 2 .. q PROVE ~IsStop(sent[k])
            OBVIOUS
        <3>1. /\ k - (Scanned + 1) \in 1 .. Len(bytes)
              /\ Scanned + 1 + (k - (Scanned + 1)) = k
            BY <1>1
        <3>2. ~IsStop(bytes[k - (Scanned + 1)])
            BY <1>1, <3>1 DEF CaptureAll
        <3> QED
            BY <1>1, <3>1, <3>2
    <2>4. /\ q \in Nat /\ Scanned + 1 <= q /\ q <= Len(sent)
          /\ q - (Scanned + 1) = Len(bytes)
        BY <1>1 DEF Scanned
    <2> HIDE DEF q, bytes
    <2>5. /\ GoesOn(sent, Scanned - 3, q)
          /\ TooLong(limits, Scanned - 3, q) <=> maxBuflen <= q - (Scanned + 1)
        BY <1>4, <2>3, <2>4, TextRoom
    <2>6. \/ state' = "CAPTURE_OSC52" /\ Len(data') = q - (Scanned + 1)
          \/ state' = "OTHER_ESC" /\ TooLong(limits, Scanned - 3, q)
        <3>1. CASE /\ bytes = <<>> \/ Fits(data \o bytes)
                   /\ data' = data \o bytes /\ state' = "CAPTURE_OSC52"
            BY <2>2, <2>4, <3>1
        <3>2. CASE /\ bytes # <<>> /\ ~Fits(data \o bytes)
                   /\ state' = Cancelled("CAPTURE_OSC52")
            <4>1. state' = "OTHER_ESC" /\ ~(Len(bytes) < maxBuflen)
                BY <2>2, <3>2 DEF Cancelled, Fits
            <4>2. maxBuflen <= Len(bytes)
                BY <1>1, <4>1, LenProperties
            <4> QED
                BY <2>4, <2>5, <4>1, <4>2
        <3> QED
            BY <3>1, <3>2 DEF CaptureAll, bytes
    <2>7. Exact(sent, limits, q, state', data', delivered)
        BY <1>1, <2>1, <2>4, <2>5, <2>6, CaptureAllTurn
    <2> QED
        BY <1>3, <2>7 DEF q
<1> QED
    BY <1>2, <1>3, <1>4, TurnTInv

LEMMA CaptureUpToTInv ==
    ASSUME IInv, TInv, CaptureBegins, NEW n \in 1 .. Len(Tail(buf)),
           CaptureUpTo(Tail(buf), n)
    PROVE  TInv'
<1> DEFINE bytes == Tail(buf)
           some == SubSeq(bytes, 1, n - 1)
           text == data \o some
           s == AfterStop(bytes[n])
           r == Scanned + n
           fits == n = 1 \/ Fits(text)
<1>1. /\ Scanned \in Nat /\ Scanned + 1 <= Len(sent)
      /\ Len(buf) \in Nat /\ Len(buf) > 0 /\ Len(sent) \in Nat
      /\ bytes \in Seq(Byte) /\ Len(bytes) = Len(buf) - 1
      /\ \A i \in 1 .. Len(bytes) : bytes[i] = sent[Scanned + 1 + i]
      /\ sent \in Seq(Byte) /\ maxBuflen \in Nat \ {0}
    BY NextByte, TInvFacts DEF CaptureBegins
<1>2. /\ some \in Seq(Byte) /\ Len(some) = n - 1
      /\ \A i \in 1 .. n - 1 : some[i] = bytes[i]
    BY <1>1, Part
<1>3. /\ buf' = SubSeq(bytes, n + 1, Len(bytes)) /\ spanned' = spanned
      /\ maxBuflen' = maxBuflen /\ sent' = sent /\ reads' = reads /\ limits' = limits
    BY DEF CaptureUpTo, history
<1>4. Consumes(n + 1) /\ n + 1 \in 0 .. Len(buf)
    BY SearchConsumes
<1>5. /\ IsStop(bytes[n]) /\ \A i \in 1 .. n - 1 : ~IsStop(bytes[i])
      /\ \/ /\ bytes[n] = "query" \/ ~fits
            /\ data' = <<>> /\ state' = Cancelled(s) /\ delivered' = delivered
         \/ /\ bytes[n] = "ESC" /\ fits
            /\ data' = text /\ state' = s /\ delivered' = delivered
         \/ /\ IsTerminator(bytes[n]) /\ fits
            /\ delivered' = Append(delivered, text) /\ data' = <<>> /\ state' = s
    BY DEF CaptureUpTo
<1>6. bytes[n] = sent[r + 1] /\ r \in Nat /\ r + 1 <= Len(sent) /\ Scanned + 1 <= r
    <2>1. n \in 1 .. Len(bytes) /\ Scanned + 1 + n = r + 1
        BY <1>1
    <2>2. Scanned + Len(buf) = Len(sent)
        BY <1>1 DEF Scanned
    <2> QED
        BY <1>1, <2>1, <2>2
<1>7. ASSUME ~spanned, SevenBit(sent)
      PROVE  Exact(sent, limits, Scanned + (n + 1), state', data', delivered')
    <2>1. /\ Exact(sent, limits, Scanned, "52_RECEIVED", data, delivered)
          /\ data = <<>>
        BY <1>7, TextBegins
    <2>2. text = some
        BY <1>2, <2>1, ConcatEmptySeq
    <2>3. \A k \in Scanned + 2 .. r : ~IsStop(sent[k])
        <3> SUFFICES ASSUME NEW k \in Scanned + 2 .. r PROVE ~IsStop(sent[k])
            OBVIOUS
        <3>1. /\ k - (Scanned + 1) \in 1 .. n - 1 /\ k - (Scanned + 1) \in 1 .. Len(bytes)
              /\ Scanned + 1 + (k - (Scanned + 1)) = k
            BY <1>1
        <3>2. ~IsStop(bytes[k - (Scanned + 1)])
            BY <1>5, <3>1
        <3> QED
            BY <1>1, <3>1, <3>2
    <2>4. TextAt(sent, Scanned + 1, text) /\ text \in Seq(Byte)
          /\ Len(text) = r - (Scanned + 1)
        <3>1. \A i \in 1 .. n - 1 : i \in 1 .. Len(bytes)
            BY <1>1
        <3>2. Len(some) = r - (Scanned + 1)
            BY <1>1, <1>2
        <3>3. \A i \in 1 .. Len(some) : sent[(Scanned + 1) + i] = some[i]
            BY <1>1, <1>2, <3>1
        <3> QED
            BY <1>2, <2>2, <3>2, <3>3 DEF TextAt
    <2>5. /\ GoesOn(sent, Scanned - 3, r)
          /\ TooLong(limits, Scanned - 3, r) <=> maxBuflen <= r - (Scanned + 1)
        <3>1. r <= Len(sent)
            BY <1>1, <1>6
        <3> HIDE DEF r
        <3> QED
            BY <1>6, <1>7, <2>3, <3>1, TextRoom
    <2>6. fits <=> ~TooLong(limits, Scanned - 3, r)
        <3>1. Len(text) = n - 1 /\ r - (Scanned + 1) = n - 1
            BY <1>1, <1>2, <2>2
        <3>2. n = 1 \/ Len(text) < maxBuflen <=> ~(maxBuflen <= n - 1)
            BY <1>1, <3>1
        <3> QED
            BY <2>5, <3>1, <3>2 DEF Fits
    <2>7. delivered \in Seq(Seq(Byte))
        BY DEF IInv, Types
    <2>8. Scanned + (n + 1) = r + 1 /\ sent \in Seq(Byte) /\ Scanned \in Nat
        BY <1>1
    <2>9. IsStop(sent[r + 1])
        BY <1>5, <1>6
    <2> HIDE DEF r, text, fits
    <2>10. CASE /\ bytes[n] = "query" \/ ~fits
                /\ data' = <<>> /\ state' = Cancelled(s) /\ delivered' = delivered
        <3>1. /\ Cancelled(s) \in {"DEFAULT", "OTHER_ESC", "OTHER_TERM"}
              /\ Cancelled(s) = "OTHER_TERM" <=> bytes[n] = "ESC"
            BY DEF Cancelled, AfterStop
        <3>2. sent[r + 1] = "query" \/ TooLong(limits, Scanned - 3, r)
            BY <1>6, <2>6, <2>10
        <3>3. Exact(sent, limits, r + 1, Cancelled(s), <<>>, delivered)
            <4> DEFINE to == Cancelled(s)
            <4>1. to \in {"DEFAULT", "OTHER_ESC", "OTHER_TERM"}
                BY <3>1
            <4>2. to = "OTHER_TERM" <=> sent[r + 1] = "ESC"
                BY <1>6, <3>1
            <4> HIDE DEF to
            <4>3. Exact(sent, limits, r + 1, to, <<>>, delivered)
                BY <1>6, <2>1, <2>5, <2>8, <2>9, <3>2, <4>1, <4>2, DropTurn
            <4> QED
                BY <4>3 DEF to
        <3> QED
            BY <2>8, <2>10, <3>3
    <2>11. CASE /\ bytes[n] = "ESC" /\ fits
                /\ data' = text /\ state' = s /\ delivered' = delivered
        <3>1. s = "CAPTURE_TERM_ESC" /\ sent[r + 1] = "ESC"
            BY <1>6, <2>11 DEF AfterStop
        <3>2. Exact(sent, limits, r + 1, "CAPTURE_TERM_ESC", text, delivered)
            BY <1>6, <2>1, <2>4, <2>5, <2>6, <2>8, <2>11, <3>1, EscTurn
        <3> QED
            BY <2>8, <2>11, <3>1, <3>2
    <2>12. CASE /\ IsTerminator(bytes[n]) /\ fits
                /\ delivered' = Append(delivered, text) /\ data' = <<>> /\ state' = s
        <3>1. s = "DEFAULT" /\ IsTerminator(sent[r + 1])
            BY <1>6, <2>12 DEF AfterStop, IsTerminator
        <3>2. Exact(sent, limits, r + 1, "DEFAULT", <<>>, Append(delivered, text))
            BY <1>6, <2>1, <2>4, <2>5, <2>6, <2>7, <2>8, <2>12, <3>1, TerminatorTurn
        <3> QED
            BY <2>8, <2>12, <3>1, <3>2
    <2> QED
        BY <1>5, <2>10, <2>11, <2>12
<1> HIDE DEF bytes
<1> QED
    BY <1>3, <1>4, <1>7, TurnTInv

LEMMA CaptureTInv ==
    ASSUME IInv, TInv, CaptureBegins, CaptureBuffer(Tail(buf)) PROVE TInv'
<1>1. DOMAIN Tail(buf) = 1 .. Len(Tail(buf))
    BY NextByte, LenProperties DEF CaptureBegins
<1> QED
    BY <1>1, CaptureAllTInv, CaptureUpToTInv DEF CaptureBuffer

LEMMA FiftyTwoTInv == ASSUME IInv, TInv, In52Received PROVE TInv'
<1>1. buf # <<>> /\ state = "52_RECEIVED" /\ state \notin Capturing
    BY DEF In52Received, Due, Capturing
<1>2. CASE byte = "semicolon" /\ CaptureBuffer(Tail(buf))
    BY <1>1, <1>2, CaptureTInv DEF CaptureBegins
<1>3. CASE byte # "semicolon" /\ Enter("OTHER_ESC")
    BY <1>1, <1>3, EnterTInv DEF GoesTo, AfterEsc, Capturing
<1> QED
    BY <1>2, <1>3 DEF In52Received

LEMMA InCaptureTInv == ASSUME IInv, TInv, InCapture PROVE TInv'
BY CaptureTInv DEF InCapture, Due, CaptureBegins

LEMMA CaptureTermEscTInv == ASSUME IInv, TInv, InCaptureTermEsc PROVE TInv'
<1>1. /\ buf # <<>> /\ state = "CAPTURE_TERM_ESC" /\ data' = <<>>
      /\ spanned' = spanned /\ limits' = limits
    BY DEF InCaptureTermEsc, Due, history
<1>2. /\ Scanned \in Nat /\ Scanned + 1 <= Len(sent) /\ byte = sent[Scanned + 1]
      /\ Len(buf) \in Nat /\ Len(buf) > 0 /\ sent \in Seq(Byte) /\ Limits(sent, limits)
      /\ data \in Seq(Byte) /\ delivered \in Seq(Seq(Byte))
    BY <1>1, NextByte, TInvFacts DEF IInv, Types
<1>3. Scanned > 0 /\ sent[Scanned] = "ESC"
    BY <1>1 DEF IInv, Mark
<1>4. ASSUME ~spanned, SevenBit(sent)
      PROVE  /\ Exact(sent, limits, Scanned, "CAPTURE_TERM_ESC", data, delivered)
             /\ Marks(sent, Scanned, "CAPTURE_TERM_ESC")
    BY <1>1, <1>4 DEF TInv, Exact
<1>5. CASE byte # "backslash"
    <2>1. state' = "ESC_RECEIVED" /\ delivered' = delivered /\ Consumes(0)
        BY <1>2, <1>5 DEF InCaptureTermEsc, history, Consumes, IInv, Types
    <2>2. ASSUME ~spanned, SevenBit(sent)
          PROVE  Exact(sent, limits, Scanned, "ESC_RECEIVED", <<>>, delivered)
        <3>1. Marks(sent, Scanned, "ESC_RECEIVED")
            BY <1>2, <1>4, <2>2, MarksAgain DEF AfterEsc
        <3>2. NextIsNot(sent, Scanned, "backslash") /\ "ESC_RECEIVED" \notin Capturing
            BY <1>2, <1>5, LenProperties DEF NextIsNot, Capturing
        <3> QED
            BY <1>2, <1>4, <2>2, <3>1, <3>2, AgainTurn
    <2>3. 0 \in 0 .. Len(buf) /\ Scanned + 0 = Scanned
        BY <1>2
    <2> QED
        BY <1>1, <2>1, <2>2, <2>3, TurnTInv
<1>6. CASE byte = "backslash"
    <2>1. /\ state' = "DEFAULT" /\ delivered' = Append(delivered, data)
          /\ buf' = Tail(buf) /\ maxBuflen' = maxBuflen
          /\ sent' = sent /\ reads' = reads
        BY <1>6 DEF InCaptureTermEsc, history
    <2>2. Consumes(1) /\ 1 \in 0 .. Len(buf)
        BY <1>1, <1>2, <2>1, HeadTail DEF Consumes, IInv, Types
    <2>3. ASSUME ~spanned, SevenBit(sent)
          PROVE  Exact(sent, limits, Scanned + 1, "DEFAULT", <<>>, Append(delivered, data))
        <3>1. Follows(sent, Scanned, "CAPTURE_TERM_ESC", sent[Scanned + 1])
            BY <1>2, <1>4, <2>3, MarksNext
        <3>2. GoesTo("CAPTURE_TERM_ESC", sent[Scanned + 1], "DEFAULT")
            BY <1>2, <1>6 DEF GoesTo, AfterEsc
        <3>3. Marks(sent, Scanned + 1, "DEFAULT")
            BY <1>2, <3>1, <3>2, MarksTurn
        <3> QED
            BY <1>2, <1>3, <1>4, <1>6, <2>3, <3>3, BackslashTurn
    <2> QED
        BY <1>1, <2>1, <2>2, <2>3, TurnTInv
<1> QED
    BY <1>5, <1>6

-----------------------------------------------------------------------------
(* Between two reads, once more.                                           *)

LEMMA LimitsJoined ==
    ASSUME NEW lim, lim \in Seq(Size), NEW new, new \in Seq(Size)
    PROVE  /\ lim \o new \in Seq(Size) /\ Len(lim \o new) = Len(lim) + Len(new)
           /\ \A k \in 1 .. Len(lim) : (lim \o new)[k] = lim[k]
           /\ \A k \in 1 .. Len(new) : (lim \o new)[Len(lim) + k] = new[k]
BY Joined

LEMMA ReadTInv == ASSUME IInv, TInv, NEW chunk \in Chunk, Read(chunk) PROVE TInv'
<1> DEFINE new == [k \in DOMAIN chunk |-> maxBuflen]
           p == Len(sent)
<1>1. /\ buf = <<>> /\ buf' = chunk /\ sent' = sent \o chunk /\ limits' = limits \o new
      /\ state' = state /\ data' = data /\ maxBuflen' = maxBuflen
      /\ delivered' = delivered
    BY DEF Read
<1>2. chunk \in Seq(Byte) /\ Len(chunk) \in Nat /\ DOMAIN chunk = 1 .. Len(chunk)
    BY ChunkAssumption, LenProperties
<1>3. /\ new \in Seq(Size) /\ Len(new) = Len(chunk)
      /\ \A k \in 1 .. Len(chunk) : new[k] = maxBuflen
    <2>1. maxBuflen \in Size
        BY DEF IInv, Types
    <2> QED
        BY <1>2, <2>1
<1> HIDE DEF new
<1>4. /\ sent \in Seq(Byte) /\ p \in Nat /\ Scanned = p /\ limits \in Seq(Size)
      /\ Len(limits) = p
    BY <1>1, TInvFacts, EmptySeq DEF TInv, Scanned
<1>5. /\ sent' \in Seq(Byte) /\ Len(sent') = p + Len(chunk)
      /\ \A k \in 1 .. p : sent'[k] = sent[k]
    BY <1>1, <1>2, <1>4, Joined
<1>6. /\ limits' \in Seq(Size) /\ Len(limits') = p + Len(chunk)
      /\ \A k \in 1 .. p : limits'[k] = limits[k]
      /\ \A k \in 1 .. Len(chunk) : limits'[p + k] = maxBuflen
    <2> HIDE DEF p
    <2>1. /\ limits \o new \in Seq(Size) /\ Len(limits \o new) = Len(limits) + Len(new)
          /\ \A k \in 1 .. Len(limits) : (limits \o new)[k] = limits[k]
          /\ \A k \in 1 .. Len(new) : (limits \o new)[Len(limits) + k] = new[k]
        <3>1. limits \in Seq(Size) /\ new \in Seq(Size)
            BY <1>3, <1>4
        <3> QED
            BY <3>1, LimitsJoined
    <2> QED
        BY <1>1, <1>3, <1>4, <2>1
<1>7. Scanned' = p
    BY <1>1, <1>2, <1>4, <1>5 DEF Scanned
<1> HIDE DEF p
<1>8. LimitsOfBuf'
    <2> SUFFICES ASSUME NEW k \in p + 1 .. Len(sent') PROVE limits'[k] = maxBuflen
        BY <1>1, <1>7 DEF LimitsOfBuf
    <2>1. k - p \in 1 .. Len(chunk) /\ p + (k - p) = k
        BY <1>2, <1>4, <1>5
    <2> QED
        BY <1>6, <2>1
<1>9. ASSUME ~spanned', SevenBit(sent')
      PROVE  Exact(sent', limits', p, state, data, delivered)
    <2>1. ~spanned /\ state # "CAPTURE_OSC52"
        BY <1>9 DEF Read
    <2>2. SevenBit(sent)
        <3>1. \A k \in 1 .. p : k \in 1 .. Len(sent')
            BY <1>2, <1>4, <1>5
        <3> QED
            BY <1>5, <1>9, <3>1 DEF SevenBit, p
    <2>3. Exact(sent, limits, p, state, data, delivered)
        BY <1>4, <2>1, <2>2 DEF TInv
    <2>4. Agree(sent, sent', p) /\ p = Len(sent)
        BY <1>2, <1>4, <1>5 DEF Agree, p
    <2>5. AgreeBefore(limits, limits', p)
        <3>1. \A k \in 1 .. p - 1 : k \in 1 .. p
            BY <1>4
        <3> QED
            BY <1>6, <3>1 DEF AgreeBefore
    <2>6. Waits(sent', limits', p, state, data)
        <3> SUFFICES ASSUME NEW i \in 1 .. p, GoesOn(sent', i, p)
                     PROVE  TooLong(limits', i, p)
            BY DEF Waits
        <3>1. p <= p /\ i \in Int /\ p \in Int
            BY <1>4
        <3>2. GoesOn(sent, i, p)
            BY <1>4, <1>5, <2>4, <3>1, GoesOnSame
        <3>3. TooLong(limits, i, p)
            BY <2>1, <2>3, <3>2 DEF Exact, Waits
        <3>4. \A k \in i + 4 .. p : k \in 1 .. p
            BY <1>4
        <3> QED
            BY <1>6, <3>3, <3>4 DEF TooLong
    <2>7. data \in Seq(Byte) /\ delivered \in Seq(Seq(Byte))
        BY DEF IInv, Types
    <2> QED
        BY <1>4, <1>5, <2>3, <2>4, <2>5, <2>6, <2>7, ExactStill
<1> QED
    BY <1>1, <1>5, <1>6, <1>7, <1>8, <1>9 DEF TInv

\* What osc52filter_set_buffer_size does to the limits.
LEMMA LoweredIs ==
    ASSUME IInv, TInv, NEW size \in Size
    PROVE  /\ Lowered(size) \in Seq(Size) /\ Len(Lowered(size)) = Len(sent)
           /\ \A k \in 1 .. Len(sent) : Lowered(size)[k] <= limits[k]
           /\ \A k \in 1 .. Len(sent) - 1 : Lowered(size)[k] = limits[k]
           /\ Len(sent) > 0 => Lowered(size)[Len(sent)] <= size
<1> DEFINE p == Len(sent)
           low == Lowered(size)
<1>1. /\ p \in Nat /\ \A k \in 1 .. p : limits[k] \in Size /\ limits[k] \in Nat
      /\ size \in Nat
    BY TInvFacts, SizeAssumption
<1>2. DOMAIN limits = 1 .. p
    BY LenProperties DEF TInv
<1> HIDE DEF p
<1>3. low = [k \in 1 .. p |-> IF k = p /\ size < limits[k] THEN size ELSE limits[k]]
    BY <1>2 DEF Lowered, p
<1> HIDE DEF low
<1>4. /\ \A k \in 1 .. p : low[k] \in Size /\ low[k] <= limits[k]
      /\ \A k \in 1 .. p - 1 : low[k] = limits[k]
      /\ p > 0 => low[p] <= size
    BY <1>1, <1>3
<1>5. low \in [1 .. p -> Size]
    BY <1>3, <1>4
<1>6. low \in Seq(Size) /\ Len(low) = p
    BY <1>1, <1>5
<1> QED
    BY <1>4, <1>6 DEF low, p

LEMMA SetBufferSizeTInv ==
    ASSUME IInv, TInv, NEW size \in Size, SetBufferSize(size) PROVE TInv'
<1> DEFINE p == Len(sent)
           low == Lowered(size)
           tooLong == Len(data) >= size /\ state = "CAPTURE_OSC52"
<1>1. /\ buf = <<>> /\ buf' = buf /\ delivered' = delivered /\ sent' = sent
      /\ spanned' = spanned /\ limits' = low
      /\ data' = IF tooLong THEN <<>> ELSE data
      /\ state' = IF tooLong THEN "OTHER_ESC" ELSE state
    BY DEF SetBufferSize, Cancelled
<1>2. /\ sent \in Seq(Byte) /\ p \in Nat /\ Scanned = p /\ Scanned' = p
      /\ data \in Seq(Byte) /\ Len(data) \in Nat /\ delivered \in Seq(Seq(Byte))
      /\ size \in Nat
    BY <1>1, TInvFacts, EmptySeq, LenProperties, SizeAssumption DEF IInv, Types, Scanned
<1>3. /\ low \in Seq(Size) /\ Len(low) = p
      /\ \A k \in 1 .. p : low[k] <= limits[k]
      /\ \A k \in 1 .. p - 1 : low[k] = limits[k]
      /\ p > 0 => low[p] <= size
    BY LoweredIs
<1>4. \A k \in 1 .. p : low[k] \in Nat /\ limits[k] \in Nat
    <2>1. \A k \in 1 .. p : low[k] \in Size
        BY <1>3, ElementOfSeq
    <2> QED
        BY <2>1, SizeAssumption, TInvFacts
<1>5. LimitsOfBuf'
    BY <1>1, <1>2 DEF LimitsOfBuf
<1>6. /\ Agree(sent, sent, p) /\ AgreeBefore(limits, low, p)
      /\ (~spanned /\ SevenBit(sent))' <=> ~spanned /\ SevenBit(sent)
    BY <1>1, <1>2, <1>3 DEF Agree, AgreeBefore, SevenBit
<1> HIDE DEF low
<1>7. ASSUME ~spanned, SevenBit(sent)
      PROVE  Exact(sent, low, p, state', data', delivered)
    <2>1. Exact(sent, limits, p, state, data, delivered)
        BY <1>2, <1>7 DEF TInv
    <2>2. ASSUME NEW i \in 1 .. p, GoesOn(sent, i, p)
          PROVE  \/ state' = "CAPTURE_OSC52" /\ Len(data') = p - (i + 4)
                 \/ TooLong(low, i, p)
        <3>1. \/ state = "CAPTURE_OSC52" /\ Len(data) = p - (i + 4)
              \/ TooLong(limits, i, p)
            BY <2>1, <2>2 DEF Exact, Waits
        <3>2. i + 4 <= p /\ \A k \in i + 4 .. p : k \in 1 .. p
            BY <1>2, <2>2 DEF GoesOn
        <3> HIDE DEF p
        <3>3. CASE TooLong(limits, i, p)
            <4>1. PICK k \in i + 4 .. p : limits[k] <= p - (i + 4)
                BY <3>3 DEF TooLong
            <4>2. low[k] <= limits[k] /\ low[k] \in Nat /\ limits[k] \in Nat
                BY <1>3, <1>4, <3>2
            <4>3. low[k] <= p - (i + 4)
                BY <1>2, <4>1, <4>2
            <4> QED
                BY <4>3 DEF TooLong
        <3>4. CASE tooLong /\ Len(data) = p - (i + 4)
            <4>1. p \in i + 4 .. p /\ p \in 1 .. p /\ p > 0
                BY <1>2, <3>2
            <4>2. low[p] <= size /\ low[p] \in Nat
                BY <1>3, <1>4, <4>1
            <4>3. low[p] <= p - (i + 4)
                BY <1>2, <3>4, <4>2
            <4> QED
                BY <4>1, <4>3 DEF TooLong
        <3>5. CASE ~tooLong /\ state = "CAPTURE_OSC52" /\ Len(data) = p - (i + 4)
            BY <1>1, <3>5
        <3> QED
            BY <3>1, <3>3, <3>4, <3>5
    <2>3. Waits(sent, low, p, state', data')
        BY <2>2 DEF Waits
    <2>4. \/ state' = state /\ data' = data
          \/ state = "CAPTURE_OSC52" /\ state' = "OTHER_ESC"
        BY <1>1
    <2> QED
        BY <1>2, <1>6, <2>1, <2>3, <2>4, ExactStill
<1>8. ~spanned /\ SevenBit(sent)
      => Exact(sent', limits', Scanned', state', data', delivered')
    BY <1>1, <1>2, <1>7
<1> QED
    BY <1>1, <1>3, <1>5, <1>6, <1>8 DEF TInv

LEMMA StepTInv == IInv /\ TInv /\ [Next]_vars => TInv'
<1> SUFFICES ASSUME IInv, TInv, [Next]_vars PROVE TInv'
    OBVIOUS
<1>1. CASE Scan
    BY <1>1, DefaultTInv, EscReceivedTInv, OscReceivedTInv, FiveReceivedTInv,
       FiftyTwoTInv, InCaptureTInv, CaptureTermEscTInv, OtherEscTInv,
       OtherTermTInv DEF Scan
<1>2. CASE \E chunk \in Chunk : Read(chunk)
    BY <1>2, ReadTInv
<1>3. CASE \E size \in Size : SetBufferSize(size)
    BY <1>3, SetBufferSizeTInv
<1>4. CASE UNCHANGED vars
    <2>1. /\ sent' = sent /\ limits' = limits /\ buf' = buf /\ state' = state
          /\ data' = data /\ delivered' = delivered /\ spanned' = spanned
          /\ maxBuflen' = maxBuflen
        BY <1>4 DEF vars
    <2>2. Scanned' = Scanned /\ LimitsOfBuf'
        BY <2>1 DEF Scanned, LimitsOfBuf, TInv
    <2> QED
        BY <2>1, <2>2, Zenon DEF TInv
<1> QED
    BY <1>1, <1>2, <1>3, <1>4 DEF Next

LEMMA SpecTInv == Spec => []TInv
<1>1. IInv /\ TInv /\ [Next]_vars => (IInv /\ TInv)'
    BY StepIInv, StepTInv
<1> QED
    BY InitIInv, InitTInv, <1>1, PTL DEF Spec

-----------------------------------------------------------------------------
(* The texts that are complete at the end of a read are the Texts.         *)

\* BeginsAt, byte by byte.
LEMMA BeginsIs ==
    ASSUME NEW s \in Seq(Byte), NEW b \in Int
    PROVE  b \in BeginsAt(s) <=> Introducing(s, b, 5)
<1>1. Len(s) \in Nat /\ Intro \in Seq(Byte) /\ Len(Intro) = 5
    BY IntroBytes, LenProperties
<1>2. StandsAt(Intro, s, b) <=> /\ b > 0 /\ b + Len(Intro) - 1 <= Len(s)
                                /\ \A m \in 1 .. Len(Intro) : s[b + m - 1] = Intro[m]
    BY <1>1, Stands
<1>3. b > 0 /\ b + 5 - 1 <= Len(s) => b \in 1 .. Len(s)
    BY <1>1
<1> QED
    BY <1>1, <1>2, <1>3 DEF BeginsAt, Introducing

\* One of the Texts goes from byte i of s to byte e.
IsText(s, lim, i, e) ==
    /\ i - 5 \in BeginsAt(s) /\ e \in 1 .. Len(s) /\ i <= e /\ EndsProperly(s, e)
    /\ \A k \in i .. e - 1 : ~IsStop(s[k])
    /\ \A k \in i - 1 .. e - 1 : e - i < lim[k]

LEMMA IsTextIs ==
    ASSUME NEW s \in Seq(Byte), NEW lim, Limits(s, lim), NEW i \in Int, NEW e \in Int
    PROVE  IsText(s, lim, i, e)
           <=> e \in 1 .. Len(s) /\ Stops(s, lim, i, e) /\ Closes(s, e, Len(s))
<1>1. Len(s) \in Nat
    BY LenProperties
<1>2. i - 5 \in BeginsAt(s) <=> Introducing(s, i - 5, 5)
    <2>1. i - 5 \in Int
        OBVIOUS
    <2> QED
        BY <2>1, BeginsIs
<1>3. Introducing(s, i - 5, 5) => i - 5 > 0
    BY Zenon DEF Introducing
<1>4. e \in 1 .. Len(s) => (EndsProperly(s, e) <=> Closes(s, e, Len(s)))
    BY <1>1 DEF EndsProperly, Closes
<1>5. Closes(s, e, Len(s)) => IsStop(s[e])
    BY DEF Closes, IsStop
<1>6. (i - 5) + 5 = i /\ (i - 5) + 4 = i - 1 /\ (e - 1) - (i - 1) = e - i
    OBVIOUS
<1>7. GoesOn(s, i - 5, e - 1)
      <=> /\ Introducing(s, i - 5, 5) /\ i <= e
          /\ \A k \in i .. e - 1 : ~IsStop(s[k])
    <2>1. i - 1 <= e - 1 <=> i <= e
        OBVIOUS
    <2> QED
        BY <1>6, <2>1 DEF GoesOn
<1>8. ASSUME i - 5 > 0, e \in 1 .. Len(s)
      PROVE  ~TooLong(lim, i - 5, e - 1) <=> \A k \in i - 1 .. e - 1 : e - i < lim[k]
    <2>1. \A k \in i - 1 .. e - 1 : lim[k] \in Nat
        <3>1. \A k \in i - 1 .. e - 1 : k \in 1 .. Len(s)
            BY <1>1, <1>8
        <3> QED
            BY <3>1 DEF Limits
    <2>2. \A k \in i - 1 .. e - 1 : e - i < lim[k] <=> ~(lim[k] <= e - i)
        BY <2>1
    <2> QED
        BY <1>6, <2>2 DEF TooLong
<1>9. e \in 1 .. Len(s) => e <= Len(s)
    OBVIOUS
<1>10. i - 5 > 0 <=> i > 5
    OBVIOUS
<1> QED
    BY <1>2, <1>3, <1>4, <1>5, <1>7, <1>8, <1>9, <1>10 DEF IsText, Stops

\* Texts, by first byte and end.
LEMMA TextsIs ==
    ASSUME IInv
    PROVE  /\ \A t \in Texts : t = <<t[1], t[2]>> /\ t[1] \in Int /\ t[2] \in Int
                               /\ IsText(sent, limits, t[1], t[2])
           /\ \A i \in Int, e \in Int : IsText(sent, limits, i, e) => <<i, e>> \in Texts
<1> DEFINE P(i, j) == /\ i <= j /\ EndsProperly(sent, j)
                      /\ \A k \in i .. j - 1 : ~IsStop(sent[k])
                      /\ \A k \in i - 1 .. j - 1 : j - i < limits[k]
           A == {b + 5 : b \in BeginsAt(sent)}
           B == 1 .. Len(sent)
<1>1. DOMAIN sent = B /\ Len(sent) \in Nat
    BY LenProperties DEF IInv, Types
<1>2. Texts = {t \in A \X B : P(t[1], t[2])}
    BY <1>1, Zenon DEF Texts
<1>3. \A i \in Int : i \in A <=> i - 5 \in BeginsAt(sent)
    <2>1. BeginsAt(sent) \subseteq Int
        BY DEF BeginsAt
    <2>2. \A i \in Int : (i - 5) + 5 = i
        OBVIOUS
    <2>3. \A b \in Int : (b + 5) - 5 = b
        OBVIOUS
    <2> QED
        BY <2>1, <2>2, <2>3
<1>4. A \subseteq Int /\ B \subseteq Int
    BY DEF BeginsAt
<1>5. \A i \in Int, e \in Int : IsText(sent, limits, i, e) <=> i \in A /\ e \in B /\ P(i, e)
    BY <1>3 DEF IsText
<1> HIDE DEF A, B, P
<1>6. \A t \in A \X B : t = <<t[1], t[2]>> /\ t[1] \in A /\ t[2] \in B
    OBVIOUS
<1>7. ASSUME NEW t \in Texts
      PROVE  t = <<t[1], t[2]>> /\ t[1] \in Int /\ t[2] \in Int
             /\ IsText(sent, limits, t[1], t[2])
    <2>1. t \in A \X B /\ P(t[1], t[2])
        BY <1>2
    <2>2. t = <<t[1], t[2]>> /\ t[1] \in A /\ t[2] \in B
        BY <1>6, <2>1
    <2> QED
        BY <1>4, <1>5, <2>1, <2>2
<1>8. ASSUME NEW i \in Int, NEW e \in Int, IsText(sent, limits, i, e)
      PROVE  <<i, e>> \in Texts
    <2> DEFINE t == <<i, e>>
    <2>1. t \in A \X B /\ P(t[1], t[2])
        BY <1>5, <1>8
    <2> HIDE DEF t
    <2>2. t \in Texts
        BY <1>2, <2>1
    <2> QED
        BY <2>2 DEF t
<1> QED
    BY <1>7, <1>8

LEMMA TextsAreComplete ==
    ASSUME IInv, TInv PROVE Texts = Complete(sent, limits, Len(sent))
<1> DEFINE C == Complete(sent, limits, Len(sent))
<1>1. sent \in Seq(Byte) /\ Len(sent) \in Nat /\ Limits(sent, limits)
    BY TInvFacts
<1>2. \A i \in Int, e \in Int : IsText(sent, limits, i, e) <=> <<i, e>> \in C
    BY <1>1, IsTextIs, CompleteIs
<1>3. \A t \in C : t = <<t[1], t[2]>> /\ t[1] \in Int /\ t[2] \in Int
    BY <1>1, CompleteIs
<1> HIDE DEF C
<1>4. ASSUME NEW t \in Texts PROVE t \in C
    <2> DEFINE i == t[1]
               e == t[2]
    <2>1. t = <<i, e>> /\ i \in Int /\ e \in Int /\ IsText(sent, limits, i, e)
        BY TextsIs
    <2> HIDE DEF i, e
    <2>2. <<i, e>> \in C
        BY <1>2, <2>1
    <2> QED
        BY <2>1, <2>2
<1>5. ASSUME NEW t \in C PROVE t \in Texts
    <2> DEFINE i == t[1]
               e == t[2]
    <2>1. t = <<i, e>> /\ i \in Int /\ e \in Int
        BY <1>3
    <2> HIDE DEF i, e
    <2>2. IsText(sent, limits, i, e)
        BY <1>2, <2>1
    <2>3. <<i, e>> \in Texts
        BY <2>1, <2>2, TextsIs
    <2> QED
        BY <2>1, <2>3
<1> QED
    BY <1>4, <1>5 DEF C

LEMMA InOrderIsDelivered ==
    ASSUME IInv, TInv, InOrder(sent, Texts, delivered) PROVE DeliveredAre(Texts)
<1> DEFINE n == Len(delivered)
           p == Len(sent)
<1>1. PICK at \in [1 .. n -> Texts] :
          /\ \A t \in Texts : \E k \in 1 .. n : t = at[k]
          /\ \A k, l \in 1 .. n : k < l => at[k][1] < at[l][1]
          /\ \A k \in 1 .. n : /\ TextAt(sent, at[k][1] - 1, delivered[k])
                               /\ Len(delivered[k]) = at[k][2] - at[k][1]
    BY Zenon DEF InOrder
<1>2. DOMAIN delivered = 1 .. n /\ sent \in Seq(Byte) /\ p \in Nat
    BY LenProperties DEF IInv, Types
<1>3. Texts = {at[k] : k \in 1 .. n}
    BY <1>1
<1>4. ASSUME NEW k \in 1 .. n
      PROVE  delivered[k] = SubSeq(sent, at[k][1], at[k][2] - 1)
    <2> DEFINE d == delivered[k]
               i == at[k][1]
               e == at[k][2]
    <2>1. IsText(sent, limits, i, e) /\ i \in Int /\ e \in Int
        BY <1>1, TextsIs
    <2>2. i > 5 /\ i <= e /\ e <= p
        BY <1>2, <2>1, TInvFacts, IsTextIs, StopsFacts
    <2>3. TextAt(sent, i - 1, d) /\ Len(d) = e - i /\ d \in Seq(Byte)
        BY <1>1, ElementOfSeq DEF IInv, Types
    <2> HIDE DEF i, e, d
    <2>4. i - 1 \in 1 .. p /\ (i - 1) + Len(d) <= p
        BY <1>2, <2>1, <2>2, <2>3
    <2>5. d = SubSeq(sent, (i - 1) + 1, ((i - 1) + Len(d) + 1) - 1)
        BY <1>2, <2>3, <2>4, TextIsPart
    <2>6. (i - 1) + 1 = i /\ ((i - 1) + Len(d) + 1) - 1 = e - 1
        BY <2>1, <2>3
    <2>7. d = SubSeq(sent, i, e - 1)
        BY <2>5, <2>6
    <2> QED
        BY <2>7 DEF d, i, e
<1> HIDE DEF n
<1> QED
    BY <1>1, <1>2, <1>3, <1>4, Zenon DEF DeliveredAre

\* The scanner's state keeps its types, whatever programs send.
THEOREM TypeCorrect == Spec => []TypeOK
<1>1. IInv /\ TInv => TypeOK
    BY Zenon DEF IInv, Types, TInv, TypeOK
<1> QED
    BY <1>1, SpecIInv, SpecTInv, PTL

\* The deferred copies get exactly the texts of OSC 52 sequences that fit, in
\* the order in which they were sent, wherever reads cut the sequences but
\* inside a text.
THEOREM ExactlyTextsDelivered == Spec => []TextsExact
<1>1. ASSUME IInv, TInv, buf = <<>>, ~spanned, "OSC" \notin ToSet(sent)
      PROVE  DeliveredAre(Texts)
    <2>1. sent \in Seq(Byte) /\ DOMAIN sent = 1 .. Len(sent) /\ Len(sent) \in Nat
        BY <1>1, TInvFacts, LenProperties
    <2>2. SevenBit(sent)
        BY <1>1, <2>1 DEF ToSet, SevenBit
    <2>3. Scanned = Len(sent)
        BY <1>1, <2>1, EmptySeq DEF Scanned
    <2>4. InOrder(sent, Complete(sent, limits, Len(sent)), delivered)
        BY <1>1, <2>2, <2>3 DEF TInv, Exact
    <2>5. InOrder(sent, Texts, delivered)
        BY <1>1, <2>4, TextsAreComplete
    <2> QED
        BY <1>1, <2>5, InOrderIsDelivered
<1>2. IInv /\ TInv => TextsExact
    BY <1>1, Zenon DEF TextsExact
<1> QED
    BY <1>2, SpecIInv, SpecTInv, PTL

=============================================================================
