----------------------------- MODULE Osc52Filter -----------------------------
(***************************************************************************)
(* osc52filter.c: the scanner that sits in roxterm's replacement of read() *)
(* and picks the text of OSC 52 sequences, ESC ] 52 ; text terminator, out *)
(* of what programs send to a terminal.                                    *)
(*                                                                         *)
(* A read may end anywhere, so a sequence may be spread over any number of *)
(* them. Read is the arrival of one buffer; an action named for each state *)
(* is one turn of the loop that consumes it.                               *)
(***************************************************************************)
EXTENDS Integers, Sequences, SequencesExt

CONSTANTS Text,    \* bytes of no meaning to the scanner
          Chunk,   \* what one read may bring
          Size,    \* the sizes a profile may set for the capture buffer
          MaxReads \* bound: how many reads a behaviour has

\* OSC is 0x9d and ST is 0x9c; ESC ] and ESC \ are their seven bit forms.
Special == {"ESC", "OSC", "bracket", "5", "2", "semicolon", "query",
            "BEL", "ST", "backslash"}

Byte == Text \cup Special

ASSUME ByteAssumption == Text \cap Special = {}
ASSUME ChunkAssumption == Chunk \subseteq Seq(Byte) \ {<<>>}
ASSUME SizeAssumption == Size \subseteq Nat \ {0} /\ Size # {}
ASSUME ReadsAssumption == MaxReads \in Nat

VARIABLES state,     \* oflt->state
          data,      \* the captured bytes; <<>> when oflt->data is NULL
          maxBuflen, \* oflt->max_buflen
          buf,       \* the part of the read buffer still to be scanned
          delivered, \* the texts given to osc52_deferred_copy
          sent,      \* history: all bytes read so far ...
          limits,    \* ... the lowest limit from each one's read to the next ...
          reads,     \* ... in how many reads ...
          spanned    \* ... one of which continued a capture

filterVars == <<state, data, buf, delivered>>
history == <<sent, limits, reads, spanned>>
vars == <<state, data, maxBuflen, buf, delivered, sent, limits, reads, spanned>>

State == {"DEFAULT", "ESC_RECEIVED", "OSC_RECEIVED", "5_RECEIVED",
          "52_RECEIVED", "CAPTURE_OSC52", "CAPTURE_TERM_ESC",
          "OTHER_ESC", "OTHER_TERM"}

TypeOK == /\ state \in State
          /\ data \in Seq(Byte)
          /\ maxBuflen \in Size
          /\ buf \in Seq(Byte)
          /\ delivered \in Seq(Seq(Byte))
          /\ sent \in Seq(Byte)
          /\ limits \in Seq(Size) /\ Len(limits) = Len(sent)
          /\ reads \in 0 .. MaxReads
          /\ spanned \in BOOLEAN

\* osc52filter_create for a terminal whose pty exists.
Init == /\ state = "DEFAULT" /\ data = <<>> /\ buf = <<>> /\ delivered = <<>>
        /\ maxBuflen \in Size
        /\ sent = <<>> /\ limits = <<>> /\ reads = 0 /\ spanned = FALSE

-----------------------------------------------------------------------------
(* One turn of the loop in read().                                         *)

\* The buffer holds a byte for a scanner in this state.
Due(s) == buf # <<>> /\ state = s

byte == Head(buf)

\* The byte is consumed; the state may change and nothing else does.
Enter(s) == /\ state' = s
            /\ buf' = Tail(buf)
            /\ UNCHANGED <<data, maxBuflen, delivered, history>>

\* osc52filter_unpeek: the byte is left for the next turn.
EnterAgain(s) == /\ state' = s
                 /\ UNCHANGED <<data, maxBuflen, buf, delivered, history>>

InDefault ==
    /\ Due("DEFAULT")
    /\ \/ byte = "ESC" /\ Enter("ESC_RECEIVED")
       \/ byte = "OSC" /\ Enter("OSC_RECEIVED")
       \/ byte \notin {"ESC", "OSC"} /\ Enter("DEFAULT")

InEscReceived ==
    /\ Due("ESC_RECEIVED")
    /\ \/ byte = "bracket" /\ Enter("OSC_RECEIVED")
       \/ byte = "ESC" /\ Enter("ESC_RECEIVED")
       \/ byte \notin {"bracket", "ESC"} /\ Enter("OTHER_ESC")

\* Slip: the rejected byte is put back and the state kept.
InOscReceivedStuck ==
    /\ Due("OSC_RECEIVED")
    /\ \/ byte = "5" /\ Enter("5_RECEIVED")
       \/ byte # "5" /\ EnterAgain("OSC_RECEIVED")

InOscReceived ==
    /\ Due("OSC_RECEIVED")
    /\ \/ byte = "5" /\ Enter("5_RECEIVED")
       \/ byte # "5" /\ EnterAgain("OTHER_ESC")

In5Received ==
    /\ Due("5_RECEIVED")
    /\ \/ byte = "2" /\ Enter("52_RECEIVED")
       \/ byte # "2" /\ EnterAgain("OTHER_ESC")

-----------------------------------------------------------------------------
(* The capture of the text.                                                *)

\* Slip: a cancelled capture is left in a state the loop does not know.
CancelledForGood(s) == "CANCELLED"

\* osc52filter_cancel_copy, for the state.
Cancelled(s) == IF s = "CAPTURE_OSC52" THEN "OTHER_ESC"
                ELSE IF s = "CAPTURE_TERM_ESC" THEN "OTHER_TERM"
                ELSE s

IsTerminator(b) == b \in {"BEL", "ST"}

\* What ends the search of osc52filter_capture_buffer.
IsStop(b) == b = "ESC" \/ IsTerminator(b) \/ b = "query"

\* The state after the search stopped at byte b.
AfterStop(b) == IF b = "ESC" THEN "CAPTURE_TERM_ESC"
                ELSE IF IsTerminator(b) THEN "DEFAULT"
                ELSE "CAPTURE_OSC52"

\* Room is left for the 0 that ends the text.
Fits(text) == Len(text) < maxBuflen

\* The search takes all the bytes there are: the text goes on in the next
\* read, unless it is too long already.
CaptureAll(bytes) ==
    /\ \A i \in DOMAIN bytes : ~IsStop(bytes[i])
    /\ buf' = <<>>
    /\ \/ /\ bytes = <<>> \/ Fits(data \o bytes)
          /\ data' = data \o bytes
          /\ state' = "CAPTURE_OSC52"
       \/ /\ bytes # <<>> /\ ~Fits(data \o bytes)
          /\ data' = <<>>
          /\ state' = Cancelled("CAPTURE_OSC52")
    /\ UNCHANGED <<maxBuflen, delivered, history>>

\* The search stops at byte n. A "?" asks for the clipboard's contents, which
\* programs do not get.
CaptureUpTo(bytes, n) ==
    LET text == data \o SubSeq(bytes, 1, n - 1)
        fits == n = 1 \/ Fits(text)
        s == AfterStop(bytes[n])
    IN /\ IsStop(bytes[n])
       /\ \A i \in 1 .. n - 1 : ~IsStop(bytes[i])
       /\ buf' = SubSeq(bytes, n + 1, Len(bytes))
       /\ \/ /\ bytes[n] = "query" \/ ~fits
             /\ data' = <<>>
             /\ state' = Cancelled(s)
             /\ UNCHANGED delivered
          \/ /\ bytes[n] = "ESC" /\ fits
             /\ data' = text
             /\ state' = s
             /\ UNCHANGED delivered
          \/ /\ IsTerminator(bytes[n]) /\ fits
             /\ delivered' = Append(delivered, text)
             /\ data' = <<>>
             /\ state' = s
       /\ UNCHANGED <<maxBuflen, history>>

\* osc52filter_capture_buffer, with these bytes left in the read buffer.
CaptureBuffer(bytes) ==
    \/ CaptureAll(bytes)
    \/ \E n \in DOMAIN bytes : CaptureUpTo(bytes, n)

\* Slip: OSC numbers that begin with 52 are taken for 52.
In52ReceivedLoose ==
    /\ Due("52_RECEIVED")
    /\ CaptureBuffer(Tail(buf))

In52Received ==
    /\ Due("52_RECEIVED")
    /\ \/ byte = "semicolon" /\ CaptureBuffer(Tail(buf))
       \/ byte # "semicolon" /\ Enter("OTHER_ESC")

\* A capture goes on in a further read: the loop has taken the read's first
\* byte when it calls osc52filter_capture_buffer.
InCapture ==
    /\ Due("CAPTURE_OSC52")
    /\ CaptureBuffer(Tail(buf))

\* Slip: the ESC that did not end the text begins no other sequence either.
InCaptureTermEscForgetful ==
    /\ Due("CAPTURE_TERM_ESC")
    /\ data' = <<>>
    /\ \/ /\ byte = "backslash"
          /\ delivered' = Append(delivered, data)
          /\ state' = "DEFAULT"
          /\ buf' = Tail(buf)
       \/ /\ byte # "backslash"
          /\ state' = "OTHER_ESC"
          /\ UNCHANGED <<buf, delivered>>
    /\ UNCHANGED <<maxBuflen, history>>

InCaptureTermEsc ==
    /\ Due("CAPTURE_TERM_ESC")
    /\ data' = <<>>
    /\ \/ /\ byte = "backslash"
          /\ delivered' = Append(delivered, data)
          /\ state' = "DEFAULT"
          /\ buf' = Tail(buf)
       \/ /\ byte # "backslash"
          /\ state' = "ESC_RECEIVED"
          /\ UNCHANGED <<buf, delivered>>
    /\ UNCHANGED <<maxBuflen, history>>

InOtherEsc ==
    /\ Due("OTHER_ESC")
    /\ \/ byte = "ESC" /\ Enter("OTHER_TERM")
       \/ IsTerminator(byte) /\ Enter("DEFAULT")
       \/ byte # "ESC" /\ ~IsTerminator(byte) /\ Enter("OTHER_ESC")

InOtherTerm ==
    /\ Due("OTHER_TERM")
    /\ \/ byte = "backslash" /\ Enter("DEFAULT")
       \/ byte # "backslash" /\ EnterAgain("ESC_RECEIVED")

Scan == \/ InDefault \/ InEscReceived \/ InOscReceived \/ In5Received
        \/ In52Received \/ InCapture \/ InCaptureTermEsc
        \/ InOtherEsc \/ InOtherTerm

-----------------------------------------------------------------------------
(* What happens between two reads: VTE and the profile's options are all   *)
(* served by one main loop.                                                *)

\* VTE reads from the pty. The loop finishes with a buffer before it returns.
Read(chunk) ==
    /\ buf = <<>>
    /\ reads < MaxReads
    /\ buf' = chunk
    /\ reads' = reads + 1
    /\ sent' = sent \o chunk
    /\ limits' = limits \o [k \in DOMAIN chunk |-> maxBuflen]
    /\ spanned' = (spanned \/ state = "CAPTURE_OSC52")
    /\ UNCHANGED <<state, data, maxBuflen, delivered>>

\* A new limit counts for the bytes to come and for those before that wait.
Lowered(size) ==
    [k \in DOMAIN limits |-> IF k = Len(sent) /\ size < limits[k] THEN size ELSE limits[k]]

\* Slip: a capture that is under way is left alone.
SetBufferSizeLate(size) ==
    /\ buf = <<>>
    /\ maxBuflen' = size
    /\ limits' = Lowered(size)
    /\ UNCHANGED <<filterVars, sent, reads, spanned>>

\* osc52filter_set_buffer_size
SetBufferSize(size) ==
    LET tooLong == Len(data) >= size /\ state = "CAPTURE_OSC52"
    IN /\ buf = <<>>
       /\ maxBuflen' = size
       /\ data' = IF tooLong THEN <<>> ELSE data
       /\ state' = IF tooLong THEN Cancelled(state) ELSE state
       /\ limits' = Lowered(size)
       /\ UNCHANGED <<buf, delivered, sent, reads, spanned>>

Next == \/ Scan
        \/ \E chunk \in Chunk : Read(chunk)
        \/ \E size \in Size : SetBufferSize(size)

Fairness == WF_vars(Scan)

Spec == Init /\ [][Next]_vars /\ Fairness

-----------------------------------------------------------------------------
(* What reaches the deferred copy, compared with what was sent.            *)

Unfinished == <<"ESC", "bracket", "5", "2">>
Intro == Append(Unfinished, "semicolon")

StandsAt(word, s, i) == /\ i > 0 /\ i + Len(word) - 1 <= Len(s)
                        /\ SubSeq(s, i, i + Len(word) - 1) = word

\* n of them stand in a row right before byte i of s, and no more.
UnfinishedBefore(s, i, n) ==
    /\ \A m \in 1 .. n : StandsAt(Unfinished, s, i - 4 * m)
    /\ ~StandsAt(Unfinished, s, i - 4 * (n + 1))

\* An ESC right after an unfinished ESC ] 52 is taken for a part of that, so of
\* those in a row every other one begins a sequence.
Swallowed(s, i) == \E h \in 0 .. i : UnfinishedBefore(s, i, 2 * h + 1)

\* Where a byte of s is the first of Intro, and Intro means what it says.
BeginsAt(s) == {i \in 1 .. Len(s) : StandsAt(Intro, s, i) /\ ~Swallowed(s, i)}

\* A text ends with BEL, with ST or with ESC "\".
EndsProperly(s, j) == /\ j <= Len(s)
                      /\ \/ IsTerminator(s[j])
                         \/ s[j] = "ESC" /\ j < Len(s) /\ s[j + 1] = "backslash"

\* The texts of the OSC 52 sequences sent so far, each one from its first byte
\* i to the byte j that ends it, unless it had no room in the buffer.
Texts ==
    {t \in {b + 5 : b \in BeginsAt(sent)} \X DOMAIN sent :
        LET i == t[1]
            j == t[2]
        IN /\ i <= j /\ EndsProperly(sent, j)
           /\ \A k \in i .. j - 1 : ~IsStop(sent[k])
           /\ \A k \in i - 1 .. j - 1 : j - i < limits[k]}

\* The deferred copies have been given these texts, in the order in which they
\* were sent.
DeliveredAre(texts) ==
    \E at \in [DOMAIN delivered -> texts] :
        /\ texts = {at[k] : k \in DOMAIN delivered}
        /\ \A k, l \in DOMAIN delivered : k < l => at[k][1] < at[l][1]
        /\ \A k \in DOMAIN delivered :
              delivered[k] = SubSeq(sent, at[k][1], at[k][2] - 1)

\* Once a read has been scanned, the deferred copies have been given exactly
\* the texts of the OSC 52 sequences sent so far that fitted the buffer when
\* they came, in their order, wherever the reads cut the sequences, but inside
\* a text: neither the sequences around them nor unfinished ones nor queries
\* spoil one.  (Seven bit introducers only.)
TextsExact ==
    buf = <<>> /\ ~spanned /\ "OSC" \notin ToSet(sent) => DeliveredAre(Texts)

\* The same wherever the reads cut the sequences, inside a text too: what the
\* comment on read() promises.
TextsIntact ==
    buf = <<>> /\ "OSC" \notin ToSet(sent) => DeliveredAre(Texts)

\* Byte k of s is the ";" after the 52 of an OSC, in either of its forms.
IntroducedAt(s, k) ==
    \/ StandsAt(<<"OSC", "5", "2", "semicolon">>, s, k - 3)
    \/ StandsAt(Intro, s, k - 4)

\* A text for the clipboard was sent as one: it stands in what was read
\* between an introducer and its terminator. No other output of the program,
\* other OSCs included, is ever taken for one, whatever becomes of the limit.
TextsWereSent ==
    ~spanned =>
        \A d \in DOMAIN delivered :
            \E k \in DOMAIN sent :
                LET j == k + Len(delivered[d]) + 1
                IN /\ IntroducedAt(sent, k)
                   /\ EndsProperly(sent, j)
                   /\ delivered[d] = SubSeq(sent, k + 1, j - 1)

\* A capture that waits for more holds less than the limit, also after the
\* profile has lowered the limit in the middle of it.
CaptureFits == state = "CAPTURE_OSC52" /\ data # <<>> => Len(data) < maxBuflen

\* The loop gets through every buffer, although it puts some bytes back.
ReadReturns == buf # <<>> ~> buf = <<>>

=============================================================================
