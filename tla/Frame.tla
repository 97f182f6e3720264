-------------------------------- MODULE Frame --------------------------------
(***************************************************************************)
(* The two stream framings of frame.rs: OctetCountCodec and                *)
(* DelimiterCodec.  A byte is a character of a small alphabet together     *)
(* with the number of the client message it belongs to, which the code     *)
(* does not see and the properties do.  What the codecs tell apart are     *)
(* digits, the space, the delimiter, bytes that break UTF-8 and the first  *)
(* byte of a syslog message, "<".                                          *)
(***************************************************************************)
EXTENDS Naturals, Sequences, SequencesExt, FiniteSetsExt

CONSTANTS
    MaxSize,        \* daemon.max_message_size
    MaxDigits       \* MAX_DIGITS

ASSUME FrameAssumption == MaxSize \in 1..9 /\ MaxDigits \in Nat \ {0}

Framing == {"OctetCount", "Newline"}

DigitChars == <<"1", "2", "3", "4", "5", "6", "7", "8", "9">>
Chars == ToSet(DigitChars) \cup {"0", "<", "x", "sp", "nl", "bad"}

Text(bytes) == [i \in DOMAIN bytes |-> bytes[i].c]

Tagged(text, i) == [k \in DOMAIN text |-> [c |-> text[k], of |-> i]]

\* Position of the first character c, 0 if there is none.
Position(bytes, c) ==
    LET at == {i \in DOMAIN bytes : bytes[i].c = c}
    IN  IF at = {} THEN 0 ELSE Min(at)

DigitValue(c) ==
    IF c = "0" THEN 0 ELSE CHOOSE d \in 1..9 : DigitChars[d] = c

IsNumber(text) ==
    text # <<>> /\ \A i \in DOMAIN text : text[i] \in ToSet(DigitChars) \cup {"0"}

Number(text) == FoldLeft(LAMBDA n, c : 10 * n + DigitValue(c), 0, text)

\* SyslogMessage::parse: every message starts with its PRI.
Parses(text) == text # <<>> /\ text[1] = "<"

-----------------------------------------------------------------------------
\* What decode returns, with the buffer it leaves behind.
NeedMore(buf)       == [result |-> "none", msg |-> <<>>, buf |-> buf]
FrameError(e, buf)  == [result |-> e, msg |-> <<>>, buf |-> buf]

MutBody(bytes, rest) ==
    IF "bad" \in ToSet(Text(bytes)) THEN FrameError("InvalidUtf8", rest)
    ELSE IF ~Parses(Text(bytes)) THEN FrameError("Parse", rest)
    ELSE [result |-> "some", msg |-> bytes, buf |-> <<>>]

\* The frame is consumed before its bytes are looked at.
Body(bytes, rest) ==
    IF "bad" \in ToSet(Text(bytes)) THEN FrameError("InvalidUtf8", rest)
    ELSE IF ~Parses(Text(bytes)) THEN FrameError("Parse", rest)
    ELSE [result |-> "some", msg |-> bytes, buf |-> rest]

OctetCountDecode(buf) ==
    LET sp      == Position(buf, "sp")
        prefix  == Text(SubSeq(buf, 1, sp - 1))
        msg_len == Number(prefix)
    IN  IF sp = 0
        THEN IF Len(buf) > MaxDigits
             THEN FrameError("OctetCountPrefixTooLong", buf)
             ELSE NeedMore(buf)
        ELSE IF ~IsNumber(prefix) THEN FrameError("InvalidOctetCount", buf)
        ELSE IF msg_len > MaxSize THEN FrameError("MessageTooLarge", buf)
        ELSE IF Len(buf) < sp + msg_len THEN NeedMore(buf)
        ELSE Body(SubSeq(buf, sp + 1, sp + msg_len),
                  SubSeq(buf, sp + msg_len + 1, Len(buf)))

MutLastDelimiter(buf) ==
    LET at  == {i \in DOMAIN buf : buf[i].c = "nl"}
        pos == IF at = {} THEN 0 ELSE Max(at)
    IN  IF pos = 0
        THEN IF Len(buf) > MaxSize
             THEN FrameError("MessageTooLarge", buf)
             ELSE NeedMore(buf)
        ELSE IF pos - 1 > MaxSize THEN FrameError("MessageTooLarge", buf)
        ELSE Body(SubSeq(buf, 1, pos - 1), SubSeq(buf, pos + 1, Len(buf)))

MutUnlimited(buf) ==
    LET pos == Position(buf, "nl")
    IN  IF pos = 0 THEN NeedMore(buf)
        ELSE IF pos - 1 > MaxSize THEN FrameError("MessageTooLarge", buf)
        ELSE Body(SubSeq(buf, 1, pos - 1), SubSeq(buf, pos + 1, Len(buf)))

DelimiterDecode(buf) ==
    LET pos == Position(buf, "nl")
    IN  IF pos = 0
        THEN IF Len(buf) > MaxSize
             THEN FrameError("MessageTooLarge", buf)
             ELSE NeedMore(buf)
        ELSE IF pos - 1 > MaxSize THEN FrameError("MessageTooLarge", buf)
        ELSE Body(SubSeq(buf, 1, pos - 1), SubSeq(buf, pos + 1, Len(buf)))

Decode(framing, buf) ==
    IF framing = "OctetCount" THEN OctetCountDecode(buf) ELSE DelimiterDecode(buf)

\* Decoder::decode_eof of tokio_util: bytes left over are an I/O error.
DecodeEof(framing, buf) ==
    LET d == Decode(framing, buf)
    IN  IF d.result = "none" /\ buf # <<>> THEN FrameError("Io", buf) ELSE d

-----------------------------------------------------------------------------
\* Encoder::encode, for messages of one to nine bytes.
OctetCountEncode(text) == <<DigitChars[Len(text)], "sp">> \o text

DelimiterEncode(text) == Append(text, "nl")

Encode(framing, text) ==
    IF framing = "OctetCount" THEN OctetCountEncode(text) ELSE DelimiterEncode(text)

=============================================================================
