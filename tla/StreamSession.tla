---------------------------- MODULE StreamSession ----------------------------
(***************************************************************************)
(* run_with_codec (session.rs): one client connection from its first byte  *)
(* to its end.  The kernel hands the bytes over in pieces of any size; the *)
(* session decodes all it can, reads again, clears its buffer after a      *)
(* framing error and works off what is left at end of file.                *)
(***************************************************************************)
EXTENDS Frame

CONSTANTS
    Messages,       \* texts a client frames and sends
    Chunk,          \* bound: bytes one read returns
    MaxSent         \* bound: messages a client sends

ASSUME SessionAssumption ==
    /\ \A m \in Messages : m \in Seq(Chars) /\ Len(m) \in 1..9
    /\ Chunk \in Nat \ {0}
    /\ MaxSent \in Nat

VARIABLES
    framing,    \* daemon.framing, fixed
    speaks,     \* the framing the client uses, fixed
    pipe,       \* bytes in the socket
    sent,       \* texts of the messages the client sent completely
    closed,     \* the client closed its end, or died in mid-message
    spc,        \* where the session is
    buf,        \* the read buffer
    handled,    \* messages passed to handle_message
    errors,     \* framing errors met
    cut,        \* messages with bytes in a buffer that was cleared (history)
    broken      \* a read failed

clientVars == <<framing, speaks, sent, closed>>
vars == <<framing, speaks, pipe, sent, closed, spc, buf, handled, errors, cut, broken>>

Init ==
    /\ framing \in Framing
    /\ speaks \in Framing
    /\ pipe = <<>>
    /\ sent = <<>>
    /\ closed = FALSE
    /\ spc = "decode"
    /\ buf = <<>>
    /\ handled = <<>>
    /\ errors = 0
    /\ cut = {}
    /\ broken = FALSE

-----------------------------------------------------------------------------
\* Newline framing is for texts without newlines (DelimiterCodec).
Framable(m) == speaks = "Newline" => "nl" \notin ToSet(m)

Wire(m) == Tagged(Encode(speaks, m), Len(sent) + 1)

Send(m) ==
    /\ ~closed
    /\ Len(sent) < MaxSent
    /\ Framable(m)
    /\ pipe' = pipe \o Wire(m)
    /\ sent' = Append(sent, m)
    /\ UNCHANGED <<framing, speaks, closed, spc, buf, handled, errors, cut, broken>>

Close ==
    /\ ~closed
    /\ closed' = TRUE
    /\ UNCHANGED <<framing, speaks, pipe, sent, spc, buf, handled, errors, cut, broken>>

\* The client dies after n bytes of a frame.
SendTorn(m, n) ==
    /\ ~closed
    /\ Framable(m)
    /\ n < Len(Wire(m))
    /\ pipe' = pipe \o SubSeq(Wire(m), 1, n)
    /\ closed' = TRUE
    /\ UNCHANGED <<framing, speaks, sent, spc, buf, handled, errors, cut, broken>>

-----------------------------------------------------------------------------
Discard == cut' = cut \cup {buf[i].of : i \in DOMAIN buf}

\* A turn of the loop up to the read: handle_message, or handle_frame_error
\* and buf.clear().
DecodeStep ==
    LET d == Decode(framing, buf)
    IN  /\ spc = "decode"
        /\ \/ /\ d.result = "some"
              /\ handled' = Append(handled, d.msg)
              /\ buf' = d.buf
              /\ UNCHANGED <<spc, errors, cut>>
           \/ /\ d.result = "none"
              /\ spc' = "read"
              /\ UNCHANGED <<buf, handled, errors, cut>>
           \/ /\ d.result \notin {"some", "none"}
              /\ errors' = errors + 1
              /\ Discard
              /\ buf' = <<>>
              /\ spc' = "read"
              /\ UNCHANGED handled
        /\ UNCHANGED <<clientVars, pipe, broken>>

Read(n) ==
    /\ spc = "read"
    /\ n \leq Len(pipe)
    /\ buf' = buf \o SubSeq(pipe, 1, n)
    /\ pipe' = SubSeq(pipe, n + 1, Len(pipe))
    /\ spc' = "decode"
    /\ UNCHANGED <<clientVars, handled, errors, cut, broken>>

MutReadEof ==
    /\ spc = "read"
    /\ closed /\ pipe = <<>>
    /\ spc' = "decode"
    /\ UNCHANGED <<clientVars, pipe, buf, handled, errors, cut, broken>>

ReadEof ==
    /\ spc = "read"
    /\ closed /\ pipe = <<>>
    /\ spc' = "eof"
    /\ UNCHANGED <<clientVars, pipe, buf, handled, errors, cut, broken>>

ReadError ==
    /\ spc = "read"
    /\ broken' = TRUE
    /\ spc' = "done"
    /\ UNCHANGED <<clientVars, pipe, buf, handled, errors, cut>>

\* A turn of the loop at end of file, which a framing error ends.
EofStep ==
    LET d == DecodeEof(framing, buf)
    IN  /\ spc = "eof"
        /\ \/ /\ d.result = "some"
              /\ handled' = Append(handled, d.msg)
              /\ buf' = d.buf
              /\ UNCHANGED <<spc, errors, cut>>
           \/ /\ d.result # "some"
              /\ errors' = errors + (IF d.result = "none" THEN 0 ELSE 1)
              /\ Discard
              /\ spc' = "done"
              /\ UNCHANGED <<buf, handled>>
        /\ UNCHANGED <<clientVars, pipe, broken>>

Session == DecodeStep \/ (\E n \in 1..Chunk : Read(n)) \/ ReadEof \/ ReadError \/ EofStep

Next ==
    \/ \E m \in Messages : Send(m) \/ (\E n \in 1..Len(m) + 1 : SendTorn(m, n))
    \/ Close
    \/ Session

Spec == Init /\ [][Next]_vars

\* The session runs on: handle_message returns, and read returns when there
\* are bytes or the end of the file.
FairSpec == Spec /\ WF_vars(Session)

-----------------------------------------------------------------------------
IsHandled(i) == \E k \in DOMAIN handled : handled[k] = Tagged(sent[i], i)

(* However the kernel cuts the stream, a session that met no framing error *)
(* handles exactly the messages of its client, unchanged, in order and     *)
(* once each, and all of them when it ended at end of file.                *)
InOrder ==
    speaks = framing /\ errors = 0 =>
        /\ Len(handled) \leq Len(sent)
        /\ \A k \in DOMAIN handled : handled[k] = Tagged(sent[k], k)
        /\ spc = "done" /\ ~broken => Len(handled) = Len(sent)

(* "The connection stays open; the next read may recover" (session.rs):    *)
(* under newline framing an error costs what was in the buffer and nothing *)
(* else, every message with no byte there is handled.                      *)
OnlyBufferLost ==
    speaks = "Newline" /\ framing = "Newline" /\ spc = "done" /\ ~broken =>
        \A i \in DOMAIN sent : i \in cut \/ IsHandled(i)

(* Under newline framing no message that is handled mixes bytes of two     *)
(* client messages, even after errors.                                     *)
NeverMixed ==
    speaks = "Newline" /\ framing = "Newline" =>
        \A k \in DOMAIN handled : \A i, j \in DOMAIN handled[k] :
            handled[k][i].of = handled[k][j].of

(* The buffer a client can make the session keep between two reads is      *)
(* bounded by max_message_size; for octet counts, plus the length prefix,  *)
(* which one read may carry past MAX_DIGITS before decode looks at it.  No *)
(* message longer than max_message_size is handled.                        *)
BufferBounded ==
    /\ spc = "read" =>
          Len(buf) \leq IF framing = "Newline" THEN MaxSize
                        ELSE MaxDigits + Chunk + MaxSize - 1
    /\ \A k \in DOMAIN handled : Len(handled[k]) \in 1..MaxSize

(* A session ends once its client has gone.                                *)
SessionEnds == closed ~> spc = "done"

=============================================================================
