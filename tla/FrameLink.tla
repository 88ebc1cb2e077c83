------------------------------ MODULE FrameLink ------------------------------
(***************************************************************************)
(* The two hand-written WebSocket clients as readers: WebSocketPoller.ts   *)
(* (the task loop) and officeSocket.ts (the operate bridge).  TCP cuts the *)
(* frames of the office anywhere, a message may come in two fragments with *)
(* a ping between them, and a connection may end in the middle of both.    *)
(* The clients share the parser and differ in what they throw away with a  *)
(* lost connection: the loop its buffer, the bridge nothing.               *)
(*                                                                         *)
(* A frame is two units on the wire, its head (header, start of payload)   *)
(* and its tail.  Masking, lengths and the JSON are abstracted.            *)
(***************************************************************************)
EXTENDS Naturals, Sequences, SequencesExt

CONSTANTS
    MaxMsg,      \* messages the office sends
    MaxControl,  \* pings and close frames it sends
    MaxConn      \* connections

VARIABLES
    flClient,    \* which client reads, and what it makes of bytes it takes for a header
    flConn,      \* state of the connection, connections made, started on leftover bytes
    flOffice,    \* the office: messages and control frames sent, the one half sent, order sent
    flWire,      \* units on their way to the client
    flIn         \* the client: _buffer, _fragChunks, messages handed on from this connection

flVars == <<flClient, flConn, flOffice, flWire, flIn>>

Msg == 1 .. MaxMsg
Unit == [part : {"head", "tail"}, kind : {"text", "start", "cont", "ping", "close"},
         msg : Msg \cup {0}]

FlTypeOK ==
    /\ flClient \in [who : {"loop", "bridge"}, misread : {"junk", "waits"}]
    /\ flConn \in [state : {"down", "opening", "open"}, made : 0 .. MaxConn, stale : BOOLEAN]
    /\ flOffice.half \in Msg \cup {0} /\ flOffice.sent \in Seq(Msg)
    /\ flOffice.next \in 1 .. MaxMsg + 1 /\ flOffice.control \in 0 .. MaxControl
    /\ flWire \in Seq(Unit)
    /\ flIn.buffer \in Seq(Unit) /\ flIn.frag \in Msg \cup {0}
    /\ flIn.got \in Seq([first : Msg, last : Msg \cup {0}])

FlInit ==
    /\ flClient \in [who : {"loop", "bridge"}, misread : {"junk", "waits"}]
    /\ flConn = [state |-> "down", made |-> 0, stale |-> FALSE]
    /\ flOffice = [next |-> 1, control |-> 0, half |-> 0, sent |-> <<>>]
    /\ flWire = <<>>
    /\ flIn = [buffer |-> <<>>, frag |-> 0, got |-> <<>>]

-----------------------------------------------------------------------------
(* The office, once the upgrade is accepted on its side.                   *)

Framed(kind, m) == << [part |-> "head", kind |-> kind, msg |-> m],
                     [part |-> "tail", kind |-> kind, msg |-> m] >>

Sends(kind, m) == flWire' = flWire \o Framed(kind, m) /\ UNCHANGED <<flClient, flConn, flIn>>

Up == flConn.state \in {"opening", "open"}

SendsWhole ==
    /\ Up /\ flOffice.half = 0 /\ flOffice.next <= MaxMsg
    /\ Sends("text", flOffice.next)
    /\ flOffice' = [flOffice EXCEPT !.next = @ + 1, !.sent = Append(@, flOffice.next)]

SendsStart ==
    /\ Up /\ flOffice.half = 0 /\ flOffice.next <= MaxMsg
    /\ Sends("start", flOffice.next)
    /\ flOffice' = [flOffice EXCEPT !.next = @ + 1, !.half = flOffice.next]

SendsRest ==
    /\ Up /\ flOffice.half # 0
    /\ Sends("cont", flOffice.half)
    /\ flOffice' = [flOffice EXCEPT !.half = 0, !.sent = Append(@, flOffice.half)]

\* A ping may come between two fragments; a close is the last frame of a connection.
SendsControl(kind) ==
    /\ Up /\ flOffice.control < MaxControl
    /\ kind = "close" => flOffice.half = 0 /\ flConn.state = "open"
    /\ Sends(kind, 0)
    /\ flOffice' = [flOffice EXCEPT !.control = @ + 1]

-----------------------------------------------------------------------------
(* Reading: _processBuffer, _parseFrame and _onFrame.                      *)

HandOn(in, first, last) == [in EXCEPT !.got = Append(@, [first |-> first, last |-> last])]

\* Control frames pass by the fragments; a first fragment replaces those of an
\* unfinished message; a continuation without a first fragment is dropped.
OnFrame(in, kind, first, last) ==
    IF kind = "start" THEN [in EXCEPT !.frag = first]
    ELSE IF kind = "cont" /\ in.frag # 0 THEN HandOn([in EXCEPT !.frag = 0], in.frag, last)
    ELSE IF kind = "text" THEN HandOn(in, first, last) ELSE in

\* One frame taken from the buffer: the head says how much belongs to it, whatever the
\* bytes that follow are.  A tail in the place of a head gives a frame of no message,
\* or a length that the buffer does not reach.
Parse(st) ==
    LET buffer == st.in.buffer
        rest == SubSeq(buffer, 3, Len(buffer))
        in == [st.in EXCEPT !.buffer = rest]
    IN  IF Len(buffer) < 2 THEN st
        ELSE IF buffer[1].part = "tail"
        THEN IF flClient.misread = "waits" THEN st ELSE [st EXCEPT !.in = in]
        ELSE IF buffer[1].kind = "close"
        THEN [open |-> FALSE,
              in |-> IF flClient.who = "loop" THEN [in EXCEPT !.buffer = <<>>] ELSE in]
        ELSE [st EXCEPT !.in = OnFrame(in, buffer[1].kind, buffer[1].msg, buffer[2].msg)]

\* All the frames the buffer holds are handled at once.
ProcessBuffer(in) ==
    LET after[i \in 0 .. Len(in.buffer)] ==
          IF i = 0 THEN [open |-> TRUE, in |-> in] ELSE Parse(after[i - 1])
    IN  after[Len(in.buffer) \div 2]

\* The next connection has its own messages.
Fresh(in) == [in EXCEPT !.got = <<>>]

\* The upgrade is answered; bytes behind it in the same chunk replace the buffer, and
\* without any the buffer is what it was.
Opened(k) ==
    /\ flConn.state = "opening" /\ k \in 0 .. Len(flWire)
    /\ LET behind == SubSeq(flWire, 1, k)
           in == IF k = 0 THEN flIn ELSE [flIn EXCEPT !.buffer = behind]
       IN  flIn' = IF k = 0 THEN in ELSE ProcessBuffer(in).in
    /\ flConn' = [flConn EXCEPT !.state = "open", !.stale = k = 0 /\ flIn.buffer # <<>>]
    /\ flWire' = SubSeq(flWire, k + 1, Len(flWire))
    /\ UNCHANGED <<flClient, flOffice>>

\* A chunk of any size arrives.
Chunk(k) ==
    /\ flConn.state = "open" /\ k \in 1 .. Len(flWire)
    /\ LET st == ProcessBuffer([flIn EXCEPT !.buffer = @ \o SubSeq(flWire, 1, k)])
       IN  IF st.open
           THEN /\ flIn' = st.in
                /\ flWire' = SubSeq(flWire, k + 1, Len(flWire))
                /\ UNCHANGED <<flConn, flOffice>>
           ELSE /\ flIn' = Fresh(st.in) /\ flWire' = <<>>
                /\ flConn' = [flConn EXCEPT !.state = "down"]
                /\ flOffice' = [flOffice EXCEPT !.half = 0, !.sent = <<>>]
    /\ UNCHANGED flClient

\* Mistake: the loop, too, keeps the bytes of the lost connection.
DropsKeepsBuffer ==
    /\ Up
    /\ flConn' = [flConn EXCEPT !.state = "down"]
    /\ flWire' = <<>>
    /\ flOffice' = [flOffice EXCEPT !.half = 0, !.sent = <<>>]
    /\ flIn' = Fresh(flIn)
    /\ UNCHANGED flClient

\* Error, end, rejected upgrade or 55 s of silence: _scheduleReconnect empties the
\* buffer in the loop only; neither client drops a fragment.
Drops ==
    /\ Up
    /\ flConn' = [flConn EXCEPT !.state = "down"]
    /\ flWire' = <<>>
    /\ flOffice' = [flOffice EXCEPT !.half = 0, !.sent = <<>>]
    /\ flIn' = Fresh(IF flClient.who = "loop" THEN [flIn EXCEPT !.buffer = <<>>] ELSE flIn)
    /\ UNCHANGED flClient

Connects ==
    /\ flConn.state = "down" /\ flConn.made < MaxConn
    /\ flConn' = [state |-> "opening", made |-> flConn.made + 1, stale |-> FALSE]
    /\ UNCHANGED <<flClient, flOffice, flWire, flIn>>

Arrives == \E k \in 0 .. Len(flWire) : Opened(k) \/ Chunk(k)

FlNext ==
    \/ SendsWhole \/ SendsStart \/ SendsRest \/ SendsControl("ping") \/ SendsControl("close")
    \/ Arrives \/ Drops \/ Connects

\* TCP delivers what was sent while the connection stands.
FlFairness == WF_flVars(Arrives)

FlSpec == FlInit /\ [][FlNext]_flVars /\ FlFairness

-----------------------------------------------------------------------------
Handed == [i \in 1 .. Len(flIn.got) |-> flIn.got[i].first]

\* A connection that starts on an empty buffer hands on exactly the messages the office
\* sent on it, whole and in order, however TCP cut them and whatever fragment an earlier
\* connection left behind; only the bridge ever starts on leftover bytes.
WholeAndInOrder ==
    /\ flConn.stale => flClient.who = "bridge"
    /\ ~flConn.stale => /\ \A i \in 1 .. Len(flIn.got) : flIn.got[i].first = flIn.got[i].last
                        /\ IsPrefix(Handed, flOffice.sent)

Sent(m) == m \in ToSet(flOffice.sent)

TakenUp(m) == m \in ToSet(Handed) \/ flConn.state = "down" \/ flConn.stale

\* A message sent on such a connection is handed on while the connection lasts.
HandedOn == \A m \in Msg : Sent(m) ~> TakenUp(m)
=============================================================================
