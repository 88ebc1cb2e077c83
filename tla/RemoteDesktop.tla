---------------------------- MODULE RemoteDesktop ----------------------------
(***************************************************************************)
(* The remote-desktop tunnels of an agent: the two session managers        *)
(* (src/vnc/manager.ts, src/rdp/manager.ts), the sessions they start and   *)
(* the bridges that talk to the desktop server.  A viewer in the office    *)
(* starts, drives and closes sessions by frames that carry a session id;   *)
(* the office link, when it drops, stops them all.  A VNC bridge has no    *)
(* timer; an RDP bridge gives up each read of its handshake after 15 s and *)
(* reconnects by itself when the server closes a running connection.       *)
(*                                                                         *)
(* Pixels, key codes, credentials and the bytes of the protocol messages   *)
(* are left out: what remains of a message is the step it causes.  A start *)
(* frame that is ignored (the manager is disabled) changes nothing and is  *)
(* a stuttering step.                                                      *)
(***************************************************************************)
EXTENDS Naturals, FiniteSets

CONSTANTS
    VncId, RdpId,     \* the session ids of each manager
    MaxSessions,      \* bound: sessions ever started
    MaxReconnects     \* bound for RdpBridge._MAX_RECONNECTS (10 in the code)

ASSUME BoundsAssumption == MaxSessions \in Nat /\ MaxReconnects \in Nat
ASSUME IdsDisjoint == VncId \cap RdpId = {}
ASSUME SomeId == VncId \cup RdpId # {}

Id == VncId \cup RdpId
Session == 1..MaxSessions
None == 0

VARIABLES
    sess,       \* the sessions started so far, one record each
    sessions,   \* the managers' maps: id -> session or None
    told,       \* per id, the last thing the viewer was told of it
    mixed       \* history: ids started while an earlier session of the id could still act

rdVars == <<sess, sessions, told, mixed>>

VncWaits == {"version", "types", "auth_type", "challenge", "result", "reason", "init", "name"}
RdpReads == {"x224", "mcs", "attach", "join_user", "join_global", "license", "demand"}
RdpWaits == {"tcp", "tls"} \cup RdpReads
Phases == VncWaits \cup RdpWaits \cup {"unused", "running", "delay"}

(***************************************************************************)
(* One session and its bridge.                                             *)
(*   promise  what became of connect(): pending, ready or failed           *)
(*   minor    the RFB minor version agreed on (VNC)                        *)
(*   open     the bridge is not _closed                                    *)
(*   active   VncSession._active                                           *)
(*   pending, buffered  the frame-request pipeline of a VNC session        *)
(*   owed     the server owes an update for a request it was sent          *)
(*   tries    RdpBridge._reconnectCount                                    *)
(***************************************************************************)
Blank == [id |-> CHOOSE i \in Id : TRUE, phase |-> "unused", promise |-> "pending", minor |-> 3,
          open |-> FALSE, active |-> FALSE, pending |-> FALSE, buffered |-> FALSE,
          owed |-> FALSE, tries |-> 0]

RdTypeOK ==
    /\ sess \in [Session -> [id : Id, phase : Phases, promise : {"pending", "ready", "failed"},
                             minor : {3, 7, 8}, open : BOOLEAN, active : BOOLEAN,
                             pending : BOOLEAN, buffered : BOOLEAN, owed : BOOLEAN,
                             tries : 0..MaxReconnects]]
    /\ sessions \in [Id -> Session \cup {None}]
    /\ told \in [Id -> {"nothing", "ready", "closed"}]
    /\ mixed \subseteq Id

Used(s) == sess[s].phase # "unused"
IsVnc(s) == sess[s].id \in VncId
Owner(s) == sess[s].id

\* The connection is established: sockets' events reach a live bridge only.
Shaking(s) == sess[s].promise = "pending" /\ sess[s].phase \in VncWaits \cup RdpWaits
Reading(s) == ~IsVnc(s) /\ sess[s].phase \in RdpReads

\* A session that can still tell the viewer something or remove a map entry.
CanAct(s) == Used(s) /\ (sess[s].open \/ (Reading(s) /\ sess[s].promise = "pending"))

RdInit ==
    /\ sess = [s \in Session |-> Blank]
    /\ sessions = [i \in Id |-> None]
    /\ told = [i \in Id |-> "nothing"]
    /\ mixed = {}

-----------------------------------------------------------------------------
(* Frames to the viewer and the steps they belong to. *)

Tell(i, what) == told' = [told EXCEPT ![i] = what]

\* connect() rejects: the manager's catch removes whatever the id now maps to.
StartFails(s) ==
    /\ sess' = [sess EXCEPT ![s].promise = "failed", ![s].open = FALSE]
    /\ sessions' = [sessions EXCEPT ![Owner(s)] = None]
    /\ Tell(Owner(s), "closed")
    /\ UNCHANGED mixed

\* The 'error' listener of a session whose start is over (or will be settled by a timer).
ErrorEvent(s) ==
    /\ sess' = [sess EXCEPT ![s].open = FALSE, ![s].active = FALSE]
    /\ Tell(Owner(s), "closed")
    /\ UNCHANGED <<sessions, mixed>>

\* The 'close' listener: the viewer hears of it only when the session was active.
CloseEvent(s) ==
    /\ sess' = [sess EXCEPT ![s].open = FALSE, ![s].active = FALSE]
    /\ IF sess[s].active THEN Tell(Owner(s), "closed") ELSE UNCHANGED told
    /\ UNCHANGED <<sessions, mixed>>

Moves(s, p) ==
    /\ sess' = [sess EXCEPT ![s].phase = p]
    /\ UNCHANGED <<sessions, told, mixed>>

-----------------------------------------------------------------------------
(* The viewer and the office link. *)

\* The session a start frame makes; that of an RDP viewer gets its credentials here.
VncFresh(i) == [Blank EXCEPT !.id = i, !.open = TRUE, !.phase = "version"]
RdpFresh(i) == [Blank EXCEPT !.id = i, !.open = TRUE, !.phase = "tcp"]

\* handleFrame(start): the id's entry is overwritten, whatever it holds.
StartSession(i) ==
    \E s \in Session :
        /\ ~Used(s) /\ \A t \in Session : t < s => Used(t)
        /\ sess' = [sess EXCEPT ![s] = IF i \in VncId THEN VncFresh(i) ELSE RdpFresh(i)]
        /\ sessions' = [sessions EXCEPT ![i] = s]
        /\ mixed' = IF \E t \in Session : Owner(t) = i /\ CanAct(t)
                    THEN mixed \cup {i} ELSE mixed
        /\ Tell(i, "nothing")

\* VncSession.stop / RdpSession.stop: the timers of a read in progress stay.
Stopped(s) == [sess[s] EXCEPT !.active = FALSE, !.open = FALSE]

\* handleFrame(close).
Close(i) ==
    /\ sessions[i] # None
    /\ sess' = [sess EXCEPT ![sessions[i]] = Stopped(sessions[i])]
    /\ sessions' = [sessions EXCEPT ![i] = None]
    /\ Tell(i, "nothing")
    /\ UNCHANGED mixed

\* The link to the office drops or the poller is destroyed.
StopAll ==
    /\ \E i \in Id : sessions[i] # None
    /\ sess' = [s \in Session |-> IF \E i \in Id : sessions[i] = s THEN Stopped(s) ELSE sess[s]]
    /\ sessions' = [i \in Id |-> None]
    /\ told' = [i \in Id |-> "nothing"]
    /\ UNCHANGED mixed

\* The bridge's requestUpdate: nothing is sent on a closed bridge.
Request(r) == [r EXCEPT !.owed = r.owed \/ r.open, !.pending = TRUE]

\* In an RDP session only the two flags change: the server pushes its updates.
VncInput(r) == IF r.pending THEN [r EXCEPT !.buffered = TRUE] ELSE Request(r)
RdpInput(r) == IF r.pending THEN [r EXCEPT !.buffered = TRUE] ELSE [r EXCEPT !.pending = TRUE]

\* A frame request of the viewer: sent, or kept in the one-deep buffer.
FrameRequest(i) ==
    LET s == sessions[i] IN
    /\ s # None
    /\ sess[s].active
    /\ sess' = [sess EXCEPT ![s] = IF IsVnc(s) THEN VncInput(@) ELSE RdpInput(@)]
    /\ UNCHANGED <<sessions, told, mixed>>

-----------------------------------------------------------------------------
(* The VNC server answers the handshake; every refusal rejects and destroys. *)

VncVersion(s) ==
    /\ Shaking(s) /\ sess[s].open /\ sess[s].phase = "version"
    /\ \/ StartFails(s)
       \/ \E m \in {3, 7, 8} :
            /\ sess' = [sess EXCEPT ![s].minor = m,
                                    ![s].phase = IF m = 3 THEN "auth_type" ELSE "types"]
            /\ UNCHANGED <<sessions, told, mixed>>

\* No type, none supported, or VeNCrypt: that one reads its answer from a buffer which
\* still holds the version line, and so always fails.
VncSecurity(s) ==
    /\ Shaking(s) /\ sess[s].open /\ sess[s].phase \in {"types", "auth_type"}
    /\ \/ StartFails(s)
       \/ Moves(s, "challenge")
       \/ Moves(s, IF sess[s].minor = 8 THEN "result" ELSE "init")

\* Without a password the challenge is a failure.  A 3.8 refusal whose reason is not yet
\* there has its result dropped: the length of the reason is then read as the result, so
\* an empty reason counts as success and any other leaves the bridge waiting.
VncAuth(s) ==
    /\ Shaking(s) /\ sess[s].open
    /\ \/ sess[s].phase = "challenge" /\ (StartFails(s) \/ Moves(s, "result"))
       \/ /\ sess[s].phase = "result"
          /\ \/ Moves(s, "init")
             \/ sess[s].minor = 8 /\ Moves(s, "reason")
             \/ StartFails(s)
       \/ sess[s].phase = "reason" /\ Moves(s, "init")

VncServerInit(s) ==
    /\ Shaking(s) /\ sess[s].open /\ sess[s].phase = "init"
    /\ Moves(s, "name")

\* The desktop's name completes the start: ready is told, then a full frame is asked for.
\* An invalid message in the same chunk closes the bridge before the start goes on.
VncReady(s) ==
    /\ Shaking(s) /\ sess[s].open /\ sess[s].phase = "name"
    /\ \E valid \in BOOLEAN :
         sess' = [sess EXCEPT ![s] = Request([@ EXCEPT !.phase = "running", !.promise = "ready",
                                                       !.active = TRUE, !.open = valid])]
    /\ Tell(Owner(s), "ready")
    /\ UNCHANGED <<sessions, mixed>>

\* Mistake: an update without rectangles returns before it clears the pending flag.
UpdateKeepsPending(r, rects) ==
    LET sent == [r EXCEPT !.owed = FALSE]
    IN  IF rects = 0 THEN sent
        ELSE IF r.active /\ r.buffered THEN Request([sent EXCEPT !.buffered = FALSE])
        ELSE [sent EXCEPT !.pending = FALSE]

\* VncSession's 'fbu' listener: a buffered request goes out at once.
Update(r, rects) ==
    LET sent == [r EXCEPT !.owed = FALSE]
    IN  IF r.active /\ r.buffered THEN Request([sent EXCEPT !.buffered = FALSE])
        ELSE [sent EXCEPT !.pending = FALSE]

\* A framebuffer update; one that only brings a cursor has no rectangles.
VncUpdate(s) ==
    /\ IsVnc(s) /\ sess[s].phase = "running" /\ sess[s].open /\ sess[s].owed
    /\ \E rects \in {0, 1} : sess' = [sess EXCEPT ![s] = Update(@, rects)]
    /\ UNCHANGED <<sessions, told, mixed>>

\* The connection breaks, or a running server sends what the bridge cannot parse.
\* An error during the start tells twice (listener and catch) and removes the entry.
VncBreaks(s) ==
    /\ IsVnc(s) /\ Used(s) /\ sess[s].open
    /\ \/ sess[s].promise = "pending" /\ StartFails(s)
       \/ sess[s].promise = "ready" /\ ErrorEvent(s)
       \/ CloseEvent(s)

-----------------------------------------------------------------------------
(* The RDP server.  The same handshake serves the start and the reconnects. *)

RdpHandshaking(s, p) == ~IsVnc(s) /\ sess[s].open /\ sess[s].phase = p

\* A step of the handshake throws, or a read times out: the start is rejected even when
\* the session was stopped meanwhile; a reconnect reports an error if still open.
HandshakeFails(s) ==
    IF sess[s].promise = "pending" THEN StartFails(s)
    ELSE sess[s].open /\ ErrorEvent(s)

\* Phase 8: a start resolves and the session becomes active; a reconnect only resumes.
RdpRuns(s) ==
    IF sess[s].promise = "pending"
    THEN /\ sess' = [sess EXCEPT ![s].phase = "running", ![s].promise = "ready",
                                 ![s].active = TRUE]
         /\ Tell(Owner(s), "ready")
         /\ UNCHANGED <<sessions, mixed>>
    ELSE Moves(s, "running")

RdpTcpOpens(s) == RdpHandshaking(s, "tcp") /\ Moves(s, "x224")

\* The server picks TLS or plain RDP, or refuses.
RdpNegotiates(s) ==
    /\ RdpHandshaking(s, "x224")
    /\ Moves(s, "tls") \/ Moves(s, "mcs") \/ HandshakeFails(s)

RdpTlsUp(s) == RdpHandshaking(s, "tls") /\ Moves(s, "mcs")

\* The answer to the MCS connect is not looked at.
RdpMcs(s) == RdpHandshaking(s, "mcs") /\ Moves(s, "attach")

RdpAttach(s) == RdpHandshaking(s, "attach") /\ (Moves(s, "join_user") \/ HandshakeFails(s))

\* Two channels are joined, the user's and the global one; then the client info goes out.
RdpJoin(s) ==
    \/ RdpHandshaking(s, "join_user") /\ (Moves(s, "join_global") \/ HandshakeFails(s))
    \/ RdpHandshaking(s, "join_global") /\ (Moves(s, "license") \/ HandshakeFails(s))

\* Licensing ends, or a packet that is none of it is put back for the next phase (when it
\* is the Demand Active itself, that phase ends at once).
RdpLicense(s) ==
    /\ RdpHandshaking(s, "license")
    /\ Moves(s, "demand") \/ RdpRuns(s) \/ HandshakeFails(s)

RdpDemandActive(s) == RdpHandshaking(s, "demand") /\ RdpRuns(s)

\* Mistake: the wait for the Connection Confirm has no timer.
TimesOutReads(s) ==
    /\ Reading(s) /\ sess[s].phase # "x224"
    /\ sess[s].promise = "pending" \/ sess[s].open
    /\ HandshakeFails(s)

\* _readTpkt and _waitForPduType give up after 15 s, on a destroyed socket too.
TimesOut(s) ==
    /\ Reading(s)
    /\ sess[s].promise = "pending" \/ sess[s].open
    /\ HandshakeFails(s)

\* The socket breaks during a handshake.  Before TLS only the start listens: an error
\* rejects it, a plain close leaves the read to its timer.  After it an error event tells
\* the viewer and a close ends the bridge, and the timer settles the start (without TLS
\* the error still rejects the start).
RdpBreaksEarly(s) ==
    /\ ~IsVnc(s) /\ sess[s].open /\ sess[s].phase \in RdpWaits
    /\ CASE sess[s].phase \in {"tcp", "tls"} -> HandshakeFails(s)
         [] sess[s].phase = "x224" ->
               HandshakeFails(s) \/ (sess[s].promise = "pending" /\ CloseEvent(s))
         [] OTHER -> HandshakeFails(s) \/ ErrorEvent(s) \/ CloseEvent(s)

\* A running connection is closed (or reset): reconnect, at most MaxReconnects times in
\* the life of the session; it stays active meanwhile.
RdpCloses(s) ==
    /\ ~IsVnc(s) /\ sess[s].open /\ sess[s].phase = "running"
    /\ IF sess[s].tries < MaxReconnects
       THEN /\ sess' = [sess EXCEPT ![s].phase = "delay", ![s].tries = @ + 1]
            /\ UNCHANGED <<sessions, told, mixed>>
       ELSE CloseEvent(s)

\* Any other socket error of a running connection.
RdpErrors(s) == ~IsVnc(s) /\ sess[s].open /\ sess[s].phase = "running" /\ ErrorEvent(s)

\* The delay is over: _doReconnect, unless the bridge was closed meanwhile.
RdpReconnect(s) == ~IsVnc(s) /\ sess[s].open /\ sess[s].phase = "delay" /\ Moves(s, "tcp")

\* A bitmap update clears the flags of the pipeline.
RdpUpdate(s) ==
    /\ ~IsVnc(s) /\ sess[s].open /\ sess[s].phase = "running" /\ sess[s].pending
    /\ sess' = [sess EXCEPT ![s].pending = FALSE, ![s].buffered = @ /\ ~sess[s].active]
    /\ UNCHANGED <<sessions, told, mixed>>

-----------------------------------------------------------------------------
Viewer == \/ \E i \in Id : StartSession(i) \/ Close(i) \/ FrameRequest(i)
          \/ StopAll

Vnc(s) == VncVersion(s) \/ VncSecurity(s) \/ VncAuth(s) \/ VncServerInit(s) \/ VncReady(s)
          \/ VncUpdate(s) \/ VncBreaks(s)

Rdp(s) == RdpTcpOpens(s) \/ RdpNegotiates(s) \/ RdpTlsUp(s) \/ RdpMcs(s) \/ RdpAttach(s)
          \/ RdpJoin(s) \/ RdpLicense(s) \/ RdpDemandActive(s)
          \/ TimesOut(s) \/ RdpBreaksEarly(s) \/ RdpCloses(s) \/ RdpErrors(s) \/ RdpReconnect(s) \/ RdpUpdate(s)

RdNext == Viewer \/ \E s \in Session : Vnc(s) \/ Rdp(s)

\* Node's timers fire and its sockets report; the servers and the viewer promise nothing.
RdFairness == \A s \in Session : WF_rdVars(TimesOut(s)) /\ WF_rdVars(RdpReconnect(s))

RdSpec == RdInit /\ [][RdNext]_rdVars /\ RdFairness

-----------------------------------------------------------------------------
(* A tunnel that runs can be stopped: an open bridge is the one its id     *)
(* maps to, so a close frame or a lost link reaches it -- unless the id    *)
(* was started again while an earlier session of it could still act        *)
(* (manager._onSession overwrites the entry, a late failure deletes it).   *)
Stoppable ==
    \A s \in Session : sess[s].open => sessions[Owner(s)] = s \/ Owner(s) \in mixed

(* What the viewer was last told is true: after "ready" the id has an      *)
(* active session, after "closed" no session of the id has an open         *)
(* connection -- with the same exception.                                  *)
NewsIsTrue ==
    \A i \in Id \ mixed :
        /\ told[i] = "ready" => sessions[i] # None /\ sess[sessions[i]].active
        /\ told[i] = "closed" =>
               \A s \in Session : Used(s) /\ Owner(s) = i => ~sess[s].open

(* The pipeline of a VNC session neither stalls nor doubles: while the     *)
(* bridge is open, a request is marked pending exactly when the server     *)
(* owes an update, and a buffered request always waits for such an update  *)
(* (the cursor-only updates that deadlocked it included).                  *)
OneInFlight ==
    \A s \in Session :
        IsVnc(s) /\ sess[s].active /\ sess[s].open =>
            /\ sess[s].pending <=> sess[s].owed
            /\ sess[s].buffered => sess[s].pending

(* A start of an RDP session that waits for the server's next packet is    *)
(* settled in the end, stopped or not; and a session that lost its         *)
(* connection is running again or over.                                    *)
Unsettled(s) == Reading(s) /\ sess[s].promise = "pending"

Between(s) == ~IsVnc(s) /\ sess[s].phase = "delay" /\ sess[s].open

RdpSettles ==
    \A s \in Session :
        /\ Unsettled(s) ~> sess[s].promise # "pending" \/ sess[s].phase = "tls"
        /\ Between(s) ~> ~Between(s)

\* A tunnel can be stopped, what is told of it is true and its pipeline goes on:
\* the safety of the session managers, in the parts above.
TunnelsHold == RdTypeOK /\ Stoppable /\ NewsIsTrue /\ OneInFlight
=============================================================================
