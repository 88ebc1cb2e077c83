---------------------------- MODULE OperateCalls ----------------------------
(***************************************************************************)
(* The requests a bridge serves (dispatch of mcpOperate.ts).  A client, or  *)
(* in HTTP mode several, calls tools; the bridge passes a call to the       *)
(* office as a frame on its socket and, when that fails or takes 20 s, once *)
(* more over HTTP.  It remembers which tasks were started, and completes    *)
(* what is left of them when a client goes to wait for events.              *)
(***************************************************************************)
EXTENDS Naturals, FiniteSets

CONSTANTS
    Call,       \* calls that may be under way at once
    Client, CallId, \* a client numbers its calls from 1, as others do
    Frame,      \* bound: frames in flight
    Task,
    EventCap,   \* EVENT_CAP
    MaxCalls, MaxFaults     \* bounds

VARIABLES
    mode,       \* "stdio": one client; "http": any number
    link,       \* the socket to the office
    call, frame,
    wsPending,  \* who waits for the reply with an id
    startedTasks,
    office,     \* status of a task
    events, eventWaiter,
    life,       \* "open", "closed": no more input, "over"
    odd,        \* history: what happened out of the ordinary
    untold,     \* history: tasks whose start, or completion by the bridge, has failed
    again,      \* history: tasks that were done when the bridge completed them
    made, faults

bridge == <<call, wsPending, startedTasks>>
wait == <<events, eventWaiter>>
history == <<odd, untold, again>>
vars == <<mode, link, bridge, frame, office, wait, life, history, made, faults>>

Tool == {"start_task", "complete_task", "wait_for_events", "ask_user"}

Direct == {"start_task", "complete_task"}

NoCall == [at |-> "free", client |-> "none", id |-> 0, tool |-> "none", task |-> "none", rest |-> {}]

NoFrame == [at |-> "none", key |-> 0, from |-> "none", client |-> "none", does |-> "none", task |-> "none"]

TypeOK ==
    /\ mode \in {"stdio", "http"} /\ link \in {"up", "down"}
    /\ call \in [Call -> [at : {"free", "ws", "http", "parked", "asking"}, client : Client \cup {"none"},
                          id : CallId \cup {0}, tool : Tool \cup {"none"}, task : Task \cup {"none"},
                          rest : SUBSET Task]]
    /\ frame \in [Frame -> [at : {"none", "out", "cut off", "back", "error"}, key : CallId \cup {0},
                            from : Call \cup {"none"}, client : Client \cup {"none"},
                            does : Tool \cup {"none"}, task : Task \cup {"none"}]]
    /\ wsPending \in [CallId -> Call \cup {"none"}]
    /\ startedTasks \subseteq Task
    /\ office \in [Task -> {"pending", "in-progress", "done"}]
    /\ events \in 0..EventCap /\ eventWaiter \in Call \cup {"none"}
    /\ life \in {"open", "closed", "over"}
    /\ odd \subseteq {"retried", "parallel", "mixed", "crowded", "unheard"}
    /\ untold \subseteq Task /\ again \subseteq Task
    /\ made \in 0..MaxCalls /\ faults \in 0..MaxFaults

Init ==
    /\ mode \in {"stdio", "http"} /\ link = "up"
    /\ call = [s \in Call |-> NoCall] /\ frame = [f \in Frame |-> NoFrame]
    /\ wsPending = [i \in CallId |-> "none"]
    /\ startedTasks = {}
    /\ office = [t \in Task |-> "pending"]
    /\ events = 0 /\ eventWaiter = "none"
    /\ life = "open"
    /\ odd = {} /\ untold = {} /\ again = {}
    /\ made = 0 /\ faults = 0

-----------------------------------------------------------------------------
(* What a call asks of the office. *)

\* A wait has its open tasks completed.
Does(c) == IF c.tool = "wait_for_events" THEN "complete_task" ELSE c.tool

\* The bridge's own calls have ids nobody else uses.
Own(c) == c.tool \notin Direct

Refused(d, t) == d = "start_task" /\ office[t] = "done"

\* The office does it, for a client or for the bridge.
Run(d, t, own) ==
    /\ office' = CASE d = "complete_task" -> [office EXCEPT ![t] = "done"]
                   [] d = "start_task" /\ ~Refused(d, t) -> [office EXCEPT ![t] = "in-progress"]
                   [] OTHER -> office
    /\ again' = IF own /\ d = "complete_task" /\ office[t] = "done" THEN again \cup {t} ELSE again

-----------------------------------------------------------------------------
(* The way there.  A step that ends one thing and begins another passes the  *)
(* frames on as its first half has left them.                                *)

\* Which place a frame or a call takes does not matter.
Pick(S) == CHOOSE x \in S : TRUE

\* 0 for an id nobody else uses.
Key(c) == IF Own(c) THEN 0 ELSE c.id

FrameOf(s, c) ==
    [at |-> "out", key |-> Key(c), from |-> s, client |-> c.client, does |-> Does(c), task |-> c.task]

\* Nobody is left who asked.
Disowned(s, frames) ==
    [f \in Frame |-> IF frames[f].from = s THEN [frames[f] EXCEPT !.from = "none"] ELSE frames[f]]

FreeFrames(frames) == {f \in Frame : frames[f].at = "none"}

\* callOffice: a frame when the socket is up, else HTTP.
Send(s, c, frames) ==
    \/ /\ link = "up" /\ FreeFrames(frames) # {}
       /\ frame' = [frames EXCEPT ![Pick(FreeFrames(frames))] = FrameOf(s, c)]
       /\ call' = [call EXCEPT ![s] = [c EXCEPT !.at = "ws"]]
    \/ /\ link = "down"
       /\ call' = [call EXCEPT ![s] = [c EXCEPT !.at = "http"]]
       /\ frame' = frames

Busy == {s \in Call : call[s].at # "free"}

\* The reply goes to the client; maybeExit.
Finished(s, frames) ==
    /\ call' = [call EXCEPT ![s] = NoCall]
    /\ frame' = Disowned(s, frames)
    /\ life' = IF life # "open" /\ Busy \subseteq {s} THEN "over" ELSE life

Parked(s) == call[s].at = "parked"

\* wait_for_events, once the tasks are dealt with: what is queued, or a place in
\* the one slot there is for somebody who waits.
Park(s, c, frames, o) ==
    IF events > 0
    THEN /\ events' = 0 /\ odd' = o
         /\ Finished(s, frames)
         /\ UNCHANGED eventWaiter
    ELSE /\ call' = [call EXCEPT ![s] = [c EXCEPT !.at = "parked", !.task = "none"]]
         /\ eventWaiter' = s
         /\ odd' = IF \E r \in Call : Parked(r) THEN o \cup {"crowded"} ELSE o
         /\ frame' = Disowned(s, frames)
         /\ UNCHANGED <<events, life>>

\* One turn of reconcileOpenTasks: forget a task, then complete it.
Reconcile(s, c, frames, o) ==
    \/ /\ c.rest = {}
       /\ Park(s, c, frames, o)
       /\ UNCHANGED startedTasks
    \/ \E t \in c.rest :
        /\ startedTasks' = startedTasks \ {t}
        /\ Send(s, [c EXCEPT !.task = t, !.rest = @ \ {t}], Disowned(s, frames))
        /\ odd' = o
        /\ UNCHANGED <<wait, life>>

-----------------------------------------------------------------------------
(* Clients. *)

\* The one at the other end of the bridge's standard input.
First == Pick(Client)

\* A number is not used again while the client may still hear of it.  That of a
\* call whose tool is the bridge's own (0) plays no part.
Fresh(c, i) ==
    i # 0 =>
    /\ \A s \in Busy : ~(call[s].client = c /\ call[s].id = i)
    /\ \A f \in Frame : ~(frame[f].client = c /\ frame[f].key = i)

\* dispatch.  Two clients count alike; one gives each call a number of its own and may
\* have several under way: in one turn, or because it has given one up.
Request(s, c, i, tool, t) ==
    /\ life = "open" /\ Busy # Call /\ s = Pick(Call \ Busy) /\ made < MaxCalls
    /\ IF mode = "stdio" THEN c = First ELSE i \in {0, Pick(CallId)}
    /\ Fresh(c, i)
    /\ IF tool \in Direct THEN i # 0 /\ t # "none" ELSE i = 0 /\ t = "none" /\ c = First
    /\ made' = made + 1
    /\ LET new == [at |-> "free", client |-> c, id |-> i, tool |-> tool, task |-> t,
                   rest |-> IF tool = "wait_for_events" THEN startedTasks ELSE {}]
           o == IF Busy # {} THEN odd \cup {"parallel"} ELSE odd
       IN IF tool = "wait_for_events"
          THEN Reconcile(s, new, frame, o) /\ UNCHANGED wsPending
          ELSE /\ Send(s, new, frame)
               /\ wsPending' = IF link = "up" /\ Key(new) # 0 THEN [wsPending EXCEPT ![Key(new)] = s] ELSE wsPending
               /\ odd' = o
               /\ UNCHANGED <<startedTasks, wait, life>>
    /\ UNCHANGED <<mode, link, office, untold, again, faults>>

-----------------------------------------------------------------------------
(* What comes back. *)

Live == life # "over"

\* The office has done it.
Track(c) ==
    startedTasks' = CASE c.tool = "start_task" -> startedTasks \cup {c.task}
                      [] c.tool = "complete_task" -> startedTasks \ {c.task}
                      [] OTHER -> startedTasks

\* An answer.
Answered(s, frames, o) ==
    LET c == call[s] IN
    CASE c.tool = "wait_for_events" -> Reconcile(s, c, frames, o)
      [] c.tool = "ask_user" ->
            /\ call' = [call EXCEPT ![s].at = "asking"]
            /\ frame' = Disowned(s, frames) /\ odd' = o
            /\ UNCHANGED <<startedTasks, wait, life>>
      [] OTHER -> Track(c) /\ Finished(s, frames) /\ odd' = o /\ UNCHANGED wait

\* An error goes to the client, and is passed over by reconcileOpenTasks.
Failed(s, frames, o) ==
    LET c == call[s] IN
    IF c.tool = "wait_for_events" THEN Reconcile(s, c, frames, o)
    ELSE Finished(s, frames) /\ odd' = o /\ UNCHANGED <<startedTasks, wait>>

\* The office runs what a frame asks for, or does not know the tool; its reply
\* has a way back only on the connection the frame came by.
OfficeRuns(f) ==
    /\ Live /\ frame[f].at \in {"out", "cut off"}
    /\ LET r == frame[f]
           to(x) == [frame EXCEPT ![f] = IF r.at = "out" THEN [r EXCEPT !.at = x] ELSE NoFrame]
       IN \/ /\ Run(r.does, r.task, r.key = 0)
             /\ frame' = to(IF Refused(r.does, r.task) THEN "error" ELSE "back")
             /\ UNCHANGED faults
          \/ /\ faults < MaxFaults /\ faults' = faults + 1
             /\ frame' = to("error")
             /\ UNCHANGED <<office, again>>
    /\ UNCHANGED <<mode, link, bridge, wait, life, odd, untold, made>>

\* The call that waits under the id of a reply.
Waits(f) == IF frame[f].key # 0 THEN wsPending[frame[f].key] ELSE frame[f].from

\* operator_response: an answer, or an error, which sends the call over HTTP.
Response(f) ==
    /\ Live /\ frame[f].at \in {"back", "error"}
    /\ LET r == frame[f]
           s == Waits(f)
           others == [frame EXCEPT ![f] = NoFrame]
           o == IF s # "none" /\ s # r.from THEN odd \cup {"mixed"} ELSE odd
       IN /\ wsPending' = IF r.key = 0 THEN wsPending ELSE [wsPending EXCEPT ![r.key] = "none"]
          /\ CASE s = "none" -> frame' = others /\ UNCHANGED <<call, startedTasks, wait, life, odd>>
               [] s # "none" /\ r.at = "back" -> Answered(s, others, o)
               [] OTHER -> /\ call' = [call EXCEPT ![s].at = "http"]
                           /\ frame' = others
                           /\ odd' = o \cup {"retried"}
                           /\ UNCHANGED <<startedTasks, wait, life>>
    /\ UNCHANGED <<mode, link, office, untold, again, made, faults>>

\* Mistake: the timer is there for the bridge's own calls only.
WsTimeoutOwn(s) ==
    /\ Live /\ call[s].at = "ws" /\ Own(call[s])
    /\ call' = [call EXCEPT ![s].at = "http"]
    /\ frame' = Disowned(s, frame)
    /\ odd' = odd \cup {"retried"}
    /\ UNCHANGED <<mode, link, wsPending, startedTasks, office, wait, life, untold, again, made, faults>>

\* 20 s: whoever waits under the id does so no longer.
WsTimeout(s) ==
    /\ Live /\ call[s].at = "ws"
    /\ LET k == Key(call[s]) IN
        wsPending' = IF k = 0 THEN wsPending ELSE [wsPending EXCEPT ![k] = "none"]
    /\ call' = [call EXCEPT ![s].at = "http"]
    /\ frame' = IF Own(call[s]) THEN Disowned(s, frame) ELSE frame
    /\ odd' = odd \cup {"retried"}
    /\ UNCHANGED <<mode, link, startedTasks, office, wait, life, untold, again, made, faults>>

\* The call over HTTP: done, refused, not done, or done with the answer lost.
Http(s) ==
    /\ Live /\ call[s].at = "http"
    /\ LET c == call[s] IN
       \/ /\ Run(Does(c), c.task, Own(c))
          /\ IF Refused(Does(c), c.task) THEN Failed(s, frame, odd) ELSE Answered(s, frame, odd)
          /\ UNCHANGED <<untold, faults>>
       \/ /\ faults < MaxFaults /\ faults' = faults + 1
          /\ \/ Run(Does(c), c.task, Own(c)) /\ Failed(s, frame, odd \cup {"unheard"})
             \/ UNCHANGED <<office, again>> /\ Failed(s, frame, odd)
          /\ untold' = IF c.tool \in {"start_task", "wait_for_events"} THEN untold \cup {c.task} ELSE untold
    /\ UNCHANGED <<mode, link, wsPending, made>>

-----------------------------------------------------------------------------
(* Waiting for events, and for the user. *)

\* pushEvent: the oldest goes when there are too many; who is in the slot gets all.
Event ==
    /\ Live /\ link = "up"
    /\ IF eventWaiter = "none"
       THEN /\ events' = IF events < EventCap THEN events + 1 ELSE events
            /\ UNCHANGED <<call, frame, eventWaiter, life>>
       ELSE events' = 0 /\ eventWaiter' = "none" /\ Finished(eventWaiter, frame)
    /\ UNCHANGED <<mode, link, wsPending, startedTasks, office, history, made, faults>>

\* waitForEvent's timer empties the slot, whoever is in it.
WaitTimeout(s) ==
    /\ Live /\ Parked(s)
    /\ events' = 0 /\ eventWaiter' = "none"
    /\ Finished(s, frame)
    /\ UNCHANGED <<mode, link, wsPending, startedTasks, office, history, made, faults>>

\* ask_user: an answer, 50 s, or the end.
Asked(s) ==
    /\ Live /\ call[s].at = "asking"
    /\ Finished(s, frame)
    /\ UNCHANGED <<mode, link, wsPending, startedTasks, office, wait, history, made, faults>>

-----------------------------------------------------------------------------
(* The socket and the process. *)

LinkDown ==
    /\ Live /\ link = "up" /\ faults < MaxFaults
    /\ faults' = faults + 1
    /\ link' = "down"
    /\ frame' = [f \in Frame |-> IF frame[f].at = "out" THEN [frame[f] EXCEPT !.at = "cut off"] ELSE NoFrame]
    /\ UNCHANGED <<mode, bridge, office, wait, life, history, made>>

LinkUp ==
    /\ Live /\ link = "down"
    /\ link' = "up"
    /\ UNCHANGED <<mode, bridge, frame, office, wait, life, history, made, faults>>

\* The end of standard input.
Close ==
    /\ mode = "stdio" /\ life = "open"
    /\ life' = IF Busy = {} THEN "over" ELSE "closed"
    /\ UNCHANGED <<mode, link, bridge, frame, office, wait, history, made, faults>>

\* gracefulShutdown, and the 200 ms it leaves itself.
Signal ==
    /\ Live /\ life' = "over"
    /\ call' = [s \in Call |-> NoCall] /\ frame' = [f \in Frame |-> NoFrame]
    /\ wsPending' = [i \in CallId |-> "none"] /\ startedTasks' = {}
    /\ events' = 0 /\ eventWaiter' = "none"
    /\ UNCHANGED <<mode, link, office, history, made, faults>>

\* The bridge is gone.
Over == life = "over" /\ UNCHANGED vars

Next ==
    \/ \E s \in Call, c \in Client, i \in CallId \cup {0}, tool \in Tool, t \in Task \cup {"none"} : Request(s, c, i, tool, t)
    \/ \E f \in Frame : OfficeRuns(f) \/ Response(f)
    \/ \E s \in Call : WsTimeout(s) \/ Http(s) \/ WaitTimeout(s) \/ Asked(s)
    \/ Event \/ LinkDown \/ LinkUp \/ Close \/ Signal \/ Over

\* What ends the step a call is in.
Timer(s) == WsTimeout(s) \/ Http(s) \/ WaitTimeout(s) \/ Asked(s)

\* Timers run, and an HTTP request ends, with its own timer if with nothing else.
Fairness == \A s \in Call : WF_vars(Timer(s))

Spec == Init /\ [][Next]_vars /\ Fairness

-----------------------------------------------------------------------------
(* Properties. *)

\* A bridge on standard input never gives a call the answer to another one; in
\* HTTP mode two clients that use one id can get each other's (wsPending).
OneClientNoMix == "mixed" \in odd => mode = "http"

\* A task the office has in progress is one the bridge still knows of, or was
\* told of a failure, or was given the wrong answer about (startedTasks,
\* reconcileOpenTasks).
NoTaskForgotten ==
    \A t \in Task : Live /\ office[t] = "in-progress" =>
        \/ t \in startedTasks \cup untold
        \/ \E s \in Busy : t \in {call[s].task} \cup call[s].rest
        \/ "mixed" \in odd

\* The bridge completes a task that is done already only when calls ran side by
\* side, one was sent twice or its answer was lost (reconcileOpenTasks).
CompletesOpenTasks == again # {} => odd \cap {"parallel", "retried", "unheard"} # {}

\* A call waits beside queued events only when there were two that waited at
\* once (waitForEvent).
EventsWake == (\E s \in Call : Parked(s)) /\ events > 0 => "crowded" \in odd

Quiet == Busy = {} /\ life # "closed"

\* "Drain in-flight requests before exiting when stdin closes"
\* (mcpOperate.ts:1388): every call ends, once clients make no more of them (the
\* bound), and with the last one after the end of the input so does the process.
CallsEnd == Busy # {} ~> Quiet
=============================================================================
