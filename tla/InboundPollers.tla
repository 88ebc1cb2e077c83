--------------------------- MODULE InboundPollers ---------------------------
(***************************************************************************)
(* The pollers that bring messages of an outside service into TODO.md: the  *)
(* webhook server over HTTP, a Discord channel, a mailbox.  Each remembers  *)
(* in its own way how far it is, tells the service in its own way that a    *)
(* message was taken, and writes the task at another moment of that.        *)
(***************************************************************************)
EXTENDS Naturals, Sequences

CONSTANTS
    MaxMsg, MaxCopies, MaxFaults,   \* bounds
    Poll                            \* bound: polls of one poller at once

VARIABLES
    source,     \* whose poller
    sent, what, \* the messages of the service, in order
    mark,       \* the service was told: received, \Seen
    patch,      \* PATCH requests on the way
    cursor,     \* lastProcessedId, lastMessageId
    etag,
    queue,
    poll,       \* what a poll is about to do
    life,
    effect,     \* history: how often a message became a task, or a command was run
    trouble,    \* history: what befell a message
    faults

service == <<source, sent, what, mark, patch>>
memory == <<cursor, etag, queue, poll>>
history == <<effect, trouble, faults>>
vars == <<service, memory, life, history>>

Msg == 1..MaxMsg

Source == {"webhook", "discord", "email"}

What == {"task", "command", "other"}

Trouble == {"append", "fetch", "error body", "patch", "flag", "crash", "overlap", "missed", "unseeded"}

\* No message, or no ETag yet.
None == MaxMsg + 1

Idle == [at |-> "idle", msg |-> None, rest |-> {}]

TypeOK ==
    /\ source \in Source /\ sent \in 0..MaxMsg
    /\ what \in [Msg -> What] /\ mark \subseteq Msg /\ patch \subseteq Msg
    /\ cursor \in 0..MaxMsg /\ etag \in 0..None
    /\ queue \in Seq(Msg) /\ Len(queue) <= MaxMsg * MaxCopies
    /\ poll \in [Poll -> [at : {"idle", "next", "detail", "attachment", "append", "flag"},
                          msg : Msg \cup {None}, rest : SUBSET Msg]]
    /\ life \in {"up", "down"}
    /\ effect \in [Msg -> 0..MaxCopies] /\ trouble \in [Msg -> SUBSET Trouble]
    /\ faults \in 0..MaxFaults

Init ==
    /\ source \in Source /\ sent = 0 /\ what = [m \in Msg |-> "other"]
    /\ mark = {} /\ patch = {}
    /\ cursor = 0 /\ etag = None /\ queue = <<>>
    /\ poll = [p \in Poll |-> Idle]
    /\ life = "up"
    /\ effect = [m \in Msg |-> 0] /\ trouble = [m \in Msg |-> {}]
    /\ faults = 0

-----------------------------------------------------------------------------
(* The service. *)

\* A mail is never a command.
Arrives(w) ==
    /\ sent < MaxMsg /\ (source = "email" => w # "command")
    /\ sent' = sent + 1
    /\ what' = [what EXCEPT ![sent + 1] = w]
    /\ UNCHANGED <<source, mark, patch, memory, life, history>>

\* What the service would still hand out.
Unmarked == (1..sent) \ mark

Oldest(S) == CHOOSE m \in S : \A n \in S : m <= n

-----------------------------------------------------------------------------
(* What polls share. *)

Due(p, at) == life = "up" /\ poll[p].at = at

Fails == faults < MaxFaults /\ faults' = faults + 1

Befalls(S, t) == trouble' = [m \in Msg |-> IF m \in S THEN trouble[m] \cup {t} ELSE trouble[m]]

To(p, at) == poll' = [poll EXCEPT ![p].at = at]

Ends(p) == poll' = [poll EXCEPT ![p] = Idle]

\* The message becomes a task, or the command is run.
Acts(m) == effect[m] < MaxCopies /\ effect' = [effect EXCEPT ![m] = @ + 1]

-----------------------------------------------------------------------------
(* Webhook: the list, the one log, the append, the PATCH. *)

\* Mistake: the log after the one dealt with last is taken for it.
ListOffByOne(p) ==
    /\ Due(p, "idle") /\ source = "webhook" /\ \A q \in Poll : poll[q].at = "idle"
    /\ LET head == IF Unmarked = {} THEN 0 ELSE Oldest(Unmarked) IN
        /\ etag # head
        /\ etag' \in {head, etag}
        /\ IF head > cursor + 1 THEN poll' = [poll EXCEPT ![p] = [Idle EXCEPT !.at = "detail", !.msg = head]]
           ELSE UNCHANGED poll
    /\ UNCHANGED <<service, cursor, queue, life, history>>

\* pollAndAppend: the oldest log that is pending, unless nothing has changed, or
\* it is one that has been dealt with.  The server may send no ETag.
List(p) ==
    /\ Due(p, "idle") /\ source = "webhook" /\ \A q \in Poll : poll[q].at = "idle"
    /\ LET head == IF Unmarked = {} THEN 0 ELSE Oldest(Unmarked) IN
        /\ etag # head
        /\ etag' \in {head, etag}
        /\ IF head > cursor THEN poll' = [poll EXCEPT ![p] = [Idle EXCEPT !.at = "detail", !.msg = head]]
           ELSE UNCHANGED poll
    /\ UNCHANGED <<service, cursor, queue, life, history>>

\* ackReceived.
Ack(m) == patch' = patch \cup {m} /\ cursor' = m

\* The log itself: a request that fails; an answer without a payload, which a 404 or
\* a 500 is as well; something that is no task; a command; a task.
Detail(p) ==
    LET m == poll[p].msg IN
    /\ Due(p, "detail")
    /\ \/ Fails /\ Befalls({m}, "fetch") /\ Ends(p) /\ UNCHANGED <<patch, cursor, effect>>
       \/ Fails /\ Befalls({m}, "error body") /\ Ack(m) /\ Ends(p) /\ UNCHANGED effect
       \/ what[m] = "other" /\ Ack(m) /\ Ends(p) /\ UNCHANGED history
       \/ what[m] = "command" /\ Ack(m) /\ Ends(p) /\ Acts(m) /\ UNCHANGED <<trouble, faults>>
       \/ what[m] = "task" /\ To(p, "append") /\ UNCHANGED <<patch, cursor, history>>
    /\ UNCHANGED <<source, sent, what, mark, etag, queue, life>>

\* Mistake: the log is acknowledged whether or not the task was written.
QueuedAlways(p) ==
    LET m == poll[p].msg IN
    /\ Due(p, "append") /\ source = "webhook"
    /\ \/ Acts(m) /\ UNCHANGED <<trouble, faults>>
       \/ Fails /\ Befalls({m}, "append") /\ UNCHANGED effect
    /\ Ack(m) /\ Ends(p)
    /\ UNCHANGED <<source, sent, what, mark, etag, queue, life>>

\* The append, and the acknowledgement if it has worked.
Queued(p) ==
    LET m == poll[p].msg IN
    /\ Due(p, "append") /\ source = "webhook"
    /\ \/ Acts(m) /\ Ack(m) /\ UNCHANGED <<trouble, faults>>
       \/ Fails /\ Befalls({m}, "append") /\ UNCHANGED <<patch, cursor, effect>>
    /\ Ends(p)
    /\ UNCHANGED <<source, sent, what, mark, etag, queue, life>>

\* Nobody looks at what becomes of the PATCH.
Patched(m) ==
    /\ m \in patch /\ patch' = patch \ {m}
    /\ \/ mark' = mark \cup {m} /\ UNCHANGED history
       \/ Fails /\ Befalls({m}, "patch") /\ UNCHANGED <<mark, effect>>
    /\ UNCHANGED <<source, sent, what, memory, life>>

-----------------------------------------------------------------------------
(* Discord: the messages after the cursor, their attachments, the queue. *)

\* Messages that another poll has in hand.
InPoll(p) == poll[p].rest \cup ({poll[p].msg} \cap Msg)

\* _fetchNewMessages.  Nothing keeps the next tick from polling beside this one.
Fetch(p) ==
    /\ Due(p, "idle") /\ source = "discord"
    /\ LET new == (1..sent) \ 1..cursor
           twice == {m \in new : \E q \in Poll : m \in InPoll(q)} IN
        \/ /\ poll' = [poll EXCEPT ![p] = [Idle EXCEPT !.at = "next", !.rest = new]]
           /\ Befalls(twice, "overlap") /\ UNCHANGED faults
        \/ Fails /\ To(p, "next") /\ UNCHANGED trouble
    /\ UNCHANGED <<service, cursor, etag, queue, life, effect>>

\* The cursor moves before anything else is done; attachments are waited for.
Take(p) ==
    LET m == Oldest(poll[p].rest) IN
    /\ Due(p, "next") /\ source = "discord" /\ poll[p].rest # {}
    /\ cursor' = IF m > cursor THEN m ELSE cursor
    /\ poll' = [poll EXCEPT ![p] = [at |-> IF what[m] = "other" THEN "next" ELSE "attachment",
                                    msg |-> IF what[m] = "other" THEN None ELSE m,
                                    rest |-> @.rest \ {m}]]
    /\ UNCHANGED <<service, etag, queue, life, history>>

\* A command runs; a task is queued and its sender is told.  An attachment that
\* cannot be written ends the fetch, and the rest is left to the next one.
Taken(p) ==
    LET m == poll[p].msg IN
    /\ Due(p, "attachment")
    /\ \/ /\ poll' = [poll EXCEPT ![p] = [@ EXCEPT !.at = "next", !.msg = None]]
          /\ \/ what[m] = "command" /\ Acts(m) /\ UNCHANGED queue
             \/ /\ what[m] = "task" /\ Len(queue) < MaxMsg * MaxCopies
                /\ queue' = Append(queue, m) /\ UNCHANGED effect
          /\ UNCHANGED <<trouble, faults>>
       \/ /\ Fails /\ Befalls({m}, "fetch")
          /\ poll' = [poll EXCEPT ![p] = [Idle EXCEPT !.at = "next"]]
          /\ UNCHANGED <<queue, effect>>
    /\ UNCHANGED <<service, cursor, etag, life>>

\* _drainQueue: one task per poll.
Drain(p) ==
    /\ Due(p, "next") /\ source = "discord" /\ poll[p].rest = {}
    /\ IF queue = <<>> THEN Ends(p) /\ UNCHANGED queue
       ELSE /\ queue' = Tail(queue)
            /\ poll' = [poll EXCEPT ![p] = [Idle EXCEPT !.at = "append", !.msg = Head(queue)]]
    /\ UNCHANGED <<service, cursor, etag, life, history>>

\* The append, whatever becomes of it.
Drained(p) ==
    LET m == poll[p].msg IN
    /\ Due(p, "append") /\ source = "discord"
    /\ \/ Acts(m) /\ UNCHANGED <<trouble, faults>>
       \/ Fails /\ Befalls({m}, "append") /\ UNCHANGED effect
    /\ Ends(p)
    /\ UNCHANGED <<service, cursor, etag, queue, life>>

-----------------------------------------------------------------------------
(* Mail: the search, the message, the append, the flag. *)

Search(p) ==
    /\ Due(p, "idle") /\ source = "email" /\ \A q \in Poll : poll[q].at = "idle"
    /\ Unmarked # {}
    /\ poll' = [poll EXCEPT ![p] = [Idle EXCEPT !.at = "next", !.rest = Unmarked]]
    /\ UNCHANGED <<service, cursor, etag, queue, life, history>>

\* A message of somebody who may send none stays unseen; one that cannot be read or
\* saved is flagged, so that it is not read over and over.
Read(p) ==
    LET m == Oldest(poll[p].rest)
        goes(at) == poll' = [poll EXCEPT ![p] = [at |-> at, msg |-> IF at = "next" THEN None ELSE m, rest |-> @.rest \ {m}]]
    IN
    /\ Due(p, "next") /\ source = "email" /\ poll[p].rest # {}
    /\ \/ what[m] = "other" /\ goes("next") /\ UNCHANGED <<trouble, faults>>
       \/ what[m] # "other" /\ goes("append") /\ UNCHANGED <<trouble, faults>>
       \/ Fails /\ Befalls({m}, "fetch") /\ goes("flag")
    /\ UNCHANGED <<service, cursor, etag, queue, life, effect>>

\* The append; a failure leads to the same flag.
Saved(p) ==
    LET m == poll[p].msg IN
    /\ Due(p, "append") /\ source = "email"
    /\ \/ Acts(m) /\ UNCHANGED <<trouble, faults>>
       \/ Fails /\ Befalls({m}, "append") /\ UNCHANGED effect
    /\ To(p, "flag")
    /\ UNCHANGED <<service, cursor, etag, queue, life>>

Flag(p) ==
    LET m == poll[p].msg IN
    /\ Due(p, "flag")
    /\ mark' = mark \cup {m}
    /\ poll' = [poll EXCEPT ![p] = [@ EXCEPT !.at = "next", !.msg = None]]
    /\ UNCHANGED <<source, sent, what, patch, cursor, etag, queue, life, history>>

\* The connection to the mailbox is gone: what is left to do fails, and the next
\* poll starts over.
Dropped(p) ==
    /\ life = "up" /\ source = "email" /\ poll[p].at \in {"next", "flag"}
    /\ Fails
    /\ IF poll[p].at = "flag" THEN Befalls({poll[p].msg}, "flag") ELSE UNCHANGED trouble
    /\ Ends(p)
    /\ UNCHANGED <<service, cursor, etag, queue, life, effect>>

SearchEnds(p) ==
    /\ Due(p, "next") /\ source = "email" /\ poll[p].rest = {}
    /\ Ends(p)
    /\ UNCHANGED <<service, cursor, etag, queue, life, history>>

-----------------------------------------------------------------------------
(* The process. *)

\* In a poller's memory, and nowhere else.
InHand == {queue[i] : i \in 1..Len(queue)} \cup UNION {InPoll(p) : p \in Poll}

\* What the service has not been told and a poller has acted on, and what is in
\* its hands, is what a crash spoils.
Crash ==
    /\ life = "up" /\ Fails /\ life' = "down"
    /\ Befalls({m \in Msg \ mark : effect[m] > 0} \cup InHand, "crash")
    /\ patch' \in {patch, {}}
    /\ cursor' = 0 /\ etag' = None /\ queue' = <<>> /\ poll' = [p \in Poll |-> Idle]
    /\ UNCHANGED <<source, sent, what, mark, effect>>

\* start: initialize() puts the Discord cursor at the latest message, or fails to.
Restart ==
    /\ life = "down" /\ life' = "up"
    /\ IF source # "discord" THEN UNCHANGED <<cursor, trouble, faults>>
       ELSE \/ cursor' = sent /\ UNCHANGED faults
               /\ Befalls({m \in 1..sent : effect[m] = 0}, "missed")
            \/ Fails /\ UNCHANGED cursor
               /\ Befalls(1..sent, "unseeded")
    /\ UNCHANGED <<service, etag, queue, poll, effect>>

Runs(p) ==
    \/ List(p) \/ Detail(p) \/ Queued(p)
    \/ Fetch(p) \/ Take(p) \/ Taken(p) \/ Drain(p) \/ Drained(p)
    \/ Search(p) \/ Read(p) \/ Saved(p) \/ Flag(p) \/ SearchEnds(p)

Next ==
    \/ \E w \in What : Arrives(w)
    \/ \E p \in Poll : Runs(p) \/ Dropped(p)
    \/ \E m \in Msg : Patched(m)
    \/ Crash \/ Restart

\* Timers start polls, and every request ends.
Fairness == (\A p \in Poll : WF_vars(Runs(p))) /\ \A m \in Msg : WF_vars(Patched(m))

Spec == Init /\ [][Next]_vars /\ Fairness

-----------------------------------------------------------------------------
(* Properties. *)

\* The poller will not look at a message again.
Past(m) == CASE source = "webhook" -> m <= cursor \/ m \in mark
             [] source = "discord" -> m <= cursor
             [] source = "email" -> m \in mark

LossOf == [webhook |-> {"error body"}, discord |-> {"append", "fetch", "crash", "missed"}, email |-> {"append", "fetch"}]

\* A message that was passed without a task, or a command run, has met with one of the
\* mishaps its poller does not survive: over HTTP an error in place of the log, in
\* Discord a failed write or a restart, in a mailbox a failed append or read
\* (HttpWebhookPoller, DiscordPoller, EmailTaskPoller: pollAndAppend).
LostComesFrom ==
    \A m \in Msg : m <= sent /\ what[m] # "other" /\ Past(m) /\ effect[m] = 0 /\ m \notin InHand
        => trouble[m] \cap LossOf[source] # {}

CopyOf == [webhook |-> {"crash"}, discord |-> {"overlap", "unseeded"}, email |-> {"crash", "flag"}]

\* A message becomes a task twice only after a crash (webhook), after polls that
\* overlapped or a restart that did not find the end of the channel (Discord), or
\* after a crash or a lost connection (mail).
CopiesComeFrom == \A m \in Msg : effect[m] > 1 => trouble[m] \cap CopyOf[source] # {}

\* A PATCH that is lost, or a failure after the ETag was stored, holds up this log
\* and all that come after it; the other pollers lose no more than the message.
Excused(m) ==
    \/ life = "down"
    \/ source = "webhook" /\ \E k \in 1..m : trouble[k] # {}
    \/ source # "webhook" /\ trouble[m] \cap LossOf[source] # {}

Wanted(m) == m <= sent /\ what[m] # "other"
Met(m) == effect[m] > 0 \/ Excused(m)

\* Every message is acted on in the end, unless a mishap excuses it (_startPollers).
Delivered == \A m \in Msg : Wanted(m) ~> Met(m)
=============================================================================
