------------------------------ MODULE Sessions -------------------------------
(* A session of a stage with its provider (internal/annotator): one process *)
(* and thread of the Codex app-server (codex_session.go, codex_protocol.go, *)
(* codex_appserver.go), or a message history sent again with every request, *)
(* to an endpoint or through the relay (openai_compatible.go, mac_relay.go).*)
(* The executor opens it, asks, asks again when the answer is refused, and  *)
(* closes it (stage_executor.go; History.tla has what is recorded of it).   *)
(*                                                                          *)
(* An answer is what it was given to: a turn, after the turns before it.    *)
(* The app-server writes what it likes, on several threads, but a turn's    *)
(* messages between its request and its end.                                *)
EXTENDS Integers, Sequences

CONSTANTS
    Transports,     \* "codex_app_server" and "history"
    MaxTurns,       \* bound: turns of a session
    MaxNoise,       \* bound: messages of other threads
    MaxLines        \* maxProtocolBytes, in messages

VARIABLES
    transport,
    session,    \* what the client waits for
    replies,    \* what Turn returned, in order
    messages,   \* the history a session without a process keeps
    stream,     \* stdout of the app-server, unread
    serving,    \* the turn the app-server works at, and what it has said of it
    noise,
    reading,    \* turnID, whether the response was seen, the text so far
    total,      \* messages read
    process,    \* the app-server and its private directory
    directory

serverVars  == <<stream, serving, noise>>
clientVars  == <<session, replies, messages, reading, total, process, directory>>
sessionVars == <<transport, serverVars, clientVars>>

NoText  == [turn |-> -1, after |-> <<>>]
Unread   == [turn |-> 0, seen |-> FALSE, text |-> NoText]
Nowhere == [turn |-> 0, responded |-> TRUE, told |-> FALSE, ended |-> TRUE]
Counting(n) == [i \in 1 .. n |-> i]

SessionsInit ==
    /\ transport \in Transports
    /\ session = "closed" /\ replies = <<>> /\ messages = <<>>
    /\ stream = <<>> /\ serving = Nowhere /\ noise = 0
    /\ reading = Unread /\ total = 0
    /\ process = "none" /\ directory = FALSE

Codex   == transport = "codex_app_server"
Asked   == Len(replies) + 1
Quiet   == UNCHANGED <<transport, serverVars>>

-----------------------------------------------------------------------------
(* The app-server.                                                          *)

Response(ok) == [kind |-> "response", ok |-> ok]
Says(m)      == stream' = Append(stream, m) /\ UNCHANGED <<transport, clientVars>>

\* initialize and thread/start are answered, or refused.
AnswersCall ==
    /\ Codex /\ session \in {"initialize", "thread/start"} /\ process = "running" /\ stream = <<>>
    /\ \E ok \in BOOLEAN : Says(Response(ok))
    /\ UNCHANGED <<serving, noise>>

\* The response to turn/start may come after the first notifications.
RespondsToTurn ==
    /\ session = "turn" /\ process = "running" /\ ~serving.responded
    /\ serving' = [serving EXCEPT !.responded = TRUE]
    /\ \E ok \in BOOLEAN : Says(Response(ok))
    /\ UNCHANGED noise

ItemCompleted(thread, turn, type) ==
    [kind |-> "item/completed", thread |-> thread, turn |-> turn, type |-> type,
     text |-> IF thread = "own" THEN [turn |-> turn, after |-> Counting(turn - 1)]
              ELSE [turn |-> 0, after |-> <<>>]]
TurnCompleted(thread, turn, status) ==
    [kind |-> "turn/completed", thread |-> thread, turn |-> turn, status |-> status]
Approval == [kind |-> "approval"]

Notifies ==
    /\ session = "turn" /\ process = "running" /\ ~serving.ended
    /\ \/ /\ ~serving.told
          /\ \E type \in {"agentMessage", "reasoning", "commandExecution"} :
                Says(ItemCompleted("own", serving.turn, type))
          /\ serving' = [serving EXCEPT !.told = TRUE]
       \/ /\ \E status \in {"completed", "failed"} : Says(TurnCompleted("own", serving.turn, status))
          /\ serving' = [serving EXCEPT !.ended = TRUE]
    /\ UNCHANGED noise

\* Another thread of the same process, and what a client has to refuse.
Interrupts ==
    /\ session = "turn" /\ process = "running" /\ noise < MaxNoise /\ noise' = noise + 1
    /\ \E m \in {ItemCompleted("other", 0, "agentMessage"), TurnCompleted("other", 0, "completed"), Approval} : Says(m)
    /\ UNCHANGED serving

-----------------------------------------------------------------------------
(* Opening and closing.                                                     *)

\* OpenSession starts a process in a directory of its own, or only keeps
\* what was configured.
OpenSession ==
    /\ session = "closed" /\ process = "none" /\ replies = <<>>
    /\ IF Codex
       THEN /\ session' = "initialize"
            /\ process' = "running" /\ directory' = TRUE
       ELSE session' = "open" /\ UNCHANGED <<process, directory>>
    /\ UNCHANGED <<replies, messages, reading, total>> /\ Quiet

\* The process is stopped, the context canceled and the directory removed.
CleanUp ==
    /\ session' = "ended" /\ messages' = <<>>
    /\ process' = IF Codex THEN "stopped" ELSE process
    /\ directory' = FALSE
    /\ UNCHANGED <<replies, reading>>

CloseSession == session = "open" /\ CleanUp /\ UNCHANGED total /\ Quiet

\* A failed turn stops the process and marks the session closed, so the
\* executor's Close finds nothing to do: the directory stays.
FailTurn ==
    /\ session' = "ended"
    /\ process' = IF Codex THEN "stopped" ELSE process
    /\ UNCHANGED <<replies, messages, reading, directory>>

-----------------------------------------------------------------------------
(* Turns.                                                                   *)

StartTurn ==
    /\ session = "open" /\ Len(replies) < MaxTurns
    /\ session' = "turn" /\ reading' = Unread
    /\ serving' = IF Codex THEN [turn |-> Asked, responded |-> FALSE, told |-> FALSE, ended |-> FALSE]
                  ELSE serving
    /\ UNCHANGED <<transport, replies, messages, stream, noise, total, process, directory>>

Return(answer) == replies' = Append(replies, answer) /\ session' = "open"

\* The endpoint, or the worker's, is sent the history and the prompt; prompt
\* and answer join the history.
CompleteChat ==
    /\ ~Codex /\ session = "turn"
    /\ \/ /\ Return([turn |-> Asked, after |-> messages])
          /\ messages' = Append(messages, Asked)
          /\ UNCHANGED <<reading, process, directory>>
       \/ FailTurn
    /\ UNCHANGED total /\ Quiet

\* Faulty: a message of any thread.
AnyThreadItem(m) == reading.turn = 0 \/ m.turn = reading.turn

OwnItem(m) == m.thread = "own" /\ (reading.turn = 0 \/ m.turn = reading.turn)
OwnEnd(m)  == m.thread = "own" /\ (reading.turn = 0 \/ m.turn = reading.turn)

\* Text, or nothing of interest, or the use of a tool.
ReadItem(m) ==
    IF ~OwnItem(m) \/ m.type = "reasoning" THEN UNCHANGED <<session, replies, messages, reading, process, directory>>
    ELSE IF m.type = "agentMessage"
    THEN reading' = [reading EXCEPT !.text = m.text]
         /\ UNCHANGED <<session, replies, messages, process, directory>>
    ELSE FailTurn

ReadEnd(m) ==
    IF ~OwnEnd(m) THEN UNCHANGED <<session, replies, messages, reading, process, directory>>
    ELSE IF m.status = "completed" /\ reading.seen /\ reading.text # NoText
    THEN Return(reading.text) /\ UNCHANGED <<messages, reading, process, directory>>
    ELSE FailTurn

ReadResponse(m) ==
    IF m.ok THEN reading' = [reading EXCEPT !.seen = TRUE, !.turn = Asked]
                 /\ UNCHANGED <<session, replies, messages, process, directory>>
    ELSE FailTurn

\* next: the line is counted before it is looked at.
ReadTurn ==
    /\ session = "turn" /\ stream # <<>>
    /\ stream' = Tail(stream)
    /\ LET m == Head(stream) IN
       IF total = MaxLines \/ m.kind = "approval" THEN FailTurn
       ELSE CASE m.kind = "response"       -> ReadResponse(m)
              [] m.kind = "item/completed" -> ReadItem(m)
              [] m.kind = "turn/completed" -> ReadEnd(m)
    /\ total' = total + 1
    /\ UNCHANGED <<transport, serving, noise>>

\* call: next counts here too; what is not the response is passed over, and
\* here there is nothing else.
ReadCall ==
    /\ session \in {"initialize", "thread/start"} /\ stream # <<>>
    /\ stream' = Tail(stream)
    /\ IF total # MaxLines /\ Head(stream).ok
       THEN /\ session' = IF session = "initialize" THEN "thread/start" ELSE "open"
            /\ UNCHANGED <<replies, messages, reading, process, directory>>
       ELSE CleanUp
    /\ total' = total + 1
    /\ UNCHANGED <<transport, serving, noise>>

\* The session's deadline, its caller's, or the end of the process.
BreakOff ==
    /\ Codex
    /\ \/ session = "turn" /\ FailTurn
       \/ session \in {"initialize", "thread/start"} /\ CleanUp
    /\ UNCHANGED total /\ Quiet

SessionsNext ==
    \/ AnswersCall \/ RespondsToTurn \/ Notifies \/ Interrupts
    \/ OpenSession \/ CloseSession \/ StartTurn \/ CompleteChat
    \/ ReadTurn \/ ReadCall \/ BreakOff

SessionsSpec == SessionsInit /\ [][SessionsNext]_sessionVars

-----------------------------------------------------------------------------

\* Every answer is the answer to its own turn, given after the turns before
\* it, whatever else the process said and in whatever order: a correction is
\* asked for in the conversation it corrects ("Corrections run in the same
\* logical session", provider.go).
AnswersFollowTheirConversation ==
    \A k \in 1 .. Len(replies) : replies[k] = [turn |-> k, after |-> Counting(k - 1)]
=============================================================================
