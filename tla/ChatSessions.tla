---------------------------- MODULE ChatSessions ----------------------------
(***************************************************************************)
(* The Discord and Matrix bots: each message to the bot is a turn of a     *)
(* headless agent, resuming the conversation that its SessionMap holds for *)
(* the channel or room.  The Discord gateway runs its handlers             *)
(* concurrently; the Matrix sync loop awaits each before the next.  Each   *)
(* bot is a process of its own; a behaviour is one of either.              *)
(***************************************************************************)
EXTENDS Naturals

CONSTANTS
    Chats,         \* channels and rooms
    Rooms,         \* of Matrix, those that are not direct messages
    NoChat,        \* not a chat
    Handlers,      \* event handlers that may be under way
    Ttl,           \* session_ttl_seconds
    TurnTimeout    \* TURN_TIMEOUT

ASSUME ChatsAssumption ==
    /\ Rooms \subseteq Chats
    /\ NoChat \notin Chats
    /\ Ttl \in Nat
    /\ TurnTimeout \in Nat

VARIABLES
    sessions,   \* sessions[c]: the entry of the SessionMap, and its age
    shown,      \* shown[c]: active_session of the status reply
    handler,    \* handler[h]: the event h is handling
    bot,        \* which bot it is
    overrun,    \* overrun[c]: a turn was under way at the last reset of c: history
    tangled     \* tangled[c]: when the entry of c was last changed, another
                \* handler had yet to show or hide what it had done: history

chatVars == <<sessions, shown, handler, bot, overrun, tangled>>

-----------------------------------------------------------------------------
(* "old" marks a conversation begun before a reset that its chat has since *)
(* been granted; ages stop one above what they are compared with.          *)

Steps == {"idle", "turn", "keep", "drop", "show", "hide", "store", "reply"}

Entry == [held : BOOLEAN, old : BOOLEAN, age : 0..(Ttl + 1)]
NoEntry == [held |-> FALSE, old |-> FALSE, age |-> 0]

Event == [at : Steps, chat : Chats \cup {NoChat}, reset : BOOLEAN,
          old : BOOLEAN, age : 0..TurnTimeout]
NoEvent == [at |-> "idle", chat |-> NoChat, reset |-> FALSE, old |-> FALSE, age |-> 0]

ChatTypeOK ==
    /\ sessions \in [Chats -> Entry]
    /\ shown \in [Chats -> BOOLEAN]
    /\ handler \in [Handlers -> Event]
    /\ bot \in {"matrix", "discord"}
    /\ overrun \in [Chats -> BOOLEAN] /\ tangled \in [Chats -> BOOLEAN]

ChatInit ==
    /\ sessions = [c \in Chats |-> NoEntry]
    /\ shown = [c \in Chats |-> FALSE]
    /\ handler = [h \in Handlers |-> NoEvent]
    /\ bot \in {"matrix", "discord"}
    /\ overrun = [c \in Chats |-> FALSE] /\ tangled = [c \in Chats |-> FALSE]

-----------------------------------------------------------------------------
(* Receiving an event.                                                     *)

\* Mutant of Free: Matrix events are handled as they come.
FreeAnytime(h) == handler[h].at = "idle"

Free(h) ==
    /\ handler[h].at = "idle"
    /\ bot = "discord" \/ \A g \in Handlers : handler[g].at = "idle"

\* The chats of this bot.
ItsChats == IF bot = "matrix" THEN Chats ELSE Chats \ Rooms

\* A Matrix room only listens to what names the bot, and "!mynd reset" is a
\* reset only if nothing is added to it.
ResetHeeded(c) == c \notin Rooms

\* get: an entry past its TTL is removed.
Live(c) == sessions[c].held /\ sessions[c].age <= Ttl

Chat(h, c) ==
    /\ Free(h)
    /\ handler' = [handler EXCEPT ![h] =
         [at |-> "turn", chat |-> c, reset |-> FALSE, age |-> 0,
          old |-> Live(c) /\ sessions[c].old]]
    /\ sessions' = [sessions EXCEPT ![c] = IF Live(c) THEN @ ELSE NoEntry]
    /\ UNCHANGED <<shown, bot, overrun, tangled>>

\* Everything said in the chat so far is of an old conversation.
Aged(c) ==
    /\ handler' = [h \in Handlers |->
         IF handler[h].chat = c THEN [handler[h] EXCEPT !.old = TRUE] ELSE handler[h]]
    /\ sessions' = [sessions EXCEPT ![c].old = @ \/ sessions[c].held]

AskReset(h, c) ==
    /\ Free(h)
    /\ IF ResetHeeded(c)
       THEN /\ handler' = [handler EXCEPT ![h] =
                 [NoEvent EXCEPT !.at = "drop", !.chat = c, !.reset = TRUE]]
            /\ UNCHANGED sessions
       ELSE Aged(c)
    /\ UNCHANGED <<shown, bot, overrun, tangled>>

AskStore(h, c) ==
    /\ Free(h)
    /\ handler' = [handler EXCEPT ![h] = [NoEvent EXCEPT !.at = "store", !.chat = c]]
    /\ UNCHANGED <<sessions, shown, bot, overrun, tangled>>

-----------------------------------------------------------------------------
(* The steps of a handler after its first await.                           *)

GoesOn(h, from, to) ==
    /\ handler[h].at = from
    /\ handler' = [handler EXCEPT ![h].at = to]

\* Another handler has changed the entry of c, and not yet the reply.
Tangles(h) == tangled' = [tangled EXCEPT ![handler[h].chat] =
    \E g \in Handlers \ {h} : handler[g].chat = handler[h].chat /\ handler[g].at \in {"show", "hide"}]

\* run_turn: the agent answers, or fails in one way or another.
Answer(h) == GoesOn(h, "turn", "keep") /\ UNCHANGED <<sessions, shown, bot, overrun, tangled>>
Fail(h) == GoesOn(h, "turn", "drop") /\ UNCHANGED <<sessions, shown, bot, overrun, tangled>>

\* Mutant of TimeOut: wait_with_output without the timeout.
TimeOutNever(h) == FALSE /\ UNCHANGED chatVars

TimeOut(h) ==
    /\ handler[h].age = TurnTimeout
    /\ GoesOn(h, "turn", "drop")
    /\ UNCHANGED <<sessions, shown, bot, overrun, tangled>>

Keep(h) ==
    /\ GoesOn(h, "keep", "show")
    /\ sessions' = [sessions EXCEPT ![handler[h].chat] =
         [held |-> TRUE, old |-> handler[h].old, age |-> 0]]
    /\ Tangles(h)
    /\ UNCHANGED <<shown, bot, overrun>>

\* A turn that has yet to keep its conversation.
AtTurn(g) == handler[g].at \in {"turn", "keep"}

\* Mutant of Drop: a failed turn leaves the conversation in place.
DropIfReset(h) ==
    LET c == handler[h].chat
        Past(g) == handler[g].chat = c /\ handler[h].reset
    IN
    /\ handler[h].at = "drop"
    /\ handler' = [g \in Handlers |->
         [handler[g] EXCEPT !.old = @ \/ Past(g),
                            !.at = IF g = h THEN "hide" ELSE @]]
    /\ sessions' = [sessions EXCEPT ![c] = IF handler[h].reset THEN NoEntry ELSE @]
    /\ overrun' = [overrun EXCEPT ![c] = IF handler[h].reset
                                         THEN \E g \in Handlers : handler[g].chat = c /\ AtTurn(g) ELSE @]
    /\ Tangles(h)
    /\ UNCHANGED <<shown, bot>>

\* reset, for the command and for a turn that failed; only the command
\* promises a new conversation.
Drop(h) ==
    LET c == handler[h].chat
        Past(g) == handler[g].chat = c /\ handler[h].reset
    IN
    /\ handler[h].at = "drop"
    /\ handler' = [g \in Handlers |->
         [handler[g] EXCEPT !.old = @ \/ Past(g),
                            !.at = IF g = h THEN "hide" ELSE @]]
    /\ sessions' = [sessions EXCEPT ![c] = NoEntry]
    /\ overrun' = [overrun EXCEPT ![c] = IF handler[h].reset
                                         THEN \E g \in Handlers : handler[g].chat = c /\ AtTurn(g) ELSE @]
    /\ Tangles(h)
    /\ UNCHANGED <<shown, bot>>

Stored(h) == GoesOn(h, "store", "show") /\ UNCHANGED <<sessions, shown, bot, overrun, tangled>>
StoreFails(h) == GoesOn(h, "store", "reply") /\ UNCHANGED <<sessions, shown, bot, overrun, tangled>>

Show(h) ==
    /\ GoesOn(h, "show", "reply")
    /\ shown' = [shown EXCEPT ![handler[h].chat] = TRUE]
    /\ UNCHANGED <<sessions, bot, overrun, tangled>>

Hide(h) ==
    /\ GoesOn(h, "hide", "reply")
    /\ shown' = [shown EXCEPT ![handler[h].chat] = FALSE]
    /\ UNCHANGED <<sessions, bot, overrun, tangled>>

Reply(h) ==
    /\ handler[h].at = "reply"
    /\ handler' = [handler EXCEPT ![h] = NoEvent]
    /\ UNCHANGED <<sessions, shown, bot, overrun, tangled>>

-----------------------------------------------------------------------------
Older(age, limit) == IF age < limit THEN age + 1 ELSE limit

\* Time passes for the entries and for the agents at work.
Passes ==
    /\ sessions' = [c \in Chats |->
         [sessions[c] EXCEPT !.age = IF sessions[c].held THEN Older(@, Ttl + 1) ELSE 0]]
    /\ handler' = [h \in Handlers |->
         [handler[h] EXCEPT !.age = IF handler[h].at = "turn" THEN Older(@, TurnTimeout)
                                                               ELSE @]]
    /\ UNCHANGED <<shown, bot, overrun, tangled>>

\* The daemon is stopped or dies; sessions are not persisted.
RestartBot ==
    /\ sessions' = [c \in Chats |-> NoEntry]
    /\ shown' = [c \in Chats |-> FALSE]
    /\ handler' = [h \in Handlers |-> NoEvent]
    /\ overrun' = [c \in Chats |-> FALSE] /\ tangled' = [c \in Chats |-> FALSE]
    /\ UNCHANGED bot

Ask(h, c) == Chat(h, c) \/ AskReset(h, c) \/ AskStore(h, c)
EndTurn(h) == Answer(h) \/ Fail(h) \/ TimeOut(h)
WrapUp(h) == Keep(h) \/ Drop(h) \/ Show(h) \/ Hide(h) \/ Reply(h)
EndStore(h) == Stored(h) \/ StoreFails(h)

ChatNext ==
    \/ \E h \in Handlers : \E c \in ItsChats : Ask(h, c)
    \/ \E h \in Handlers : EndTurn(h) \/ WrapUp(h) \/ EndStore(h)
    \/ Passes
    \/ RestartBot

ChatSpec == ChatInit /\ [][ChatNext]_chatVars

\* Tokio resumes the handlers and fires timers; the agent owes nothing, and
\* neither does the process that stores.
ChatFairness ==
    /\ WF_chatVars(Passes)
    /\ \A h \in Handlers : WF_chatVars(TimeOut(h)) /\ WF_chatVars(WrapUp(h))

-----------------------------------------------------------------------------
(* What is checked                                                         *)

Matrix == bot = "matrix"

(* After a reset of its chat a conversation is never resumed, though it    *)
(* was being continued when the reset came, in a direct message of Matrix; *)
(* nor with Discord, unless a turn was under way at the last reset, which  *)
(* then keeps the conversation it has.  (A Matrix room heeds no reset.)    *)
ResetIsFresh ==
    \A c \in Chats : Live(c) /\ sessions[c].old => c \in Rooms \/ (~Matrix /\ overrun[c])

\* No handler is at work on c.
Quiet(c) == \A h \in Handlers : handler[h].chat # c

(* The status reply shows a chat whose conversation can be resumed as      *)
(* having one, whatever failed, was reset or stored before; with Discord   *)
(* unless two handlers of the chat were between the two at once.           *)
ResumableIsShown == \A c \in Chats : Live(c) /\ Quiet(c) => shown[c] \/ (~Matrix /\ tangled[c])

(* A turn ends, and its handler after it, whatever the agent does: the     *)
(* Matrix loop is never stuck behind an agent.                             *)
TurnsEnd == \A h \in Handlers : handler[h].at = "turn" ~> handler[h].at = "idle"

(* A reset "starts a fresh conversation in that channel" (README.md): no   *)
(* message after it is answered by the conversation of before.             *)
ResetStartsAfresh == \A c \in Chats : Live(c) => ~sessions[c].old
=============================================================================
