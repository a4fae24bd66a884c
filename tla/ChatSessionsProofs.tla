------------------------- MODULE ChatSessionsProofs -------------------------
(***************************************************************************)
(* What the SessionMap promises, handled by the Matrix loop one event at a *)
(* time and by Discord's gateway many at once: for any number of chats and *)
(* handlers, and any TTL and timeout.                                      *)
(***************************************************************************)
EXTENDS ChatSessions, TLAPS

-----------------------------------------------------------------------------
LEMMA TypeInit == ChatInit => ChatTypeOK
BY ChatsAssumption DEF ChatInit, ChatTypeOK, Entry, NoEntry, Event, NoEvent, Steps

LEMMA OlderInRange ==
    ASSUME NEW limit \in Nat, NEW age \in 0..limit
    PROVE  Older(age, limit) \in 0..limit
BY DEF Older

(* The values that the actions write.                                      *)
LEMMA Moved ==
    ASSUME NEW e \in Event, NEW at \in Steps
    PROVE  [e EXCEPT !.at = at] \in Event
BY DEF Event

LEMMA MadeOld ==
    ASSUME NEW e \in Event, NEW at \in Steps, NEW old \in BOOLEAN
    PROVE  [e EXCEPT !.old = old, !.at = at] \in Event
BY DEF Event

LEMMA SameEvent ==
    ASSUME NEW e \in Event
    PROVE  [e EXCEPT !.old = e.old, !.at = e.at] = e
BY DEF Event

LEMMA NewEvent ==
    ASSUME NEW at \in Steps, NEW c \in Chats, NEW old \in BOOLEAN, NEW reset \in BOOLEAN
    PROVE  /\ [at |-> at, chat |-> c, reset |-> reset, age |-> 0, old |-> old] \in Event
           /\ [NoEvent EXCEPT !.at = at, !.chat = c, !.reset = reset] \in Event
           /\ [NoEvent EXCEPT !.at = at, !.chat = c] \in Event
           /\ NoEvent \in Event
<1>1. 0 \in 0..TurnTimeout
  BY ChatsAssumption
<1>2. NoEvent \in Event
  BY <1>1 DEF Event, NoEvent, Steps
<1>3. [at |-> at, chat |-> c, reset |-> reset, age |-> 0, old |-> old] \in Event
  BY <1>1 DEF Event
<1>4. [NoEvent EXCEPT !.at = at, !.chat = c, !.reset = reset] \in Event
  BY <1>2 DEF Event
<1>5. [NoEvent EXCEPT !.at = at, !.chat = c] \in Event
  BY <1>2 DEF Event
<1> QED
  BY <1>2, <1>3, <1>4, <1>5

LEMMA NewEntry ==
    ASSUME NEW old \in BOOLEAN
    PROVE  /\ NoEntry \in Entry
           /\ [held |-> TRUE, old |-> old, age |-> 0] \in Entry
BY ChatsAssumption DEF Entry, NoEntry

LEMMA TypeStep == ChatTypeOK /\ [ChatNext]_chatVars => ChatTypeOK'
<1> SUFFICES ASSUME ChatTypeOK, [ChatNext]_chatVars PROVE ChatTypeOK'
  OBVIOUS
<1> USE DEF ChatTypeOK
<1>a. /\ \A h \in Handlers : handler[h] \in Event
      /\ \A h \in Handlers : /\ handler[h].old \in BOOLEAN
                             /\ handler[h].reset \in BOOLEAN
                             /\ handler[h].at \in Steps
                             /\ handler[h].age \in 0..TurnTimeout
      /\ \A c \in Chats : sessions[c] \in Entry
      /\ \A c \in Chats : /\ sessions[c].old \in BOOLEAN
                          /\ sessions[c].held \in BOOLEAN
                          /\ sessions[c].age \in 0..(Ttl + 1)
  BY DEF Event, Entry
<1>b. ASSUME NEW h \in Handlers, NEW from \in Steps, NEW to \in Steps, GoesOn(h, from, to)
      PROVE  handler' \in [Handlers -> Event]
  <2>1. [handler[h] EXCEPT !.at = to] \in Event
    BY <1>a, Moved
  <2>2. handler' = [handler EXCEPT ![h] = [handler[h] EXCEPT !.at = to]]
    BY <1>b DEF GoesOn
  <2> QED
    BY <2>1, <2>2
<1>d. ASSUME NEW h \in Handlers, Tangles(h)
      PROVE  tangled' \in [Chats -> BOOLEAN]
  <2> DEFINE both == \E g \in Handlers \ {h} :
                       handler[g].chat = handler[h].chat /\ handler[g].at \in {"show", "hide"}
  <2>1. both \in BOOLEAN /\ tangled' = [tangled EXCEPT ![handler[h].chat] = both]
    BY <1>d DEF Tangles
  <2> HIDE DEF both
  <2> QED
    BY <2>1
<1>c. {"turn", "keep", "drop", "show", "hide", "store", "reply"} \subseteq Steps
  BY DEF Steps
<1>1. ASSUME NEW h \in Handlers, NEW c \in Chats, Chat(h, c) PROVE ChatTypeOK'
  <2>1. (Live(c) /\ sessions[c].old) \in BOOLEAN
    OBVIOUS
  <2>2. [at |-> "turn", chat |-> c, reset |-> FALSE, age |-> 0,
         old |-> Live(c) /\ sessions[c].old] \in Event
    BY <2>1, <1>c, NewEvent
  <2>3. (IF Live(c) THEN sessions[c] ELSE NoEntry) \in Entry
    BY <1>a, NewEntry
  <2> QED
    BY <1>1, <2>2, <2>3 DEF Chat
<1>2. ASSUME NEW h \in Handlers, NEW c \in Chats, AskReset(h, c) PROVE ChatTypeOK'
  <2>1. CASE ResetHeeded(c)
    <3>1. [NoEvent EXCEPT !.at = "drop", !.chat = c, !.reset = TRUE] \in Event
      BY <1>c, NewEvent
    <3> QED
      BY <1>2, <2>1, <3>1 DEF AskReset
  <2>2. CASE ~ResetHeeded(c)
    <3>1. Aged(c) /\ UNCHANGED <<shown, bot, overrun, tangled>>
      BY <1>2, <2>2 DEF AskReset
    <3>2. \A g \in Handlers : [handler[g] EXCEPT !.old = TRUE] \in Event
      BY <1>a DEF Event
    <3>3. handler' \in [Handlers -> Event]
      BY <3>1, <3>2, <1>a DEF Aged
    <3>4. [sessions[c] EXCEPT !.old = sessions[c].old \/ sessions[c].held] \in Entry
      BY <1>a DEF Entry
    <3>5. sessions' = [sessions EXCEPT ![c] =
             [sessions[c] EXCEPT !.old = sessions[c].old \/ sessions[c].held]]
      BY <3>1 DEF Aged
    <3> QED
      BY <3>1, <3>3, <3>4, <3>5
  <2> QED
    BY <2>1, <2>2
<1>3. ASSUME NEW h \in Handlers, NEW c \in Chats, AskStore(h, c) PROVE ChatTypeOK'
  <2>1. [NoEvent EXCEPT !.at = "store", !.chat = c] \in Event
    BY <1>c, NewEvent
  <2> QED
    BY <1>3, <2>1 DEF AskStore
<1>4. ASSUME NEW h \in Handlers, EndTurn(h) PROVE ChatTypeOK'
  BY <1>4, <1>b, <1>c DEF EndTurn, Answer, Fail, TimeOut
<1>5. ASSUME NEW h \in Handlers, Keep(h) PROVE ChatTypeOK'
  <2>1. [held |-> TRUE, old |-> handler[h].old, age |-> 0] \in Entry
    BY <1>a, NewEntry
  <2>2. tangled' \in [Chats -> BOOLEAN]
    BY <1>5, <1>d DEF Keep
  <2>3. handler' \in [Handlers -> Event]
    BY <1>5, <1>b, <1>c DEF Keep
  <2>4. sessions' = [sessions EXCEPT ![handler[h].chat] = [held |-> TRUE, old |-> handler[h].old, age |-> 0]]
        /\ UNCHANGED <<shown, bot, overrun>>
    BY <1>5 DEF Keep
  <2> QED
    BY <2>1, <2>2, <2>3, <2>4
<1>6. ASSUME NEW h \in Handlers, Drop(h) PROVE ChatTypeOK'
  <2> DEFINE Past(g) == handler[g].chat = handler[h].chat /\ handler[h].reset
             New(g) == [handler[g] EXCEPT !.old = handler[g].old \/ Past(g),
                                          !.at = IF g = h THEN "hide" ELSE handler[g].at]
  <2>1. ASSUME NEW g \in Handlers PROVE New(g) \in Event
    <3>1. (handler[g].old \/ Past(g)) \in BOOLEAN
      OBVIOUS
    <3>2. (IF g = h THEN "hide" ELSE handler[g].at) \in Steps
      BY <1>a, <1>c
    <3> QED
      BY <3>1, <3>2, <1>a, MadeOld
  <2>2. handler' = [g \in Handlers |-> New(g)]
    BY <1>6 DEF Drop
  <2>3. handler' \in [Handlers -> Event]
    <3> HIDE DEF New
    <3> QED
      BY <2>1, <2>2
  <2>4. tangled' \in [Chats -> BOOLEAN]
    BY <1>6, <1>d DEF Drop
  <2> DEFINE met == IF handler[h].reset
                    THEN \E g \in Handlers : handler[g].chat = handler[h].chat /\ AtTurn(g)
                    ELSE overrun[handler[h].chat]
  <2>5. overrun' = [overrun EXCEPT ![handler[h].chat] = met]
    BY <1>6 DEF Drop
  <2>6. handler[h].chat \in Chats => met \in BOOLEAN
    OBVIOUS
  <2> HIDE DEF met
  <2>7. overrun' \in [Chats -> BOOLEAN]
    BY <2>5, <2>6
  <2>8. sessions' = [sessions EXCEPT ![handler[h].chat] = NoEntry] /\ UNCHANGED <<shown, bot>>
    BY <1>6 DEF Drop
  <2>9. sessions' \in [Chats -> Entry]
    BY <2>8, NewEntry
  <2> QED
    BY <2>3, <2>4, <2>7, <2>8, <2>9
<1>7. ASSUME NEW h \in Handlers, Show(h) \/ Hide(h) PROVE ChatTypeOK'
  BY <1>7, <1>b, <1>c DEF Show, Hide
<1>8. ASSUME NEW h \in Handlers, Reply(h) PROVE ChatTypeOK'
  <2>1. NoEvent \in Event
    BY ChatsAssumption DEF NoEvent, Event, Steps
  <2> QED
    BY <1>8, <2>1 DEF Reply
<1>9. ASSUME NEW h \in Handlers, EndStore(h) PROVE ChatTypeOK'
  BY <1>9, <1>b, <1>c DEF EndStore, Stored, StoreFails
<1>10. ASSUME Passes PROVE ChatTypeOK'
  <2> DEFINE Age(c) == IF sessions[c].held THEN Older(sessions[c].age, Ttl + 1) ELSE 0
             Spent(h) == IF handler[h].at = "turn"
                         THEN Older(handler[h].age, TurnTimeout) ELSE handler[h].age
  <2>1. \A c \in Chats : Age(c) \in 0..(Ttl + 1)
    BY <1>a, OlderInRange, ChatsAssumption
  <2>2. \A h \in Handlers : Spent(h) \in 0..TurnTimeout
    BY <1>a, OlderInRange, ChatsAssumption
  <2>3. /\ sessions' = [c \in Chats |-> [sessions[c] EXCEPT !.age = Age(c)]]
        /\ handler' = [h \in Handlers |-> [handler[h] EXCEPT !.age = Spent(h)]]
        /\ UNCHANGED <<shown, bot, overrun, tangled>>
    BY <1>10 DEF Passes
  <2> HIDE DEF Age, Spent
  <2>4. \A c \in Chats : [sessions[c] EXCEPT !.age = Age(c)] \in Entry
    BY <1>a, <2>1 DEF Entry
  <2>5. \A h \in Handlers : [handler[h] EXCEPT !.age = Spent(h)] \in Event
    BY <1>a, <2>2 DEF Event
  <2> QED
    BY <2>3, <2>4, <2>5
<1>11. ASSUME RestartBot PROVE ChatTypeOK'
  BY <1>11, TypeInit, ChatsAssumption
  DEF RestartBot, Entry, NoEntry, Event, NoEvent, Steps
<1>12. CASE UNCHANGED chatVars
  BY <1>12 DEF chatVars
<1> QED
  BY <1>1, <1>2, <1>3, <1>4, <1>5, <1>6, <1>7, <1>8, <1>9, <1>10, <1>11, <1>12
  DEF ChatNext, ItsChats, Ask, WrapUp

(* Every reachable state is well typed, for either bot.                    *)
THEOREM TypeCorrect == ChatSpec => []ChatTypeOK
BY TypeInit, TypeStep, PTL DEF ChatSpec

-----------------------------------------------------------------------------
(* The Matrix loop has one handler at work.  A handler that has changed    *)
(* the entry of a chat has yet to show or hide it, and unless another was  *)
(* between the two as well, the entry is as it left it.                    *)

Excused(c) == c \in Rooms \/ (bot = "discord" /\ overrun[c])
OldIsExcused(e) == e.at \in {"turn", "keep"} /\ e.old => Excused(e.chat)

OneAtATime == Matrix => \A g, h \in Handlers :
    handler[g].at # "idle" /\ handler[h].at # "idle" => g = h
NothingTangled == Matrix => \A c \in Chats : ~tangled[c]
OnChat(e) == IF e.at = "idle" THEN e = NoEvent ELSE e.chat \in Chats
OldKept == \A c \in Chats : sessions[c].old => Excused(c)
KeptIsShown == \A c \in Chats : sessions[c].held =>
    shown[c] \/ tangled[c] \/ \E h \in Handlers : handler[h].chat = c /\ handler[h].at = "show"
HiddenIsDropped == \A h \in Handlers :
    handler[h].at = "hide" /\ ~tangled[handler[h].chat] => ~sessions[handler[h].chat].held

Orderly ==
    /\ ChatTypeOK /\ OneAtATime /\ NothingTangled
    /\ \A h \in Handlers : OnChat(handler[h]) /\ OldIsExcused(handler[h])
    /\ OldKept /\ KeptIsShown /\ HiddenIsDropped

LEMMA OrderlyInit == ChatInit => Orderly
BY TypeInit DEF ChatInit, Orderly, OneAtATime, NothingTangled, OnChat, OldIsExcused, OldKept,
   KeptIsShown, HiddenIsDropped, NoEntry, NoEvent

(* What the actions have in common that move one handler, to e, and let no *)
(* reset come between.                                                     *)
OtherIdle(h) == \A g \in Handlers \ {h} : handler[g].at = "idle"

MovesTo(h, e) ==
    /\ e \in Event
    /\ handler' = [handler EXCEPT ![h] = e]
    /\ Matrix => OtherIdle(h)
    /\ OnChat(e) /\ OldIsExcused(e)
    /\ UNCHANGED <<bot, overrun>>
    /\ \A c \in Chats : sessions'[c].old => Excused(c)

ShowsWell(h, e) ==
    /\ Matrix => \A c \in Chats : ~tangled'[c]
    /\ \A c \in Chats : sessions'[c].held =>
         \/ shown'[c] \/ tangled'[c] \/ (e.chat = c /\ e.at = "show")
         \/ \E g \in Handlers \ {h} : handler[g].chat = c /\ handler[g].at = "show"
    /\ \A g \in Handlers \ {h} :
         handler[g].at = "hide" /\ ~tangled'[handler[g].chat] => ~sessions'[handler[g].chat].held
    /\ e.at = "hide" /\ ~tangled'[e.chat] => ~sessions'[e.chat].held

LEMMA OneMoves ==
    ASSUME Orderly, ChatTypeOK', NEW h \in Handlers, NEW e, MovesTo(h, e), ShowsWell(h, e)
    PROVE  Orderly'
<1> USE DEF Orderly, ChatTypeOK, OtherIdle, Matrix
<1>1. \A g \in Handlers : handler'[g] = IF g = h THEN e ELSE handler[g]
  BY DEF MovesTo
<1>2. bot' = bot /\ \A c : Excused(c) <=> Excused(c)'
  BY DEF MovesTo, Excused
<1>3. OneAtATime'
  BY <1>1, <1>2 DEF MovesTo, OneAtATime
<1>4. ASSUME NEW g \in Handlers PROVE OnChat(handler[g])' /\ OldIsExcused(handler[g])'
  <2>1. OnChat(handler'[g]) /\ OldIsExcused(handler'[g])
    BY <1>1 DEF MovesTo
  <2> QED
    BY <1>2, <2>1 DEF OnChat, OldIsExcused
<1>5. OldKept'
  BY <1>2 DEF MovesTo, OldKept
<1>6. NothingTangled'
  BY <1>2 DEF ShowsWell, NothingTangled
<1>7. KeptIsShown'
  BY <1>1 DEF ShowsWell, KeptIsShown
<1>8. HiddenIsDropped'
  BY <1>1 DEF ShowsWell, HiddenIsDropped
<1> QED
  BY <1>3, <1>4, <1>5, <1>6, <1>7, <1>8

(* ... those of them that leave the entries and the reply alone.           *)
LEMMA QuietlyMoves ==
    ASSUME Orderly, ChatTypeOK', NEW h \in Handlers, NEW e \in Event,
           handler' = [handler EXCEPT ![h] = e], Matrix => OtherIdle(h),
           OnChat(e), OldIsExcused(e), e.at # "hide",
           handler[h].at # "show",
           UNCHANGED <<shown, bot, overrun, tangled>>,
           \A c \in Chats : sessions'[c] = sessions[c] \/ sessions'[c] = NoEntry
    PROVE  Orderly'
<1>1. NoEntry.old = FALSE /\ NoEntry.held = FALSE
  BY DEF NoEntry
<1>2. MovesTo(h, e)
  BY <1>1 DEF MovesTo, Orderly, OldKept
<1>3. \A g \in Handlers : handler[g].at = "hide" => handler[g].chat \in Chats
  BY DEF Orderly, OnChat
<1>4. ShowsWell(h, e)
  <2>1. \A c \in Chats : sessions'[c].held => sessions[c].held
    BY <1>1
  <2>2. \A c \in Chats : sessions[c].held =>
          \/ shown[c] \/ tangled[c]
          \/ \E g \in Handlers \ {h} : handler[g].chat = c /\ handler[g].at = "show"
    BY DEF Orderly, KeptIsShown
  <2>3. \A g \in Handlers : handler[g].at = "hide" /\ ~tangled[handler[g].chat] =>
          ~sessions'[handler[g].chat].held
    BY <1>3, <2>1 DEF Orderly, HiddenIsDropped
  <2> QED
    BY <2>1, <2>2, <2>3 DEF ShowsWell, Orderly, NothingTangled
<1> QED
  BY <1>2, <1>4, OneMoves

LEMMA ChatFacts ==
    ASSUME Orderly
    PROVE  /\ \A h \in Handlers : /\ handler[h] \in Event
                                  /\ handler[h].at # "idle" => handler[h].chat \in Chats
                                  /\ OldIsExcused(handler[h])
                                  /\ handler[h].at # "idle" /\ Matrix => OtherIdle(h)
           /\ \A c \in Chats : sessions[c] \in Entry /\ (sessions[c].old => Excused(c))
           /\ Steps = {"idle", "turn", "keep", "drop", "show", "hide", "store", "reply"}
BY DEF Orderly, ChatTypeOK, OnChat, OneAtATime, OtherIdle, OldKept, Steps

LEMMA HandlerGoesOn ==
    ASSUME Orderly, NEW h \in Handlers, NEW from \in Steps \ {"idle"}, NEW to \in Steps \ {"idle"},
           GoesOn(h, from, to), to \in {"turn", "keep"} => from \in {"turn", "keep"}
    PROVE  \E e \in Event :
             /\ handler' = [handler EXCEPT ![h] = e]
             /\ handler[h].at = from /\ handler[h].chat \in Chats
             /\ e.at = to /\ e.old = handler[h].old /\ e.chat = handler[h].chat
             /\ OnChat(e) /\ OldIsExcused(e)
             /\ Matrix => OtherIdle(h)
<1> DEFINE e == [handler[h] EXCEPT !.at = to]
<1>1. handler[h] \in Event /\ handler[h].at = from /\ handler[h].chat \in Chats
      /\ OldIsExcused(handler[h]) /\ (Matrix => OtherIdle(h))
  BY ChatFacts DEF GoesOn
<1>2. e \in Event /\ e.at = to /\ e.old = handler[h].old /\ e.chat = handler[h].chat
  BY <1>1 DEF Event
<1>3. handler' = [handler EXCEPT ![h] = e]
  BY DEF GoesOn
<1> HIDE DEF e
<1>4. OnChat(e) /\ OldIsExcused(e)
  BY <1>1, <1>2 DEF OnChat, OldIsExcused
<1> QED
  BY <1>1, <1>2, <1>3, <1>4

LEMMA OrderlyStep ==
    ASSUME Orderly, [ChatNext]_chatVars
    PROVE  Orderly'
<1>t. ChatTypeOK'
  BY TypeStep DEF Orderly
<1>a. /\ sessions \in [Chats -> Entry] /\ shown \in [Chats -> BOOLEAN]
      /\ tangled \in [Chats -> BOOLEAN] /\ overrun \in [Chats -> BOOLEAN]
      /\ handler \in [Handlers -> Event]
  BY DEF Orderly, ChatTypeOK
<1>c. ASSUME NEW h \in Handlers, Free(h) PROVE handler[h].at = "idle" /\ (Matrix => OtherIdle(h))
  BY <1>c DEF Free, OtherIdle, Matrix
<1>d. ASSUME NEW h \in Handlers, NEW from \in Steps \ {"idle", "show"}, NEW to \in Steps \ {"idle", "hide"},
             GoesOn(h, from, to), to \in {"turn", "keep"} => from \in {"turn", "keep"},
             UNCHANGED <<sessions, shown, bot, overrun, tangled>>
      PROVE  Orderly'
  BY <1>d, <1>t, HandlerGoesOn, QuietlyMoves
<1>1. ASSUME NEW h \in Handlers, NEW c \in Chats, Chat(h, c) PROVE Orderly'
  <2> DEFINE e == [at |-> "turn", chat |-> c, reset |-> FALSE, age |-> 0,
                   old |-> Live(c) /\ sessions[c].old]
  <2>1. e.at = "turn" /\ e.chat = c /\ (e.old <=> Live(c) /\ sessions[c].old)
    OBVIOUS
  <2>2. e \in Event
    BY ChatFacts, NewEvent
  <2>3. handler' = [handler EXCEPT ![h] = e] /\ UNCHANGED <<shown, bot, overrun, tangled>>
    BY <1>1 DEF Chat
  <2>4. \A d \in Chats : sessions'[d] = sessions[d] \/ sessions'[d] = NoEntry
    BY <1>1, <1>a DEF Chat
  <2>5. handler[h].at = "idle" /\ (Matrix => OtherIdle(h))
    BY <1>1, <1>c DEF Chat
  <2> HIDE DEF e
  <2>6. OnChat(e) /\ OldIsExcused(e)
    BY <2>1, ChatFacts DEF OnChat, OldIsExcused
  <2> QED
    BY <1>t, <2>1, <2>2, <2>3, <2>4, <2>5, <2>6, QuietlyMoves
<1>2. ASSUME NEW h \in Handlers, NEW e \in Event, Free(h), e.at \in {"drop", "store"}, e.chat \in Chats,
             e.old = FALSE, handler' = [handler EXCEPT ![h] = e],
             UNCHANGED <<sessions, shown, bot, overrun, tangled>>
      PROVE  Orderly'
  <2>1. handler[h].at = "idle" /\ (Matrix => OtherIdle(h))
    BY <1>2, <1>c
  <2>2. OnChat(e) /\ OldIsExcused(e)
    BY <1>2 DEF OnChat, OldIsExcused
  <2> QED
    BY <1>t, <1>2, <2>1, <2>2, QuietlyMoves
<1>3. ASSUME NEW c \in Chats, c \in Rooms, Aged(c), UNCHANGED <<shown, bot, overrun, tangled>> PROVE Orderly'
  <2>1. \A g \in Handlers : /\ handler'[g].at = handler[g].at /\ handler'[g].chat = handler[g].chat
                            /\ handler[g].chat # c => handler'[g] = handler[g]
    BY <1>3, <1>a DEF Aged, Event
  <2>2. \A d \in Chats : /\ sessions'[d].held = sessions[d].held
                         /\ d # c => sessions'[d] = sessions[d]
    BY <1>3, <1>a DEF Aged, Entry
  <2>3. \A d : Excused(d) <=> Excused(d)'
    BY <1>3 DEF Excused
  <2>4. Excused(c)
    BY <1>3 DEF Excused
  <2>5. OneAtATime' /\ NothingTangled'
    BY <1>3, <2>1 DEF Orderly, OneAtATime, NothingTangled, Matrix
  <2>6. ASSUME NEW g \in Handlers PROVE OnChat(handler[g])' /\ OldIsExcused(handler[g])'
    <3>1. ASSUME handler[g].at = "idle" PROVE handler[g] = NoEvent /\ handler'[g] = handler[g]
      <4>1. handler[g] = NoEvent
        BY <3>1 DEF Orderly, OnChat
      <4>2. handler[g].chat # c
        BY <4>1, ChatsAssumption DEF NoEvent
      <4> QED
        BY <2>1, <4>1, <4>2
    <3>2. OnChat(handler[g])'
      BY <2>1, <3>1, ChatFacts DEF OnChat
    <3>3. OldIsExcused(handler[g])'
      BY <2>1, <2>3, <2>4 DEF Orderly, OldIsExcused
    <3> QED
      BY <3>2, <3>3
  <2>7. OldKept'
    BY <2>2, <2>3, <2>4 DEF Orderly, OldKept
  <2>8. KeptIsShown'
    BY <1>3, <2>1, <2>2 DEF Orderly, KeptIsShown
  <2>9. HiddenIsDropped'
    BY <1>3, <2>1, <2>2, ChatFacts DEF Orderly, HiddenIsDropped
  <2> QED
    BY <1>t, <2>5, <2>6, <2>7, <2>8, <2>9 DEF Orderly
<1>4. ASSUME NEW h \in Handlers, NEW c \in Chats, Ask(h, c) PROVE Orderly'
  <2>1. CASE AskReset(h, c)
    <3>1. CASE ResetHeeded(c)
      <4> DEFINE e == [NoEvent EXCEPT !.at = "drop", !.chat = c, !.reset = TRUE]
      <4>1. handler' = [handler EXCEPT ![h] = e] /\ Free(h) /\ UNCHANGED <<sessions, shown, bot, overrun, tangled>>
        BY <2>1, <3>1 DEF AskReset
      <4>2. e.at = "drop" /\ e.chat = c /\ e.old = FALSE
        BY DEF NoEvent
      <4>3. e \in Event
        BY ChatFacts, NewEvent
      <4> HIDE DEF e
      <4> QED
        BY <1>2, <4>1, <4>2, <4>3
    <3>2. CASE ~ResetHeeded(c)
      BY <1>3, <2>1, <3>2 DEF AskReset, ResetHeeded
    <3> QED
      BY <3>1, <3>2
  <2>2. CASE AskStore(h, c)
    <3> DEFINE e == [NoEvent EXCEPT !.at = "store", !.chat = c]
    <3>1. handler' = [handler EXCEPT ![h] = e] /\ Free(h) /\ UNCHANGED <<sessions, shown, bot, overrun, tangled>>
      BY <2>2 DEF AskStore
    <3>2. e.at = "store" /\ e.chat = c /\ e.old = FALSE
      BY DEF NoEvent
    <3>3. e \in Event
      BY ChatFacts, NewEvent
    <3> HIDE DEF e
    <3> QED
      BY <1>2, <3>1, <3>2, <3>3
  <2> QED
    BY <1>1, <1>4, <2>1, <2>2 DEF Ask
<1>5. ASSUME NEW h \in Handlers, EndTurn(h) \/ EndStore(h) PROVE Orderly'
  <2>1. PICK from \in {"turn", "store"}, to \in {"keep", "drop", "show", "reply"} :
          GoesOn(h, from, to) /\ (to = "keep" => from = "turn")
    BY <1>5 DEF EndTurn, EndStore, Answer, Fail, TimeOut, Stored, StoreFails
  <2>2. UNCHANGED <<sessions, shown, bot, overrun, tangled>>
    BY <1>5 DEF EndTurn, EndStore, Answer, Fail, TimeOut, Stored, StoreFails
  <2> QED
    BY <1>d, <2>1, <2>2, ChatFacts
<1>6. ASSUME NEW h \in Handlers, Keep(h) PROVE Orderly'
  <2> DEFINE c == handler[h].chat
  <2>1. PICK e \in Event :
          /\ handler' = [handler EXCEPT ![h] = e]
          /\ handler[h].at = "keep" /\ c \in Chats
          /\ e.at = "show" /\ e.old = handler[h].old /\ e.chat = c
          /\ OnChat(e) /\ OldIsExcused(e)
          /\ Matrix => OtherIdle(h)
    BY <1>6, HandlerGoesOn, ChatFacts DEF Keep
  <2>2. handler[h].old => Excused(c)
    BY <2>1, ChatFacts DEF OldIsExcused
  <2>3. \A d \in Chats : d # c => sessions'[d] = sessions[d] /\ tangled'[d] = tangled[d]
    BY <1>6, <1>a DEF Keep, Tangles
  <2>4. sessions'[c].old = handler[h].old
    BY <1>6, <1>a, <2>1 DEF Keep
  <2>5. UNCHANGED <<shown, bot, overrun>>
    BY <1>6 DEF Keep
  <2>6. tangled'[c] = \E g \in Handlers \ {h} : handler[g].chat = c /\ handler[g].at \in {"show", "hide"}
    BY <1>6, <1>a, <2>1 DEF Keep, Tangles
  <2> HIDE DEF c
  <2>7. MovesTo(h, e)
    BY <2>1, <2>2, <2>3, <2>4, <2>5, ChatFacts DEF MovesTo
  <2>8. ShowsWell(h, e)
    <3>1. Matrix => \A d \in Chats : ~tangled'[d]
      BY <2>1, <2>3, <2>6 DEF Orderly, NothingTangled, OtherIdle
    <3>2. ASSUME NEW d \in Chats, d # c, sessions'[d].held
          PROVE  \/ shown'[d] \/ tangled'[d]
                 \/ \E g \in Handlers \ {h} : handler[g].chat = d /\ handler[g].at = "show"
      BY <2>1, <2>3, <2>5, <3>2 DEF Orderly, KeptIsShown
    <3>3. ASSUME NEW g \in Handlers \ {h}, handler[g].at = "hide", ~tangled'[handler[g].chat]
          PROVE  ~sessions'[handler[g].chat].held
      <4>1. handler[g].chat # c /\ handler[g].chat \in Chats
        BY <2>6, <3>3, ChatFacts
      <4> QED
        BY <2>3, <3>3, <4>1 DEF Orderly, HiddenIsDropped
    <3> QED
      BY <2>1, <3>1, <3>2, <3>3 DEF ShowsWell
  <2> QED
    BY <1>t, <2>7, <2>8, OneMoves
<1>7. ASSUME NEW h \in Handlers, Drop(h) PROVE Orderly'
  <2> DEFINE c == handler[h].chat
  <2>1. handler[h].at = "drop" /\ c \in Chats /\ (Matrix => OtherIdle(h))
    BY <1>7, ChatFacts DEF Drop
  <2>2. \A g \in Handlers : /\ handler'[g].at = IF g = h THEN "hide" ELSE handler[g].at
                            /\ handler'[g].chat = handler[g].chat
                            /\ handler'[g].old = (handler[g].old \/ (handler[g].chat = c /\ handler[h].reset))
    BY <1>7, <1>a DEF Drop, Event
  <2>3. \A d \in Chats : sessions'[d] = IF d = c THEN NoEntry ELSE sessions[d]
    BY <1>7, <1>a, <2>1 DEF Drop
  <2>4. \A d \in Chats : overrun'[d] = IF d = c /\ handler[h].reset
                                      THEN \E g \in Handlers : handler[g].chat = c /\ AtTurn(g) ELSE overrun[d]
    BY <1>7, <1>a, <2>1 DEF Drop
  <2>5. \A d \in Chats : tangled'[d] =
          IF d = c THEN \E g \in Handlers \ {h} : handler[g].chat = c /\ handler[g].at \in {"show", "hide"}
                   ELSE tangled[d]
    BY <1>7, <1>a, <2>1 DEF Drop, Tangles
  <2>6. UNCHANGED <<shown, bot>> /\ NoEntry.held = FALSE /\ NoEntry.old = FALSE
    BY <1>7 DEF Drop, NoEntry
  <2>7. ASSUME NEW g \in Handlers PROVE OnChat(handler[g])'
    <3>1. CASE handler[g].at = "idle"
      <4>1. g # h /\ handler[g] = NoEvent
        BY <2>1, <3>1 DEF Orderly, OnChat
      <4>2. handler'[g] = [handler[g] EXCEPT !.old = handler[g].old \/ (handler[g].chat = c /\ handler[h].reset),
                                             !.at = handler[g].at]
        BY <1>7, <4>1 DEF Drop
      <4>3. (handler[g].old \/ (handler[g].chat = c /\ handler[h].reset)) = FALSE /\ handler[g].at = "idle"
        BY <2>1, <3>1, <4>1, ChatsAssumption DEF NoEvent
      <4>4. NoEvent \in Event /\ NoEvent.old = FALSE /\ NoEvent.at = "idle"
        BY ChatsAssumption DEF NoEvent, Event, Steps
      <4>5. handler'[g] = NoEvent
        BY <4>1, <4>2, <4>3, <4>4, SameEvent
      <4>6. NoEvent.at = "idle"
        BY DEF NoEvent
      <4> QED
        BY <4>5, <4>6 DEF OnChat
    <3>2. CASE handler[g].at # "idle"
      BY <2>2, <3>2, ChatFacts DEF OnChat
    <3> QED
      BY <3>1, <3>2
  <2> HIDE DEF c
  <2>8. ASSUME NEW g \in Handlers PROVE OldIsExcused(handler[g])'
    <3> SUFFICES ASSUME AtTurn(g)', handler'[g].old PROVE Excused(handler[g].chat)'
      BY DEF OldIsExcused, AtTurn
    <3>1. AtTurn(g) /\ g # h /\ handler[g].chat \in Chats
      BY <2>2, ChatFacts DEF AtTurn
    <3>2. CASE handler[g].chat = c /\ handler[h].reset
      <4>1. bot = "discord"
        BY <2>1, <3>1 DEF OtherIdle, AtTurn, Matrix, Orderly, ChatTypeOK
      <4>2. overrun'[c]
        BY <2>1, <2>4, <3>1, <3>2
      <4> QED
        BY <2>2, <2>6, <3>2, <4>1, <4>2 DEF Excused
    <3>3. CASE ~(handler[g].chat = c /\ handler[h].reset)
      <4>1. Excused(handler[g].chat)
        BY <2>2, <3>1, <3>3, ChatFacts DEF OldIsExcused, AtTurn
      <4>2. overrun'[handler[g].chat] = overrun[handler[g].chat]
        BY <2>4, <3>1, <3>3
      <4> QED
        BY <2>2, <2>6, <4>1, <4>2 DEF Excused
    <3> QED
      BY <3>2, <3>3
  <2>9. OldKept'
    BY <2>3, <2>4, <2>6, ChatFacts DEF OldKept, Excused
  <2>10. OneAtATime' /\ NothingTangled'
    BY <2>1, <2>2, <2>5, <2>6 DEF Orderly, OneAtATime, NothingTangled, OtherIdle, Matrix
  <2>11. KeptIsShown'
    <3> SUFFICES ASSUME NEW d \in Chats, sessions'[d].held
                 PROVE  \/ shown'[d] \/ tangled'[d]
                        \/ \E g \in Handlers : handler'[g].chat = d /\ handler'[g].at = "show"
      BY DEF KeptIsShown
    <3>1. d # c /\ sessions[d].held /\ tangled'[d] = tangled[d]
      BY <2>3, <2>5, <2>6
    <3>2. CASE shown[d] \/ tangled[d]
      BY <2>6, <3>1, <3>2
    <3>3. CASE \E g \in Handlers : handler[g].chat = d /\ handler[g].at = "show"
      BY <2>1, <2>2, <3>3
    <3> QED
      BY <3>1, <3>2, <3>3 DEF Orderly, KeptIsShown
  <2>12. HiddenIsDropped'
    <3> SUFFICES ASSUME NEW g \in Handlers, handler'[g].at = "hide", ~tangled'[handler'[g].chat]
                 PROVE  ~sessions'[handler'[g].chat].held
      BY DEF HiddenIsDropped
    <3>1. CASE handler[g].chat = c
      BY <2>1, <2>2, <2>3, <2>6, <3>1
    <3>2. CASE handler[g].chat # c
      <4>1. g # h /\ handler[g].at = "hide" /\ handler[g].chat \in Chats
        BY <2>2, <3>2, ChatFacts DEF c
      <4> QED
        BY <2>2, <2>3, <2>5, <3>2, <4>1 DEF Orderly, HiddenIsDropped
    <3> QED
      BY <3>1, <3>2
  <2> QED
    BY <1>t, <2>7, <2>8, <2>9, <2>10, <2>11, <2>12 DEF Orderly
<1>8. ASSUME NEW h \in Handlers, Show(h) \/ Hide(h) PROVE Orderly'
  <2> DEFINE c == handler[h].chat
  <2>1. PICK e \in Event :
          /\ handler' = [handler EXCEPT ![h] = e]
          /\ handler[h].at \in {"show", "hide"} /\ c \in Chats
          /\ e.at = "reply" /\ e.old = handler[h].old /\ e.chat = c
          /\ OnChat(e) /\ OldIsExcused(e)
          /\ Matrix => OtherIdle(h)
    <3>1. PICK from \in {"show", "hide"} : GoesOn(h, from, "reply")
      BY <1>8 DEF Show, Hide
    <3> QED
      BY <3>1, HandlerGoesOn, ChatFacts
  <2>2. UNCHANGED <<sessions, bot, overrun, tangled>>
    BY <1>8 DEF Show, Hide
  <2>3. \A d \in Chats : d # c => shown'[d] = shown[d]
    BY <1>8, <1>a DEF Show, Hide
  <2>4. handler[h].at = "show" => shown'[c]
    BY <1>8, <1>a, <2>1 DEF Show, Hide, GoesOn
  <2>5. handler[h].at = "hide" /\ ~tangled[c] => ~sessions[c].held
    BY DEF Orderly, HiddenIsDropped
  <2> HIDE DEF c
  <2>6. MovesTo(h, e)
    BY <2>1, <2>2, ChatFacts DEF MovesTo
  <2>7. ShowsWell(h, e)
    <3>1. ASSUME NEW d \in Chats, sessions'[d].held
          PROVE  \/ shown'[d] \/ tangled'[d]
                 \/ \E g \in Handlers \ {h} : handler[g].chat = d /\ handler[g].at = "show"
      <4>1. CASE d = c
        BY <2>1, <2>2, <2>4, <2>5, <3>1, <4>1
      <4>2. CASE d # c
        BY <2>1, <2>2, <2>3, <3>1, <4>2 DEF Orderly, KeptIsShown, c
      <4> QED
        BY <4>1, <4>2
    <3> QED
      BY <2>1, <2>2, <3>1 DEF ShowsWell, Orderly, NothingTangled, HiddenIsDropped
  <2> QED
    BY <1>t, <2>6, <2>7, OneMoves
<1>9. ASSUME NEW h \in Handlers, Reply(h) PROVE Orderly'
  <2>1. handler[h].at = "reply" /\ handler' = [handler EXCEPT ![h] = NoEvent]
        /\ UNCHANGED <<sessions, shown, bot, overrun, tangled>>
    BY <1>9 DEF Reply
  <2>2. NoEvent \in Event /\ OnChat(NoEvent) /\ OldIsExcused(NoEvent) /\ NoEvent.at = "idle"
    BY ChatsAssumption DEF NoEvent, Event, Steps, OnChat, OldIsExcused
  <2> QED
    BY <1>t, <2>1, <2>2, ChatFacts, QuietlyMoves
<1>10. ASSUME Passes PROVE Orderly'
  <2>1. \A c \in Chats : /\ sessions'[c].held = sessions[c].held
                          /\ sessions'[c].old = sessions[c].old
    BY <1>10, <1>a DEF Passes, Entry
  <2>2. \A h \in Handlers : /\ handler'[h].at = handler[h].at
                             /\ handler'[h].chat = handler[h].chat
                             /\ handler'[h].old = handler[h].old
    BY <1>10, <1>a DEF Passes, Event
  <2>3. UNCHANGED <<shown, bot, overrun, tangled>>
    BY <1>10 DEF Passes
  <2>4. ASSUME NEW h \in Handlers PROVE OnChat(handler[h])' /\ OldIsExcused(handler[h])'
    <3>1. CASE handler[h].at = "idle"
      <4>1. handler[h] = NoEvent
        BY <3>1 DEF Orderly, OnChat
      <4>2. handler'[h] = [NoEvent EXCEPT !.age = NoEvent.age]
        BY <1>10, <3>1, <4>1 DEF Passes
      <4>3. [NoEvent EXCEPT !.age = NoEvent.age] = NoEvent
        BY DEF NoEvent
      <4> QED
        BY <4>2, <4>3 DEF OnChat, OldIsExcused, NoEvent
    <3>2. CASE handler[h].at # "idle"
      BY <2>2, <2>3, <3>2, ChatFacts DEF OnChat, OldIsExcused, Excused
    <3> QED
      BY <3>1, <3>2
  <2>5. OneAtATime' /\ NothingTangled' /\ OldKept'
    BY <2>1, <2>2, <2>3 DEF Orderly, OneAtATime, NothingTangled, OldKept, Excused, Matrix
  <2>6. KeptIsShown'
    BY <2>1, <2>2, <2>3 DEF Orderly, KeptIsShown
  <2>7. HiddenIsDropped'
    BY <2>1, <2>2, <2>3, ChatFacts DEF Orderly, HiddenIsDropped
  <2> QED
    BY <1>t, <2>4, <2>5, <2>6, <2>7 DEF Orderly
<1>11. ASSUME RestartBot PROVE Orderly'
  BY <1>11, <1>t DEF RestartBot, NoEntry, NoEvent, Orderly, OneAtATime, NothingTangled, OnChat, OldIsExcused,
     OldKept, KeptIsShown, HiddenIsDropped
<1>12. CASE UNCHANGED chatVars
  BY <1>12, <1>t DEF chatVars, Orderly, OneAtATime, NothingTangled, OnChat, OldIsExcused, Excused, Matrix,
     OldKept, KeptIsShown, HiddenIsDropped
<1> QED
  BY <1>4, <1>5, <1>6, <1>7, <1>8, <1>9, <1>10, <1>11, <1>12
  DEF ChatNext, ItsChats, WrapUp

LEMMA AlwaysOrderly == ChatSpec => []Orderly
<1>1. Orderly /\ [ChatNext]_chatVars => Orderly'
  BY OrderlyStep
<1> QED
  BY <1>1, OrderlyInit, PTL DEF ChatSpec

(* No conversation survives the reset of its chat, but for the turns that  *)
(* Discord's gateway had under way and the rooms that heed no reset.       *)
THEOREM ResetHolds == ChatSpec => []ResetIsFresh
<1>1. Orderly => ResetIsFresh
  BY DEF Orderly, OldKept, Excused, ChatTypeOK, Matrix, ResetIsFresh
<1> QED
  BY <1>1, AlwaysOrderly, PTL

(* A conversation that can be resumed shows in the status, but for         *)
(* handlers of Discord that were between entry and status at once.         *)
THEOREM StatusShows == ChatSpec => []ResumableIsShown
<1>1. Orderly => ResumableIsShown
  BY DEF Orderly, KeptIsShown, NothingTangled, ResumableIsShown, Live, Quiet
<1> QED
  BY <1>1, AlwaysOrderly, PTL
=============================================================================
