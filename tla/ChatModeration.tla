--------------------------- MODULE ChatModeration ---------------------------
(***************************************************************************)
(* The chat of one session: the mute table, the scam filter and the        *)
(* automatic reply.  A message is a request of several statements: load    *)
(* the session, read the mute, filter, insert and publish, ask the bot.    *)
(* Each viewer has one message on the way; the host's moderation calls     *)
(* come in between.                                                        *)
(*                                                                         *)
(* ban is history: the latest end of all the mutes asked for since the     *)
(* viewer was last unmuted.                                                *)
(***************************************************************************)
EXTENDS Integers, Sequences

CONSTANTS
  Viewers,
  HostMutes,      \* durations a host may ask for
  AutoMute,       \* duration of an automatic mute
  Burst,          \* autoMuteBurstThreshold
  BotQuota,       \* botQuotaPerHour
  MaxTime,        \* bound: the clock
  MaxChats        \* bound: rows of chat_messages

VARIABLES
  now,
  mutedUntil,     \* chat_mutes: each viewer's row, 0 without one
  ban,
  masked,         \* masked messages in the sliding window of each viewer
  botEnabled,     \* live_sessions.ai_bot_enabled
  botUsed,        \* replies in the bot's hour
  chats,          \* chat_messages: <<author, type>>, in order
  stage,          \* where each viewer's message is
  text            \* what it says: "clean", "link" or "scam"

muteVars == <<now, mutedUntil, ban, masked>>
botVars == <<botEnabled, botUsed>>
vars == <<muteVars, botVars, chats, stage, text>>

Host == "host"
Texts == {"clean", "link", "scam"}
Stages == {"idle", "gate", "filter", "unread", "burst", "insert", "bot", "asking"}

TypeOK ==
  /\ now \in 0..MaxTime /\ botEnabled \in BOOLEAN /\ botUsed \in 0..BotQuota
  /\ mutedUntil \in [Viewers -> Nat] /\ ban \in [Viewers -> Nat]
  /\ masked \in [Viewers -> 0..Burst]
  /\ chats \in Seq((Viewers \cup {Host}) \X {"text", "bot", "bot_error"})
  /\ stage \in [Viewers -> Stages] /\ text \in [Viewers -> Texts]

Init ==
  /\ now = 0
  /\ mutedUntil = [v \in Viewers |-> 0] /\ ban = [v \in Viewers |-> 0]
  /\ masked = [v \in Viewers |-> 0]
  /\ botEnabled = FALSE /\ botUsed = 0
  /\ chats = <<>>
  /\ stage = [v \in Viewers |-> "idle"] /\ text = [v \in Viewers |-> "clean"]

Later(a, b) == IF a > b THEN a ELSE b

GoTo(v, s) == stage' = [stage EXCEPT ![v] = s]

\* A row of chat_messages; the publish that follows is ChatHub's.
InsertChat(author, type) ==
  /\ Len(chats) < MaxChats
  /\ chats' = Append(chats, <<author, type>>)

------------------------------------------------------------------------------
(* Mutes. *)

\* Mutant: the newer mute wins.
MuteForLast(v, until) ==
  /\ mutedUntil' = [mutedUntil EXCEPT ![v] = until]
  /\ ban' = [ban EXCEPT ![v] = Later(ban[v], until)]

\* The upsert of Mute: GREATEST(the row's end, the new end).
Mute(v, until) ==
  /\ mutedUntil' = [mutedUntil EXCEPT ![v] = Later(mutedUntil[v], until)]
  /\ ban' = [ban EXCEPT ![v] = Later(ban[v], until)]

\* The host may mute any viewer but not the host.
MuteChatUser(v) ==
  /\ \E d \in HostMutes : Mute(v, now + d)
  /\ UNCHANGED <<now, masked, botVars, chats, stage, text>>

\* The row goes; an earlier mute is over too.
Unmute(v) ==
  /\ mutedUntil' = [mutedUntil EXCEPT ![v] = 0]
  /\ ban' = [ban EXCEPT ![v] = 0]

UnmuteChatUser(v) ==
  /\ Unmute(v)
  /\ UNCHANGED <<now, masked, botVars, chats, stage, text>>

\* A failure of the automatic mute is logged and changes nothing.
AutoMuteOnFilter(v) ==
  Mute(v, now + AutoMute) \/ UNCHANGED <<mutedUntil, ban>>

Tick ==
  /\ now < MaxTime
  /\ now' = now + 1
  /\ UNCHANGED <<mutedUntil, ban, masked, botVars, chats, stage, text>>

\* Masked messages leave the sliding window.
ForgetMasked(v) ==
  /\ masked[v] > 0
  /\ masked' = [masked EXCEPT ![v] = 0]
  /\ UNCHANGED <<now, mutedUntil, ban, botVars, chats, stage, text>>

------------------------------------------------------------------------------
(* A viewer's message. *)

\* The session is loaded, and with it the bot's switch.
PostChat(v, t) ==
  /\ stage[v] = "idle"
  /\ GoTo(v, "gate")
  /\ text' = [text EXCEPT ![v] = t]
  /\ UNCHANGED <<muteVars, botVars, chats>>

ActiveMute(v) == mutedUntil[v] > now

\* The mute gate.
PassGate(v) ==
  /\ stage[v] = "gate" /\ ~ActiveMute(v)
  /\ GoTo(v, "filter")
  /\ UNCHANGED <<muteVars, botVars, chats, text>>

Refused(v) ==
  /\ stage[v] = "gate" /\ ActiveMute(v)
  /\ GoTo(v, "idle")
  /\ UNCHANGED <<muteVars, botVars, chats, text>>

\* An error of the lookup lets the message through: only a mute that was read stops it.
GateFails(v) ==
  /\ stage[v] = "gate"
  /\ GoTo(v, "unread")
  /\ UNCHANGED <<muteVars, botVars, chats, text>>

\* FilterChatMessage: a blocked phrase is refused and mutes its author; a link
\* is masked and, through /streams/:id/chat but not through /chat/send, counted.
FilterChatMessage(v) ==
  /\ stage[v] \in {"filter", "unread"}
  /\ \/ /\ text[v] = "scam" /\ GoTo(v, "idle")
        /\ AutoMuteOnFilter(v)
     \/ /\ text[v] = "link" /\ (GoTo(v, "burst") \/ GoTo(v, "insert"))
        /\ UNCHANGED <<mutedUntil, ban>>
     \/ /\ text[v] = "clean" /\ GoTo(v, "insert")
        /\ UNCHANGED <<mutedUntil, ban>>
  /\ UNCHANGED <<now, masked, botVars, chats, text>>

\* autoMuteIfBurst: the first count that Allow refuses mutes; the masked
\* message is posted all the same.
AutoMuteIfBurst(v) ==
  /\ stage[v] = "burst"
  /\ \/ masked[v] < Burst /\ masked' = [masked EXCEPT ![v] = @ + 1]
        /\ UNCHANGED <<mutedUntil, ban>>
     \/ masked[v] = Burst /\ AutoMuteOnFilter(v) /\ UNCHANGED masked
  /\ GoTo(v, "insert")
  /\ UNCHANGED <<now, botVars, chats, text>>

\* The row and its publish; then the bot, if its switch was on and this is the
\* handler that asks it.
Insert(v) ==
  /\ stage[v] = "insert"
  /\ InsertChat(v, "text")
  /\ GoTo(v, "idle") \/ (botEnabled /\ GoTo(v, "bot"))
  /\ UNCHANGED <<muteVars, botVars, text>>

------------------------------------------------------------------------------
(* The host's own messages pass no gate; the bot answers for the host. *)

PostAsHost ==
  /\ InsertChat(Host, "text")
  /\ UNCHANGED <<muteVars, botVars, stage, text>>

SetBotEnabled(enabled) == botEnabled' = enabled

SetBot ==
  /\ SetBotEnabled(~botEnabled)
  /\ UNCHANGED <<muteVars, botUsed, chats, stage, text>>

\* maybeBotReply loads the switch again, then takes one of the hour's replies.
\* No pinned product, or no question in the comment: the reply taken is lost.
AskBot(v) ==
  /\ stage[v] = "bot"
  /\ IF botEnabled /\ botUsed < BotQuota
       THEN botUsed' = botUsed + 1 /\ (GoTo(v, "asking") \/ GoTo(v, "idle"))
       ELSE GoTo(v, "idle") /\ UNCHANGED botUsed
  /\ UNCHANGED <<muteVars, botEnabled, chats, text>>

\* The answer of the model, its error, or nothing when it is empty or the insert fails.
BotReply(v) ==
  /\ stage[v] = "asking"
  /\ GoTo(v, "idle")
  /\ \/ \E type \in {"bot", "bot_error"} : InsertChat(Host, type)
     \/ UNCHANGED chats
  /\ UNCHANGED <<muteVars, botVars, text>>

\* The bot's hour slides on.
BotHour ==
  /\ botUsed > 0
  /\ botUsed' = 0
  /\ UNCHANGED <<muteVars, botEnabled, chats, stage, text>>

------------------------------------------------------------------------------
Message(v) ==
  \/ \E t \in Texts : PostChat(v, t)
  \/ PassGate(v) \/ Refused(v) \/ GateFails(v)
  \/ FilterChatMessage(v) \/ AutoMuteIfBurst(v) \/ Insert(v)
  \/ AskBot(v) \/ BotReply(v)

Moderation ==
  \/ \E v \in Viewers : MuteChatUser(v) \/ UnmuteChatUser(v) \/ ForgetMasked(v)
  \/ PostAsHost \/ SetBot \/ BotHour

Next == Tick \/ Moderation \/ \E v \in Viewers : Message(v)

Spec == Init /\ [][Next]_vars

------------------------------------------------------------------------------
\* A mute lasts as long as the longest one asked for since the last unmute: no
\* message passes a gate that was read before then, also when an automatic mute
\* of a message already past the gate follows a longer mute by the host.
BansHold ==
  [][\A v \in Viewers : stage[v] = "gate" /\ stage'[v] = "filter" => ban[v] <= now]_vars
==============================================================================
