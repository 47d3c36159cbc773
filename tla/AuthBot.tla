-------------------------------- MODULE AuthBot --------------------------------
(***************************************************************************)
(* The Telegram bot of the sign-in handshake: TelegramService and the      *)
(* webhook.  Processes share one bot token, as the old and the new one do  *)
(* while a deployment overlaps, and each keeps in its memory which hash a  *)
(* chat started with.  In polling mode a process runs one loop: it         *)
(* connects, polls, and fails when another process polls, when Telegram    *)
(* cannot be reached or when a handler throws; a timer then starts it      *)
(* again.  In webhook mode any process may be given an update.             *)
(*                                                                         *)
(* The library's stop() ends a loop that polls; on one that is connecting  *)
(* it throws, which the signal handler swallows.  A signal handler is      *)
(* installed, so SIGTERM does not end the process: the platform kills it.  *)
(*                                                                         *)
(* Not modelled: how long the timer takes (the backoff and its jitter), and *)
(* the texts sent to chats.                                                *)
(***************************************************************************)
EXTENDS Naturals

CONSTANTS Processes, Chats,
          BotHashes,     \* hashes handed out for the handshake
          NoBotHash, NoChat,
          MaxBotFaults   \* bound: failures of a loop not caused by a conflict

ASSUME BotAssumption ==
    NoBotHash \notin BotHashes /\ NoChat \notin Chats /\ MaxBotFaults \in Nat

VARIABLES useWebhook, \* configuration: telegram.useWebhook
          up,         \* processes running
          stopped,    \* authBotStopped
          loop,       \* the polling loop of this.authBot
          chats,      \* the hash each chat started with, in each process
          phoneOf,    \* TelegramAuthRequest: the chat whose phone a hash has
          started,    \* history: the hashes each chat ever started with
          botFaults

botVars == <<useWebhook, up, stopped, loop, chats, phoneOf, started, botFaults>>

BotTypeOK ==
    /\ useWebhook \in BOOLEAN
    /\ up \subseteq Processes
    /\ stopped \subseteq up
    /\ loop \in [Processes ->
           {"none", "connecting", "polling", "failed", "waiting", "dead"}]
    /\ chats \in [Processes -> [Chats -> BotHashes \cup {NoBotHash}]]
    /\ phoneOf \in [BotHashes -> Chats \cup {NoChat}]
    /\ started \in [Chats -> SUBSET BotHashes]
    /\ botFaults \in Nat

NoChats == [c \in Chats |-> NoBotHash]

BotInit ==
    /\ useWebhook \in BOOLEAN
    /\ up = {}
    /\ stopped = {}
    /\ loop = [p \in Processes |-> "none"]
    /\ chats = [p \in Processes |-> NoChats]
    /\ phoneOf = [x \in BotHashes |-> NoChat]
    /\ started = [c \in Chats |-> {}]
    /\ botFaults = 0

\* createAuthBot sets the webhook or starts the first loop.
createAuthBot == IF useWebhook THEN "none" ELSE "connecting"

\* onModuleInit.
Boot(p) ==
    /\ p \notin up
    /\ up' = up \cup {p}
    /\ loop' = [loop EXCEPT ![p] = createAuthBot]
    /\ UNCHANGED <<useWebhook, stopped, chats, phoneOf, started, botFaults>>

\* The process is killed, or crashes.
Kill(p) ==
    /\ p \in up
    /\ up' = up \ {p}
    /\ stopped' = stopped \ {p}
    /\ loop' = [loop EXCEPT ![p] = "none"]
    /\ chats' = [chats EXCEPT ![p] = NoChats]
    /\ UNCHANGED <<useWebhook, phoneOf, started, botFaults>>

\* SIGTERM or SIGINT.  The listeners exist in polling mode only: in webhook
\* mode the signal ends the process.
Signal(p) ==
    /\ p \in up \ stopped
    /\ ~useWebhook
    /\ stopped' = stopped \cup {p}
    /\ loop' = [loop EXCEPT ![p] = IF @ = "polling" THEN "dead" ELSE @]
    /\ UNCHANGED <<useWebhook, up, chats, phoneOf, started, botFaults>>

\* launch() has connected and polls: Telegram ends every other poll (409).
Connected(p) ==
    /\ loop[p] = "connecting"
    /\ loop' = [q \in Processes |->
           IF q = p THEN "polling"
           ELSE IF loop[q] = "polling" THEN "failed" ELSE loop[q]]
    /\ UNCHANGED <<useWebhook, up, stopped, chats, phoneOf, started, botFaults>>

\* launch() rejects: Telegram could not be reached.
LoopFails(p) ==
    /\ loop[p] \in {"connecting", "polling"}
    /\ botFaults < MaxBotFaults
    /\ loop' = [loop EXCEPT ![p] = "failed"]
    /\ botFaults' = botFaults + 1
    /\ UNCHANGED <<useWebhook, up, stopped, chats, phoneOf, started>>

\* Mutant: the bot is not launched again.
NoRelaunch(p) == "dead"

\* What launch()'s catch leaves: a timer, unless the process is shutting down.
AfterFailure(p) == IF p \in stopped THEN "dead" ELSE "waiting"

Failed(p) ==
    /\ loop[p] = "failed"
    /\ loop' = [loop EXCEPT ![p] = AfterFailure(p)]
    /\ UNCHANGED <<useWebhook, up, stopped, chats, phoneOf, started, botFaults>>

\* Mutant: startAuthBotPolling does not look at authBotStopped.
AlwaysPolling(p) == "connecting"

\* startAuthBotPolling, called by the timer.
startAuthBotPolling(p) == IF p \in stopped THEN "dead" ELSE "connecting"

TimerFires(p) ==
    /\ loop[p] = "waiting"
    /\ loop' = [loop EXCEPT ![p] = startAuthBotPolling(p)]
    /\ UNCHANGED <<useWebhook, up, stopped, chats, phoneOf, started, botFaults>>

\* The processes an update may be given to.
Receives(p) == IF useWebhook THEN p \in up ELSE loop[p] = "polling"

\* /start with a hash as its payload.
ChatStarts(p, c, x) ==
    /\ Receives(p)
    /\ chats' = [chats EXCEPT ![p][c] = x]
    /\ started' = [started EXCEPT ![c] = @ \cup {x}]
    /\ UNCHANGED <<useWebhook, up, stopped, loop, phoneOf, botFaults>>

\* Mutant: the payload kept is not that of the chat.
AnyPayload(p, c) ==
    IF \A d \in Chats : chats[p][d] = NoBotHash THEN NoBotHash
    ELSE CHOOSE x \in {chats[p][d] : d \in Chats} : x # NoBotHash

\* The payload the message handler goes by.
Payload(p, c) == chats[p][c]

\* A contact is shared; without a payload the chat is only told of an error.
ContactShared(p, c) ==
    /\ Receives(p)
    /\ Payload(p, c) # NoBotHash
    /\ phoneOf' = [phoneOf EXCEPT ![Payload(p, c)] = c]
    /\ UNCHANGED <<useWebhook, up, stopped, loop, chats, started, botFaults>>

\* A message without a contact: the handler throws, which ends a polling loop;
\* the webhook answers 200 all the same.
OtherMessage(p, c) ==
    /\ loop[p] = "polling"
    /\ Payload(p, c) # NoBotHash
    /\ botFaults < MaxBotFaults
    /\ loop' = [loop EXCEPT ![p] = "failed"]
    /\ botFaults' = botFaults + 1
    /\ UNCHANGED <<useWebhook, up, stopped, chats, phoneOf, started>>

LoopStep(p) == Connected(p) \/ Failed(p) \/ TimerFires(p)

BotNext ==
    \E p \in Processes :
        \/ Boot(p) \/ Kill(p) \/ Signal(p)
        \/ Connected(p) \/ Failed(p) \/ TimerFires(p)
        \/ LoopFails(p)
        \/ \E c \in Chats :
               \/ \E x \in BotHashes : ChatStarts(p, c, x)
               \/ ContactShared(p, c)
               \/ OtherMessage(p, c)

\* The library's calls are answered, and timers fire.
BotFairness == \A p \in Processes : WF_botVars(LoopStep(p))

BotSpec == BotInit /\ [][BotNext]_botVars /\ BotFairness

\* A phone reaches a hash only from a chat that started with that hash, in
\* whichever process the chat's updates were handled.
HashFromItsChat ==
    \A x \in BotHashes : phoneOf[x] # NoChat => x \in started[phoneOf[x]]

\* A process told to stop launches no loop, whatever timer was still pending:
\* a loop that ends in it has ended for good.
StopIsFinal ==
    [][\A p \in stopped :
          loop[p] \in {"failed", "waiting", "dead"} =>
              loop'[p] \in {"failed", "waiting", "dead", "none"}]_botVars

Alone(p) == /\ p \in up \ stopped
            /\ ~useWebhook
            /\ \A q \in Processes \ {p} : q \notin up \ stopped

\* When one process is left to serve the bot, it ends up polling and stays so,
\* whatever conflicts and failures there were.
BotReturns ==
    \A p \in Processes : <>[]Alone(p) => <>[](loop[p] = "polling")
=============================================================================
