----------------------------- MODULE AuthSession -----------------------------
(***************************************************************************)
(* The authentication phase of each session with the server, the flag      *)
(* client->is_authenticated, and client->json, the one pointer in which    *)
(* the websocket task builds auth messages (esp_hass_client_auth()) and    *)
(* the application builds subscriptions                                    *)
(* (esp_hass_client_subscribe_events()).  Nothing locks that pointer: each *)
(* step below is one use of it by one of the two tasks.                    *)
(*                                                                         *)
(* The websocket client reconnects by itself.  A session is one connection *)
(* of it.                                                                  *)
(***************************************************************************)
EXTENDS Naturals, Sequences

CONSTANTS
  MaxSessions,  \* bound: connections
  MaxWaiting,   \* bound: the application starts no subscription while the
                \* server has so many messages to read
  MayFail       \* allocations and sends may fail, messages may get lost

ASSUME BoundAssumption ==
  MaxSessions \in Nat \ {0} /\ MaxWaiting \in Nat \ {0}
ASSUME FailAssumption == MayFail \in BOOLEAN

VARIABLES
  connected,         \* the websocket is up
  session,           \* the server's view of the session
  to_client,         \* authentication messages on the wire
  to_server,         \* what the client sent, on the wire
  sessions,          \* how many sessions there have been
  is_authenticated,  \* client->is_authenticated
  ha_version,        \* client->ha_version was copied from a message
  json,              \* what client->json points to
  pc,                \* where each task is with client->json
  text,              \* its local variable json_string
  greeted,           \* the client handled auth_required in this session
  spoiled            \* in this session an allocation or a send failed in the
                     \* websocket task, or a message was lost

wire == <<connected, session, to_client, to_server, sessions>>
flags == <<is_authenticated, ha_version>>
history == <<greeted, spoiled>>
vars == <<wire, flags, json, pc, text, history>>

Tasks == {"websocket", "app"}
Message(t) == IF t = "websocket" THEN "auth" ELSE "subscribe_events"
(* An object with the attributes of both messages is neither. *)
Objects == {"empty", "auth", "subscribe_events", "mixed"}
NULL == "NULL"

PC == {"idle", "replace", "fill", "print", "send", "wait", "release"}
Challenges == {"auth_required", "auth_invalid"}

Elems(seq) == {seq[i] : i \in DOMAIN seq}
Goto(t, step) == pc' = [pc EXCEPT ![t] = step]

Init ==
  /\ connected = FALSE
  /\ session = "none"
  /\ to_client = <<>>
  /\ to_server = <<>>
  /\ sessions = 0
  /\ is_authenticated = FALSE
  /\ ha_version = FALSE
  /\ json = NULL
  /\ pc = [t \in Tasks |-> "idle"]
  /\ text = [t \in Tasks |-> NULL]
  /\ greeted = FALSE
  /\ spoiled = FALSE

-----------------------------------------------------------------------------
(* The websocket task: message_handler() for authentication messages.      *)

(* Mutant of WsChallenge: is_authenticated is not reset. *)
WsChallengeKeepsFlag ==
  /\ pc["websocket"] = "idle"
  /\ to_client # <<>>
  /\ Head(to_client) \in Challenges
  /\ to_client' = Tail(to_client)
  /\ ha_version' = TRUE
  /\ greeted' = TRUE
  /\ Goto("websocket", "replace")
  /\ UNCHANGED <<connected, session, to_server, sessions, is_authenticated,
                 json, text, spoiled>>

(* HASS_MESSAGE_TYPE_AUTH_INVALID falls through to                         *)
(* HASS_MESSAGE_TYPE_AUTH_REQUIRED, which calls esp_hass_client_auth().    *)
WsChallenge ==
  /\ pc["websocket"] = "idle"
  /\ to_client # <<>>
  /\ Head(to_client) \in Challenges
  /\ to_client' = Tail(to_client)
  /\ is_authenticated' = FALSE
  /\ ha_version' = TRUE
  /\ greeted' = TRUE
  /\ Goto("websocket", "replace")
  /\ UNCHANGED <<connected, session, to_server, sessions, json, text, spoiled>>

(* Mutant of WsAuthOk: is_authenticated is not set. *)
WsAuthOkKeepsFlag ==
  /\ pc["websocket"] = "idle"
  /\ to_client # <<>>
  /\ Head(to_client) = "auth_ok"
  /\ to_client' = Tail(to_client)
  /\ UNCHANGED <<connected, session, to_server, sessions, flags, json, pc, text,
                 history>>

(* HASS_MESSAGE_TYPE_AUTH_OK *)
WsAuthOk ==
  /\ pc["websocket"] = "idle"
  /\ to_client # <<>>
  /\ Head(to_client) = "auth_ok"
  /\ to_client' = Tail(to_client)
  /\ is_authenticated' = TRUE
  /\ UNCHANGED <<connected, session, to_server, sessions, ha_version, json, pc,
                 text, history>>

(* A message websocket_event_handler() makes nothing of: see RxBuffer. *)
WsLose ==
  /\ MayFail
  /\ pc["websocket"] = "idle"
  /\ to_client # <<>>
  /\ to_client' = Tail(to_client)
  /\ spoiled' = TRUE
  /\ UNCHANGED <<connected, session, to_server, sessions, flags, json, pc, text,
                 greeted>>

-----------------------------------------------------------------------------
(* The application.  It subscribes once it saw is_authenticated.           *)

(* Mutant of AppSubscribe: it does not wait for that. *)
AppSubscribeAtOnce ==
  /\ pc["app"] = "idle"
  /\ connected
  /\ Len(to_server) < MaxWaiting
  /\ Goto("app", "replace")
  /\ UNCHANGED <<wire, flags, json, text, history>>

AppSubscribe ==
  /\ pc["app"] = "idle"
  /\ is_authenticated
  /\ Len(to_server) < MaxWaiting
  /\ Goto("app", "replace")
  /\ UNCHANGED <<wire, flags, json, text, history>>

(* xQueueReceive() returns a result, or times out: see Commands.  The      *)
(* subscription stays in client->json until then.                          *)
AppWait ==
  /\ pc["app"] = "wait"
  /\ Goto("app", "release")
  /\ UNCHANGED <<wire, flags, json, text, history>>

-----------------------------------------------------------------------------
(* Both tasks: esp_hass_create_message_auth() or                           *)
(* esp_hass_create_message_subscribe_events(), cJSON_Print(),              *)
(* esp_websocket_client_send_text() and the code at the label fail, where  *)
(* success ends too.                                                       *)

(* The task's own allocation or send failed. *)
Spoil(t) == spoiled' = (spoiled \/ t = "websocket")

(* What client->json points to is deleted, and a new object created. *)
Replace(t) ==
  /\ pc[t] = "replace"
  /\ \/ json' = "empty" /\ UNCHANGED spoiled
     \/ MayFail /\ json' = NULL /\ Spoil(t)
  /\ Goto(t, "fill")
  /\ UNCHANGED <<wire, flags, text, greeted>>

(* The attributes are added to what client->json points to now. *)
Fill(t) ==
  /\ pc[t] = "fill"
  /\ json # NULL
  /\ json' = IF json = "empty" THEN Message(t) ELSE "mixed"
  /\ Goto(t, "print")
  /\ UNCHANGED <<wire, flags, text, history>>

PrintJson(t) ==
  /\ pc[t] = "print"
  /\ json # NULL
  /\ text' = [text EXCEPT ![t] = json]
  /\ Goto(t, "send")
  /\ UNCHANGED <<wire, flags, json, history>>

(* An attribute is not added, or the object not printed: because           *)
(* client->json is NULL, or for lack of memory.                            *)
BuildFails(t) ==
  /\ pc[t] \in {"fill", "print"}
  /\ \/ json = NULL /\ UNCHANGED spoiled
     \/ MayFail /\ Spoil(t)
  /\ Goto(t, "release")
  /\ UNCHANGED <<wire, flags, json, text, greeted>>

(* Mutant of Send: authentication waits for a result too. *)
SendWaits(t) ==
  /\ pc[t] = "send"
  /\ connected
  /\ to_server' = Append(to_server, text[t])
  /\ Goto(t, "wait")
  /\ UNCHANGED <<connected, session, to_client, sessions, flags, json, text,
                 history>>

(* The subscription waits for its result, authentication does not. *)
Send(t) ==
  /\ pc[t] = "send"
  /\ connected
  /\ to_server' = Append(to_server, text[t])
  /\ Goto(t, IF t = "app" THEN "wait" ELSE "release")
  /\ UNCHANGED <<connected, session, to_client, sessions, flags, json, text,
                 history>>

SendFails(t) ==
  /\ pc[t] = "send"
  /\ \/ ~connected /\ UNCHANGED spoiled
     \/ MayFail /\ Spoil(t)
  /\ Goto(t, "release")
  /\ UNCHANGED <<wire, flags, json, text, greeted>>

Release(t) ==
  /\ pc[t] = "release"
  /\ json' = NULL
  /\ text' = [text EXCEPT ![t] = NULL]
  /\ Goto(t, "idle")
  /\ UNCHANGED <<wire, flags, history>>

-----------------------------------------------------------------------------
(* The server (external).  It challenges each new connection, and answers  *)
(* the first thing it gets; it accepts nothing but an auth message.        *)

ServerAnswer(ok) ==
  /\ session = "challenged"
  /\ to_server # <<>>
  /\ ok => Head(to_server) = "auth"
  /\ to_server' = Tail(to_server)
  /\ session' = IF ok THEN "accepted" ELSE "refused"
  /\ to_client' = Append(to_client, IF ok THEN "auth_ok" ELSE "auth_invalid")
  /\ UNCHANGED <<connected, sessions, flags, json, pc, text, history>>

(* Afterwards the session is one of commands, or over. *)
ServerIgnore ==
  /\ session \in {"accepted", "refused"}
  /\ to_server # <<>>
  /\ to_server' = Tail(to_server)
  /\ UNCHANGED <<connected, session, to_client, sessions, flags, json, pc, text,
                 history>>

-----------------------------------------------------------------------------
(* The connection.  The websocket task notices a break, and reconnects,    *)
(* only outside the event handler; WEBSOCKET_EVENT_CONNECTED and           *)
(* WEBSOCKET_EVENT_DISCONNECTED change nothing in the client.              *)

Connect ==
  /\ ~connected
  /\ sessions < MaxSessions
  /\ pc["websocket"] = "idle"
  /\ connected' = TRUE
  /\ session' = "challenged"
  /\ sessions' = sessions + 1
  /\ to_client' = <<"auth_required">>
  /\ greeted' = FALSE
  /\ spoiled' = FALSE
  /\ UNCHANGED <<to_server, flags, json, pc, text>>

Disconnect ==
  /\ connected
  /\ connected' = FALSE
  /\ session' = "none"
  /\ to_client' = <<>>
  /\ to_server' = <<>>
  /\ UNCHANGED <<sessions, flags, json, pc, text, history>>

-----------------------------------------------------------------------------
JsonStep(t) ==
  \/ Replace(t) \/ Fill(t) \/ PrintJson(t) \/ BuildFails(t)
  \/ Send(t) \/ SendFails(t)
  \/ Release(t)

WsReceive == WsChallenge \/ WsAuthOk \/ WsLose

Server == (\E ok \in BOOLEAN : ServerAnswer(ok)) \/ ServerIgnore

Next ==
  \/ WsReceive
  \/ AppSubscribe \/ AppWait
  \/ \E t \in Tasks : JsonStep(t)
  \/ Server
  \/ Connect \/ Disconnect

(* The websocket task is scheduled and the server answers.  The            *)
(* application may stop anywhere, and the connection need not come back.   *)
Fairness ==
  /\ WF_vars(WsReceive)
  /\ WF_vars(JsonStep("websocket"))
  /\ WF_vars(Server)

Spec == Init /\ [][Next]_vars
FairSpec == Spec /\ Fairness

-----------------------------------------------------------------------------
(* Every variable stays in its type. *)
TypeOK ==
  /\ connected \in BOOLEAN
  /\ session \in {"none", "challenged", "accepted", "refused"}
  /\ to_client \in Seq(Challenges \union {"auth_ok"})
  /\ to_server \in Seq(Objects)
  /\ sessions \in 0..MaxSessions
  /\ is_authenticated \in BOOLEAN
  /\ ha_version \in BOOLEAN
  /\ json \in Objects \union {NULL}
  /\ pc \in [Tasks -> PC]
  /\ text \in [Tasks -> Objects \union {NULL}]
  /\ \A t \in Tasks : pc[t] = "send" => text[t] # NULL
  /\ pc["websocket"] # "wait"
  /\ greeted \in BOOLEAN
  /\ spoiled \in BOOLEAN

(* What the flag means.  Once the client handled auth_required in a        *)
(* session it is true only if the server accepted this very session; until *)
(* then it may be left over from the last one.  When it is true,           *)
(* esp_hass_client_get_ha_version() has a version to return.               *)
FlagFollowsHandshake ==
  is_authenticated => /\ connected /\ greeted => session = "accepted"
                      /\ ha_version

(* Tasks whose next step reads or writes what client->json points to. *)
Using == {t \in Tasks : pc[t] \in {"replace", "fill", "print", "release"}}

(* The handshake is the lock: in the first session the application, which  *)
(* waits for is_authenticated, and the websocket task never use            *)
(* client->json at the same time, and each sends the message it built.     *)
FirstSessionExclusive ==
  sessions = 1 =>
    /\ \A t, u \in Using : t = u
    /\ \A t \in Tasks : pc[t] = "send" => text[t] = Message(t)

(* A session that lasts, and in which nothing fails, ends authenticated or *)
(* refused.                                                                *)
Authenticates(n) ==
  sessions = n /\ connected ~>
    \/ greeted /\ is_authenticated
    \/ session = "refused"
    \/ ~connected \/ spoiled

FirstSessionAuthenticates == Authenticates(1)

(* "The client automatically connects to the WebSocket URL, and            *)
(* authenticated itself": the same of every session.                       *)
EverySessionAuthenticates == \A n \in 1..MaxSessions : Authenticates(n)

=============================================================================
