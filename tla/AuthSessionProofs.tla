-------------------------- MODULE AuthSessionProofs --------------------------
(***************************************************************************)
(* Proofs about AuthSession, for any number of sessions and whatever       *)
(* fails.                                                                  *)
(***************************************************************************)
EXTENDS AuthSession, SequenceTheorems, TLAPS

USE BoundAssumption, FailAssumption

LEMMA InitType == Init => TypeOK
<1> SUFFICES ASSUME Init PROVE TypeOK
  OBVIOUS
<1>1. to_client \in Seq(Challenges \union {"auth_ok"}) /\ to_server \in Seq(Objects)
  BY DEF Init
<1>2. pc \in [Tasks -> PC] /\ text \in [Tasks -> Objects \union {NULL}]
  BY DEF Init, PC
<1>3. pc["websocket"] # "wait" /\ \A t \in Tasks : pc[t] # "send"
  BY DEF Init, Tasks
<1>4. sessions \in 0..MaxSessions
  BY DEF Init
<1>5. /\ connected \in BOOLEAN /\ is_authenticated \in BOOLEAN
      /\ ha_version \in BOOLEAN /\ greeted \in BOOLEAN /\ spoiled \in BOOLEAN
      /\ json \in Objects \union {NULL}
      /\ session \in {"none", "challenged", "accepted", "refused"}
  BY DEF Init
<1> QED
  BY <1>1, <1>2, <1>3, <1>4, <1>5 DEF TypeOK

LEMMA NextType == TypeOK /\ [Next]_vars => TypeOK'
<1> SUFFICES ASSUME TypeOK, [Next]_vars PROVE TypeOK'
  OBVIOUS
<1> USE DEF TypeOK
<1>1. CASE WsChallenge
  <2>1. to_client' \in Seq(Challenges \union {"auth_ok"})
    BY <1>1 DEF WsChallenge
  <2>2. /\ pc' \in [Tasks -> PC] /\ pc'["websocket"] # "wait"
        /\ \A t \in Tasks : pc'[t] = "send" => pc[t] = "send"
    BY <1>1 DEF WsChallenge, Goto, Tasks, PC
  <2> QED
    BY <1>1, <2>1, <2>2 DEF WsChallenge
<1>2. CASE WsAuthOk
  BY <1>2 DEF WsAuthOk, history
<1>3. CASE WsLose
  BY <1>3 DEF WsLose, flags
<1>4. CASE AppSubscribe
  BY <1>4 DEF AppSubscribe, wire, flags, history, Goto, Tasks, PC
<1>5. CASE AppWait
  BY <1>5 DEF AppWait, wire, flags, history, Goto, Tasks, PC
<1>6. ASSUME NEW t \in Tasks, JsonStep(t) PROVE TypeOK'
  <2>1. CASE Replace(t)
    BY <2>1 DEF Replace, Spoil, wire, flags, Goto, Objects, PC
  <2>2. CASE Fill(t)
    BY <2>2 DEF Fill, Message, wire, flags, history, Goto, Objects, PC
  <2>3. CASE PrintJson(t)
    BY <2>3 DEF PrintJson, wire, flags, history, Goto, PC
  <2>4. CASE BuildFails(t)
    BY <2>4 DEF BuildFails, Spoil, wire, flags, Goto, PC
  <2>5. CASE Send(t)
    <3>1. text[t] \in Objects
      BY <2>5 DEF Send
    <3>2. to_server' \in Seq(Objects)
      BY <2>5, <3>1 DEF Send
    <3>3. /\ pc' \in [Tasks -> PC] /\ pc'["websocket"] # "wait"
          /\ \A u \in Tasks : pc'[u] = "send" => pc[u] = "send"
      BY <2>5 DEF Send, Goto, Tasks, PC
    <3> QED
      BY <2>5, <3>2, <3>3 DEF Send, flags, history
  <2>6. CASE SendFails(t)
    BY <2>6 DEF SendFails, Spoil, wire, flags, Goto, PC
  <2>7. CASE Release(t)
    BY <2>7 DEF Release, wire, flags, history, Goto, PC
  <2> QED
    BY <1>6, <2>1, <2>2, <2>3, <2>4, <2>5, <2>6, <2>7 DEF JsonStep
<1>7. ASSUME NEW ok \in BOOLEAN, ServerAnswer(ok) PROVE TypeOK'
  BY <1>7 DEF ServerAnswer, flags, history, Challenges
<1>8. CASE ServerIgnore
  BY <1>8 DEF ServerIgnore, flags, history
<1>9. CASE Connect
  <2>1. to_client' \in Seq(Challenges \union {"auth_ok"})
    BY <1>9 DEF Connect, Challenges
  <2>2. sessions' \in 0..MaxSessions
    BY <1>9 DEF Connect
  <2> QED
    BY <1>9, <2>1, <2>2 DEF Connect, flags
<1>10. CASE Disconnect
  <2>1. /\ to_client' \in Seq(Challenges \union {"auth_ok"})
        /\ to_server' \in Seq(Objects)
    BY <1>10 DEF Disconnect
  <2> QED
    BY <1>10, <2>1 DEF Disconnect, flags, history
<1>11. CASE UNCHANGED vars
  BY <1>11 DEF vars, wire, flags, history
<1> QED
  BY <1>1, <1>2, <1>3, <1>4, <1>5, <1>6, <1>7, <1>8, <1>9, <1>10, <1>11
     DEF Next, WsReceive, Server

(* The variables keep their types; the websocket task never waits for a    *)
(* result, and no task sends what it did not print.                        *)
THEOREM TypeCorrect == Spec => []TypeOK
  BY InitType, NextType, PTL DEF Spec

-----------------------------------------------------------------------------
(* The flag.  An auth_ok on the wire belongs to an accepted session,       *)
(* because a break empties the wire and the server answers once; before    *)
(* the first message with a version, nothing was sent and nothing can be   *)
(* accepted.                                                               *)
AcceptedOnWire ==
  \A i \in DOMAIN to_client : to_client[i] = "auth_ok" => session = "accepted"

Untouched ==
  ~ha_version => /\ ~is_authenticated
                 /\ \A t \in Tasks : pc[t] = "idle"
                 /\ to_server = <<>>
                 /\ session # "accepted"

FlagInv ==
  /\ AcceptedOnWire
  /\ Untouched
  /\ is_authenticated /\ connected /\ greeted => session = "accepted"

LEMMA TailElements ==
  ASSUME NEW S, NEW q \in Seq(S), q # <<>>
  PROVE  /\ \A i \in DOMAIN Tail(q) : i + 1 \in DOMAIN q /\ Tail(q)[i] = q[i + 1]
         /\ Head(q) = q[1] /\ 1 \in DOMAIN q
  OBVIOUS

LEMMA AppendElements ==
  ASSUME NEW S, NEW q \in Seq(S), NEW e
  PROVE  \A i \in DOMAIN Append(q, e) :
           \/ i \in DOMAIN q /\ Append(q, e)[i] = q[i]
           \/ i = Len(q) + 1 /\ Append(q, e)[i] = e
  OBVIOUS

LEMMA NextFlag == TypeOK /\ FlagInv /\ [Next]_vars => FlagInv'
<1> SUFFICES ASSUME TypeOK, FlagInv, [Next]_vars PROVE FlagInv'
  OBVIOUS
<1> USE DEF FlagInv
<1>1. CASE WsChallenge
  <2>1. AcceptedOnWire'
    BY <1>1, TailElements DEF WsChallenge, AcceptedOnWire, TypeOK
  <2> QED
    BY <1>1, <2>1 DEF WsChallenge, Untouched
<1>2. CASE WsAuthOk
  <2>1. AcceptedOnWire' /\ session = "accepted"
    BY <1>2, TailElements DEF WsAuthOk, AcceptedOnWire, TypeOK
  <2> QED
    BY <1>2, <2>1 DEF WsAuthOk, Untouched, TypeOK
<1>3. CASE WsLose
  <2>1. AcceptedOnWire'
    BY <1>3, TailElements DEF WsLose, AcceptedOnWire, TypeOK
  <2> QED
    BY <1>3, <2>1 DEF WsLose, flags, Untouched
<1>4. CASE AppSubscribe \/ AppWait
  BY <1>4 DEF AppSubscribe, AppWait, wire, flags, history, AcceptedOnWire,
              Untouched, Tasks
<1>5. ASSUME NEW t \in Tasks, JsonStep(t) PROVE FlagInv'
  <2>1. pc[t] # "idle"
    BY <1>5 DEF JsonStep, Replace, Fill, PrintJson, BuildFails, Send, SendFails,
                Release
  <2>2. /\ ha_version /\ UNCHANGED <<connected, session, to_client, flags, greeted>>
    BY <1>5, <2>1 DEF JsonStep, Replace, Fill, PrintJson, BuildFails, Send,
                SendFails, Release, Untouched, wire, history, TypeOK
  <2> QED
    BY <2>2 DEF flags, AcceptedOnWire, Untouched
<1>6. ASSUME NEW ok \in BOOLEAN, ServerAnswer(ok) PROVE FlagInv'
  <2>1. ha_version
    BY <1>6 DEF ServerAnswer, Untouched, TypeOK
  <2>2. /\ to_client' = Append(to_client, IF ok THEN "auth_ok" ELSE "auth_invalid")
        /\ session' = IF ok THEN "accepted" ELSE "refused"
        /\ session = "challenged"
        /\ UNCHANGED <<connected, is_authenticated, ha_version, greeted>>
    BY <1>6 DEF ServerAnswer, flags, history
  <2>3. \A i \in DOMAIN to_client : to_client[i] # "auth_ok"
    BY <2>2 DEF AcceptedOnWire
  <2>4. AcceptedOnWire'
    <3>1. CASE ok
      BY <2>2, <3>1 DEF AcceptedOnWire
    <3>2. CASE ~ok
      <4>1. to_client' = Append(to_client, "auth_invalid")
        BY <2>2, <3>2
      <4>2. \A i \in DOMAIN to_client' : to_client'[i] # "auth_ok"
        BY <2>3, <4>1, AppendElements DEF TypeOK
      <4> QED
        BY <4>2 DEF AcceptedOnWire
    <3> QED
      BY <3>1, <3>2
  <2> QED
    BY <2>1, <2>2, <2>4 DEF Untouched
<1>7. CASE ServerIgnore
  BY <1>7 DEF ServerIgnore, flags, history, AcceptedOnWire, Untouched
<1>8. CASE Connect
  BY <1>8 DEF Connect, flags, AcceptedOnWire, Untouched
<1>9. CASE Disconnect
  BY <1>9 DEF Disconnect, flags, history, AcceptedOnWire, Untouched
<1>10. CASE UNCHANGED vars
  BY <1>10 DEF vars, wire, flags, history, AcceptedOnWire, Untouched
<1> QED
  BY <1>1, <1>2, <1>3, <1>4, <1>5, <1>6, <1>7, <1>8, <1>9, <1>10
     DEF Next, WsReceive, Server

(* However often the connection breaks, whatever is lost and however the   *)
(* two tasks interleave: after the handshake began, is_authenticated is    *)
(* true only of the session the server accepted.                           *)
THEOREM FlagTruth == Spec => []FlagFollowsHandshake
<1>1. Init => FlagInv
  BY DEF Init, FlagInv, AcceptedOnWire, Untouched
<1>2. TypeOK /\ FlagInv => FlagFollowsHandshake
  BY DEF TypeOK, FlagInv, Untouched, FlagFollowsHandshake
<1> QED
  BY <1>1, <1>2, TypeCorrect, NextFlag, PTL DEF Spec

-----------------------------------------------------------------------------
(* The first session.  The wire carries one message at a time and the      *)
(* flag is the token: the challenge is answered before the flag is set,    *)
(* and the flag is set before the application starts.                      *)
Challenged ==
  session = "challenged" /\ to_client # <<>> =>
    to_server = <<>> /\ pc["websocket"] = "idle"

Down == session = "none" => to_client = <<>> /\ to_server = <<>>

FlagLast ==
  is_authenticated =>
    /\ pc["websocket"] = "idle"
    /\ to_client = <<>>
    /\ session \in {"accepted", "none"}

AppAfterFlag == pc["app"] # "idle" => is_authenticated

OneMessage ==
  to_client # <<>> =>
    /\ Len(to_client) = 1
    /\ session = "accepted" => Head(to_client) = "auth_ok"

(* What a task builds and prints is its own as long as it is alone. *)
OwnText ==
  \A t \in Tasks :
    /\ pc[t] = "fill" => json \in {"empty", NULL}
    /\ pc[t] = "print" => json \in {Message(t), NULL}
    /\ pc[t] = "send" => text[t] = Message(t)

FirstInv ==
  sessions \in {0, 1} =>
    /\ Challenged /\ Down /\ FlagLast /\ AppAfterFlag /\ OneMessage /\ OwnText
    /\ connected <=> session # "none"
    /\ sessions = 0 => /\ ~connected
                       /\ ~is_authenticated
                       /\ \A t \in Tasks : pc[t] = "idle"

LEMMA SingleTail ==
  ASSUME NEW S, NEW q \in Seq(S), Len(q) = 1
  PROVE  Tail(q) = <<>>
<1>1. Tail(q) \in Seq(S) /\ Len(Tail(q)) = 0
  OBVIOUS
<1> QED
  BY <1>1, EmptySeq

LEMMA NextFirst == TypeOK /\ FlagInv /\ FirstInv /\ [Next]_vars => FirstInv'
<1> SUFFICES ASSUME TypeOK, FlagInv, FirstInv, [Next]_vars
             PROVE  FirstInv'
  OBVIOUS
<1> SUFFICES ASSUME sessions' \in {0, 1}
             PROVE  FirstInv'
  BY DEF FirstInv
<1>0. /\ sessions \in {0, 1} /\ sessions' >= sessions
      /\ sessions' # sessions => Connect
  <2>1. CASE Connect
    BY <2>1 DEF Connect, TypeOK
  <2>2. CASE sessions' = sessions
    BY <2>2 DEF TypeOK
  <2>3. Connect \/ sessions' = sessions
    BY DEF Next, WsReceive, WsChallenge, WsAuthOk, WsLose, AppSubscribe, AppWait,
           JsonStep, Replace, Fill, PrintJson, BuildFails, Send, SendFails, Release,
           Server, ServerAnswer, ServerIgnore, Disconnect, wire, vars
  <2> QED
    BY <2>1, <2>2, <2>3
<1>a. /\ Challenged /\ Down /\ FlagLast /\ AppAfterFlag /\ OneMessage /\ OwnText
      /\ connected <=> session # "none"
      /\ sessions = 0 => /\ ~connected /\ ~is_authenticated
                         /\ \A t \in Tasks : pc[t] = "idle"
  BY <1>0 DEF FirstInv
<1>b. Tasks = {"websocket", "app"} /\ pc \in [Tasks -> PC]
      /\ text \in [Tasks -> Objects \union {NULL}]
      /\ to_client \in Seq(Challenges \union {"auth_ok"})
  BY DEF Tasks, TypeOK
<1>c. sessions = 0 => to_client = <<>> /\ to_server = <<>>
  BY <1>a DEF Down
<1>1. CASE WsChallenge
  <2>1. ~is_authenticated /\ pc["app"] = "idle" /\ to_client' = <<>>
    BY <1>1, <1>a, <1>b, SingleTail
       DEF WsChallenge, FlagLast, AppAfterFlag, OneMessage
  <2>2. pc' = [pc EXCEPT !["websocket"] = "replace"] /\ sessions' = 1
    BY <1>0, <1>1, <1>c DEF WsChallenge, Goto
  <2> QED
    BY <1>1, <1>a, <1>b, <2>1, <2>2 DEF WsChallenge, FirstInv, Challenged, Down,
       FlagLast, AppAfterFlag, OneMessage, OwnText
<1>2. CASE WsAuthOk
  <2>1. session = "accepted" /\ to_client' = <<>>
    BY <1>2, <1>a, <1>b, SingleTail, TailElements
       DEF WsAuthOk, FlagInv, AcceptedOnWire, OneMessage
  <2>2. sessions' = 1 /\ pc' = pc
    BY <1>0, <1>2, <1>c DEF WsAuthOk
  <2> QED
    BY <1>2, <1>a, <1>b, <2>1, <2>2 DEF WsAuthOk, FirstInv, Challenged, Down,
       FlagLast, AppAfterFlag, OneMessage, OwnText
<1>3. CASE WsLose
  <2>1. to_client' = <<>> /\ sessions' = 1
    BY <1>0, <1>3, <1>a, <1>b, <1>c, SingleTail DEF WsLose, OneMessage
  <2> QED
    BY <1>3, <1>a, <1>b, <2>1 DEF WsLose, flags, FirstInv, Challenged, Down,
       FlagLast, AppAfterFlag, OneMessage, OwnText
<1>4. CASE AppSubscribe \/ AppWait
  <2>1. /\ is_authenticated /\ sessions' = 1
        /\ \E step \in {"replace", "release"} : pc' = [pc EXCEPT !["app"] = step]
        /\ UNCHANGED <<wire, flags, json, text>>
    BY <1>0, <1>4, <1>a DEF AppSubscribe, AppWait, AppAfterFlag, Goto, wire
  <2> QED
    BY <1>a, <1>b, <2>1 DEF wire, flags, FirstInv, Challenged, Down,
       FlagLast, AppAfterFlag, OneMessage, OwnText
<1>5. ASSUME NEW t \in Tasks, JsonStep(t) PROVE FirstInv'
  <2>1. pc[t] # "idle" /\ UNCHANGED <<flags, connected, session, to_client, sessions>>
    BY <1>5 DEF JsonStep, Replace, Fill, PrintJson, BuildFails, Send, SendFails,
                Release, wire
  <2>2. \A u \in Tasks : u # t => pc[u] = "idle"
    BY <1>a, <1>b, <2>1 DEF FlagLast, AppAfterFlag
  <2>3. \E step \in PC : pc' = [pc EXCEPT ![t] = step]
    BY <1>5 DEF JsonStep, Replace, Fill, PrintJson, BuildFails, Send, SendFails,
                Release, Goto, PC
  <2>4. sessions = 1 /\ sessions' = 1
    BY <1>0, <1>a, <2>1
  <2>5. Challenged' /\ Down' /\ FlagLast' /\ AppAfterFlag' /\ OneMessage'
    <3>1. FlagLast' /\ AppAfterFlag' /\ OneMessage'
      BY <1>a, <1>b, <2>1, <2>2, <2>3
         DEF flags, FlagLast, AppAfterFlag, OneMessage
    <3>2. session = "challenged" => t = "websocket"
      BY <1>a, <1>b, <2>1 DEF FlagLast, AppAfterFlag
    <3>3. Challenged'
      BY <1>a, <2>1, <3>2 DEF Challenged
    <3>4. Down'
      <4>1. CASE Send(t)
        BY <1>a, <2>1, <4>1 DEF Send, Down
      <4>2. CASE UNCHANGED to_server
        BY <1>a, <2>1, <4>2 DEF Down
      <4> QED
        BY <1>5, <4>1, <4>2 DEF JsonStep, Replace, Fill, PrintJson, BuildFails,
                                SendFails, Release, wire
    <3> QED
      BY <3>1, <3>3, <3>4
  <2>6. OwnText'
    <3>1. \A u \in Tasks : u # t => pc'[u] = "idle"
      BY <1>b, <2>2, <2>3
    <3>2. /\ pc'[t] = "fill" => json' \in {"empty", NULL}
          /\ pc'[t] = "print" => json' \in {Message(t), NULL}
          /\ pc'[t] = "send" => text'[t] = Message(t)
      <4>1. CASE Replace(t)
        BY <1>b, <4>1 DEF Replace, Goto
      <4>2. CASE Fill(t)
        BY <1>a, <1>b, <4>2 DEF Fill, Goto, OwnText
      <4>3. CASE PrintJson(t)
        BY <1>a, <1>b, <4>3 DEF PrintJson, Goto, OwnText
      <4>4. CASE BuildFails(t) \/ Send(t) \/ SendFails(t) \/ Release(t)
        BY <1>b, <4>4 DEF BuildFails, Send, SendFails, Release, Goto
      <4> QED
        BY <1>5, <4>1, <4>2, <4>3, <4>4 DEF JsonStep
    <3> QED
      BY <3>1, <3>2 DEF OwnText
  <2> QED
    BY <1>a, <2>1, <2>4, <2>5, <2>6 DEF FirstInv
<1>6. ASSUME NEW ok \in BOOLEAN, ServerAnswer(ok) PROVE FirstInv'
  <2>1. /\ to_client = <<>> /\ ~is_authenticated /\ sessions' = 1
        /\ session = "challenged"
    BY <1>0, <1>6, <1>a, <1>c DEF ServerAnswer, Challenged, FlagLast
  <2>2. /\ to_client' = <<IF ok THEN "auth_ok" ELSE "auth_invalid">>
        /\ session' = IF ok THEN "accepted" ELSE "refused"
        /\ UNCHANGED <<connected, is_authenticated, json, pc, text>>
    BY <1>6, <2>1 DEF ServerAnswer, flags
  <2>3. OneMessage'
    BY <2>2 DEF OneMessage
  <2> QED
    BY <1>a, <2>1, <2>2, <2>3 DEF FirstInv, Challenged, Down,
       FlagLast, AppAfterFlag, OwnText
<1>7. CASE ServerIgnore
  <2>1. sessions' = 1
    BY <1>0, <1>7, <1>c DEF ServerIgnore
  <2> QED
    BY <1>7, <1>a, <2>1 DEF ServerIgnore, flags, FirstInv, Challenged, Down,
       FlagLast, AppAfterFlag, OneMessage, OwnText
<1>8. CASE Connect
  <2>1. sessions = 0 /\ sessions' = 1
    BY <1>0, <1>8 DEF Connect
  <2>2. to_client' = <<"auth_required">> /\ session' = "challenged"
    BY <1>8 DEF Connect
  <2>3. OneMessage'
    BY <2>2 DEF OneMessage
  <2> QED
    BY <1>8, <1>a, <1>b, <1>c, <2>1, <2>2, <2>3 DEF Connect, flags, FirstInv,
       Challenged, Down, FlagLast, AppAfterFlag, OwnText
<1>9. CASE Disconnect
  <2>1. sessions' = 1
    BY <1>0, <1>9, <1>a DEF Disconnect
  <2> QED
    BY <1>9, <1>a, <2>1 DEF Disconnect, flags, FirstInv, Challenged, Down,
       FlagLast, AppAfterFlag, OneMessage, OwnText
<1>10. CASE UNCHANGED vars
  BY <1>10, <1>a DEF vars, wire, flags, FirstInv, Challenged, Down,
     FlagLast, AppAfterFlag, OneMessage, OwnText
<1> QED
  BY <1>1, <1>2, <1>3, <1>4, <1>5, <1>6, <1>7, <1>8, <1>9, <1>10
     DEF Next, WsReceive, Server

LEMMA FirstSession == Spec => [](TypeOK /\ FlagInv /\ FirstInv)
<1>1. Init => FlagInv
  BY DEF Init, FlagInv, AcceptedOnWire, Untouched
<1>2. Init => FirstInv
  <2> SUFFICES ASSUME Init PROVE FirstInv
    OBVIOUS
  <2>1. /\ ~is_authenticated /\ ~connected /\ session = "none"
        /\ to_client = <<>> /\ to_server = <<>>
        /\ \A t \in Tasks : pc[t] = "idle"
    BY DEF Init
  <2>2. pc["app"] = "idle"
    BY <2>1 DEF Tasks
  <2> QED
    BY <2>1, <2>2 DEF FirstInv, Challenged, Down, FlagLast, AppAfterFlag,
                      OneMessage, OwnText
<1> QED
  BY <1>1, <1>2, TypeCorrect, NextFlag, NextFirst, PTL DEF Spec

(* Whatever fails, in the first session the handshake keeps the            *)
(* application and the websocket task from using client->json together.    *)
THEOREM HandshakeIsLock == Spec => []FirstSessionExclusive
<1>1. FirstInv => FirstSessionExclusive
  <2> SUFFICES ASSUME FirstInv, sessions = 1 PROVE FirstSessionExclusive
    BY DEF FirstSessionExclusive
  <2>1. FlagLast /\ AppAfterFlag /\ OwnText
    BY DEF FirstInv
  <2>2. \A t, u \in Using : t = u
    BY <2>1 DEF FlagLast, AppAfterFlag, Using, Tasks
  <2> QED
    BY <2>1, <2>2 DEF OwnText, FirstSessionExclusive
<1> QED
  BY <1>1, FirstSession, PTL

-----------------------------------------------------------------------------
(* Why FirstSessionAuthenticates holds.                                    *)

(* As long as the first session lasts and nothing fails in it, it is       *)
(* authenticated or refused, or somebody has the next move: the websocket  *)
(* task a message to handle or its own to build and send, or the server an *)
(* answer to give.                                                         *)
FirstSessionMoves ==
  sessions = 1 /\ connected /\ ~spoiled =>
    \/ greeted /\ is_authenticated
    \/ session = "refused"
    \/ to_client # <<>>
    \/ pc["websocket"] # "idle"
    \/ session = "challenged" /\ to_server # <<>>

(* The challenge is on the wire, in work, or answered; and the acceptance  *)
(* on the wire, or handled.                                                *)
MoveInv ==
  sessions = 1 /\ connected /\ ~spoiled =>
    /\ ~greeted => /\ to_client # <<>>
                   /\ session = "challenged" /\ ~is_authenticated
    /\ greeted /\ session = "challenged" =>
         \/ pc["websocket"] \in {"replace", "fill", "print", "send"}
         \/ to_server # <<>>
    /\ session = "accepted" => is_authenticated \/ to_client # <<>>
    /\ pc["websocket"] \in {"fill", "print"} => json # NULL

LEMMA Spoils ==
  ASSUME NEW t, Spoil(t)
  PROVE  (spoiled => spoiled') /\ (t = "websocket" => spoiled')
<1>1. CASE spoiled \/ t = "websocket"
  <2>1. spoiled' = TRUE
    BY <1>1 DEF Spoil
  <2> QED
    BY <2>1
<1>2. CASE ~(spoiled \/ t = "websocket")
  BY <1>2
<1> QED
  BY <1>1, <1>2

LEMMA NextMove == TypeOK /\ FlagInv /\ FirstInv /\ MoveInv /\ [Next]_vars => MoveInv'
<1> DEFINE Goal == /\ ~greeted' => /\ to_client' # <<>>
                                   /\ session' = "challenged" /\ ~is_authenticated'
                   /\ greeted' /\ session' = "challenged" =>
                        \/ pc'["websocket"] \in {"replace", "fill", "print", "send"}
                        \/ to_server' # <<>>
                   /\ session' = "accepted" => is_authenticated' \/ to_client' # <<>>
                   /\ pc'["websocket"] \in {"fill", "print"} => json' # NULL
<1> SUFFICES ASSUME TypeOK, FlagInv, FirstInv, MoveInv, [Next]_vars,
                    sessions' = 1, connected', ~spoiled'
             PROVE  Goal
  BY DEF MoveInv
<1>t. /\ Tasks = {"websocket", "app"} /\ pc \in [Tasks -> PC]
      /\ to_client \in Seq(Challenges \union {"auth_ok"})
      /\ to_server \in Seq(Objects)
  BY DEF Tasks, TypeOK
<1>1. CASE Connect
  <2>1. ~is_authenticated /\ pc["websocket"] = "idle"
    BY <1>1, <1>t DEF Connect, FirstInv, TypeOK
  <2> QED
    BY <1>1, <2>1 DEF Connect, flags
<1>2. CASE Disconnect
  BY <1>2 DEF Disconnect
<1> SUFFICES ASSUME ~Connect, ~Disconnect PROVE Goal
  BY <1>1, <1>2
<1>3. sessions = 1 /\ connected
  BY DEF Next, WsReceive, WsChallenge, WsAuthOk, WsLose, AppSubscribe, AppWait,
         JsonStep, Replace, Fill, PrintJson, BuildFails, Send, SendFails,
         Release, Server, ServerAnswer, ServerIgnore, wire, vars
<1>s. ~spoiled
  BY Spoils
     DEF Next, WsReceive, WsChallenge, WsAuthOk, WsLose, AppSubscribe, AppWait,
         JsonStep, Replace, Fill, PrintJson, BuildFails, Send, SendFails,
         Release, Server, ServerAnswer, ServerIgnore, history, vars
<1>4. /\ Challenged /\ FlagLast /\ AppAfterFlag /\ OneMessage
      /\ session # "none"
  BY <1>3 DEF FirstInv
<1>5. CASE WsChallenge
  <2>1. session # "accepted"
    BY <1>4, <1>5 DEF WsChallenge, OneMessage, Challenges
  <2> QED
    BY <1>5, <1>t, <2>1 DEF WsChallenge, Goto
<1>6. CASE WsAuthOk
  <2>1. session = "accepted"
    BY <1>6, <1>t, TailElements DEF WsAuthOk, FlagInv, AcceptedOnWire, history
  <2> QED
    BY <1>3, <1>6, <2>1 DEF WsAuthOk, MoveInv, history
<1>7. CASE WsLose
  BY <1>7 DEF WsLose
<1>8. CASE AppSubscribe \/ AppWait
  <2>1. /\ UNCHANGED <<wire, flags, json, history>>
        /\ pc'["websocket"] = pc["websocket"]
    BY <1>8, <1>t DEF AppSubscribe, AppWait, Goto
  <2> QED
    BY <1>3, <2>1 DEF MoveInv, wire, flags, history
<1>9. CASE JsonStep("app")
  <2>1. /\ is_authenticated /\ pc["websocket"] = "idle"
        /\ session = "accepted"
    BY <1>4, <1>9 DEF JsonStep, Replace, Fill, PrintJson, BuildFails, Send,
                      SendFails, Release, AppAfterFlag, FlagLast
  <2>2. /\ UNCHANGED <<session, greeted, flags, to_client>>
        /\ pc'["websocket"] = pc["websocket"]
    BY <1>9, <1>t DEF JsonStep, Replace, Fill, PrintJson, BuildFails, Send,
                      SendFails, Release, Goto, wire, history
  <2> QED
    BY <1>3, <1>s, <2>1, <2>2 DEF MoveInv, flags
<1>10. CASE JsonStep("websocket")
  <2> USE <1>s DEF MoveInv, Goto, wire, flags, history
  <2>1. CASE Replace("websocket")
    <3>1. json' = "empty"
      BY <2>1, Spoils DEF Replace
    <3> QED
      BY <1>3, <1>t, <2>1, <3>1 DEF Replace, NULL
  <2>2. CASE Fill("websocket")
    <3>1. json' # NULL
      BY <2>2 DEF Fill, Message, NULL
    <3> QED
      BY <1>3, <1>t, <2>2, <3>1 DEF Fill
  <2>3. CASE PrintJson("websocket")
    BY <1>3, <1>t, <2>3 DEF PrintJson
  <2>4. ~BuildFails("websocket")
    BY <1>3, Spoils DEF BuildFails
  <2>5. CASE Send("websocket")
    <3>1. to_server' # <<>>
      BY <1>t, <2>5 DEF Send, TypeOK
    <3> QED
      BY <1>3, <1>t, <2>5, <3>1 DEF Send
  <2>6. ~SendFails("websocket")
    BY <1>3, Spoils DEF SendFails
  <2>7. CASE Release("websocket")
    BY <1>3, <1>t, <2>7 DEF Release
  <2> QED
    BY <1>10, <2>1, <2>2, <2>3, <2>4, <2>5, <2>6, <2>7 DEF JsonStep
<1>11. ASSUME NEW ok \in BOOLEAN, ServerAnswer(ok) PROVE Goal
  <2>1. to_client' # <<>> /\ to_client = <<>>
    BY <1>4, <1>11, <1>t DEF ServerAnswer, Challenged
  <2>2. session' \in {"accepted", "refused"} /\ greeted'
    BY <1>3, <1>11, <2>1 DEF ServerAnswer, MoveInv, history
  <2> QED
    BY <1>3, <1>11, <2>1, <2>2 DEF ServerAnswer, MoveInv, flags, history
<1>12. CASE ServerIgnore
  BY <1>3, <1>12 DEF ServerIgnore, MoveInv, flags, history
<1>13. CASE UNCHANGED vars
  BY <1>3, <1>13 DEF vars, MoveInv, wire, flags, history
<1> QED
  BY <1>5, <1>6, <1>7, <1>8, <1>9, <1>10, <1>11, <1>12, <1>13
     DEF Next, WsReceive, Server, Tasks

(* The first session cannot come to a halt: the application, which waits   *)
(* for is_authenticated, waits for a step that the websocket task or the   *)
(* server can take.                                                        *)
THEOREM FirstSessionGoesOn == Spec => []FirstSessionMoves
<1>1. Init => MoveInv
  BY DEF Init, MoveInv
<1>2. TypeOK /\ FlagInv /\ FirstInv /\ MoveInv => FirstSessionMoves
  BY DEF FirstInv, MoveInv, FirstSessionMoves, TypeOK
<1> QED
  BY <1>1, <1>2, FirstSession, NextMove, PTL DEF Spec

=============================================================================
