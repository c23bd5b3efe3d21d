---------------------------- MODULE CommandsProofs ----------------------------
(***************************************************************************)
(* Proofs about Commands, for any callers: typing, that ESP_OK is the      *)
(* truth while callers take turns, that no success is invented, and the    *)
(* balance of answers with what it says of drops and of stranded callers.  *)
(***************************************************************************)
EXTENDS Commands, SequenceTheorems, FiniteSetTheorems, TLAPS

USE CallerAssumption, BoundAssumption, LossAssumption, NoResultAssumption

(* A caller that is inside a call has counted it. *)
Calling == \A c \in Callers : pc[c] # "idle" => call[c] \in 1..MaxCalls

TypeInv == TypeOK /\ Calling /\ IsFiniteSet(working)

LEMMA InitType == Init => TypeInv
<1> SUFFICES ASSUME Init PROVE TypeInv
  OBVIOUS
<1>1. IsFiniteSet(working)
  BY FS_EmptySet DEF Init
<1>2. overlapped \in BOOLEAN
  BY DEF Init
<1>3. 0 \in 0..MaxCalls /\ Len(<<>>) <= ResultQueueLen
  OBVIOUS
<1>4. TypeOK
  BY <1>2, <1>3 DEF Init, TypeOK
<1>5. Calling
  BY DEF Init, Calling
<1> QED
  BY <1>1, <1>4, <1>5 DEF TypeInv

LEMMA NextFinite ==
  ASSUME IsFiniteSet(working), [Next]_vars
  PROVE  IsFiniteSet(working')
<1>1. \/ working' = working \/ working' = {}
      \/ \E n : working' = working \union {n}
      \/ \E n : working' = working \ {n}
  BY DEF Next, LoadId, CallerStep, StoreId, Transmit, Send, SendAlone, SendFails,
         ReceiveResult, ReceiveTimeout, ServerAccept, ServerRefuse, ServerReplies,
         ServerReply, WsReceive, WsEnqueue, WsDrop, ResultLost, Disconnect,
         Reconnect, wireVars, vars
<1> QED
  BY <1>1, FS_AddElement, FS_RemoveElement, FS_EmptySet

LEMMA NextType == TypeInv /\ [Next]_vars => TypeInv'
<1> SUFFICES ASSUME TypeInv, [Next]_vars PROVE TypeInv'
  OBVIOUS
<1>f. IsFiniteSet(working') /\ Cardinality(working) \in Nat
  BY NextFinite, FS_CardinalityType DEF TypeInv
<1> DEFINE T == TypeOK /\ Calling
<1> SUFFICES T'
  BY <1>f DEF TypeInv
<1> USE DEF TypeInv, TypeOK, Calling, clientVars, wireVars, historyVars
<1>1. ASSUME NEW c \in Callers, LoadId(c) PROVE T'
  <2>1. call[c] + 1 \in 1..MaxCalls
    BY <1>1 DEF LoadId
  <2> QED
    BY <1>1, <2>1 DEF LoadId
<1>2. ASSUME NEW c \in Callers, StoreId(c) PROVE T'
  BY <1>2 DEF StoreId
<1>3. ASSUME NEW c \in Callers, Send(c) \/ SendAlone(c) PROVE T'
  <2>1. [name |-> Name(c), id |-> loaded[c] + 1] \in Command
    BY <1>3 DEF Command, CallName, Name, Send, SendAlone, Transmit
  <2>2. CASE Send(c)
    BY <2>1, <2>2 DEF Send, Transmit
  <2>3. CASE SendAlone(c)
    BY <2>1, <2>3 DEF SendAlone, Transmit
  <2> QED
    BY <1>3, <2>2, <2>3
<1>4. ASSUME NEW c \in Callers, SendFails(c) PROVE T'
  BY <1>4 DEF SendFails
<1>5. ASSUME NEW c \in Callers, ReceiveResult(c) PROVE T'
  <2>1. Name(c) \in CallName
    BY <1>5 DEF CallName, Name, ReceiveResult
  <2>2. Tail(result_queue) \in Seq(Result)
          /\ Len(Tail(result_queue)) <= ResultQueueLen
    BY <1>5 DEF ReceiveResult
  <2> QED
    BY <1>5, <2>1, <2>2 DEF ReceiveResult
<1>6. ASSUME NEW c \in Callers, ReceiveTimeout(c) PROVE T'
  BY <1>6 DEF ReceiveTimeout
<1>7. CASE ServerAccept \/ ServerRefuse
  <2> DEFINE q == Head(to_server)
  <2>1. q \in Command /\ Tail(to_server) \in Seq(Command)
    BY <1>7 DEF ServerAccept, ServerRefuse
  <2>2. /\ q.name \in CallName /\ q.id \in Nat
        /\ [name |-> q.name, success |-> FALSE] \in Result
    BY <2>1 DEF Command, Result
  <2>3. CASE ServerAccept
    BY <2>1, <2>2, <2>3 DEF ServerAccept
  <2>4. CASE ServerRefuse
    BY <2>1, <2>2, <2>4 DEF ServerRefuse
  <2> QED
    BY <1>7, <2>3, <2>4
<1>8. ASSUME NEW n \in CallName, NEW ok \in BOOLEAN, ServerReply(n, ok)
      PROVE  T'
  <2>1. [name |-> n, success |-> ok] \in Result
    BY DEF Result
  <2> QED
    BY <1>8, <2>1 DEF ServerReply
<1>9. CASE WsReceive
  BY <1>9 DEF WsReceive
<1>10. CASE WsEnqueue
  <2>1. rx_result \in Result /\ rx_result' = NoResult
    BY <1>10 DEF WsEnqueue
  <2>2. result_queue' \in Seq(Result) /\ Len(result_queue') <= ResultQueueLen
    BY <1>10, <2>1 DEF WsEnqueue
  <2> QED
    BY <1>10, <2>1, <2>2 DEF WsEnqueue
<1>11. CASE WsDrop
  <2>1. rx_result' = NoResult
    BY <1>11 DEF WsDrop
  <2> QED
    BY <1>11, <2>1 DEF WsDrop
<1>12. CASE ResultLost
  <2>1. to_client' \in Seq(Result)
    BY <1>12 DEF ResultLost
  <2> QED
    BY <1>12, <2>1 DEF ResultLost
<1>13. CASE Disconnect
  <2>1. /\ to_server' = <<>> /\ to_client' = <<>> /\ working' = {}
        /\ to_server' \in Seq(Command) /\ to_client' \in Seq(Result)
        /\ lost' \in Nat
    BY <1>f, <1>13 DEF Disconnect
  <2> QED
    BY <1>13, <2>1 DEF Disconnect
<1>14. CASE Reconnect
  BY <1>14 DEF Reconnect
<1>15. CASE UNCHANGED vars
  BY <1>15 DEF vars
<1> QED
  BY <1>1, <1>2, <1>3, <1>4, <1>5, <1>6, <1>7, <1>8, <1>9, <1>10, <1>11,
     <1>12, <1>13, <1>14, <1>15 DEF Next, CallerStep, ServerReplies

(* The variables keep their types, for any callers, timeouts and losses. *)
THEOREM TypeCorrect == Spec => [](TypeOK /\ Calling)
  BY InitType, NextType, PTL DEF Spec, TypeInv

-----------------------------------------------------------------------------
(* Callers that take turns.  While every command sent is waited for, and   *)
(* none is sent while another caller waits, at most one caller waits; at   *)
(* most one command or result is under way, it is that caller's, and if it *)
(* reports success it is the truth.                                        *)
Path == <<to_server, working, to_client, rx_result, result_queue>>
NoPath == <<<<>>, {}, <<>>, NoResult, <<>>>>

Honest(r, c) == r.name = Name(c) /\ (r.success => Name(c) \in succeeded)

OnItsWay(c) ==
  \/ \E q \in Command :
       q.name = Name(c) /\ Path = <<<<q>>, {}, <<>>, NoResult, <<>>>>
  \/ Path = <<<<>>, {Name(c)}, <<>>, NoResult, <<>>>>
  \/ \E r \in Result :
       /\ Honest(r, c)
       /\ \/ Path = <<<<>>, {}, <<r>>, NoResult, <<>>>>
          \/ Path = <<<<>>, {}, <<>>, r, <<>>>>
          \/ Path = <<<<>>, {}, <<>>, NoResult, <<r>>>>

Turn ==
  \/ Receivers = {} /\ Path = NoPath
  \/ \E c \in Callers : Receivers = {c} /\ (Path = NoPath \/ OnItsWay(c))

InTurn == unawaited = 0 /\ ~overlapped
TurnInv == InTurn => Truthful /\ Turn

LEMMA Singleton ==
  ASSUME NEW S, NEW e \in S
  PROVE  /\ Append(<<>>, e) = <<e>>
         /\ Head(<<e>>) = e
         /\ Tail(<<e>>) = <<>>
         /\ <<e>> # <<>>
  OBVIOUS

LEMMA InitTurn == Init => TurnInv
  BY DEF Init, TurnInv, Truthful, Turn, Receivers, Path, NoPath

(* A turn once broken stays broken. *)
LEMMA TurnsEnd ==
  ASSUME TypeInv, [Next]_vars, InTurn' PROVE InTurn
<1> USE DEF Next, LoadId, CallerStep, StoreId, Transmit, Send, SendAlone,
            SendFails, ReceiveResult, ReceiveTimeout, ServerAccept, ServerRefuse,
            ServerReplies, ServerReply, WsReceive, WsEnqueue, WsDrop, ResultLost,
            Disconnect, Reconnect, historyVars, vars
<1>1. unawaited' = unawaited \/ unawaited' = unawaited + 1
  OBVIOUS
<1>3. overlapped' = overlapped \/ overlapped' = (overlapped \/ Receivers # {})
  OBVIOUS
<1>2. unawaited \in Nat
  BY DEF TypeInv, TypeOK
<1>4. unawaited = 0
  BY <1>1, <1>2 DEF InTurn
<1>5. ~overlapped
  BY <1>3 DEF InTurn
<1> QED
  BY <1>4, <1>5 DEF InTurn

LEMMA NextTurn ==
  ASSUME TypeInv, TurnInv, [Next]_vars
  PROVE  TurnInv'
<1> SUFFICES ASSUME InTurn' PROVE Truthful' /\ Turn'
  BY DEF TurnInv
<1> USE DEF TypeInv, TypeOK, clientVars, wireVars, historyVars, Path, NoPath
<1>0. InTurn /\ Truthful /\ Turn
  BY TurnsEnd DEF TurnInv
<1>r. ASSUME pc' = pc PROVE Receivers' = Receivers
  BY <1>r DEF Receivers
<1>p. ASSUME Path # NoPath
      PROVE  \E c \in Callers : Receivers = {c} /\ OnItsWay(c)
  BY <1>0, <1>p DEF Turn
<1>k. ASSUME NEW c \in Callers, Receivers = {c}, UNCHANGED <<pc, call>>,
             Path' = NoPath \/ OnItsWay(c)'
      PROVE  Turn'
  BY <1>k, <1>r DEF Turn
<1>1. ASSUME NEW d \in Callers, LoadId(d) \/ StoreId(d) \/ SendFails(d)
      PROVE  Truthful' /\ Turn'
  <2>1. /\ Path' = Path /\ succeeded' = succeeded /\ ok_calls' = ok_calls
        /\ pc[d] # "receive" /\ Receivers' = Receivers
        /\ \A c \in Callers : c # d => call'[c] = call[c]
    BY <1>1 DEF LoadId, StoreId, SendFails, Receivers
  <2>2. ASSUME NEW c \in Callers, Receivers = {c}, OnItsWay(c)
        PROVE  OnItsWay(c)'
    <3>1. c # d
      BY <2>1, <2>2 DEF Receivers
    <3>2. Name(c)' = Name(c)
      BY <2>1, <3>1 DEF Name
    <3>3. \A r : Honest(r, c) => Honest(r, c)'
      BY <2>1, <3>2 DEF Honest
    <3> QED
      BY <2>1, <2>2, <3>2, <3>3 DEF OnItsWay
  <2> QED
    BY <1>0, <2>1, <2>2 DEF Turn, Truthful
<1>2. ASSUME NEW d \in Callers, Send(d) PROVE Truthful' /\ Turn'
  <2> DEFINE q == [name |-> Name(d), id |-> loaded[d] + 1]
  <2>1. Receivers = {}
    BY <1>2 DEF Send, InTurn
  <2>2. Path = NoPath
    BY <1>0, <2>1 DEF Turn
  <2>3. q \in Command /\ q.name = Name(d)
    BY <1>2 DEF Send, Transmit, Command, CallName, Name, Calling
  <2>4. Path' = <<<<q>>, {}, <<>>, NoResult, <<>>>>
    BY <1>2, <2>2, <2>3, Singleton DEF Send, Transmit
  <2>5. Receivers' = {d} /\ Name(d)' = Name(d) /\ Truthful'
    BY <1>0, <1>2, <2>1 DEF Send, Transmit, Name, Truthful, Receivers
  <2> HIDE DEF q
  <2>6. OnItsWay(d)'
    BY <2>3, <2>4, <2>5 DEF OnItsWay
  <2> QED
    BY <2>5, <2>6 DEF Turn
<1>3. ASSUME NEW d \in Callers, SendAlone(d) \/ ReceiveTimeout(d)
      PROVE  Truthful' /\ Turn'
  BY <1>3 DEF SendAlone, ReceiveTimeout, InTurn
<1>4. ASSUME NEW d \in Callers, ReceiveResult(d) PROVE Truthful' /\ Turn'
  <2>1. Receivers = {d} /\ OnItsWay(d)
    BY <1>4, <1>p DEF ReceiveResult, Receivers
  <2>2. PICK r \in Result : /\ Honest(r, d)
                            /\ Path = <<<<>>, {}, <<>>, NoResult, <<r>>>>
    BY <1>4, <2>1 DEF ReceiveResult, OnItsWay
  <2>3. Head(result_queue) = r /\ Tail(result_queue) = <<>>
    BY <2>2, Singleton
  <2>4. Path' = NoPath
    BY <1>4, <2>2, <2>3 DEF ReceiveResult
  <2>5. Receivers' = {}
    BY <1>4, <2>1 DEF ReceiveResult, Receivers
  <2>6. Truthful'
    BY <1>0, <1>4, <2>2, <2>3 DEF ReceiveResult, Truthful, Honest
  <2> QED
    BY <2>4, <2>5, <2>6 DEF Turn
<1>5. CASE ServerAccept \/ ServerRefuse
  <2>1. PICK c \in Callers : Receivers = {c} /\ OnItsWay(c)
    BY <1>5, <1>p DEF ServerAccept, ServerRefuse
  <2>2. PICK q \in Command :
          /\ q.name = Name(c)
          /\ Path = <<<<q>>, {}, <<>>, NoResult, <<>>>>
    BY <1>5, <2>1 DEF ServerAccept, ServerRefuse, OnItsWay
  <2>3. Head(to_server) = q /\ Tail(to_server) = <<>>
    BY <2>2, Singleton
  <2>4. /\ UNCHANGED <<pc, call>> /\ succeeded' = succeeded
        /\ Name(c)' = Name(c) /\ Truthful'
    BY <1>0, <1>5 DEF ServerAccept, ServerRefuse, Name, Truthful
  <2>5. CASE ServerAccept
    <3>1. OnItsWay(c)'
      BY <2>2, <2>3, <2>4, <2>5 DEF ServerAccept, OnItsWay
    <3> QED
      BY <1>k, <2>1, <2>4, <3>1
  <2>6. CASE ServerRefuse
    <3> DEFINE r == [name |-> q.name, success |-> FALSE]
    <3>1. r \in Result /\ r.name = Name(c) /\ ~r.success
      BY <2>2 DEF Result, Command
    <3>2. Path' = <<<<>>, {}, <<r>>, NoResult, <<>>>>
      BY <2>2, <2>3, <2>6, <3>1, Singleton DEF ServerRefuse
    <3> HIDE DEF r
    <3>3. Honest(r, c)'
      BY <2>4, <3>1 DEF Honest
    <3>4. OnItsWay(c)'
      BY <3>1, <3>2, <3>3 DEF OnItsWay
    <3> QED
      BY <1>k, <2>1, <2>4, <3>4
  <2> QED
    BY <1>5, <2>5, <2>6
<1>6. ASSUME NEW n \in CallName, NEW ok \in BOOLEAN, ServerReply(n, ok)
      PROVE  Truthful' /\ Turn'
  <2> DEFINE r == [name |-> n, success |-> ok]
  <2>1. PICK c \in Callers : Receivers = {c} /\ OnItsWay(c)
    BY <1>6, <1>p DEF ServerReply
  <2>2. n = Name(c) /\ Path = <<<<>>, {n}, <<>>, NoResult, <<>>>>
    BY <1>6, <2>1 DEF ServerReply, OnItsWay
  <2>3. r \in Result /\ r.name = n /\ r.success = ok
    BY DEF Result
  <2>4. Path' = <<<<>>, {}, <<r>>, NoResult, <<>>>>
    BY <1>6, <2>2, <2>3, Singleton DEF ServerReply
  <2>5. /\ UNCHANGED <<pc, call>> /\ Name(c)' = Name(c)
        /\ succeeded \subseteq succeeded' /\ (ok => n \in succeeded')
        /\ Truthful'
    BY <1>0, <1>6 DEF ServerReply, Name, Truthful
  <2> HIDE DEF r
  <2>6. Honest(r, c)'
    BY <2>2, <2>3, <2>5 DEF Honest
  <2>7. OnItsWay(c)'
    BY <2>3, <2>4, <2>6 DEF OnItsWay
  <2> QED
    BY <1>k, <2>1, <2>5, <2>7
<1>7. CASE WsReceive \/ WsEnqueue
  <2>1. PICK c \in Callers : Receivers = {c} /\ OnItsWay(c)
    BY <1>7, <1>p DEF WsReceive, WsEnqueue
  <2>2. PICK r \in Result :
          /\ Honest(r, c)
          /\ \/ WsReceive /\ Path = <<<<>>, {}, <<r>>, NoResult, <<>>>>
             \/ WsEnqueue /\ Path = <<<<>>, {}, <<>>, r, <<>>>>
    BY <1>7, <2>1 DEF WsReceive, WsEnqueue, OnItsWay
  <2>3. \/ Path' = <<<<>>, {}, <<>>, r, <<>>>>
        \/ Path' = <<<<>>, {}, <<>>, NoResult, <<r>>>>
    BY <2>2, Singleton DEF WsReceive, WsEnqueue
  <2>4. UNCHANGED <<pc, call>> /\ Honest(r, c)' /\ Truthful'
    BY <1>0, <1>7, <2>2 DEF WsReceive, WsEnqueue, Honest, Name, Truthful
  <2>5. OnItsWay(c)'
    BY <2>3, <2>4 DEF OnItsWay
  <2> QED
    BY <1>k, <2>1, <2>4, <2>5
<1>8. CASE WsDrop
  BY <1>8, <1>p DEF WsDrop
<1>9. CASE ResultLost
  <2>1. PICK c \in Callers : Receivers = {c} /\ OnItsWay(c)
    BY <1>9, <1>p DEF ResultLost
  <2>2. PICK r \in Result : Path = <<<<>>, {}, <<r>>, NoResult, <<>>>>
    BY <1>9, <2>1 DEF ResultLost, OnItsWay
  <2>3. Path' = NoPath /\ UNCHANGED <<pc, call>> /\ Truthful'
    BY <1>0, <1>9, <2>2, Singleton DEF ResultLost, Truthful
  <2> QED
    BY <1>k, <2>1, <2>3
<1>10. CASE Disconnect
  <2>1. /\ UNCHANGED <<pc, call>> /\ Truthful' /\ succeeded' = succeeded
        /\ Path' = <<<<>>, {}, <<>>, rx_result, result_queue>>
    BY <1>0, <1>10 DEF Disconnect, Truthful
  <2>2. CASE Path = NoPath
    BY <1>0, <1>r, <2>1, <2>2 DEF Turn, OnItsWay
  <2>3. CASE Path # NoPath
    <3>1. PICK c \in Callers : Receivers = {c} /\ OnItsWay(c)
      BY <1>p, <2>3
    <3>2. \A r : Honest(r, c) => Honest(r, c)'
      BY <2>1 DEF Honest, Name
    <3>3. Path' = NoPath \/ OnItsWay(c)'
      BY <2>1, <3>1, <3>2 DEF OnItsWay
    <3> QED
      BY <1>k, <2>1, <3>1, <3>3
  <2> QED
    BY <2>2, <2>3
<1>11. CASE Reconnect \/ UNCHANGED vars
  BY <1>0, <1>11
     DEF Reconnect, vars, Turn, OnItsWay, Honest, Name, Truthful, Receivers
<1> QED
  BY <1>1, <1>2, <1>3, <1>4, <1>5, <1>6, <1>7, <1>8, <1>9, <1>10, <1>11
     DEF Next, CallerStep, ServerReplies

(* ESP_OK is the truth in turn: whatever the connection loses, for any     *)
(* callers, any number of calls and any length of the queue, a call that   *)
(* returned ESP_OK is one the server carried out, until somebody gave up   *)
(* waiting, did not wait at all, or sent while another caller waited.      *)
THEOREM TruthInTurn == Spec => []TruthfulInTurn
<1>1. TypeInv /\ TurnInv /\ [Next]_vars => (TypeInv /\ TurnInv)'
  BY NextType, NextTurn
<1>2. TurnInv => TruthfulInTurn
  BY DEF TurnInv, InTurn, TruthfulInTurn
<1> QED
  BY <1>1, <1>2, InitType, InitTurn, PTL DEF Spec

-----------------------------------------------------------------------------
(* Successes.  A command or its result is in one place only, and a command *)
(* that was not sent is nowhere: so the server carries out each once, and  *)
(* each success under way is one more command carried out than calls that  *)
(* returned ESP_OK.                                                        *)
Names(q) == {q[i].name : i \in DOMAIN q}
Good(q) == {q[i].name : i \in {j \in DOMAIN q : q[j].success}}
Distinct(q) == \A i, j \in DOMAIN q : q[i].name = q[j].name => i = j

RxNames == IF rx_result = NoResult THEN {} ELSE {rx_result.name}
RxGood == IF rx_result = NoResult THEN {}
          ELSE IF rx_result.success THEN {rx_result.name} ELSE {}

Used == {n \in CallName : IF pc[n[1]] \in {"store", "send"}
                            THEN n[2] < call[n[1]] ELSE n[2] <= call[n[1]]}

Underway == Names(to_server) \union working
Answered == Names(to_client) \union RxNames \union Names(result_queue)

OnePlace ==
  /\ Distinct(to_server) /\ Distinct(to_client) /\ Distinct(result_queue)
  /\ Names(to_server) \intersect working = {}
  /\ Underway \intersect Answered = {}
  /\ Names(to_client) \intersect RxNames = {}
  /\ Names(to_client) \intersect Names(result_queue) = {}
  /\ RxNames \intersect Names(result_queue) = {}
  /\ Underway \intersect succeeded = {}
  /\ Underway \union Answered \union succeeded \subseteq Used

AllGood == Good(to_client) \union RxGood \union Good(result_queue)

Covered ==
  /\ IsFiniteSet(AllGood) /\ IsFiniteSet(ok_calls) /\ IsFiniteSet(succeeded)
  /\ Cardinality(ok_calls) + Cardinality(AllGood) <= Cardinality(succeeded)

LEMMA EmptyNames == Names(<<>>) = {} /\ Good(<<>>) = {} /\ Distinct(<<>>)
  BY DEF Names, Good, Distinct

LEMMA GoodNames == ASSUME NEW q PROVE Good(q) \subseteq Names(q)
  BY DEF Good, Names

LEMMA AppendNames ==
  ASSUME NEW S, NEW q \in Seq(S), NEW e \in S
  PROVE  /\ Names(Append(q, e)) = Names(q) \union {e.name}
         /\ Distinct(q) /\ e.name \notin Names(q) => Distinct(Append(q, e))
         /\ e.success => Good(Append(q, e)) = Good(q) \union {e.name}
         /\ ~e.success => Good(Append(q, e)) = Good(q)
<1> DEFINE a == Append(q, e)
<1>1. /\ DOMAIN a = DOMAIN q \union {Len(q) + 1}
      /\ \A i \in DOMAIN q : a[i] = q[i] /\ i # Len(q) + 1
      /\ a[Len(q) + 1] = e
  BY AppendProperties
<1> HIDE DEF a
<1>2. Names(a) = Names(q) \union {e.name}
  BY <1>1 DEF Names
<1>3. ASSUME Distinct(q), e.name \notin Names(q) PROVE Distinct(a)
  BY <1>1, <1>3 DEF Distinct, Names
<1>4. e.success => Good(a) = Good(q) \union {e.name}
  BY <1>1 DEF Good
<1>5. ~e.success => Good(a) = Good(q)
  BY <1>1 DEF Good
<1> QED
  BY <1>2, <1>3, <1>4, <1>5 DEF a

LEMMA TailNames ==
  ASSUME NEW S, NEW q \in Seq(S), q # <<>>, Distinct(q)
  PROVE  /\ Head(q) \in S /\ Head(q).name \in Names(q)
         /\ Names(Tail(q)) = Names(q) \ {Head(q).name}
         /\ Distinct(Tail(q))
         /\ Good(Tail(q)) = Good(q) \ {Head(q).name}
         /\ Head(q).success <=> Head(q).name \in Good(q)
<1> DEFINE t == Tail(q)
           h == Head(q)
<1>1. /\ h = q[1] /\ 1 \in DOMAIN q /\ h \in S
      /\ \A i \in DOMAIN t : i + 1 \in DOMAIN q /\ t[i] = q[i + 1] /\ i + 1 # 1
      /\ \A i \in DOMAIN q : i = 1 \/ (i - 1 \in DOMAIN t /\ t[i - 1] = q[i])
  BY HeadTailProperties, EmptySeq
<1>2. \A i, j \in DOMAIN t : i \in Nat /\ j \in Nat
  OBVIOUS
<1> HIDE DEF t, h
<1>3. \A i \in DOMAIN q : i # 1 => q[i].name # h.name
  BY <1>1 DEF Distinct
<1>4. Names(t) = Names(q) \ {h.name} /\ h.name \in Names(q)
  BY <1>1, <1>3 DEF Names
<1>5. Distinct(t)
  <2> SUFFICES ASSUME NEW i \in DOMAIN t, NEW j \in DOMAIN t,
                      t[i].name = t[j].name
               PROVE  i = j
    BY DEF Distinct
  <2>1. q[i + 1].name = q[j + 1].name
    BY <1>1
  <2>2. i + 1 = j + 1
    BY <1>1, <2>1 DEF Distinct
  <2> QED
    BY <1>2, <2>2
<1>6. Good(t) = Good(q) \ {h.name}
  BY <1>1, <1>3 DEF Good
<1>7. h.success <=> h.name \in Good(q)
  BY <1>1, <1>3 DEF Good
<1> QED
  BY <1>1, <1>4, <1>5, <1>6, <1>7 DEF t, h

(* A name once used stays so, and the name of a call is used when the      *)
(* call is sent, not before.                                               *)
LEMMA NextUsed ==
  ASSUME TypeInv, [Next]_vars
  PROVE  Used \subseteq Used'
<1> USE DEF TypeInv, TypeOK, Calling, Used, CallName,
            clientVars, wireVars, historyVars
<1>1. ASSUME NEW c \in Callers, LoadId(c) PROVE Used \subseteq Used'
  BY <1>1 DEF LoadId
<1>2. ASSUME NEW c \in Callers, CallerStep(c) PROVE Used \subseteq Used'
  <2>1. /\ call' = call
        /\ \/ pc[c] = "store" /\ pc' = [pc EXCEPT ![c] = "send"]
           \/ pc' = [pc EXCEPT ![c] = "receive"] \/ pc' = [pc EXCEPT ![c] = "idle"]
    BY <1>2
       DEF CallerStep, StoreId, Transmit, Send, SendAlone, SendFails,
           ReceiveResult, ReceiveTimeout
  <2>2. \A n \in CallName : n[1] \in Callers /\ n[2] \in Nat /\ call[n[1]] \in Nat
    OBVIOUS
  <2>3. ASSUME NEW n \in Used PROVE n \in Used'
    BY <2>1, <2>2, <2>3
  <2> QED
    BY <2>3
<1>3. ASSUME UNCHANGED clientVars PROVE Used' = Used
  BY <1>3
<1> QED
  BY <1>1, <1>2, <1>3
     DEF Next, ServerAccept, ServerRefuse, ServerReplies, ServerReply, WsReceive,
         WsEnqueue, WsDrop, ResultLost, Disconnect, Reconnect, vars

LEMMA SentIsUsed ==
  ASSUME TypeInv, NEW c \in Callers, Send(c) \/ SendAlone(c)
  PROVE  Name(c) \in Used' \ Used
<1> USE DEF TypeInv, TypeOK, Calling, Used, CallName, Transmit, Name
<1>1. CASE Send(c)
  BY <1>1 DEF Send
<1>2. CASE SendAlone(c)
  BY <1>2 DEF SendAlone
<1> QED
  BY <1>1, <1>2

LEMMA InitOnePlace == Init => OnePlace
  BY EmptyNames DEF Init, OnePlace, Underway, Answered, RxNames

LEMMA NextOnePlace ==
  ASSUME TypeInv, OnePlace, [Next]_vars
  PROVE  OnePlace'
<1> USE DEF clientVars, wireVars, historyVars
<1>t. TypeOK /\ Used \subseteq Used'
  BY NextUsed DEF TypeInv
<1>1. ASSUME NEW c \in Callers, LoadId(c) \/ StoreId(c) \/ SendFails(c)
                                \/ ReceiveTimeout(c)
      PROVE  OnePlace'
  <2>1. /\ to_server' = to_server /\ working' = working /\ to_client' = to_client
        /\ rx_result' = rx_result /\ result_queue' = result_queue
        /\ succeeded' = succeeded
    BY <1>1 DEF LoadId, StoreId, SendFails, ReceiveTimeout
  <2> QED
    BY <1>t, <2>1 DEF OnePlace, Underway, Answered, RxNames
<1>2. ASSUME NEW c \in Callers, Send(c) \/ SendAlone(c) PROVE OnePlace'
  <2> DEFINE e == [name |-> Name(c), id |-> loaded[c] + 1]
  <2>1. e \in Command /\ e.name = Name(c)
    BY <1>2, <1>t
       DEF Send, SendAlone, Transmit, TypeOK, Command, CallName, Name, TypeInv,
           Calling
  <2>2. Name(c) \in Used' \ Used
    BY <1>2, SentIsUsed
  <2>3. Name(c) \notin Underway \union Answered \union succeeded
    BY <2>2 DEF OnePlace
  <2>4. to_server' = Append(to_server, e)
    BY <1>2 DEF Send, SendAlone, Transmit
  <2> HIDE DEF e
  <2>5. /\ Names(to_server') = Names(to_server) \union {Name(c)}
        /\ Distinct(to_server')
    BY <1>t, <2>1, <2>3, <2>4, AppendNames DEF TypeOK, OnePlace, Underway
  <2>6. /\ working' = working /\ to_client' = to_client
        /\ rx_result' = rx_result /\ result_queue' = result_queue
        /\ succeeded' = succeeded
    BY <1>2 DEF Send, SendAlone, Transmit
  <2> QED
    BY <1>t, <2>2, <2>3, <2>5, <2>6 DEF OnePlace, Underway, Answered, RxNames
<1>3. ASSUME NEW c \in Callers, ReceiveResult(c) PROVE OnePlace'
  <2>1. /\ Names(result_queue') \subseteq Names(result_queue)
        /\ Distinct(result_queue')
    BY <1>3, <1>t, TailNames DEF ReceiveResult, TypeOK, OnePlace
  <2>2. /\ to_server' = to_server /\ working' = working /\ to_client' = to_client
        /\ rx_result' = rx_result /\ succeeded' = succeeded
    BY <1>3 DEF ReceiveResult
  <2> QED
    BY <1>t, <2>1, <2>2 DEF OnePlace, Underway, Answered, RxNames
<1>4. CASE ServerAccept
  <2> DEFINE n == Head(to_server).name
  <2>1. /\ n \in Names(to_server) /\ Distinct(to_server')
        /\ Names(to_server') = Names(to_server) \ {n}
    BY <1>4, <1>t, TailNames DEF ServerAccept, TypeOK, OnePlace
  <2>2. /\ working' = working \union {n} /\ to_client' = to_client
        /\ rx_result' = rx_result /\ result_queue' = result_queue
        /\ succeeded' = succeeded
    BY <1>4 DEF ServerAccept
  <2> HIDE DEF n
  <2> QED
    BY <1>t, <2>1, <2>2 DEF OnePlace, Underway, Answered, RxNames
<1>5. CASE ServerRefuse
  <2> DEFINE n == Head(to_server).name
             e == [name |-> n, success |-> FALSE]
  <2>1. /\ n \in Names(to_server) /\ Distinct(to_server')
        /\ Names(to_server') = Names(to_server) \ {n}
        /\ Head(to_server) \in Command
    BY <1>5, <1>t, TailNames DEF ServerRefuse, TypeOK, OnePlace
  <2>2. e \in Result /\ e.name = n
    BY <2>1 DEF Command, Result
  <2>3. to_client' = Append(to_client, e)
    BY <1>5 DEF ServerRefuse
  <2>4. /\ working' = working /\ succeeded' = succeeded
        /\ rx_result' = rx_result /\ result_queue' = result_queue
    BY <1>5 DEF ServerRefuse
  <2> HIDE DEF n, e
  <2>5. n \notin Names(to_client)
    BY <2>1 DEF OnePlace, Underway, Answered
  <2>6. /\ Names(to_client') = Names(to_client) \union {n}
        /\ Distinct(to_client')
    BY <1>t, <2>2, <2>3, <2>5, AppendNames DEF TypeOK, OnePlace
  <2> QED
    BY <1>t, <2>1, <2>4, <2>6 DEF OnePlace, Underway, Answered, RxNames
<1>6. ASSUME NEW n \in CallName, NEW ok \in BOOLEAN, ServerReply(n, ok)
      PROVE  OnePlace'
  <2> DEFINE e == [name |-> n, success |-> ok]
  <2>1. e \in Result /\ e.name = n
    BY DEF Result
  <2>2. to_client' = Append(to_client, e)
    BY <1>6 DEF ServerReply
  <2>3. /\ n \in working /\ working' = working \ {n}
        /\ succeeded' \subseteq succeeded \union {n}
        /\ to_server' = to_server
        /\ rx_result' = rx_result /\ result_queue' = result_queue
    BY <1>6 DEF ServerReply
  <2> HIDE DEF e
  <2>4. n \notin Names(to_client)
    BY <2>3 DEF OnePlace, Underway, Answered
  <2>5. /\ Names(to_client') = Names(to_client) \union {n}
        /\ Distinct(to_client')
    BY <1>t, <2>1, <2>2, <2>4, AppendNames DEF TypeOK, OnePlace
  <2> QED
    BY <1>t, <2>3, <2>5 DEF OnePlace, Underway, Answered, RxNames
<1>7. CASE WsReceive
  <2> DEFINE e == Head(to_client)
  <2>1. /\ e \in Result /\ e.name \in Names(to_client) /\ Distinct(to_client')
        /\ Names(to_client') = Names(to_client) \ {e.name}
    BY <1>7, <1>t, TailNames DEF WsReceive, TypeOK, OnePlace
  <2>2. /\ rx_result = NoResult /\ rx_result' = e
        /\ to_server' = to_server /\ working' = working
        /\ result_queue' = result_queue /\ succeeded' = succeeded
    BY <1>7 DEF WsReceive
  <2> HIDE DEF e
  <2>3. RxNames' = {e.name} /\ RxNames = {}
    BY <2>1, <2>2 DEF RxNames
  <2> QED
    BY <1>t, <2>1, <2>2, <2>3 DEF OnePlace, Underway, Answered
<1>8. CASE WsEnqueue
  <2>1. /\ rx_result \in Result /\ rx_result' = NoResult
        /\ RxNames = {rx_result.name} /\ RxNames' = {}
    BY <1>8, <1>t DEF WsEnqueue, TypeOK, RxNames
  <2>2. rx_result.name \notin Names(result_queue)
    BY <2>1 DEF OnePlace
  <2>3. /\ Names(result_queue') = Names(result_queue) \union {rx_result.name}
        /\ Distinct(result_queue')
    BY <1>8, <1>t, <2>1, <2>2, AppendNames DEF WsEnqueue, TypeOK, OnePlace
  <2>4. /\ to_server' = to_server /\ working' = working
        /\ to_client' = to_client /\ succeeded' = succeeded
    BY <1>8 DEF WsEnqueue
  <2> QED
    BY <1>t, <2>1, <2>3, <2>4 DEF OnePlace, Underway, Answered
<1>9. CASE WsDrop
  <2>1. RxNames' = {}
    BY <1>9 DEF WsDrop, RxNames
  <2> QED
    BY <1>9, <1>t, <2>1 DEF WsDrop, OnePlace, Underway, Answered
<1>10. CASE ResultLost
  <2>1. /\ Names(to_client') \subseteq Names(to_client)
        /\ Distinct(to_client')
    BY <1>10, <1>t, TailNames DEF ResultLost, TypeOK, OnePlace
  <2>2. /\ to_server' = to_server /\ working' = working
        /\ result_queue' = result_queue
        /\ rx_result' = rx_result /\ succeeded' = succeeded
    BY <1>10 DEF ResultLost
  <2> QED
    BY <1>t, <2>1, <2>2 DEF OnePlace, Underway, Answered, RxNames
<1>11. CASE Disconnect
  <2>1. /\ Names(to_server') = {} /\ Names(to_client') = {} /\ working' = {}
        /\ Distinct(to_server') /\ Distinct(to_client')
    BY <1>11, EmptyNames DEF Disconnect
  <2>2. /\ rx_result' = rx_result /\ result_queue' = result_queue
        /\ succeeded' = succeeded
    BY <1>11 DEF Disconnect
  <2> QED
    BY <1>t, <2>1, <2>2 DEF OnePlace, Underway, Answered, RxNames
<1>12. CASE Reconnect \/ UNCHANGED vars
  BY <1>12, <1>t DEF Reconnect, vars, OnePlace, Underway, Answered, RxNames
<1> QED
  BY <1>1, <1>2, <1>3, <1>4, <1>5, <1>6, <1>7, <1>8, <1>9, <1>10, <1>11, <1>12
     DEF Next, CallerStep, ServerReplies

LEMMA NextCovered ==
  ASSUME TypeInv, OnePlace, Covered, [Next]_vars
  PROVE  Covered'
<1> USE DEF clientVars, wireVars, historyVars
<1>t. /\ TypeOK
      /\ Cardinality(ok_calls) \in Nat /\ Cardinality(AllGood) \in Nat
      /\ Cardinality(succeeded) \in Nat
  BY FS_CardinalityType DEF TypeInv, Covered
<1>s. ASSUME AllGood' \subseteq AllGood, ok_calls' = ok_calls, succeeded' = succeeded
      PROVE  Covered'
  <2>1. IsFiniteSet(AllGood') /\ Cardinality(AllGood') <= Cardinality(AllGood)
    BY <1>s, FS_Subset DEF Covered
  <2>2. Cardinality(AllGood') \in Nat
    BY <2>1, FS_CardinalityType
  <2> QED
    BY <1>t, <1>s, <2>1, <2>2 DEF Covered
<1>1. ASSUME NEW c \in Callers, LoadId(c) \/ CallerStep(c), ~ReceiveResult(c)
      PROVE  Covered'
  <2>1. /\ to_client' = to_client /\ rx_result' = rx_result
        /\ result_queue' = result_queue
        /\ ok_calls' = ok_calls /\ succeeded' = succeeded
    BY <1>1 DEF LoadId, CallerStep, StoreId, Transmit, Send, SendAlone, SendFails,
                ReceiveTimeout
  <2> QED
    BY <1>s, <2>1 DEF AllGood, RxGood
<1>2. ASSUME NEW c \in Callers, ReceiveResult(c) PROVE Covered'
  <2> DEFINE h == Head(result_queue)
  <2>1. /\ h.name \in Names(result_queue)
        /\ Good(result_queue') = Good(result_queue) \ {h.name}
        /\ h.success <=> h.name \in Good(result_queue)
    BY <1>2, <1>t, TailNames DEF ReceiveResult, TypeOK, OnePlace
  <2>2. /\ to_client' = to_client /\ rx_result' = rx_result
        /\ succeeded' = succeeded
        /\ h.success => ok_calls' = ok_calls \union {Name(c)}
        /\ ~h.success => ok_calls' = ok_calls
    BY <1>2 DEF ReceiveResult
  <2> HIDE DEF h
  <2>3. h.name \notin Good(to_client) \union RxGood
    BY <2>1, GoodNames DEF OnePlace, RxGood, RxNames
  <2>4. AllGood' = AllGood \ {h.name}
    BY <2>1, <2>2, <2>3 DEF AllGood, RxGood
  <2>5. CASE h.success
    <3>1. h.name \in AllGood
      BY <2>1, <2>5 DEF AllGood
    <3>2. /\ IsFiniteSet(AllGood')
          /\ Cardinality(AllGood') = Cardinality(AllGood) - 1
      BY <2>4, <3>1, FS_RemoveElement DEF Covered
    <3>3. ok_calls' = ok_calls \union {Name(c)}
      BY <2>2, <2>5
    <3>4. /\ IsFiniteSet(ok_calls')
          /\ \/ Cardinality(ok_calls') = Cardinality(ok_calls)
             \/ Cardinality(ok_calls') = Cardinality(ok_calls) + 1
      <4> DEFINE m == Name(c)
      <4>1. ok_calls' = ok_calls \union {m} /\ IsFiniteSet(ok_calls)
        BY <3>3 DEF Covered
      <4> HIDE DEF m
      <4> QED
        BY <4>1, FS_AddElement
    <3> QED
      BY <1>t, <2>2, <3>2, <3>4 DEF Covered
  <2>6. CASE ~h.success
    BY <1>s, <2>2, <2>4, <2>6
  <2> QED
    BY <2>5, <2>6
<1>3. CASE ServerAccept
  BY <1>3, <1>s DEF ServerAccept, AllGood, RxGood
<1>4. CASE ServerRefuse
  <2> DEFINE e == [name |-> Head(to_server).name, success |-> FALSE]
  <2>1. Head(to_server) \in Command
    BY <1>4, <1>t DEF ServerRefuse, TypeOK
  <2>2. e \in Result /\ ~e.success
    BY <2>1 DEF Command, Result
  <2>3. /\ to_client' = Append(to_client, e)
        /\ rx_result' = rx_result /\ result_queue' = result_queue
        /\ ok_calls' = ok_calls /\ succeeded' = succeeded
    BY <1>4 DEF ServerRefuse
  <2> HIDE DEF e
  <2>4. Good(to_client') = Good(to_client)
    BY <1>t, <2>2, <2>3, AppendNames DEF TypeOK
  <2> QED
    BY <1>s, <2>3, <2>4 DEF AllGood, RxGood
<1>5. ASSUME NEW n \in CallName, NEW ok \in BOOLEAN, ServerReply(n, ok)
      PROVE  Covered'
  <2> DEFINE e == [name |-> n, success |-> ok]
  <2>1. e \in Result /\ e.name = n /\ e.success = ok
    BY DEF Result
  <2>2. /\ to_client' = Append(to_client, e) /\ n \in working
        /\ rx_result' = rx_result /\ result_queue' = result_queue
        /\ ok_calls' = ok_calls
        /\ ok => succeeded' = succeeded \union {n}
        /\ ~ok => succeeded' = succeeded
    BY <1>5 DEF ServerReply
  <2> HIDE DEF e
  <2>3. CASE ~ok
    <3>1. Good(to_client') = Good(to_client)
      BY <1>t, <2>1, <2>2, <2>3, AppendNames DEF TypeOK
    <3> QED
      BY <1>s, <2>2, <2>3, <3>1 DEF AllGood, RxGood
  <2>4. CASE ok
    <3>1. Good(to_client') = Good(to_client) \union {n}
      <4>1. e.success
        BY <2>1, <2>4
      <4>2. to_client \in Seq(Result) /\ to_client' = Append(to_client, e)
        BY <1>t, <2>2 DEF TypeOK
      <4>3. Good(Append(to_client, e)) = Good(to_client) \union {e.name}
        BY <2>1, <4>1, <4>2, AppendNames
      <4>4. Good(to_client') = Good(Append(to_client, e))
        BY <4>2
      <4> QED
        BY <2>1, <4>3, <4>4
    <3>2. AllGood' = AllGood \union {n}
      BY <2>2, <3>1 DEF AllGood, RxGood
    <3>3. n \notin succeeded
      BY <2>2 DEF OnePlace, Underway
    <3>4. /\ IsFiniteSet(succeeded')
          /\ Cardinality(succeeded') = Cardinality(succeeded) + 1
      BY <2>2, <2>4, <3>3, FS_AddElement DEF Covered
    <3>5. /\ IsFiniteSet(AllGood')
          /\ \/ Cardinality(AllGood') = Cardinality(AllGood)
             \/ Cardinality(AllGood') = Cardinality(AllGood) + 1
      <4>1. IsFiniteSet(AllGood)
        BY DEF Covered
      <4> QED
        BY <3>2, <4>1, FS_AddElement
    <3> QED
      BY <1>t, <2>2, <3>4, <3>5 DEF Covered
  <2> QED
    BY <2>3, <2>4
<1>6. CASE WsReceive
  <2> DEFINE e == Head(to_client)
  <2>1. /\ Good(to_client') = Good(to_client) \ {e.name}
        /\ e.success <=> e.name \in Good(to_client)
        /\ e \in Result
    BY <1>6, <1>t, TailNames DEF WsReceive, TypeOK, OnePlace
  <2>2. /\ rx_result = NoResult /\ rx_result' = e
        /\ result_queue' = result_queue
        /\ ok_calls' = ok_calls /\ succeeded' = succeeded
    BY <1>6 DEF WsReceive
  <2> HIDE DEF e
  <2>3. RxGood' \subseteq Good(to_client)
    BY <2>1, <2>2 DEF RxGood
  <2> QED
    BY <1>s, <2>1, <2>2, <2>3 DEF AllGood
<1>7. CASE WsEnqueue
  <2>1. /\ rx_result \in Result /\ rx_result # NoResult /\ rx_result' = NoResult
        /\ result_queue' = Append(result_queue, rx_result)
        /\ to_client' = to_client
        /\ ok_calls' = ok_calls /\ succeeded' = succeeded
    BY <1>7, <1>t DEF WsEnqueue, TypeOK
  <2>2. Good(result_queue') \subseteq Good(result_queue) \union RxGood
    BY <1>t, <2>1, AppendNames DEF TypeOK, RxGood
  <2> QED
    BY <1>s, <2>1, <2>2 DEF AllGood, RxGood
<1>8. CASE WsDrop
  BY <1>8, <1>s DEF WsDrop, AllGood, RxGood
<1>9. CASE ResultLost
  <2>1. Good(to_client') \subseteq Good(to_client)
    BY <1>9, <1>t, TailNames DEF ResultLost, TypeOK, OnePlace
  <2> QED
    BY <1>9, <1>s, <2>1 DEF ResultLost, AllGood, RxGood
<1>10. CASE Disconnect
  <2>1. Good(to_client') = {}
    BY <1>10, EmptyNames DEF Disconnect
  <2> QED
    BY <1>10, <1>s, <2>1 DEF Disconnect, AllGood, RxGood
<1>11. CASE Reconnect \/ UNCHANGED vars
  BY <1>11, <1>s DEF Reconnect, vars, AllGood, RxGood
<1> QED
  BY <1>1, <1>2, <1>3, <1>4, <1>5, <1>6, <1>7, <1>8, <1>9, <1>10, <1>11
     DEF Next, ServerReplies

(* Whatever the callers make of each other's results and whatever is lost, *)
(* no more calls return ESP_OK than commands were carried out.             *)
THEOREM SuccessIsNotInvented == Spec => []NoInventedSuccess
<1>1. Init => OnePlace /\ Covered
  <2> SUFFICES ASSUME Init PROVE OnePlace /\ Covered
    OBVIOUS
  <2>1. OnePlace
    BY InitOnePlace
  <2>2. AllGood = {}
    BY EmptyNames DEF Init, AllGood, RxGood
  <2>3. Covered
    BY <2>2, FS_EmptySet DEF Init, Covered
  <2> QED
    BY <2>1, <2>3
<1>2. TypeInv /\ OnePlace /\ Covered /\ [Next]_vars
        => (TypeInv /\ OnePlace /\ Covered)'
  BY NextType, NextOnePlace, NextCovered
<1>3. Covered => NoInventedSuccess
  <2> SUFFICES ASSUME Covered PROVE NoInventedSuccess
    OBVIOUS
  <2>1. /\ Cardinality(ok_calls) \in Nat /\ Cardinality(AllGood) \in Nat
        /\ Cardinality(succeeded) \in Nat
    BY FS_CardinalityType DEF Covered
  <2> QED
    BY <2>1 DEF Covered, NoInventedSuccess
<1> QED
  BY <1>1, <1>2, <1>3, InitType, PTL DEF Spec

-----------------------------------------------------------------------------
(* The balance of answers.  Each step that puts an answer on its way moves *)
(* it on, loses or drops it, or adds a caller that waits or a command      *)
(* nobody waits for; each that ends a wait takes an answer, or leaves one  *)
(* that nobody waits for.                                                  *)
Balance == AnswersBalance /\ DropsAreUnawaited

LEMMA TailLen ==
  ASSUME NEW S, NEW q \in Seq(S), q # <<>>
  PROVE  Len(Tail(q)) = Len(q) - 1 /\ Len(q) \in Nat \ {0}
  BY HeadTailProperties, EmptySeq

LEMMA AppendLen ==
  ASSUME NEW S, NEW q \in Seq(S), NEW e
  PROVE  Len(Append(q, e)) = Len(q) + 1
  OBVIOUS

(* A caller that begins, or ceases, to wait. *)
LEMMA ReceiversGrow ==
  ASSUME IsFiniteSet(Callers), TypeOK, NEW c \in Callers, pc[c] # "receive",
         pc' = [pc EXCEPT ![c] = "receive"]
  PROVE  Cardinality(Receivers') = Cardinality(Receivers) + 1
<1>1. Receivers' = Receivers \union {c} /\ c \notin Receivers
  BY DEF Receivers, TypeOK
<1>2. IsFiniteSet(Receivers)
  BY FS_Subset DEF Receivers
<1> QED
  BY <1>1, <1>2, FS_AddElement

LEMMA ReceiversShrink ==
  ASSUME IsFiniteSet(Callers), TypeOK, NEW c \in Callers, pc[c] = "receive",
         pc' = [pc EXCEPT ![c] = "idle"]
  PROVE  Cardinality(Receivers') = Cardinality(Receivers) - 1
<1>1. Receivers' = Receivers \ {c} /\ c \in Receivers
  BY DEF Receivers, TypeOK
<1>2. IsFiniteSet(Receivers)
  BY FS_Subset DEF Receivers
<1> QED
  BY <1>1, <1>2, FS_RemoveElement

LEMMA Counts ==
  ASSUME IsFiniteSet(Callers), TypeInv
  PROVE  /\ Cardinality(working) \in Nat /\ Cardinality(Receivers) \in Nat
         /\ Len(to_server) \in Nat /\ Len(to_client) \in Nat
         /\ Len(result_queue) \in Nat
         /\ unawaited \in Nat /\ lost \in Nat /\ dropped \in Nat
<1>1. IsFiniteSet(Receivers)
  BY FS_Subset DEF Receivers
<1> QED
  BY <1>1, FS_CardinalityType DEF TypeInv, TypeOK

LEMMA NextBalance ==
  ASSUME IsFiniteSet(Callers), TypeInv, OnePlace, Balance, [Next]_vars
  PROVE  Balance'
<1> USE DEF clientVars, wireVars, historyVars
<1>0. TypeOK /\ IsFiniteSet(working) /\ AnswersBalance /\ DropsAreUnawaited
  BY DEF TypeInv, Balance
<1>c. /\ Cardinality(working) \in Nat /\ Cardinality(Receivers) \in Nat
      /\ Len(to_server) \in Nat /\ Len(to_client) \in Nat
      /\ Len(result_queue) \in Nat
      /\ unawaited \in Nat /\ lost \in Nat /\ dropped \in Nat
  BY Counts
<1>o. Outstanding \in Nat
  BY <1>c DEF Outstanding
<1>r. ASSUME pc' = pc PROVE Receivers' = Receivers
  BY <1>r DEF Receivers
<1>d. ASSUME dropped' = dropped,
             unawaited' = unawaited \/ unawaited' = unawaited + 1
      PROVE  DropsAreUnawaited'
  BY <1>0, <1>c, <1>d DEF DropsAreUnawaited
<1>1. ASSUME NEW c \in Callers, LoadId(c) \/ StoreId(c) \/ SendFails(c)
      PROVE  Balance'
  <2>1. Receivers' = Receivers
    BY <1>0, <1>1 DEF LoadId, StoreId, SendFails, Receivers, TypeOK
  <2>2. Outstanding' = Outstanding /\ UNCHANGED historyVars
    BY <1>1 DEF LoadId, StoreId, SendFails, Outstanding
  <2> QED
    BY <1>0, <1>d, <2>1, <2>2 DEF Balance, AnswersBalance
<1>2. ASSUME NEW c \in Callers, Send(c) \/ SendAlone(c) PROVE Balance'
  <2>1. Len(to_server') = Len(to_server) + 1
    BY <1>0, <1>2, AppendLen DEF Send, SendAlone, Transmit, TypeOK
  <2>2. UNCHANGED <<working, to_client, rx_result, result_queue, lost, dropped>>
    BY <1>2 DEF Send, SendAlone, Transmit
  <2>3. Outstanding' = Outstanding + 1
    BY <1>c, <2>1, <2>2 DEF Outstanding
  <2>4. CASE Send(c)
    <3>1. Cardinality(Receivers') = Cardinality(Receivers) + 1
      BY <1>0, <2>4, ReceiversGrow DEF Send, Transmit
    <3>2. unawaited' = unawaited
      BY <2>4 DEF Send
    <3> QED
      BY <1>0, <1>c, <1>d, <1>o, <2>2, <2>3, <3>1, <3>2 DEF Balance, AnswersBalance
  <2>5. CASE SendAlone(c)
    <3>1. Receivers' = Receivers
      BY <1>0, <2>5 DEF SendAlone, Transmit, Receivers, TypeOK
    <3>2. unawaited' = unawaited + 1
      BY <2>5 DEF SendAlone
    <3> QED
      BY <1>0, <1>c, <1>d, <1>o, <2>2, <2>3, <3>1, <3>2 DEF Balance, AnswersBalance
  <2> QED
    BY <1>2, <2>4, <2>5
<1>3. ASSUME NEW c \in Callers, ReceiveResult(c) PROVE Balance'
  <2>1. Cardinality(Receivers') = Cardinality(Receivers) - 1
    BY <1>0, <1>3, ReceiversShrink DEF ReceiveResult
  <2>2. Len(result_queue') = Len(result_queue) - 1
    BY <1>0, <1>3, TailLen DEF ReceiveResult, TypeOK
  <2>3. /\ UNCHANGED <<working, to_server, to_client, rx_result>>
        /\ UNCHANGED <<unawaited, lost, dropped>>
    BY <1>3 DEF ReceiveResult
  <2>4. Outstanding' = Outstanding - 1
    BY <1>c, <2>2, <2>3 DEF Outstanding
  <2> QED
    BY <1>0, <1>c, <1>d, <1>o, <2>1, <2>3, <2>4 DEF Balance, AnswersBalance
<1>4. ASSUME NEW c \in Callers, ReceiveTimeout(c) PROVE Balance'
  <2>1. Cardinality(Receivers') = Cardinality(Receivers) - 1
    BY <1>0, <1>4, ReceiversShrink DEF ReceiveTimeout
  <2>2. /\ Outstanding' = Outstanding /\ unawaited' = unawaited + 1
        /\ UNCHANGED <<lost, dropped>>
    BY <1>4 DEF ReceiveTimeout, Outstanding
  <2> QED
    BY <1>0, <1>c, <1>d, <1>o, <2>1, <2>2 DEF Balance, AnswersBalance
<1>s. ASSUME pc' = pc, UNCHANGED <<unawaited, lost, dropped>>,
             Outstanding' = Outstanding
      PROVE  Balance'
  BY <1>0, <1>d, <1>r, <1>s DEF Balance, AnswersBalance
<1>5. CASE ServerAccept
  <2> DEFINE n == Head(to_server).name
  <2>1. Len(to_server') = Len(to_server) - 1
    BY <1>0, <1>5, TailLen DEF ServerAccept, TypeOK
  <2>2. n \in Names(to_server)
    BY <1>0, <1>5, TailNames DEF ServerAccept, TypeOK, OnePlace
  <2>3. n \notin working
    BY <2>2 DEF OnePlace
  <2>4. working' = working \union {n}
    BY <1>5 DEF ServerAccept
  <2> HIDE DEF n
  <2>5. Cardinality(working') = Cardinality(working) + 1
    BY <1>0, <2>3, <2>4, FS_AddElement
  <2>6. Outstanding' = Outstanding
    BY <1>c, <1>5, <2>1, <2>5 DEF ServerAccept, Outstanding
  <2> QED
    BY <1>5, <1>s, <2>6 DEF ServerAccept
<1>6. CASE ServerRefuse
  <2>1. Len(to_server') = Len(to_server) - 1
    BY <1>0, <1>6, TailLen DEF ServerRefuse, TypeOK
  <2>2. Len(to_client') = Len(to_client) + 1
    BY <1>0, <1>6, AppendLen DEF ServerRefuse, TypeOK
  <2>3. Outstanding' = Outstanding
    BY <1>c, <1>6, <2>1, <2>2 DEF ServerRefuse, Outstanding
  <2> QED
    BY <1>6, <1>s, <2>3 DEF ServerRefuse
<1>7. ASSUME NEW n \in CallName, NEW ok \in BOOLEAN, ServerReply(n, ok)
      PROVE  Balance'
  <2>1. Cardinality(working') = Cardinality(working) - 1
    BY <1>0, <1>7, FS_RemoveElement DEF ServerReply
  <2>2. Len(to_client') = Len(to_client) + 1
    BY <1>0, <1>7, AppendLen DEF ServerReply, TypeOK
  <2>3. UNCHANGED <<to_server, rx_result, result_queue>>
    BY <1>7 DEF ServerReply
  <2>4. Outstanding' = Outstanding
    <3> DEFINE w == Cardinality(working)
               r == (IF rx_result = NoResult THEN 0 ELSE 1) + Len(result_queue)
    <3>1. r' = r /\ r \in Nat
      BY <1>c, <2>3
    <3>2. w \in Nat /\ w' = w - 1
      BY <1>c, <2>1
    <3>3. /\ Outstanding = w + Len(to_server) + Len(to_client) + r
          /\ Outstanding' = w' + Len(to_server') + Len(to_client') + r'
      BY <1>c, <2>2, <2>3, <3>1, <3>2 DEF Outstanding
    <3> HIDE DEF w, r
    <3> QED
      BY <1>c, <2>2, <2>3, <3>1, <3>2, <3>3
  <2> QED
    BY <1>7, <1>s, <2>4 DEF ServerReply
<1>8. CASE WsReceive
  <2>1. Len(to_client') = Len(to_client) - 1
    BY <1>0, <1>8, TailLen DEF WsReceive, TypeOK
  <2>2. rx_result = NoResult /\ rx_result' # NoResult
    BY <1>0, <1>8, HeadTailProperties DEF WsReceive, TypeOK
  <2>3. Outstanding' = Outstanding
    BY <1>c, <1>8, <2>1, <2>2 DEF WsReceive, Outstanding
  <2> QED
    BY <1>8, <1>s, <2>3 DEF WsReceive
<1>9. CASE WsEnqueue
  <2>1. Len(result_queue') = Len(result_queue) + 1
    BY <1>0, <1>9, AppendLen DEF WsEnqueue, TypeOK
  <2>2. /\ rx_result # NoResult /\ rx_result' = NoResult
        /\ UNCHANGED <<working, to_server, to_client>>
    BY <1>9 DEF WsEnqueue
  <2>3. Outstanding' = Outstanding
    BY <1>c, <2>1, <2>2 DEF Outstanding
  <2> QED
    BY <1>9, <1>s, <2>3 DEF WsEnqueue
<1>10. CASE WsDrop
  <2>1. /\ Receivers = {} /\ Receivers' = {} /\ Cardinality(Receivers) = 0
    BY <1>10, <1>r, FS_EmptySet DEF WsDrop
  <2>2. /\ Outstanding >= 1 + ResultQueueLen
        /\ Outstanding' = Outstanding - 1
    BY <1>c, <1>10 DEF WsDrop, Outstanding
  <2>3. dropped' = dropped + 1 /\ UNCHANGED <<unawaited, lost>>
    BY <1>10 DEF WsDrop
  <2>4. AnswersBalance'
    BY <1>0, <1>c, <1>o, <2>1, <2>2, <2>3 DEF AnswersBalance
  <2>5. DropsAreUnawaited'
    BY <1>0, <1>c, <1>o, <2>1, <2>2, <2>3 DEF AnswersBalance, DropsAreUnawaited
  <2> QED
    BY <2>4, <2>5 DEF Balance
<1>11. CASE ResultLost
  <2>1. Len(to_client') = Len(to_client) - 1
    BY <1>0, <1>11, TailLen DEF ResultLost, TypeOK
  <2>2. Outstanding' = Outstanding - 1
    BY <1>c, <1>11, <2>1 DEF ResultLost, Outstanding
  <2>3. /\ Receivers' = Receivers
        /\ lost' = lost + 1 /\ UNCHANGED <<unawaited, dropped>>
    BY <1>11, <1>r DEF ResultLost
  <2> QED
    BY <1>0, <1>c, <1>d, <1>o, <2>2, <2>3 DEF Balance, AnswersBalance
<1>12. CASE Disconnect
  <2> DEFINE gone == Len(to_server) + Len(to_client) + Cardinality(working)
  <2>1. /\ Len(to_server') = 0 /\ Len(to_client') = 0
        /\ Cardinality(working') = 0
    BY <1>12, FS_EmptySet DEF Disconnect
  <2>2. Outstanding' = Outstanding - gone
    BY <1>c, <1>12, <2>1 DEF Disconnect, Outstanding
  <2>3. /\ Receivers' = Receivers
        /\ lost' = lost + gone /\ UNCHANGED <<unawaited, dropped>>
    BY <1>c, <1>12, <1>r DEF Disconnect
  <2>4. gone \in Nat
    BY <1>c
  <2> HIDE DEF gone
  <2> QED
    BY <1>0, <1>c, <1>d, <1>o, <2>2, <2>3, <2>4 DEF Balance, AnswersBalance
<1>13. CASE Reconnect \/ UNCHANGED vars
  BY <1>13, <1>s DEF Reconnect, vars, Outstanding
<1> QED
  BY <1>1, <1>2, <1>3, <1>4, <1>5, <1>6, <1>7, <1>8, <1>9, <1>10, <1>11,
     <1>12, <1>13 DEF Next, CallerStep, ServerReplies

LEMMA Balanced ==
  ASSUME IsFiniteSet(Callers) PROVE Spec => [](TypeInv /\ OnePlace /\ Balance)
<1>1. TypeInv /\ OnePlace /\ Balance /\ [Next]_vars
        => (TypeInv /\ OnePlace /\ Balance)'
  BY NextType, NextOnePlace, NextBalance
<1>2. Init => Balance
  <2> SUFFICES ASSUME Init PROVE Balance
    OBVIOUS
  <2>1. Cardinality(working) = 0
    BY FS_EmptySet DEF Init
  <2>2. Receivers = {} /\ Cardinality(Receivers) = 0
    BY FS_EmptySet DEF Init, Receivers
  <2>3. Outstanding = 0
    BY <2>1 DEF Init, Outstanding
  <2> QED
    BY <2>2, <2>3 DEF Balance, AnswersBalance, DropsAreUnawaited, Init
<1> QED
  BY <1>1, <1>2, InitType, InitOnePlace, PTL DEF Spec

(* Any number of callers that time out, wait for ever or do not wait, any  *)
(* losses: answers under way, lost and dropped are exactly those of the    *)
(* callers that wait and of the commands nobody waits for.                 *)
THEOREM AnswersBalanced ==
  ASSUME IsFiniteSet(Callers) PROVE Spec => []AnswersBalance
<1>1. TypeInv /\ OnePlace /\ Balance => AnswersBalance
  BY DEF Balance
<1> QED
  BY <1>1, Balanced, PTL

(* The websocket task drops a result only when more commands were left     *)
(* unawaited than the queue and all drops so far account for.              *)
THEOREM DropsUnawaited ==
  ASSUME IsFiniteSet(Callers) PROVE Spec => []DropsAreUnawaited
<1>1. TypeInv /\ OnePlace /\ Balance => DropsAreUnawaited
  BY DEF Balance
<1> QED
  BY <1>1, Balanced, PTL

(* Why a caller is stranded by losses only: callers that wait never        *)
(* outnumber the answers under way by more than were lost, however results *)
(* are swapped, ids race, commands are refused or results are dropped for  *)
(* lack of room.  On a connection that loses nothing, nobody waits for     *)
(* nothing.                                                                *)
THEOREM NobodyWaitsForNothing ==
  ASSUME IsFiniteSet(Callers)
  PROVE  Spec => [](Cardinality(Receivers) <= Outstanding + lost)
<1>1. TypeInv /\ OnePlace /\ Balance
        => Cardinality(Receivers) <= Outstanding + lost
  <2> SUFFICES ASSUME TypeInv, Balance
               PROVE  Cardinality(Receivers) <= Outstanding + lost
    OBVIOUS
  <2>1. Cardinality(Receivers) \in Nat /\ Outstanding \in Nat
        /\ unawaited \in Nat /\ lost \in Nat /\ dropped \in Nat
    BY Counts DEF Outstanding
  <2>2. dropped <= unawaited
    BY <2>1 DEF Balance, DropsAreUnawaited
  <2> QED
    BY <2>1, <2>2 DEF Balance, AnswersBalance
<1> QED
  BY <1>1, Balanced, PTL

=============================================================================
