--------------------------- MODULE WifiStationProofs ---------------------------
(***************************************************************************)
(* Proofs about WifiStation, for any number of retries.                    *)
(***************************************************************************)
EXTENDS WifiStation, SequenceTheorems, TLAPS

(* What the events under way say.  The driver posts at most two without    *)
(* the handler: without an address or when it gave up none, an idle one    *)
(* waits for the handler to see its disconnection, perhaps after the       *)
(* address it got before; and s_retry_num counts the disconnections in a   *)
(* row until the station gives up.                                         *)
Underway ==
  \/ wifi_init = "before" /\ driver = "idle" /\ posted = <<>> /\ bits = {}
  \/ /\ wifi_init # "before"
     /\ \/ /\ driver \in {"connecting", "refused", "associated"}
           /\ posted = <<>> /\ ~GaveUp
        \/ driver = "up" /\ posted \in {<<>>, <<"STA_GOT_IP">>} /\ ~GaveUp
        \/ /\ driver = "idle" /\ ~GaveUp
           /\ posted \in {<<"STA_START">>, <<"STA_DISCONNECTED">>,
                          <<"STA_GOT_IP", "STA_DISCONNECTED">>}
        \/ driver = "idle" /\ GaveUp /\ posted = <<>>

Counted ==
  /\ streak = s_retry_num + (IF GaveUp THEN 1 ELSE 0)
  /\ GaveUp => s_retry_num = MaxRetry

IInv == TypeOK /\ Underway /\ Counted

LEMMA AppendOne ==
  ASSUME NEW a, NEW b
  PROVE  Append(<<a>>, b) = <<a, b>>
<1>1. ASSUME NEW S, NEW p \in Seq(S), NEW e \in S,
             Len(p) = 1, p[1] = a, e = b
      PROVE  Append(p, e) = <<a, b>>
  <2>1. /\ Append(p, e) \in Seq(S) /\ Len(Append(p, e)) = 2
        /\ Append(p, e)[1] = a /\ Append(p, e)[2] = b
    <3>1. /\ Append(p, e) \in Seq(S) /\ Len(Append(p, e)) = Len(p) + 1
          /\ \A i \in DOMAIN p : Append(p, e)[i] = p[i]
          /\ Append(p, e)[Len(p) + 1] = e
      BY AppendProperties
    <3>2. 1 \in DOMAIN p
      BY <1>1
    <3> QED
      BY <1>1, <3>1, <3>2
  <2>2. a \in S /\ b \in S
    BY <1>1
  <2>3. <<a, b>> \in Seq(S) /\ Len(<<a, b>>) = 2 /\ <<a, b>>[1] = a /\ <<a, b>>[2] = b
    BY <2>2
  <2> DEFINE q == Append(p, e)
             r == <<a, b>>
  <2> HIDE DEF q, r
  <2>4. \A i \in 1..Len(q) : q[i] = r[i]
    BY <2>1, <2>3 DEF q, r
  <2>5. q \in Seq(S) /\ r \in Seq(S) /\ Len(q) = Len(r)
    BY <2>1, <2>3 DEF q, r
  <2>6. q = r
    BY <2>4, <2>5, SeqEqual
  <2> QED
    BY <2>6 DEF q, r
<1>2. <<a>> \in Seq({a, b}) /\ Len(<<a>>) = 1 /\ <<a>>[1] = a
  OBVIOUS
<1> QED
  BY <1>1, <1>2

(* Queues of one and two events. *)
LEMMA Short ==
  ASSUME NEW a, NEW b
  PROVE  /\ <<a>> # <<>> /\ Head(<<a>>) = a /\ Tail(<<a>>) = <<>>
         /\ <<a, b>> # <<>> /\ Head(<<a, b>>) = a /\ Tail(<<a, b>>) = <<b>>
         /\ Append(<<>>, a) = <<a>> /\ Append(<<a>>, b) = <<a, b>>
<1>1. <<a>> # <<>> /\ Head(<<a>>) = a /\ Tail(<<a>>) = <<>>
  OBVIOUS
<1>2. <<a, b>> # <<>> /\ Head(<<a, b>>) = a
  OBVIOUS
<1>3. Tail(<<a, b>>) = <<b>>
  OBVIOUS
<1>4. Append(<<>>, a) = <<a>>
  OBVIOUS
<1>5. Append(<<a>>, b) = <<a, b>>
  BY AppendOne
<1> QED
  BY <1>1, <1>2, <1>3, <1>4, <1>5

LEMMA InitIInv == ASSUME MaxRetry \in Nat PROVE Init => IInv
  BY DEF Init, IInv, TypeOK, Underway, Counted, GaveUp

LEMMA NextIInv == ASSUME MaxRetry \in Nat, IInv, [Next]_vars PROVE IInv'
<1> USE DEF IInv, TypeOK, Underway, Counted, GaveUp, Handle, esp_wifi_connect
<1>1. CASE Start
  BY <1>1 DEF Start
<1>2. CASE Return
  BY <1>2 DEF Return
<1>3. CASE StaStart
  <2>1. posted = <<"STA_START">> /\ posted' = <<>>
    BY <1>3, Short DEF StaStart
  <2> QED
    BY <1>3, <2>1 DEF StaStart
<1>4. CASE StaDisconnected
  <2>1. posted = <<"STA_DISCONNECTED">> /\ posted' = <<>>
    BY <1>4, Short DEF StaDisconnected
  <2>2. /\ driver = "idle" /\ ~GaveUp /\ wifi_init # "before"
        /\ wifi_init' = wifi_init
        /\ streak' = streak + 1 /\ streak = s_retry_num
    BY <1>4, <2>1 DEF StaDisconnected
  <2>3. CASE s_retry_num < MaxRetry
    <3>1. /\ driver' \in {"connecting", "refused"} /\ s_retry_num' = s_retry_num + 1
          /\ bits' = bits
      BY <1>4, <2>3 DEF StaDisconnected
    <3> QED
      BY <2>1, <2>2, <2>3, <3>1
  <2>4. CASE ~(s_retry_num < MaxRetry)
    <3>1. /\ driver' = driver /\ s_retry_num' = s_retry_num
          /\ bits' = bits \union {"WIFI_FAIL_BIT"} /\ s_retry_num = MaxRetry
      BY <1>4, <2>4 DEF StaDisconnected
    <3> QED
      BY <2>1, <2>2, <3>1
  <2> QED
    BY <2>3, <2>4
<1>5. CASE GotIp
  <2>1. \/ /\ posted = <<"STA_GOT_IP">> /\ posted' = <<>> /\ driver = "up"
        \/ /\ posted = <<"STA_GOT_IP", "STA_DISCONNECTED">>
           /\ posted' = <<"STA_DISCONNECTED">> /\ driver = "idle"
    <3>1. /\ posted # <<>> /\ Head(posted) = "STA_GOT_IP"
          /\ posted' = Tail(posted)
      BY <1>5 DEF GotIp
    <3>2. \/ posted = <<"STA_GOT_IP">> /\ driver = "up"
          \/ posted = <<"STA_GOT_IP", "STA_DISCONNECTED">> /\ driver = "idle"
      BY <3>1, Short
    <3>3. Tail(<<"STA_GOT_IP">>) = <<>>
      BY Short
    <3>4. Tail(<<"STA_GOT_IP", "STA_DISCONNECTED">>) = <<"STA_DISCONNECTED">>
      BY Short
    <3> QED
      BY <3>1, <3>2, <3>3, <3>4, Zenon
  <2> QED
    BY <1>5, <2>1 DEF GotIp
<1>6. CASE DriverUp
  <2>1. posted = <<>> /\ posted' = <<"STA_GOT_IP">>
    BY <1>6, Short DEF DriverUp
  <2> QED
    BY <1>6, <2>1 DEF DriverUp
<1>7. CASE DriverDown
  <2>1. /\ posted \in {<<>>, <<"STA_GOT_IP">>}
        /\ posted' \in {<<"STA_DISCONNECTED">>, <<"STA_GOT_IP", "STA_DISCONNECTED">>}
    <3>1. /\ posted \in {<<>>, <<"STA_GOT_IP">>}
          /\ posted' = Append(posted, "STA_DISCONNECTED")
      BY <1>7 DEF DriverDown
    <3>2. CASE posted = <<>>
      BY <3>1, <3>2, Short
    <3>3. CASE posted = <<"STA_GOT_IP">>
      <4>1. Append(<<"STA_GOT_IP">>, "STA_DISCONNECTED")
              = <<"STA_GOT_IP", "STA_DISCONNECTED">>
        BY Short
      <4>2. posted' = Append(<<"STA_GOT_IP">>, "STA_DISCONNECTED")
        BY <3>1, <3>3
      <4> QED
        BY <3>3, <4>1, <4>2, Zenon
    <3> QED
      BY <3>1, <3>2, <3>3
  <2> QED
    BY <1>7, <2>1 DEF DriverDown
<1>8. CASE DriverAssociates
  BY <1>8 DEF DriverAssociates
<1>9. CASE UNCHANGED vars
  BY <1>9 DEF vars
<1> QED
  BY <1>1, <1>2, <1>3, <1>4, <1>5, <1>6, <1>7, <1>8, <1>9
     DEF Next, Handler, DriverStep

(* The variables of the station keep their types: the counter of retries   *)
(* stays within its limit.                                                 *)
THEOREM TypeCorrect == ASSUME MaxRetry \in Nat PROVE Spec => []TypeOK
<1>1. IInv => TypeOK
  BY DEF IInv
<1> QED
  BY <1>1, InitIInv, NextIInv, PTL DEF Spec

(* However often the network comes and goes, the station gives up after    *)
(* MaxRetry + 1 failures in a row and never before, it is then idle for    *)
(* good, and it is idle for no other reason but a refused                  *)
(* esp_wifi_connect().                                                     *)
THEOREM GivesUp == ASSUME MaxRetry \in Nat PROVE Spec => []GivesUpForGood
<1>1. IInv => GivesUpForGood
  <2> SUFFICES ASSUME IInv PROVE GivesUpForGood
    OBVIOUS
  <2>1. GaveUp <=> streak > MaxRetry
    BY DEF IInv, TypeOK, Counted
  <2>2. GaveUp \/ wifi_init = "before" <=> driver = "idle" /\ posted = <<>>
    BY Short DEF IInv, Underway, GaveUp
  <2> QED
    BY <2>1, <2>2 DEF GivesUpForGood
<1> QED
  BY <1>1, InitIInv, NextIInv, PTL DEF Spec

=============================================================================
