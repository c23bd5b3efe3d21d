---------------------------- MODULE RxBufferProofs ----------------------------
(***************************************************************************)
(* Proofs about RxBuffer, for any messages, any numbers of events they may *)
(* arrive in and any size of the buffer.                                   *)
(***************************************************************************)
EXTENDS RxBuffer, TLAPS

USE SizeAssumption, BufferAssumption, MemoryAssumption, NameAssumption,
    OutcomeAssumption

(* The chunk that arrives next of the message that is arriving. *)
NextChunk == [msg |-> arriving, part |-> got + 1, of |-> of]

LEMMA CloseChunkType == CloseChunk \in Chunk
  BY DEF CloseChunk, Chunk

LEMMA NextChunkType == TypeOK /\ arriving # NoMsg => NextChunk \in Chunk
  BY DEF TypeOK, NextChunk, Chunk

LEMMA AppendChunk ==
  ASSUME NEW buf \in Seq(Chunk), NEW chunk \in Chunk
  PROVE  /\ Append(buf, chunk) \in Seq(Chunk)
         /\ Append(buf, chunk) # <<>>
         /\ Len(Append(buf, chunk)) = Len(buf) + 1
         /\ \A i \in 1..Len(buf) : Append(buf, chunk)[i] = buf[i]
         /\ Append(buf, chunk)[Len(buf) + 1] = chunk
<1>1. /\ Append(buf, chunk) \in Seq(Chunk)
      /\ Len(Append(buf, chunk)) = Len(buf) + 1 /\ Len(buf) \in Nat
  OBVIOUS
<1>2. Append(buf, chunk) # <<>>
  BY <1>1
<1>3. \A i \in 1..Len(buf) : Append(buf, chunk)[i] = buf[i]
  OBVIOUS
<1>4. Append(buf, chunk)[Len(buf) + 1] = chunk
  OBVIOUS
<1> QED
  BY <1>1, <1>2, <1>3, <1>4

LEMMA ParseOutcome ==
  ASSUME NEW buf \in Seq(Chunk), buf # <<>>, NEW p \in Parse(buf)
  PROVE  /\ p \in Outcomes
         /\ p \in Msgs => StartsWithMessage(buf) /\ p = buf[1].msg
         /\ p \notin Msgs /\ ~ParserMayFail => ~StartsWithMessage(buf)
<1>1. CASE StartsWithMessage(buf)
  BY <1>1 DEF Parse, StartsWithMessage, Outcomes, Failures
<1>2. CASE ~StartsWithMessage(buf)
  <2>1. p \in {"failed", "junk"}
    BY <1>2 DEF Parse
  <2> QED
    BY <1>2, <2>1 DEF Outcomes, Failures
<1> QED
  BY <1>1, <1>2

(* What a data event does to the buffer, whichever its branch. *)
LEMMA DataEventType ==
  ASSUME TypeOK, NEW chunk \in Chunk, NEW last \in BOOLEAN,
         DataEvent(chunk, last)
  PROVE  /\ rx_buffer' \in Seq(Chunk)
         /\ Len(rx_buffer') <= BufferLen
         /\ outcome' \in Outcomes
<1> USE DEF TypeOK
<1>1. CASE Lose
  BY <1>1 DEF Lose, Outcomes, Failures
<1>2. CASE Overflow
  BY <1>2 DEF Overflow, Outcomes, Failures
<1>3. CASE Wait(chunk)
  BY <1>3, AppendChunk DEF Wait, Outcomes, Failures
<1>4. CASE ParseBuffer(chunk)
  <2> DEFINE all == Append(rx_buffer, chunk)
  <2>0. all \in Seq(Chunk) /\ all # <<>> /\ outcome' \in Parse(all)
    BY <1>4, AppendChunk DEF ParseBuffer
  <2>1. outcome' \in Outcomes
    <3> HIDE DEF all
    <3> QED
      BY <2>0, ParseOutcome
  <2>2. CASE outcome' = "failed"
    BY <1>4, <2>1, <2>2, AppendChunk DEF ParseBuffer
  <2>3. CASE outcome' # "failed"
    BY <1>4, <2>1, <2>3 DEF ParseBuffer
  <2> QED
    BY <2>2, <2>3
<1> QED
  BY <1>1, <1>2, <1>3, <1>4 DEF DataEvent

LEMMA ZeroMisses == 0 \in 0..(BufferLen + 2)
  OBVIOUS

LEMMA InitType == Init => TypeOK
<1> SUFFICES ASSUME Init PROVE TypeOK
  OBVIOUS
<1>1. rx_buffer \in Seq(Chunk) /\ Len(rx_buffer) = 0
  BY DEF Init
<1>2. outcome \in Outcomes /\ intact \in BOOLEAN /\ misses \in 0..(BufferLen + 2)
  BY ZeroMisses DEF Init, Outcomes
<1>3. Len(rx_buffer) <= BufferLen
  BY <1>1
<1>4. /\ connected \in BOOLEAN /\ sound \in BOOLEAN
      /\ arriving = NoMsg /\ of \in Sizes \union {0} /\ got \in Nat
  BY DEF Init
<1> QED
  BY <1>1, <1>2, <1>3, <1>4 DEF TypeOK

LEMMA NextType == TypeOK /\ [Next]_vars => TypeOK'
<1> SUFFICES ASSUME TypeOK, [Next]_vars PROVE TypeOK'
  OBVIOUS
<1>1. ASSUME NEW m \in Msgs, NEW n \in Sizes, Begin(m, n) PROVE TypeOK'
  BY <1>1 DEF Begin, TypeOK
<1>2. CASE Fragment
  <2>1. NextChunk \in Chunk /\ Last \in BOOLEAN /\ DataEvent(NextChunk, Last)
    BY <1>2, NextChunkType DEF Fragment, NextChunk, Last
  <2>2. /\ rx_buffer' \in Seq(Chunk) /\ Len(rx_buffer') <= BufferLen
        /\ outcome' \in Outcomes
    BY <2>1, DataEventType
  <2>3. sound' \in BOOLEAN /\ intact' \in BOOLEAN
    BY <1>2 DEF Fragment, TypeOK
  <2>4. misses' \in 0..(BufferLen + 2)
    BY <1>2 DEF Fragment, TypeOK
  <2>5. /\ connected' = connected /\ of' = of /\ got' = got + 1
        /\ arriving' = IF Last THEN NoMsg ELSE arriving
    BY <1>2 DEF Fragment
  <2>6. of \in Nat /\ (arriving' # NoMsg => got' < of')
    BY <1>2, <2>5 DEF Fragment, TypeOK, Last
  <2> QED
    BY <2>2, <2>3, <2>4, <2>5, <2>6 DEF TypeOK
<1>3. CASE Close
  <2>1. /\ rx_buffer' \in Seq(Chunk) /\ Len(rx_buffer') <= BufferLen
        /\ outcome' \in Outcomes
    BY <1>3, CloseChunkType, DataEventType DEF Close
  <2> QED
    BY <1>3, <2>1, ZeroMisses DEF Close, wire, TypeOK
<1>4. CASE Disconnect
  <2>1. /\ connected' \in BOOLEAN /\ sound' \in BOOLEAN /\ arriving' = NoMsg
        /\ intact' = intact
    BY <1>4 DEF Disconnect
  <2>2. misses' \in 0..(BufferLen + 2)
    BY <1>4, ZeroMisses DEF Disconnect
  <2> QED
    BY <1>4, <2>1, <2>2 DEF Disconnect, TypeOK
<1>5. CASE Connect
  BY <1>5 DEF Connect, TypeOK
<1>6. CASE UNCHANGED vars
  BY <1>6 DEF vars, wire, TypeOK
<1> QED
  BY <1>1, <1>2, <1>3, <1>4, <1>5, <1>6 DEF Next

(* The buffer never outgrows its size and the variables keep their types. *)
THEOREM TypeCorrect == Spec => []TypeOK
  BY InitType, NextType, PTL DEF Spec

-----------------------------------------------------------------------------
(* Messages are handled when complete.  The buffer never starts with a     *)
(* whole message between two events: the event that completes one parses   *)
(* it and empties the buffer.                                              *)
NothingLeft == ~StartsWithMessage(rx_buffer)

(* A chunk that makes a buffer start with a message is that message's last. *)
LEMMA Completes ==
  ASSUME NEW buf \in Seq(Chunk), NEW chunk \in Chunk,
         ~StartsWithMessage(buf), StartsWithMessage(Append(buf, chunk))
  PROVE  /\ chunk.msg = Append(buf, chunk)[1].msg
         /\ chunk.msg \in Msgs
         /\ chunk.part = chunk.of
<1> DEFINE all == Append(buf, chunk)
           n == all[1].of
<1>1. /\ all[1].msg \in Msgs /\ n \in Nat \ {0} /\ n <= Len(buf) + 1
      /\ \A i \in 1..n : all[i] = [msg |-> all[1].msg, part |-> i, of |-> n]
  <2>1. all[1] \in Chunk
    BY AppendChunk
  <2> QED
    BY <2>1, AppendChunk DEF StartsWithMessage, Chunk
<1>2. n = Len(buf) + 1
  <2> SUFFICES ASSUME n <= Len(buf) PROVE FALSE
    BY <1>1
  <2>1. buf # <<>> /\ buf[1] = all[1] /\ \A i \in 1..n : buf[i] = all[i]
    BY <1>1, AppendChunk
  <2> HIDE DEF all
  <2> QED
    BY <1>1, <2>1 DEF StartsWithMessage
<1>3. chunk = [msg |-> all[1].msg, part |-> n, of |-> n]
  <2>1. all[Len(buf) + 1] = chunk /\ n \in 1..n
    BY <1>1, AppendChunk
  <2> HIDE DEF all
  <2> QED
    BY <1>1, <1>2, <2>1
<1> HIDE DEF all
<1> QED
  BY <1>1, <1>3 DEF all

(* Both properties of a data event at once: it leaves nothing whole, and   *)
(* if it handles a message, that is the one its chunk completes.           *)
LEMMA EventHandles ==
  ASSUME ~ParserMayFail, TypeOK, NothingLeft,
         NEW chunk \in Chunk, NEW last \in BOOLEAN, DataEvent(chunk, last),
         last <=> chunk.part = chunk.of
  PROVE  /\ NothingLeft'
         /\ outcome' \in Msgs => outcome' = chunk.msg /\ last
<1>1. CASE Lose
  BY <1>1 DEF Lose, NothingLeft, Failures
<1>2. CASE Overflow
  BY <1>2 DEF Overflow, NothingLeft, StartsWithMessage, Failures
<1>3. CASE ~last /\ Wait(chunk)
  <2>1. rx_buffer \in Seq(Chunk) /\ rx_buffer' = Append(rx_buffer, chunk)
    BY <1>3 DEF Wait, TypeOK
  <2>2. ~StartsWithMessage(Append(rx_buffer, chunk))
    BY <1>3, <2>1, Completes DEF NothingLeft
  <2>3. outcome' \notin Msgs
    BY <1>3 DEF Wait
  <2> QED
    BY <2>1, <2>2, <2>3 DEF NothingLeft
<1>4. CASE last /\ ParseBuffer(chunk)
  <2> DEFINE all == Append(rx_buffer, chunk)
  <2>1. /\ rx_buffer \in Seq(Chunk) /\ all \in Seq(Chunk) /\ all # <<>>
        /\ outcome' \in Parse(all)
        /\ rx_buffer' = IF outcome' = "failed" THEN all ELSE <<>>
    BY <1>4, AppendChunk DEF ParseBuffer, TypeOK
  <2>2. CASE outcome' \in Msgs
    <3>1. StartsWithMessage(all) /\ outcome' = all[1].msg
      BY <2>1, <2>2, ParseOutcome
    <3>2. outcome' = chunk.msg
      BY <2>1, <3>1, Completes DEF NothingLeft
    <3>3. rx_buffer' = <<>>
      BY <2>1, <2>2 DEF Failures
    <3> QED
      BY <1>4, <3>2, <3>3 DEF NothingLeft, StartsWithMessage
  <2>3. CASE outcome' \notin Msgs
    <3>1. ~StartsWithMessage(all)
      BY <2>1, <2>3, ParseOutcome
    <3> HIDE DEF all
    <3> QED
      BY <2>1, <2>3, <3>1 DEF NothingLeft, StartsWithMessage
  <2> QED
    BY <2>2, <2>3
<1> QED
  BY <1>1, <1>2, <1>3, <1>4 DEF DataEvent

LEMMA FragmentHandles ==
  ASSUME ~ParserMayFail, TypeOK, NothingLeft, Fragment
  PROVE  /\ NothingLeft'
         /\ outcome' \in Msgs => outcome' = arriving /\ Last
<1>1. /\ NextChunk \in Chunk /\ DataEvent(NextChunk, Last)
      /\ NextChunk.msg = arriving
      /\ Last <=> NextChunk.part = NextChunk.of
  BY NextChunkType DEF Fragment, NextChunk, Last
<1> QED
  BY <1>1, EventHandles DEF Last

LEMMA CloseHandles ==
  ASSUME ~ParserMayFail, TypeOK, NothingLeft, Close
  PROVE  NothingLeft' /\ outcome' \notin Msgs
<1>1. /\ CloseChunk.msg = CloseCode /\ CloseChunk.part = CloseChunk.of
      /\ DataEvent(CloseChunk, TRUE)
  BY DEF Close, CloseChunk
<1> QED
  BY <1>1, CloseChunkType, EventHandles

LEMMA NextNothingLeft ==
  ASSUME ~ParserMayFail, TypeOK, NothingLeft, [Next]_vars
  PROVE  NothingLeft'
<1>1. ASSUME UNCHANGED rx_buffer PROVE NothingLeft'
  BY <1>1 DEF NothingLeft
<1>2. ASSUME NEW m \in Msgs, NEW n \in Sizes, Begin(m, n) PROVE NothingLeft'
  BY <1>1, <1>2 DEF Begin
<1>3. CASE Disconnect \/ Connect \/ UNCHANGED vars
  BY <1>1, <1>3 DEF Disconnect, Connect, vars
<1> QED
  BY <1>2, <1>3, FragmentHandles, CloseHandles DEF Next

-----------------------------------------------------------------------------
(* While no frame lost a chunk from its middle, every chunk in the buffer  *)
(* that is not the first of its message follows its predecessor, and the   *)
(* buffer ends with what came last of the frame that is arriving.          *)
Joined ==
  intact =>
    /\ ~Patched(rx_buffer)
    /\ arriving # NoMsg /\ got > 0 =>
         /\ rx_buffer # <<>>
         /\ rx_buffer[Len(rx_buffer)] =
              [msg |-> arriving, part |-> got, of |-> of]

LEMMA EmptyNotPatched == ~Patched(<<>>)
  BY DEF Patched

(* A first chunk, or one that follows the last of the buffer, joins it. *)
LEMMA AppendJoins ==
  ASSUME NEW buf \in Seq(Chunk), NEW chunk \in Chunk, ~Patched(buf),
         \/ chunk.part = 1
         \/ /\ buf # <<>>
            /\ buf[Len(buf)] = [chunk EXCEPT !.part = @ - 1]
  PROVE  ~Patched(Append(buf, chunk))
<1> DEFINE all == Append(buf, chunk)
<1>1. /\ all \in Seq(Chunk) /\ Len(all) = Len(buf) + 1 /\ Len(buf) \in Nat
      /\ \A i \in 1..Len(buf) : all[i] = buf[i]
      /\ all[Len(buf) + 1] = chunk
      /\ DOMAIN all = 1..(Len(buf) + 1) /\ DOMAIN buf = 1..Len(buf)
  BY AppendChunk
<1>2. buf # <<>> => Len(buf) > 0
  OBVIOUS
<1> HIDE DEF all
<1>3. ASSUME NEW i \in DOMAIN all, all[i].part > 1
      PROVE  i > 1 /\ all[i - 1] = [all[i] EXCEPT !.part = @ - 1]
  <2>1. CASE i = Len(buf) + 1
    <3>1. all[i] = chunk /\ chunk.part # 1
      BY <1>1, <1>3, <2>1
    <3>2. /\ buf # <<>> /\ i > 1 /\ i - 1 = Len(buf) /\ all[i - 1] = buf[Len(buf)]
      BY <1>1, <1>2, <2>1, <3>1
    <3> QED
      BY <3>1, <3>2
  <2>2. CASE i # Len(buf) + 1
    <3>1. i \in 1..Len(buf) /\ all[i] = buf[i]
      BY <1>1, <2>2
    <3>2. i > 1 /\ buf[i - 1] = [buf[i] EXCEPT !.part = @ - 1]
      BY <1>1, <1>3, <3>1 DEF Patched
    <3>3. all[i - 1] = buf[i - 1]
      BY <1>1, <3>1, <3>2
    <3> QED
      BY <3>1, <3>2, <3>3
  <2> QED
    BY <2>1, <2>2
<1>4. ~Patched(all)
  BY <1>3 DEF Patched
<1> QED
  BY <1>4 DEF all

(* What a data event does when its chunk joins a buffer that is joined. *)
LEMMA EventJoins ==
  ASSUME TypeOK, NEW chunk \in Chunk, NEW last \in BOOLEAN,
         DataEvent(chunk, last),
         ~Patched(rx_buffer), ~Patched(Append(rx_buffer, chunk))
  PROVE  ~Patched(rx_buffer') /\ outcome' # "junk"
<1>1. CASE Lose
  BY <1>1 DEF Lose
<1>2. CASE Overflow
  BY <1>2, EmptyNotPatched DEF Overflow
<1>3. CASE Wait(chunk)
  BY <1>3 DEF Wait
<1>4. CASE ParseBuffer(chunk)
  <2> DEFINE all == Append(rx_buffer, chunk)
  <2>1. /\ ~Patched(all) /\ outcome' \in Parse(all)
        /\ rx_buffer' = IF outcome' = "failed" THEN all ELSE <<>>
    BY <1>4 DEF ParseBuffer
  <2> HIDE DEF all
  <2>2. outcome' # "junk"
    BY <2>1 DEF Parse, StartsWithMessage
  <2>3. ~Patched(rx_buffer')
    BY <2>1, EmptyNotPatched
  <2> QED
    BY <2>2, <2>3
<1> QED
  BY <1>1, <1>2, <1>3, <1>4 DEF DataEvent

LEMMA FragmentJoins ==
  ASSUME TypeOK, Joined, Fragment
  PROVE  Joined' /\ (outcome' = "junk" => ~intact')
<1> SUFFICES ASSUME intact' PROVE Joined' /\ outcome' # "junk"
  BY DEF Joined
<1>1. /\ intact /\ ~Patched(rx_buffer) /\ arriving # NoMsg
      /\ outcome' \in {"lost", "overflow"} => Last
      /\ NextChunk \in Chunk /\ Last \in BOOLEAN /\ DataEvent(NextChunk, Last)
      /\ rx_buffer \in Seq(Chunk) /\ got \in Nat /\ of' = of /\ got' = got + 1
      /\ arriving' = IF Last THEN NoMsg ELSE arriving
  BY NextChunkType DEF Fragment, Joined, TypeOK, NextChunk, Last
<1>2. ~Patched(Append(rx_buffer, NextChunk))
  <2>1. CASE got = 0
    <3>1. NextChunk.part = 1
      BY <2>1 DEF NextChunk
    <3> QED
      BY <1>1, <3>1, AppendJoins
  <2>2. CASE got # 0
    <3>1. /\ rx_buffer # <<>>
          /\ rx_buffer[Len(rx_buffer)] =
               [msg |-> arriving, part |-> got, of |-> of]
      BY <1>1, <2>2 DEF Joined
    <3>2. [NextChunk EXCEPT !.part = @ - 1] =
            [msg |-> arriving, part |-> got, of |-> of]
      BY <1>1 DEF NextChunk
    <3> QED
      BY <1>1, <3>1, <3>2, AppendJoins
  <2> QED
    BY <2>1, <2>2
<1>3. ~Patched(rx_buffer') /\ outcome' # "junk"
  BY <1>1, <1>2, EventJoins
<1>4. CASE Last
  BY <1>1, <1>3, <1>4 DEF Joined
<1>5. CASE ~Last
  <2>1. Wait(NextChunk)
    BY <1>1, <1>5 DEF DataEvent, Lose, Overflow
  <2>2. rx_buffer' = Append(rx_buffer, NextChunk)
    BY <2>1 DEF Wait
  <2>3. rx_buffer' # <<>> /\ rx_buffer'[Len(rx_buffer')] = NextChunk
    BY <1>1, <2>2, AppendChunk
  <2> QED
    BY <1>1, <1>3, <1>5, <2>3 DEF Joined, NextChunk
<1> QED
  BY <1>4, <1>5, <1>3

LEMMA CloseJoins ==
  ASSUME TypeOK, Joined, Close
  PROVE  Joined' /\ (outcome' = "junk" => ~intact')
<1> SUFFICES ASSUME intact' PROVE Joined' /\ outcome' # "junk"
  BY DEF Joined
<1>1. /\ ~Patched(rx_buffer) /\ rx_buffer \in Seq(Chunk)
      /\ DataEvent(CloseChunk, TRUE) /\ arriving' = NoMsg
      /\ CloseChunk.part = 1
  BY DEF Close, wire, Joined, TypeOK, CloseChunk
<1>2. ~Patched(Append(rx_buffer, CloseChunk))
  BY <1>1, CloseChunkType, AppendJoins
<1>3. ~Patched(rx_buffer') /\ outcome' # "junk"
  BY <1>1, <1>2, CloseChunkType, EventJoins
<1> QED
  BY <1>1, <1>3 DEF Joined

LEMMA NextJoined == TypeOK /\ Joined /\ [Next]_vars => Joined'
<1> SUFFICES ASSUME TypeOK, Joined, [Next]_vars PROVE Joined'
  OBVIOUS
<1>1. ASSUME NEW m \in Msgs, NEW n \in Sizes, Begin(m, n) PROVE Joined'
  <2>1. rx_buffer' = rx_buffer /\ got' = 0
        /\ (intact' => intact \/ rx_buffer = <<>>)
    BY <1>1 DEF Begin
  <2>2. intact' => ~Patched(rx_buffer')
    BY <2>1, EmptyNotPatched DEF Joined
  <2> QED
    BY <2>1, <2>2 DEF Joined
<1>2. CASE Disconnect
  BY <1>2 DEF Disconnect, Joined
<1>3. CASE Connect \/ UNCHANGED vars
  BY <1>3 DEF Connect, vars, wire, Joined
<1> QED
  BY <1>1, <1>2, <1>3, FragmentJoins, CloseJoins DEF Next

(* With memory for the parser an event handles at most the message it      *)
(* completes, whatever else goes wrong - chunks lost, frames cut off,      *)
(* close codes in the buffer, overflows; and what the server never sent is *)
(* handled only when a chunk was lost from the middle of a frame.          *)
THEOREM OnlySentIsHandled == Spec => OnlyWhatWasSent
<1>1. Init => Joined /\ (~ParserMayFail => NothingLeft)
  BY EmptyNotPatched DEF Init, Joined, NothingLeft, StartsWithMessage
<1>2. /\ TypeOK /\ Joined /\ [Next]_vars => Joined'
      /\ TypeOK /\ (~ParserMayFail => NothingLeft) /\ [Next]_vars
           => (~ParserMayFail => NothingLeft)'
  BY NextJoined, NextNothingLeft
<1>3. TypeOK /\ Joined /\ (~ParserMayFail => NothingLeft) /\ [Next]_vars =>
        [Fragment \/ Close =>
           /\ ~ParserMayFail /\ outcome' \in Msgs => outcome' = arriving /\ Last
           /\ outcome' = "junk" => ~intact']_vars
  BY FragmentHandles, CloseHandles, FragmentJoins, CloseJoins
<1> QED
  BY <1>1, <1>2, <1>3, TypeCorrect, PTL DEF Spec, OnlyWhatWasSent

-----------------------------------------------------------------------------
(* Deafness.  Each message of one event that leads to nothing adds its     *)
(* chunk to what made the parser fail, so the buffer bounds the misses.    *)
DeafInv ==
  /\ misses <= BufferLen + 1
  /\ rx_buffer # <<>> => misses <= Len(rx_buffer)

LEMMA ShortFragmentDeaf ==
  ASSUME TypeOK, DeafInv, Fragment, of = 1
  PROVE  DeafInv'
<1>1. /\ arriving \in Msgs /\ got = 0 /\ of = 1 /\ Last
      /\ misses \in Nat /\ rx_buffer \in Seq(Chunk) /\ NextChunk \in Chunk
  BY NextChunkType DEF Fragment, TypeOK, Last
<1>2. \/ Lose \/ Overflow \/ ParseBuffer(NextChunk)
  BY <1>1 DEF Fragment, DataEvent, NextChunk
<1>3. misses' = 0 \/ (misses' <= misses + 1 /\ ~RanOut /\ outcome' \notin Msgs)
  BY <1>1 DEF Fragment
<1>4. CASE misses' = 0
  <2>1. rx_buffer' \in Seq(Chunk)
    BY <1>1, DataEventType DEF Fragment, NextChunk, Last
  <2> QED
    BY <1>4, <2>1 DEF DeafInv
<1>5. CASE misses' <= misses + 1 /\ ~RanOut /\ outcome' \notin Msgs
  <2>1. CASE Lose
    BY <1>5, <2>1 DEF Lose, RanOut
  <2>2. CASE Overflow
    <3>1. rx_buffer # <<>> /\ misses <= BufferLen /\ rx_buffer' = <<>>
      BY <1>1, <2>2 DEF Overflow, DeafInv
    <3> QED
      BY <1>1, <1>5, <3>1 DEF DeafInv, Fragment
  <2>3. CASE ParseBuffer(NextChunk)
    <3> DEFINE all == Append(rx_buffer, NextChunk)
    <3>1. /\ Len(rx_buffer) \in Nat /\ Len(rx_buffer) < BufferLen
          /\ all \in Seq(Chunk) /\ all # <<>> /\ Len(all) = Len(rx_buffer) + 1
          /\ outcome' \in Parse(all)
          /\ rx_buffer' = IF outcome' = "failed" THEN all ELSE <<>>
      BY <1>1, <2>3, AppendChunk DEF ParseBuffer
    <3>2. rx_buffer # <<>>
      <4> SUFFICES ASSUME rx_buffer = <<>> PROVE FALSE
        OBVIOUS
      <4>1. all[1] = NextChunk /\ Len(all) = 1
        BY <1>1, AppendChunk
      <4>2. StartsWithMessage(all)
        <5>1. /\ NextChunk.msg = arriving /\ NextChunk.of = 1
              /\ NextChunk = [msg |-> arriving, part |-> 1, of |-> 1]
          BY <1>1 DEF NextChunk
        <5> HIDE DEF all
        <5> QED
          BY <1>1, <3>1, <4>1, <5>1 DEF StartsWithMessage
      <4>3. outcome' = "failed"
        <5> HIDE DEF all
        <5>1. all[1].msg \in Msgs
          BY <4>2 DEF StartsWithMessage
        <5> QED
          BY <1>5, <3>1, <4>2, <5>1 DEF Parse
      <4> HIDE DEF all
      <4> QED
        BY <1>5, <3>1, <4>2, <4>3 DEF RanOut
    <3>3. misses <= Len(rx_buffer)
      BY <3>2 DEF DeafInv
    <3>4. misses' \in Nat
      BY <1>1 DEF Fragment
    <3> HIDE DEF all
    <3>5. CASE outcome' = "failed"
      BY <1>1, <1>5, <3>1, <3>3, <3>4, <3>5 DEF DeafInv
    <3>6. CASE outcome' # "failed"
      BY <1>1, <1>5, <3>1, <3>3, <3>4, <3>6 DEF DeafInv
    <3> QED
      BY <3>5, <3>6
  <2> QED
    BY <1>2, <2>1, <2>2, <2>3
<1> QED
  BY <1>3, <1>4, <1>5

LEMMA LongFragmentDeaf ==
  ASSUME TypeOK, DeafInv, Fragment, of # 1
  PROVE  DeafInv'
<1>1. of \in Nat /\ of > 1
  BY DEF Fragment, TypeOK
<1>2. misses' = 0
  BY <1>1 DEF Fragment
<1>3. rx_buffer' \in Seq(Chunk)
  <2>1. /\ NextChunk \in Chunk /\ Last \in BOOLEAN
        /\ DataEvent(NextChunk, Last)
    BY NextChunkType DEF Fragment, NextChunk, Last
  <2> QED
    BY <2>1, DataEventType
<1> QED
  BY <1>2, <1>3 DEF DeafInv

LEMMA NextDeaf ==
  ASSUME TypeOK, DeafInv, [Next]_vars
  PROVE  DeafInv'
<1>1. ASSUME misses' = 0, rx_buffer' \in Seq(Chunk) PROVE DeafInv'
  BY <1>1 DEF DeafInv
<1>2. CASE Close
  <2>1. misses' = 0 /\ DataEvent(CloseChunk, TRUE)
    BY <1>2 DEF Close
  <2>2. rx_buffer' \in Seq(Chunk)
    BY <2>1, CloseChunkType, DataEventType
  <2> QED
    BY <1>1, <2>1, <2>2
<1>3. CASE Disconnect
  BY <1>1, <1>3 DEF Disconnect, TypeOK
<1>4. CASE Connect \/ UNCHANGED vars
  BY <1>4 DEF Connect, vars, DeafInv
<1>5. ASSUME NEW m \in Msgs, NEW n \in Sizes, Begin(m, n) PROVE DeafInv'
  BY <1>5 DEF Begin, DeafInv
<1> QED
  BY <1>2, <1>3, <1>4, <1>5, ShortFragmentDeaf, LongFragmentDeaf DEF Next

(* No close code, no cut off message and no lost chunk can make the client *)
(* deaf for more than one buffer full of messages that fit one event.      *)
THEOREM BoundedDeafness == Spec => []DeafnessIsBounded
<1>1. Init => DeafInv
  BY DEF Init, DeafInv
<1>2. TypeOK /\ DeafInv /\ [Next]_vars => DeafInv'
  BY NextDeaf
<1>3. DeafInv => DeafnessIsBounded
  BY DEF DeafInv, DeafnessIsBounded
<1> QED
  BY <1>1, <1>2, <1>3, TypeCorrect, PTL DEF Spec

-----------------------------------------------------------------------------
(* Sound frames.  The buffer holds exactly what was delivered of a frame   *)
(* that began on an empty buffer and lost nothing so far.                  *)
SoundInv ==
  sound /\ arriving # NoMsg =>
    /\ Len(rx_buffer) = got
    /\ \A i \in 1..got :
         rx_buffer[i] = [msg |-> arriving, part |-> i, of |-> of]

LEMMA FragmentSound ==
  ASSUME TypeOK, SoundInv, Fragment
  PROVE  /\ SoundInv'
         /\ Last /\ sound' => outcome' = arriving
<1> SUFFICES ASSUME sound'
             PROVE  /\ SoundInv'
                    /\ Last => outcome' = arriving
  BY DEF SoundInv
<1> DEFINE all == Append(rx_buffer, NextChunk)
<1>1. /\ sound /\ ~RanOut /\ outcome' # "overflow"
      /\ arriving \in Msgs /\ arriving # NoMsg /\ got \in Nat /\ got < of
      /\ of \in Nat \ {0} /\ rx_buffer \in Seq(Chunk) /\ NextChunk \in Chunk
      /\ got' = got + 1 /\ of' = of
      /\ arriving' = IF Last THEN NoMsg ELSE arriving
  <2>1. /\ sound /\ ~RanOut /\ outcome' # "overflow" /\ arriving # NoMsg
        /\ got' = got + 1 /\ of' = of
        /\ arriving' = IF Last THEN NoMsg ELSE arriving
    BY DEF Fragment
  <2>2. /\ arriving \in Msgs /\ got \in Nat /\ got < of
        /\ of \in Sizes \union {0} /\ rx_buffer \in Seq(Chunk)
    BY <2>1 DEF TypeOK
  <2>3. of \in Nat \ {0}
    BY <2>2
  <2> QED
    BY <2>1, <2>2, <2>3, NextChunkType
<1>2. (~Last /\ Wait(NextChunk)) \/ (Last /\ ParseBuffer(NextChunk))
  BY <1>1 DEF Fragment, DataEvent, NextChunk, Lose, Overflow, RanOut
<1>3. /\ all \in Seq(Chunk) /\ all # <<>> /\ Len(all) = got + 1
      /\ \A i \in 1..(got + 1) :
           all[i] = [msg |-> arriving, part |-> i, of |-> of]
  <2>1. /\ all \in Seq(Chunk) /\ all # <<>> /\ Len(all) = Len(rx_buffer) + 1
        /\ \A i \in 1..Len(rx_buffer) : all[i] = rx_buffer[i]
        /\ all[Len(rx_buffer) + 1] = NextChunk
    BY <1>1, AppendChunk
  <2>2. /\ Len(rx_buffer) = got
        /\ \A i \in 1..got :
             rx_buffer[i] = [msg |-> arriving, part |-> i, of |-> of]
    BY <1>1 DEF SoundInv
  <2>3. all[got + 1] = [msg |-> arriving, part |-> got + 1, of |-> of]
    BY <2>1, <2>2 DEF NextChunk
  <2> HIDE DEF all
  <2>4. \A i \in 1..(got + 1) : i \in 1..got \/ i = got + 1
    BY <1>1
  <2> QED
    BY <2>1, <2>2, <2>3, <2>4
<1>4. CASE ~Last
  <2>1. rx_buffer' = all
    BY <1>2, <1>4 DEF Wait
  <2> HIDE DEF all
  <2> QED
    BY <1>1, <1>3, <1>4, <2>1 DEF SoundInv
<1>5. CASE Last
  <2>1. /\ outcome' \in Parse(all)
        /\ rx_buffer' = IF outcome' = "failed" THEN all ELSE <<>>
    BY <1>2, <1>5 DEF ParseBuffer
  <2> HIDE DEF all
  <2>2. all[1] = [msg |-> arriving, part |-> 1, of |-> of] /\ of = got + 1
    BY <1>1, <1>3, <1>5 DEF Last
  <2>3. StartsWithMessage(all)
    BY <1>1, <1>3, <2>2 DEF StartsWithMessage
  <2>4. outcome' # "failed"
    BY <1>1, <1>3, <2>1, <2>3 DEF RanOut
  <2>5. outcome' = arriving
    BY <2>1, <2>2, <2>3, <2>4 DEF Parse
  <2> QED
    BY <1>1, <1>5, <2>5 DEF SoundInv
<1> QED
  BY <1>4, <1>5

LEMMA NextSound == TypeOK /\ SoundInv /\ [Next]_vars => SoundInv'
<1> SUFFICES ASSUME TypeOK, SoundInv, [Next]_vars PROVE SoundInv'
  OBVIOUS
<1>1. ASSUME NEW m \in Msgs, NEW n \in Sizes, Begin(m, n) PROVE SoundInv'
  <2>1. got' = 0 /\ (sound' => rx_buffer' = <<>>)
    BY <1>1 DEF Begin
  <2>2. rx_buffer' = <<>> => Len(rx_buffer') = 0
    OBVIOUS
  <2> QED
    BY <2>1, <2>2 DEF SoundInv
<1>2. CASE Close
  BY <1>2 DEF Close, SoundInv
<1>3. CASE Disconnect
  BY <1>3 DEF Disconnect, SoundInv
<1>4. CASE Connect \/ UNCHANGED vars
  BY <1>4 DEF Connect, vars, wire, SoundInv
<1> QED
  BY <1>1, <1>2, <1>3, <1>4, FragmentSound DEF Next

(* A message of any number of events, up to the size of the buffer, is     *)
(* handled if its frame began on an empty buffer and nothing of it was     *)
(* lost, whatever was in the buffer before.                                *)
THEOREM SoundHandled == Spec => SoundIsHandled
<1>1. Init => SoundInv
  BY DEF Init, SoundInv
<1>2. TypeOK /\ SoundInv /\ [Next]_vars
        => [Fragment /\ Last /\ sound' => outcome' = arriving]_vars
  BY FragmentSound
<1> QED
  BY <1>1, <1>2, NextSound, TypeCorrect, PTL DEF Spec, SoundIsHandled

=============================================================================
