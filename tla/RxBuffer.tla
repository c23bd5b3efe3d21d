------------------------------- MODULE RxBuffer -------------------------------
(***************************************************************************)
(* How websocket_event_handler() puts the messages of the server together  *)
(* again.  The websocket client delivers the payload of a frame in one or  *)
(* more WEBSOCKET_EVENT_DATA; the handler appends each to                  *)
(* client->rx_buffer and parses the buffer when the frame is complete.     *)
(*                                                                         *)
(* A chunk stands for the bytes of one such event: part i of n of message  *)
(* m, or the code of a close frame, and the buffer's size is counted in    *)
(* chunks.  A message may be sent again once no chunk of it is left, so    *)
(* messages never run out.                                                 *)
(***************************************************************************)
EXTENDS Naturals, Sequences

CONSTANTS
  Msgs,         \* messages of the server
  Sizes,        \* in how many events a message may arrive
  BufferLen,    \* ESP_HASS_RX_BUFFER_SIZE_BYTE, in chunks
  MayLose,      \* the copy of a chunk may not be allocated
  ParserMayFail,\* cJSON_Parse() may run out of memory
  CloseCode,    \* stands for the two bytes of a close frame
  NoMsg         \* no frame is arriving

ASSUME SizeAssumption == Sizes \subseteq Nat \ {0}
ASSUME BufferAssumption == BufferLen \in Nat \ {0}
ASSUME MemoryAssumption == MayLose \in BOOLEAN /\ ParserMayFail \in BOOLEAN
ASSUME NameAssumption ==
  CloseCode \notin Msgs /\ NoMsg \notin Msgs /\ CloseCode # NoMsg

VARIABLES
  connected,  \* the websocket is up
  arriving,   \* message whose frame is arriving
  of,         \* in how many events it arrives
  got,        \* how many of them were delivered
  rx_buffer,  \* client->rx_buffer
  outcome,    \* what the last data event led to
  sound,      \* the frame began on an empty buffer and lost nothing
  intact,     \* no frame lost a chunk but its last one, since a frame last
              \* began on an empty buffer
  misses      \* messages of one event in a row that led to nothing, since
              \* the last fault (it stops counting at BufferLen + 2)

wire == <<connected, arriving, of, got>>
vars == <<wire, rx_buffer, outcome, sound, intact, misses>>

Chunk == [msg : Msgs \union {CloseCode}, part : Nat \ {0}, of : Nat \ {0}]
Failures == {"lost", "overflow", "failed"}
Outcomes == Msgs \union Failures \union {"none", "wait", "junk"}

ASSUME OutcomeAssumption ==
  Msgs \intersect (Failures \union {"none", "wait", "junk"}) = {}

CloseChunk == [msg |-> CloseCode, part |-> 1, of |-> 1]

(* The buffer starts with all the bytes of a message. *)
StartsWithMessage(buf) ==
  /\ buf # <<>>
  /\ buf[1].msg \in Msgs
  /\ buf[1].of <= Len(buf)
  /\ \A i \in 1..buf[1].of :
       buf[i] = [msg |-> buf[1].msg, part |-> i, of |-> buf[1].of]

(* A chunk of the buffer is not the first of its message and does not      *)
(* follow the one before it there.                                         *)
Patched(buf) ==
  \E i \in DOMAIN buf :
    /\ buf[i].part > 1
    /\ i > 1 => buf[i - 1] # [buf[i] EXCEPT !.part = @ - 1]

(* What esp_hass_message_parse() may make of the buffer.  cJSON_Parse()    *)
(* ignores what follows a complete value.  A message of which the end is   *)
(* missing is no JSON, whatever whole messages, other beginnings or close  *)
(* codes follow: its brace stays open, or a quote of theirs ends its       *)
(* string.  But an end that does not belong to it may close it, and the    *)
(* rest of a message may begin with a string or a number: then cJSON may   *)
(* find something the server never sent ("junk"), which is handled.        *)
Parse(buf) ==
  IF StartsWithMessage(buf)
  THEN {buf[1].msg} \union (IF ParserMayFail THEN {"failed"} ELSE {})
  ELSE {"failed"} \union (IF Patched(buf) THEN {"junk"} ELSE {})

Init ==
  /\ connected = TRUE
  /\ arriving = NoMsg
  /\ of = 0
  /\ got = 0
  /\ rx_buffer = <<>>
  /\ outcome = "none"
  /\ sound = FALSE
  /\ intact = TRUE
  /\ misses = 0

-----------------------------------------------------------------------------
(* The branches of WEBSOCKET_EVENT_DATA for a chunk that is, or is not,    *)
(* the last of its frame.  Each says what becomes of rx_buffer, and what   *)
(* the event led to.                                                       *)

(* calloc() fails: the chunk is lost. *)
Lose ==
  /\ MayLose
  /\ rx_buffer' = rx_buffer
  /\ outcome' = "lost"

(* Mutant of Overflow: the buffer is kept. *)
OverflowKeeps ==
  /\ Len(rx_buffer) = BufferLen
  /\ rx_buffer' = rx_buffer
  /\ outcome' = "overflow"

(* strlcat() overflows: buffer and chunk are dropped. *)
Overflow ==
  /\ Len(rx_buffer) = BufferLen
  /\ rx_buffer' = <<>>
  /\ outcome' = "overflow"

(* Mutants of Wait: one chunk too many; strlcpy() for strlcat(). *)
WaitOffByOne(chunk) ==
  /\ Len(rx_buffer) <= BufferLen
  /\ rx_buffer' = Append(rx_buffer, chunk)
  /\ outcome' = "wait"

WaitOverwrites(chunk) ==
  /\ rx_buffer' = <<chunk>>
  /\ outcome' = "wait"

(* Other chunks are expected to arrive. *)
Wait(chunk) ==
  /\ Len(rx_buffer) < BufferLen
  /\ rx_buffer' = Append(rx_buffer, chunk)
  /\ outcome' = "wait"

(* Mutant of ParseBuffer: the buffer is not emptied. *)
ParseBufferKeeps(chunk) ==
  /\ Len(rx_buffer) < BufferLen
  /\ outcome' \in Parse(Append(rx_buffer, chunk))
  /\ rx_buffer' = Append(rx_buffer, chunk)

(* The frame is complete.  The buffer is emptied only after a message was  *)
(* parsed and message_handler() was called.                                *)
ParseBuffer(chunk) ==
  /\ Len(rx_buffer) < BufferLen
  /\ outcome' \in Parse(Append(rx_buffer, chunk))
  /\ rx_buffer' = IF outcome' = "failed"
                    THEN Append(rx_buffer, chunk) ELSE <<>>

DataEvent(chunk, last) ==
  \/ Lose
  \/ Overflow
  \/ ~last /\ Wait(chunk)
  \/ last /\ ParseBuffer(chunk)

-----------------------------------------------------------------------------
(* The server begins to send m; no chunk of an earlier m is left. *)
Begin(m, n) ==
  /\ connected
  /\ arriving = NoMsg
  /\ \A i \in DOMAIN rx_buffer : rx_buffer[i].msg # m
  /\ arriving' = m
  /\ of' = n
  /\ got' = 0
  /\ sound' = (rx_buffer = <<>>)
  /\ intact' = (intact \/ rx_buffer = <<>>)
  /\ UNCHANGED <<connected, rx_buffer, outcome, misses>>

Last == got + 1 = of

(* An allocation failed in this event, or would have made the difference. *)
RanOut ==
  \/ outcome' = "lost"
  \/ /\ outcome' = "failed"
     /\ rx_buffer' # <<>>
     /\ StartsWithMessage(rx_buffer')

(* The next chunk of the frame arrives. *)
Fragment ==
  /\ arriving # NoMsg
  /\ DataEvent([msg |-> arriving, part |-> got + 1, of |-> of], Last)
  /\ arriving' = IF Last THEN NoMsg ELSE arriving
  /\ got' = got + 1
  /\ sound' = (sound /\ ~RanOut /\ outcome' # "overflow")
  /\ intact' = (intact /\ (outcome' \in {"lost", "overflow"} => Last))
  /\ misses' = IF of > 1 \/ RanOut \/ outcome' \in Msgs \union {"junk"} THEN 0
               ELSE IF misses < BufferLen + 2 THEN misses + 1 ELSE misses
  /\ UNCHANGED <<connected, of>>

(* A close frame: its code is logged, then appended like any payload. *)
Close ==
  /\ connected
  /\ arriving = NoMsg
  /\ DataEvent(CloseChunk, TRUE)
  /\ sound' = FALSE
  /\ misses' = 0
  /\ UNCHANGED <<wire, intact>>

(* WEBSOCKET_EVENT_DISCONNECTED is only logged.  The rest of a frame that  *)
(* was arriving never comes.                                               *)
Disconnect ==
  /\ connected
  /\ connected' = FALSE
  /\ arriving' = NoMsg
  /\ sound' = FALSE
  /\ misses' = 0
  /\ UNCHANGED <<of, got, rx_buffer, outcome, intact>>

(* WEBSOCKET_EVENT_CONNECTED is only logged. *)
Connect ==
  /\ ~connected
  /\ connected' = TRUE
  /\ UNCHANGED <<arriving, of, got, rx_buffer, outcome, sound, intact, misses>>

Next ==
  \/ \E m \in Msgs, n \in Sizes : Begin(m, n)
  \/ Fragment
  \/ Close
  \/ Disconnect
  \/ Connect

Spec == Init /\ [][Next]_vars

-----------------------------------------------------------------------------
(* Every variable stays in its type, and the buffer within its size. *)
TypeOK ==
  /\ connected \in BOOLEAN
  /\ arriving \in Msgs \union {NoMsg}
  /\ of \in Sizes \union {0}
  /\ got \in Nat
  /\ arriving # NoMsg => got < of
  /\ rx_buffer \in Seq(Chunk)
  /\ Len(rx_buffer) <= BufferLen
  /\ outcome \in Outcomes
  /\ sound \in BOOLEAN
  /\ intact \in BOOLEAN
  /\ misses \in 0..(BufferLen + 2)

(* As long as the parser has memory, a message is handled in the event     *)
(* that completes it, or never: whatever is left in the buffer, no later   *)
(* event brings an old message back.  (A message the parser had no memory  *)
(* for stays in the buffer, and is handled in the place of the next one.)  *)
(* And what the server never sent is handled only after a frame lost a     *)
(* chunk from its middle: closed connections, close codes, failed parses   *)
(* and lost ends leave nothing that a later message turns into one.        *)
OnlyWhatWasSent ==
  [][Fragment \/ Close =>
       /\ ~ParserMayFail /\ outcome' \in Msgs => outcome' = arriving /\ Last
       /\ outcome' = "junk" => ~intact']_vars

(* A frame that began on an empty buffer and lost nothing to an allocation *)
(* or an overflow ends in its message being handled.                       *)
SoundIsHandled == [][Fragment /\ Last /\ sound' => outcome' = arriving]_vars

(* What is left of an earlier message, or of a close frame, makes the      *)
(* client deaf only until the buffer overflows: of the messages that fit   *)
(* one event, at most BufferLen + 1 in a row lead to nothing.              *)
DeafnessIsBounded == misses <= BufferLen + 1

=============================================================================
