----------------------------- MODULE WifiStation -----------------------------
(***************************************************************************)
(* How the examples bring up the network: wifi_init() and its event        *)
(* handler, of which main.c of both examples and wifi.c hold the same      *)
(* code.  The driver and the default event loop, which calls the handler   *)
(* for one event after the other, are external.                            *)
(***************************************************************************)
EXTENDS Naturals, Sequences

CONSTANT MaxRetry  \* EXAMPLE_ESP_MAXIMUM_RETRY

VARIABLES
  wifi_init,    \* where wifi_init() is
  s_retry_num,
  bits,         \* s_wifi_event_group
  driver,       \* what the station does
  posted,       \* events the handler has not seen
  streak        \* history: disconnections in a row that the handler saw

vars == <<wifi_init, s_retry_num, bits, driver, posted, streak>>

Init ==
  /\ wifi_init = "before"
  /\ s_retry_num = 0
  /\ bits = {}
  /\ driver = "idle"
  /\ posted = <<>>
  /\ streak = 0

-----------------------------------------------------------------------------
(* wifi_init(), up to xEventGroupWaitBits(). *)
Start ==
  /\ wifi_init = "before"
  /\ wifi_init' = "waiting"
  /\ posted' = <<"STA_START">>
  /\ UNCHANGED <<s_retry_num, bits, driver, streak>>

(* Mutant of Return: it waits for WIFI_CONNECTED_BIT only. *)
ReturnConnected ==
  /\ wifi_init = "waiting"
  /\ "WIFI_CONNECTED_BIT" \in bits
  /\ wifi_init' = "returned"
  /\ UNCHANGED <<s_retry_num, bits, driver, posted, streak>>

(* xEventGroupWaitBits() waits for either bit and leaves them set.  What   *)
(* it was is logged; the result is ESP_OK.                                 *)
Return ==
  /\ wifi_init = "waiting"
  /\ bits # {}
  /\ wifi_init' = "returned"
  /\ UNCHANGED <<s_retry_num, bits, driver, posted, streak>>

-----------------------------------------------------------------------------
(* The handler.                                                            *)

Handle(event) ==
  /\ posted # <<>> /\ Head(posted) = event
  /\ posted' = Tail(posted)
  /\ UNCHANGED wifi_init

(* Nobody looks at what esp_wifi_connect() returns: when it refuses, there *)
(* is no attempt, and nothing is posted that would call the handler again. *)
esp_wifi_connect == driver' \in {"connecting", "refused"}

StaStart ==
  /\ Handle("STA_START")
  /\ esp_wifi_connect
  /\ UNCHANGED <<s_retry_num, bits, streak>>

(* Mutant of StaDisconnected: it connects after it gave up, too. *)
StaDisconnectedAgain ==
  /\ Handle("STA_DISCONNECTED")
  /\ streak' = IF streak > MaxRetry THEN streak ELSE streak + 1
  /\ esp_wifi_connect
  /\ IF s_retry_num < MaxRetry
       THEN s_retry_num' = s_retry_num + 1 /\ UNCHANGED bits
       ELSE bits' = bits \union {"WIFI_FAIL_BIT"} /\ UNCHANGED s_retry_num

StaDisconnected ==
  /\ Handle("STA_DISCONNECTED")
  /\ streak' = streak + 1
  /\ \/ /\ s_retry_num < MaxRetry
        /\ esp_wifi_connect
        /\ s_retry_num' = s_retry_num + 1
        /\ UNCHANGED bits
     \/ /\ s_retry_num >= MaxRetry
        /\ bits' = bits \union {"WIFI_FAIL_BIT"}
        /\ UNCHANGED <<s_retry_num, driver>>

GotIp ==
  /\ Handle("STA_GOT_IP")
  /\ s_retry_num' = 0
  /\ streak' = 0
  /\ bits' = bits \union {"WIFI_CONNECTED_BIT"}
  /\ UNCHANGED driver

-----------------------------------------------------------------------------
(* The driver (external) makes one attempt when it is told to.             *)

(* Of WIFI_EVENT_STA_CONNECTED the handler takes no notice. *)
DriverAssociates ==
  /\ driver = "connecting" /\ driver' = "associated"
  /\ UNCHANGED <<wifi_init, s_retry_num, bits, posted, streak>>

(* DHCP got an address. *)
DriverUp ==
  /\ driver = "associated" /\ driver' = "up"
  /\ posted' = Append(posted, "STA_GOT_IP")
  /\ UNCHANGED <<wifi_init, s_retry_num, bits, streak>>

(* The attempt failed, or the access point is lost. *)
DriverDown ==
  /\ driver \in {"connecting", "associated", "up"} /\ driver' = "idle"
  /\ posted' = Append(posted, "STA_DISCONNECTED")
  /\ UNCHANGED <<wifi_init, s_retry_num, bits, streak>>

DriverStep == DriverAssociates \/ DriverUp \/ DriverDown

Handler == StaStart \/ StaDisconnected \/ GotIp

Next == Start \/ Return \/ Handler \/ DriverStep

Spec == Init /\ [][Next]_vars

(* The event loop calls the handler, an attempt to associate succeeds or   *)
(* fails, and wifi_init() is woken up.  Nothing makes DHCP find an address *)
(* nor an access point drop a station that has none.                       *)
Fairness ==
  /\ WF_vars(Handler)
  /\ WF_vars(driver = "connecting" /\ DriverStep)
  /\ WF_vars(Return)

FairSpec == Spec /\ Fairness

-----------------------------------------------------------------------------
GaveUp == "WIFI_FAIL_BIT" \in bits

(* Every variable stays in its type. *)
TypeOK ==
  /\ wifi_init \in {"before", "waiting", "returned"}
  /\ s_retry_num \in 0..MaxRetry
  /\ bits \subseteq {"WIFI_CONNECTED_BIT", "WIFI_FAIL_BIT"}
  /\ driver \in {"idle", "connecting", "refused", "associated", "up"}
  /\ posted \in Seq({"STA_START", "STA_DISCONNECTED", "STA_GOT_IP"})
  /\ streak \in 0..(MaxRetry + 1)

(* The station gives up after the first attempt and MaxRetry more failed   *)
(* in a row, then and not before, and the event group tells.  It is for    *)
(* good: nothing calls esp_wifi_connect() once it gave up, though the      *)
(* network may have been up for days before, and wifi_init() has returned  *)
(* ESP_OK.  And it is never idle for another reason once it was started,   *)
(* but for a refused esp_wifi_connect(), which has a state of its own.     *)
GivesUpForGood ==
  /\ GaveUp <=> streak > MaxRetry
  /\ GaveUp \/ wifi_init = "before" <=> driver = "idle" /\ posted = <<>>

(* wifi_init() waits for its bits without a timeout, and nothing in the    *)
(* code but the handler sets them.  So it returns, unless the station      *)
(* keeps it waiting: associated for ever without an address, or never      *)
(* connecting at all because esp_wifi_connect() refused.                   *)
OnlyTheStationStrands ==
  wifi_init = "waiting" ~> \/ wifi_init = "returned"
                           \/ [](driver \in {"associated", "refused"})

=============================================================================
