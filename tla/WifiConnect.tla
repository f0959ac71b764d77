---------------------------- MODULE WifiConnect -----------------------------
(***************************************************************************)
(* WifiConnect.c: WifiConnect_init starts the station and waits for one of *)
(* two event flags; event_handler, in the task of the event loop, connects,*)
(* retries and sets the flags.  The driver and the access point are        *)
(* external: an attempt ends in an address or in a disconnect, and a       *)
(* connection may be lost at any time.                                     *)
(***************************************************************************)
EXTENDS Naturals

CONSTANTS
  MAXIMUM_RETRY,
  MaxLosses     \* bound: connections lost

VARIABLES
  init,         \* where WifiConnect_init is, and what it reports
  station,      \* the driver: what it is doing
  useDhcp,      \* current_cfg.use_dhcp
  retry,        \* retry_count
  flags,        \* the event group
  gotIp,        \* history: an address was got
  attempts,     \* history: attempts since the start or the last address
  losses        \* connections lost so far

vars == <<init, station, useDhcp, retry, flags, gotIp, attempts, losses>>

Init ==
  /\ init = "start" /\ station = "off" /\ useDhcp \in BOOLEAN
  /\ retry = 0 /\ flags = {} /\ gotIp = FALSE /\ attempts = 0 /\ losses = 0

-----------------------------------------------------------------------------

\* The calls of WifiConnect_init up to esp_wifi_start, each of which may fail and
\* return.
Start ==
  /\ init = "start"
  /\ \/ init' = "error" /\ UNCHANGED station
     \/ init' = "pend" /\ station' = "starting"
  /\ UNCHANGED <<useDhcp, retry, flags, gotIp, attempts, losses>>

\* Mutant: FAILED is tested first.
Mut_Report ==
  /\ init = "pend" /\ flags # {}
  /\ init' = IF "failed" \in flags THEN "failed" ELSE "connected"
  /\ flags' = {}
  /\ UNCHANGED <<station, useDhcp, retry, gotIp, attempts, losses>>

\* RTOS_PEND_ANY_FLAGS_CLR returns the flags and clears them; CONNECTED is tested first.
Report ==
  /\ init = "pend" /\ flags # {}
  /\ init' = IF "connected" \in flags THEN "connected" ELSE "failed"
  /\ flags' = {}
  /\ UNCHANGED <<station, useDhcp, retry, gotIp, attempts, losses>>

-----------------------------------------------------------------------------
(* event_handler *)

\* WIFI_EVENT_STA_START
StaStart ==
  /\ station = "starting"
  /\ station' = "connecting" /\ attempts' = attempts + 1
  /\ UNCHANGED <<init, useDhcp, retry, flags, gotIp, losses>>

\* WIFI_EVENT_STA_CONNECTED: with a static address it is set here, which may fail
\* (the result is ignored, and no address is ever announced).
StaConnected ==
  /\ station = "connecting"
  /\ \/ station' = "associated"
     \/ ~useDhcp /\ station' = "no address"
  /\ UNCHANGED <<init, useDhcp, retry, flags, gotIp, attempts, losses>>

\* WIFI_EVENT_STA_DISCONNECTED: an attempt that failed or a connection that was lost.
StaDisconnected ==
  /\ station \in {"connecting", "associated", "no address", "up"}
  /\ station = "up" => losses < MaxLosses
  /\ losses' = IF station = "up" THEN losses + 1 ELSE losses
  /\ IF retry < MAXIMUM_RETRY
       THEN /\ retry' = retry + 1
            /\ station' = "connecting" /\ attempts' = attempts + 1
            /\ UNCHANGED flags
       ELSE /\ flags' = flags \cup {"failed"}
            /\ station' = "down"
            /\ UNCHANGED <<retry, attempts>>
  /\ UNCHANGED <<init, useDhcp, gotIp>>

\* IP_EVENT_STA_GOT_IP
GotIp ==
  /\ station = "associated"
  /\ station' = "up"
  /\ retry' = 0 /\ attempts' = 0
  /\ flags' = flags \cup {"connected"}
  /\ gotIp' = TRUE
  /\ UNCHANGED <<init, useDhcp, losses>>

Next == Start \/ Report \/ StaStart \/ StaConnected \/ StaDisconnected \/ GotIp

Spec == Init /\ [][Next]_vars

-----------------------------------------------------------------------------

\* What WifiConnect_init reports is what happened, however late its task comes to
\* read the flags: "failed" only when there never was an address and every retry was
\* used up, "connected" only when there was one.
ReportIsTrue ==
  /\ init = "failed" => ~gotIp /\ station = "down" /\ attempts = MAXIMUM_RETRY + 1
  /\ init = "connected" => gotIp
  /\ attempts <= MAXIMUM_RETRY + 1
=============================================================================
