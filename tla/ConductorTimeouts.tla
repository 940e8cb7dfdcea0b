------------------------- MODULE ConductorTimeouts -------------------------
(***************************************************************************)
(* The timeouts of the client's conductor (ClientConductor.h,              *)
(* onHeartbeatCheckTimeouts): the time between its duty cycles, the age of *)
(* the driver's heartbeat, and its own heartbeat counter, which the driver *)
(* makes for a client and takes away from one that is silent.  Times are   *)
(* kept as ages, nowMs - m_timeOf..., up to a cap above every timeout.     *)
(***************************************************************************)
EXTENDS Naturals

CONSTANTS
  InterServiceTimeout,   \* m_interServiceTimeoutMs
  DriverTimeout,         \* m_driverTimeoutMs
  KeepaliveTimeout,      \* KEEPALIVE_TIMEOUT_MS
  ResourceTimeout,       \* RESOURCE_TIMEOUT_MS
  ClientLiveness,        \* the age of a heartbeat at which the driver drops a client
  ClientGap, DriverGap   \* the longest time between two duty cycles of each

TimeoutAssumption ==
  /\ InterServiceTimeout \in Nat /\ DriverTimeout \in Nat /\ KeepaliveTimeout \in Nat
  /\ ResourceTimeout \in Nat /\ ClientLiveness \in Nat
  /\ ClientGap \in Nat \ {0} /\ DriverGap \in Nat \ {0}

VARIABLES
  lastDoWork, lastKeepalive, lastCheck,  \* ages of m_timeOfLast...Ms
  driver,          \* "up", "crashed", "stopped"
  driverKeepalive, \* the age of the driver's heartbeat
  heartbeat,       \* the client's counter: its state and its age
  m_heartbeatTimestamp, \* whether the client has found its counter
  m_driverActive, closed,
  errors           \* history: the kinds of errors that the handler was given

vars == <<lastDoWork, lastKeepalive, lastCheck, driver, driverKeepalive, heartbeat,
          m_heartbeatTimestamp, m_driverActive, closed, errors>>

Largest(S) == CHOOSE x \in S : \A y \in S : y <= x
Cap == 1 + Largest({InterServiceTimeout, DriverTimeout, KeepaliveTimeout, ResourceTimeout,
                    ClientLiveness, ClientGap, DriverGap})
Older(age) == IF age < Cap THEN age + 1 ELSE Cap

Init ==
  /\ lastDoWork = 0 /\ lastKeepalive = 0 /\ lastCheck = 0
  /\ driver = "up" /\ driverKeepalive = 0
  /\ heartbeat = [state |-> "none", age |-> 0]
  /\ m_heartbeatTimestamp = FALSE /\ m_driverActive = TRUE /\ closed = FALSE /\ errors = {}

-----------------------------------------------------------------------------
(***************************************************************************)
(* The clock and the driver.  Both sides run at least once in their gap.   *)
(***************************************************************************)
tick ==
  /\ lastDoWork < ClientGap /\ (driver = "up" => driverKeepalive < DriverGap)
  /\ lastDoWork' = Older(lastDoWork) /\ lastKeepalive' = Older(lastKeepalive)
  /\ lastCheck' = Older(lastCheck) /\ driverKeepalive' = Older(driverKeepalive)
  /\ heartbeat' = [heartbeat EXCEPT !.age = Older(@)]
  /\ UNCHANGED <<driver, m_heartbeatTimestamp, m_driverActive, closed, errors>>

(* The driver makes the counter when it hears of the client, and frees it  *)
(* once the client is silent.                                              *)
driverWorks ==
  /\ driver = "up" /\ driverKeepalive' = 0
  /\ heartbeat' \in {heartbeat} \cup
       (IF heartbeat.state = "none" THEN {[state |-> "live", age |-> 0]}
        ELSE IF heartbeat.state = "live" /\ heartbeat.age > ClientLiveness
             THEN {[heartbeat EXCEPT !.state = "freed"]} ELSE {})
  /\ UNCHANGED <<lastDoWork, lastKeepalive, lastCheck, driver, m_heartbeatTimestamp, m_driverActive, closed, errors>>

(* The heartbeat of a driver that is shut down is NULL_VALUE: older than   *)
(* any timeout.                                                            *)
driverEnds ==
  /\ driver = "up" /\ driver' \in {"crashed", "stopped"}
  /\ driverKeepalive' = IF driver' = "stopped" THEN Cap ELSE driverKeepalive
  /\ UNCHANGED <<lastDoWork, lastKeepalive, lastCheck, heartbeat, m_heartbeatTimestamp, m_driverActive, closed, errors>>

-----------------------------------------------------------------------------
(* Mutant: the driver's heartbeat is compared with the keepalive interval. *)
driverTimedOut_Keepalive == driverKeepalive > KeepaliveTimeout

(* Mutant: NULL_VALUE is taken for a driver that has not begun. *)
driverTimedOut_NotNull == driverKeepalive > DriverTimeout /\ driver # "stopped"

driverTimedOut == driverKeepalive > DriverTimeout

serviceTimedOut == lastDoWork > InterServiceTimeout

keepaliveDue == lastKeepalive > KeepaliveTimeout

(* The heartbeat is written, or given up when the counter is not the       *)
(* client's any more, or looked for.                                       *)
heartbeatTimestamp ==
  IF m_heartbeatTimestamp
  THEN /\ heartbeat' = IF heartbeat.state = "live" THEN [heartbeat EXCEPT !.age = 0] ELSE heartbeat
       /\ UNCHANGED m_heartbeatTimestamp
  ELSE /\ m_heartbeatTimestamp' = (heartbeat.state = "live")
       /\ heartbeat' = IF heartbeat.state = "live" THEN [heartbeat EXCEPT !.age = 0] ELSE heartbeat

heartbeatLost == m_heartbeatTimestamp /\ heartbeat.state # "live"

(* Every check that fails closes the resources; the others still follow. *)
onHeartbeatCheckTimeouts ==
  /\ lastDoWork' = 0
  /\ IF keepaliveDue
     THEN /\ m_driverActive' = (m_driverActive /\ ~driverTimedOut)
          /\ closed' = (closed \/ serviceTimedOut \/ driverTimedOut \/ heartbeatLost)
          /\ errors' = errors \cup (IF serviceTimedOut THEN {"service"} ELSE {})
                              \cup (IF driverTimedOut THEN {"driver"} ELSE {})
                              \cup (IF heartbeatLost THEN {"heartbeat"} ELSE {})
          /\ heartbeatTimestamp /\ lastKeepalive' = 0
     ELSE /\ closed' = (closed \/ serviceTimedOut)
          /\ errors' = errors \cup IF serviceTimedOut THEN {"service"} ELSE {}
          /\ UNCHANGED <<m_driverActive, heartbeat, m_heartbeatTimestamp, lastKeepalive>>
  /\ lastCheck' = IF lastCheck > ResourceTimeout THEN 0 ELSE lastCheck
  /\ UNCHANGED <<driver, driverKeepalive>>

Next == tick \/ driverWorks \/ driverEnds \/ onHeartbeatCheckTimeouts

Spec == Init /\ [][Next]_vars

-----------------------------------------------------------------------------
(* The gaps fit into the timeouts: the client runs within its service      *)
(* timeout, and writes its heartbeat before the driver gives up on it.     *)
Timely ==
  /\ ClientGap <= InterServiceTimeout /\ DriverGap <= DriverTimeout
  /\ KeepaliveTimeout + ClientGap <= ClientLiveness

(* When both sides run in time the client is closed only because its       *)
(* driver ended: no timeout is raised for a live driver, and the driver    *)
(* does not drop the client.                                               *)
ClosedMeansDriverEnded == Timely /\ closed => driver # "up" /\ errors = {"driver"}

=============================================================================
