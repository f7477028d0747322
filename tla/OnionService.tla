---------------------------- MODULE OnionService ----------------------------
(***************************************************************************)
(* OnionService: the registration of the server as an onion service over   *)
(* the control connection of Tor, and the file with the key that keeps its *)
(* address from one run to the next.                                       *)
(*                                                                         *)
(* A service is known by its key.  Tor drops the service with the control  *)
(* connection.  A call of the control connection ends within its timeout,  *)
(* as it should or not.  The temporary file of savePrivateKey is left out: *)
(* whatever interrupts it, the key file is not there or complete.  Its     *)
(* directory is not flushed, so a power failure may take it back.          *)
(*                                                                         *)
(* Where a definition is preceded by one that differs from it in a detail, *)
(* that one is a plausible mistake in the same lines.                      *)
(***************************************************************************)
CONSTANT Keys  \* the keys that Tor makes

VARIABLES
    control,    \* the endpoint of the control connection, or none
    registered, \* the services that Tor has for this connection
    hostname,   \* OnionService::m_serviceId and m_hostname: at most one
    keyFile,    \* what the key file leads to
    keyOnDisk,  \* and what a power failure may leave there
    onionStep   \* where start is

onionVars == <<control, registered, hostname, keyFile, keyOnDisk, onionStep>>

NoKey == "missing"
BadKey == "invalid"

OnionTypeOK ==
    /\ control \in {"none", "unix", "tcp"}
    /\ registered \subseteq Keys
    /\ hostname \subseteq Keys
    /\ keyFile \in Keys \cup {NoKey, BadKey}
    /\ keyOnDisk \subseteq Keys \cup {NoKey, BadKey}
    /\ onionStep \in {"idle", "connect", "authenticate", "add", "save", "started", "failed"}

OnionInit ==
    /\ control = "none"
    /\ registered = {}
    /\ hostname = {}
    /\ keyFile \in {NoKey, BadKey}
    /\ keyOnDisk = {keyFile}
    /\ onionStep = "idle"

\* closeConnection, which is all that the end of the process does, too.
CloseConnection ==
    /\ control' = "none"
    /\ registered' = {}

\* start gives up: a command was not written, its reply was late, malformed or
\* a refusal, or something else went wrong.
FailStart ==
    /\ CloseConnection
    /\ onionStep' = "failed"
    /\ UNCHANGED <<hostname, keyFile, keyOnDisk>>

BeginStart ==
    /\ onionStep = "idle"
    /\ onionStep' = "connect"
    /\ UNCHANGED <<control, registered, hostname, keyFile, keyOnDisk>>

\* connectUnix and connectTcp: the endpoints that take the connection in time.
Reachable == SUBSET {"unix", "tcp"}

\* connectControl: the Unix socket, else TCP.
ConnectControl ==
    /\ onionStep = "connect"
    /\ \E up \in Reachable :
          \/ /\ up # {}
             /\ control' = IF "unix" \in up THEN "unix" ELSE "tcp"
             /\ onionStep' = "authenticate"
             /\ UNCHANGED <<registered, hostname, keyFile, keyOnDisk>>
          \/ /\ up = {}
             /\ FailStart

\* The method that authenticate tries: there is no second one when it fails.
MethodFor(methods) ==
    IF "SAFECOOKIE" \in methods THEN {"SAFECOOKIE"}
    ELSE IF "NULL" \in methods /\ control = "unix" THEN {"NULL"}
    ELSE {}

Authenticate ==
    /\ onionStep = "authenticate"
    /\ \E methods \in SUBSET {"SAFECOOKIE", "NULL", "COOKIE"} :
          \/ /\ MethodFor(methods) # {}
             /\ onionStep' = "add"
             /\ UNCHANGED <<control, registered, hostname, keyFile, keyOnDisk>>
          \/ FailStart

\* Tor has the service and the server knows it.
Registered(k) ==
    /\ registered' = {k}
    /\ hostname' = {k}
    /\ onionStep' = "started"

\* loadPrivateKey.
LoadPrivateKey ==
    IF keyFile \in Keys THEN "VALID" ELSE IF keyFile = NoKey THEN "MISSING" ELSE "INVALID"

\* An unusable key is replaced like a missing one.
AddReplacing ==
    /\ onionStep = "add"
    /\ \/ /\ LoadPrivateKey = "VALID"
          /\ Registered(keyFile)
          /\ UNCHANGED <<control, keyFile, keyOnDisk>>
       \/ /\ LoadPrivateKey # "VALID"
          /\ registered' \in {{k} : k \in Keys}
          /\ onionStep' = "save"
          /\ UNCHANGED <<control, hostname, keyFile, keyOnDisk>>
       \/ FailStart

\* add up to the reply of ADD_ONION: with the key of the file, or a new one if
\* there is no file.  A service that Tor names badly goes with the connection.
Add ==
    /\ onionStep = "add"
    /\ \/ /\ LoadPrivateKey = "VALID"
          /\ Registered(keyFile)
          /\ UNCHANGED <<control, keyFile, keyOnDisk>>
       \/ /\ LoadPrivateKey = "MISSING"
          /\ registered' \in {{k} : k \in Keys}
          /\ onionStep' = "save"
          /\ UNCHANGED <<control, hostname, keyFile, keyOnDisk>>
       \/ FailStart

\* savePrivateKey; without the key on file the service is given up.
SavePrivateKey ==
    /\ onionStep = "save"
    /\ \/ \E k \in registered :
             /\ keyFile' = k
             /\ keyOnDisk' = keyOnDisk \cup {k}
             /\ Registered(k)
             /\ UNCHANGED control
       \/ FailStart

StartOnion == ConnectControl \/ Authenticate \/ Add \/ SavePrivateKey

\* stop: DEL_ONION, heard or not, and the end of the connection.
StopOnion ==
    /\ CloseConnection
    /\ hostname' = {}
    /\ onionStep' = "idle"
    /\ UNCHANGED <<keyFile, keyOnDisk>>

\* Tor ends, and nothing registers the service again.
TorEnds ==
    /\ onionStep = "started" /\ registered # {}
    /\ registered' = {}
    /\ UNCHANGED <<control, hostname, keyFile, keyOnDisk, onionStep>>

\* The system writes the directory of the key back.
KeyReachesDisk ==
    /\ keyOnDisk # {keyFile}
    /\ keyOnDisk' = {keyFile}
    /\ UNCHANGED <<control, registered, hostname, keyFile, onionStep>>
=============================================================================
