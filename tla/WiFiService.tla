---------------------------- MODULE WiFiService ----------------------------
(***************************************************************************)
(* WifiService: five settings in memory and, each under a key of its own,  *)
(* in NVS; the connection made of them at boot.  SET_WIFI and RESET_WIFI   *)
(* of several tasks change both without a lock, a string or a key at a     *)
(* time; power may go between two keys.  Firmware boots the service.       *)
(***************************************************************************)
EXTENDS Naturals

CONSTANTS
  Tasks,       \* the tasks that run handlers
  Texts,       \* values of a setting
  Default,     \* the compile-time default of each; an absent key reads as it
  Torn,        \* a string being written, or that two tasks wrote at once
  Empty,       \* the empty string
  CString,     \* per text: c_str() of it, which ends at a NUL
  Pairs,       \* the SSIDs with a password that clients set
  Networks,    \* the networks that can be joined: SSID and password
  MaxAttempts, \* wifi_conn_max_attempts
  Lossy,       \* NVS may fail
  Unknown      \* no pair is owed to a restart

Keys == {"ssid", "password", "ap_ssid", "ap_password", "hostname"}
PairType == [ssid : Texts, password : Texts]

ASSUME TextsAssumption == {Default, Torn, Empty} \subseteq Texts /\ Default \notin {Torn, Empty}
ASSUME CStringAssumption ==
  CString \in [Texts -> Texts] /\ CString[Default] = Default /\ CString[Torn] = Torn
ASSUME PairsAssumption ==
  /\ Pairs \cup Networks \subseteq PairType
  /\ Unknown \notin PairType
  /\ \A p \in Pairs : p.ssid # Empty    \* SET_WIFI refuses it
ASSUME MaxAttemptsAssumption == MaxAttempts \in Nat
ASSUME LossyAssumption == Lossy \in BOOLEAN

VARIABLES
  field,    \* wifi_ssid_, wifi_password_, ap_ssid_, ap_password_, hostname_
  nvs,      \* the five keys
  link,     \* connected_ssid_ and how: over "sta" or "ap"
  tries,    \* the loop's connection attempts
  wpc,      \* per task: where its handler is
  op,       \* per task: "set" or "reset"
  want,     \* per task: the values it assigns
  left,     \* per task: the strings or keys its handler has left
  clean,    \* history, per task: it met no other handler and no fault
  owed      \* history: the pair of the last handler, if that one was clean

handlerVars == <<wpc, op, want, left, clean>>
wifiVars == <<field, nvs, link, tries, handlerVars, owed>>

Defaults == [k \in Keys |-> Default]
NoLink == [mode |-> "none", ssid |-> Empty]
PairOf(f) == [ssid |-> f["ssid"], password |-> f["password"]]

NoOps == [t \in Tasks |-> "set"]
NoWants == [t \in Tasks |-> Defaults]
NoneLeft == [t \in Tasks |-> {}]
NoneClean == [t \in Tasks |-> FALSE]
AllIdle == [t \in Tasks |-> "idle"]

(* The constructor: defaults in memory; NVS is new.                        *)
WiFiInit ==
  /\ field = Defaults /\ nvs = Defaults
  /\ link = NoLink /\ tries = 0
  /\ wpc = AllIdle /\ op = NoOps /\ want = NoWants /\ left = NoneLeft /\ clean = NoneClean
  /\ owed = PairOf(Defaults)

(* The power goes: NVS alone stays.                                        *)
WiFiPowerCut ==
  /\ field' = Defaults /\ link' = NoLink /\ tries' = 0
  /\ wpc' = AllIdle /\ op' = NoOps /\ want' = NoWants /\ left' = NoneLeft /\ clean' = NoneClean
  /\ UNCHANGED <<nvs, owed>>

-----------------------------------------------------------------------------
(* SET_WIFI and RESET_WIFI.                                                *)

Goto(t, here, there) == wpc[t] = here /\ wpc' = [wpc EXCEPT ![t] = there]

Enter(t, o, step, values) ==
  /\ Goto(t, "idle", step)
  /\ op' = [op EXCEPT ![t] = o]
  /\ want' = [want EXCEPT ![t] = values]
  /\ clean' = [u \in Tasks |-> u = t /\ \A v \in Tasks : wpc[v] = "idle"]
  /\ owed' = Unknown
  /\ UNCHANGED <<field, nvs, link, tries>>

(* A master sends a pair of allowed lengths; the SSID comes first.         *)
SetWifi(t, pair) ==
  /\ Enter(t, "set", "assign", [k \in Keys |-> IF k = "ssid" THEN pair.ssid
                                              ELSE IF k = "password" THEN pair.password
                                              ELSE Default])
  /\ left' = [left EXCEPT ![t] = {"ssid", "password"}]

(* A master resets.                                                        *)
ResetWifi(t) ==
  /\ Enter(t, "reset", "open", Defaults)
  /\ left' = [left EXCEPT ![t] = Keys]

(* Both assign and store in the order of the source.                       *)
Rank == [k \in Keys |-> CASE k = "ssid" -> 1 [] k = "password" -> 2 [] k = "ap_ssid" -> 3
                          [] k = "ap_password" -> 4 [] k = "hostname" -> 5]
Current(t, k) == k \in left[t] /\ \A j \in left[t] : Rank[k] <= Rank[j]

(* The bytes of a string are written: until the end it is neither the old  *)
(* nor the new one, unless these are the same.                             *)
AssignBegin(t, k) ==
  /\ Goto(t, "assign", "assigning")
  /\ Current(t, k)
  /\ field' = [field EXCEPT ![k] = IF @ = want[t][k] THEN @ ELSE Torn]
  /\ UNCHANGED <<nvs, link, tries, op, want, left, clean, owed>>

AssigningToo(t, k) == \E u \in Tasks \ {t} : wpc[u] = "assigning" /\ Current(u, k)

(* setWifiCredentials() is followed by saveSettings().                     *)
AssignEnd(t, k) ==
  /\ wpc[t] = "assigning" /\ Current(t, k)
  /\ \E v \in {want[t][k]} \cup (IF AssigningToo(t, k) /\ field[k] = Torn THEN {Torn} ELSE {}) :
       field' = [field EXCEPT ![k] = v]
  /\ IF left[t] # {k}
     THEN left' = [left EXCEPT ![t] = @ \ {k}] /\ wpc' = [wpc EXCEPT ![t] = "assign"]
     ELSE /\ left' = [left EXCEPT ![t] = IF op[t] = "set" THEN Keys ELSE {}]
          /\ wpc' = [wpc EXCEPT ![t] = IF op[t] = "set" THEN "open" ELSE "done"]
  /\ UNCHANGED <<nvs, link, tries, op, want, clean, owed>>

(* prefs.begin(): if it fails nothing is stored, and nobody is told.       *)
OpenPrefs(t, ok) ==
  /\ ok \/ Lossy
  /\ Goto(t, "open", IF op[t] = "set" THEN (IF ok THEN "put" ELSE "done")
                                      ELSE (IF ok THEN "wipe" ELSE "assign"))
  /\ left' = [left EXCEPT ![t] = IF op[t] = "set" /\ ~ok THEN {} ELSE Keys]
  /\ clean' = [clean EXCEPT ![t] = @ /\ ok]
  /\ UNCHANGED <<field, nvs, link, tries, op, want, owed>>

(* Mutant of Stored: the access point gets the SSID of the network.        *)
StoredShifted(k) == CString[field[IF k = "ap_ssid" THEN "ssid" ELSE k]]

(* What putString() is given for a key.                                    *)
Stored(k) == CString[field[k]]

(* Mutant of Put: no password is stored.                                   *)
PutNoPassword(t, k, ok) ==
  /\ wpc[t] = "put" /\ Current(t, k)
  /\ ok \/ Lossy
  /\ nvs' = [nvs EXCEPT ![k] = IF ok /\ k # "password" THEN Stored(k) ELSE @]
  /\ left' = [left EXCEPT ![t] = @ \ {k}]
  /\ wpc' = [wpc EXCEPT ![t] = IF left[t] = {k} THEN "done" ELSE "put"]
  /\ clean' = [clean EXCEPT ![t] = @ /\ ok]
  /\ UNCHANGED <<field, link, tries, op, want, owed>>

(* putString(): one key; its result is not looked at.                      *)
Put(t, k, ok) ==
  /\ wpc[t] = "put" /\ Current(t, k)
  /\ ok \/ Lossy
  /\ nvs' = [nvs EXCEPT ![k] = IF ok THEN Stored(k) ELSE @]
  /\ left' = [left EXCEPT ![t] = @ \ {k}]
  /\ wpc' = [wpc EXCEPT ![t] = IF left[t] = {k} THEN "done" ELSE "put"]
  /\ clean' = [clean EXCEPT ![t] = @ /\ ok]
  /\ UNCHANGED <<field, link, tries, op, want, owed>>

(* prefs.clear() removes the keys, in the order they were stored in, or    *)
(* fails at one and leaves the others; nobody looks at its result.  The    *)
(* strings of all five are assigned next.                                  *)
Wipe(t, k, ok) ==
  /\ wpc[t] = "wipe" /\ Current(t, k)
  /\ ok \/ Lossy
  /\ nvs' = [nvs EXCEPT ![k] = IF ok THEN Default ELSE @]
  /\ LET over == ~ok \/ left[t] = {k}
     IN  /\ left' = [left EXCEPT ![t] = IF over THEN Keys ELSE @ \ {k}]
         /\ wpc' = [wpc EXCEPT ![t] = IF over THEN "assign" ELSE "wipe"]
  /\ clean' = [clean EXCEPT ![t] = @ /\ ok]
  /\ UNCHANGED <<field, link, tries, op, want, owed>>

(* The answer, resp_ok in any case.                                        *)
Reply(t) ==
  /\ Goto(t, "done", "idle")
  /\ owed' = IF clean[t] THEN PairOf([k \in Keys |-> CString[want[t][k]]]) ELSE owed
  /\ op' = [op EXCEPT ![t] = "set"]
  /\ want' = [want EXCEPT ![t] = Defaults]
  /\ clean' = [clean EXCEPT ![t] = FALSE]
  /\ UNCHANGED <<field, nvs, link, tries, left>>

Handler(t) ==
  \/ \E k \in Keys : AssignBegin(t, k) \/ AssignEnd(t, k)
  \/ \E ok \in BOOLEAN : OpenPrefs(t, ok) \/ (\E k \in Keys : Put(t, k, ok) \/ Wipe(t, k, ok))
  \/ Reply(t)

-----------------------------------------------------------------------------
(* The connection, made by setup() alone.                                  *)

(* loadSettings(): the keys, or the defaults if NVS cannot be opened.      *)
loadSettings(ok) ==
  /\ ok \/ Lossy
  /\ field' = IF ok THEN nvs ELSE field
  /\ UNCHANGED <<nvs, link, tries, handlerVars, owed>>

(* connect_to_wifi() takes the pair up unless a string of it is empty.     *)
Joining == field["ssid"] # Empty /\ field["password"] # Empty

(* What WiFi.status() may say: the network can be joined, or not yet.      *)
Connected(up) == up => PairOf(field) \in Networks

(* One turn of the loop.                                                   *)
Attempt == tries < MaxAttempts /\ Connected(FALSE) /\ tries' = tries + 1

(* The loop is left, connected or after the last attempt; the status is    *)
(* read once more.                                                         *)
Verdict(up) ==
  /\ tries = MaxAttempts \/ Connected(TRUE)
  /\ Connected(up)
  /\ link' = IF up THEN [mode |-> "sta", ssid |-> field["ssid"]] ELSE link
  /\ tries' = 0

(* open_access_point().                                                    *)
open_access_point(ok) ==
  link' = IF ok THEN [mode |-> "ap", ssid |-> field["ap_ssid"]] ELSE link

-----------------------------------------------------------------------------

WiFiTypeOK ==
  /\ field \in [Keys -> Texts] /\ nvs \in [Keys -> Texts]
  /\ link \in [mode : {"none", "sta", "ap"}, ssid : Texts]
  /\ tries \in 0..MaxAttempts
  /\ wpc \in [Tasks -> {"idle", "assign", "assigning", "open", "put", "wipe", "done"}]
  /\ op \in [Tasks -> {"set", "reset"}]
  /\ want \in [Tasks -> [Keys -> Texts]]
  /\ left \in [Tasks -> SUBSET Keys]
  /\ clean \in [Tasks -> BOOLEAN]
  /\ owed \in PairType \cup {Unknown}
=============================================================================
