-------------------------------- MODULE Devices --------------------------------
(***************************************************************************)
(* The devices pushes are sent to: POST /auth/add-device keeps one live    *)
(* UserDevice row for a device, with its current token, by queries that    *)
(* other calls may come between; sendToUser, for the order hooks and the   *)
(* courier's panel, sends to the newest live row of a user.  A row's place *)
(* in the sequence stands for createdAt.  Firebase is configured.          *)
(*                                                                         *)
(* An owner is whatever id the app or the shop names: the table has no     *)
(* relation to User, and deleting an account leaves its devices alone.     *)
(***************************************************************************)
EXTENDS Naturals, Sequences, FiniteSets

CONSTANTS Owners, DeviceIds, Tokens, NoToken,
          Calls,          \* slots for addDevice calls handled at one time
          MaxRows,        \* bound: rows ever created
          MaxDeviceFaults \* bound: calls cut short

ASSUME DevicesAssumption ==
    NoToken \notin Tokens /\ MaxRows \in Nat /\ MaxDeviceFaults \in Nat

VARIABLES rows,         \* UserDevice rows, oldest first
          call,         \* what each addDevice call is doing
          notified,     \* the row pushed to in the last step, or 0
          latest,       \* history: the token of the last call that succeeded
          overlapped,   \* history: devices two calls were ever at work on
          deviceFaults

deviceVars == <<rows, call, notified, latest, overlapped, deviceFaults>>

NoCall == [at |-> "idle"]
Devices == Owners \X DeviceIds

DevicesTypeOK ==
    /\ rows \in Seq([device : Devices, token : Tokens, isRevoked : BOOLEAN])
    /\ call \in [Calls -> {NoCall} \cup
           [at : {"found", "create"}, device : Devices, token : Tokens,
            exist : 0 .. Len(rows)]]
    /\ notified \in 0 .. Len(rows)
    /\ latest \in [Devices -> Tokens \cup {NoToken}]
    /\ overlapped \subseteq Devices
    /\ deviceFaults \in Nat

DevicesInit ==
    /\ rows = << >>
    /\ call = [k \in Calls |-> NoCall]
    /\ notified = 0
    /\ latest = [d \in Devices |-> NoToken]
    /\ overlapped = {}
    /\ deviceFaults = 0

LiveRows(d) == {i \in DOMAIN rows : rows[i].device = d /\ ~rows[i].isRevoked}

\* The device a call is at work on.
Busy(d) == {k \in Calls : call[k] # NoCall /\ call[k].device = d}

\* addDevice: findFirst may answer with any live row of the device.
AddDevice(k, d, token) ==
    /\ call[k] = NoCall
    /\ \E i \in IF LiveRows(d) = {} THEN {0} ELSE LiveRows(d) :
           call' = [call EXCEPT ![k] = [at |-> IF i = 0 THEN "create" ELSE "found",
                                        device |-> d, token |-> token, exist |-> i]]
    /\ overlapped' = IF Busy(d) = {} THEN overlapped ELSE overlapped \cup {d}
    /\ notified' = 0
    /\ UNCHANGED <<rows, latest, deviceFaults>>

Succeed(k) ==
    /\ call' = [call EXCEPT ![k] = NoCall]
    /\ latest' = [latest EXCEPT ![call[k].device] = call[k].token]
    /\ notified' = 0
    /\ UNCHANGED <<overlapped, deviceFaults>>

\* The row found has the token already: it is answered as it is.
SameToken(k) ==
    /\ call[k].at = "found"
    /\ rows[call[k].exist].token = call[k].token
    /\ Succeed(k)
    /\ UNCHANGED rows

\* Mutant: the old row is not revoked.
RevokeNothing(i) == rows

\* userDevice.update: the old row is revoked, by its id.
Revoke(i) == [rows EXCEPT ![i].isRevoked = TRUE]

NewToken(k) ==
    /\ call[k].at = "found"
    /\ rows[call[k].exist].token # call[k].token
    /\ rows' = Revoke(call[k].exist)
    /\ call' = [call EXCEPT ![k].at = "create"]
    /\ notified' = 0
    /\ UNCHANGED <<latest, overlapped, deviceFaults>>

\* Mutant: after revoking a row the call answers with it.
CreateFirstOnly(k) ==
    IF call[k].exist # 0 THEN rows
    ELSE Append(rows, [device |-> call[k].device, token |-> call[k].token,
                       isRevoked |-> FALSE])

\* userDevice.create.
Created(k) ==
    Append(rows, [device |-> call[k].device, token |-> call[k].token,
                  isRevoked |-> FALSE])

CreateDevice(k) ==
    /\ call[k].at = "create"
    /\ Len(rows) < MaxRows
    /\ rows' = Created(k)
    /\ Succeed(k)

\* A query fails, or the process dies: the call ends where it is.
CutShort(k) ==
    /\ call[k] # NoCall
    /\ deviceFaults < MaxDeviceFaults
    /\ call' = [call EXCEPT ![k] = NoCall]
    /\ deviceFaults' = deviceFaults + 1
    /\ notified' = 0
    /\ UNCHANGED <<rows, latest, overlapped>>

\* sendToUser's findFirst, newest first.
PushRow(o) ==
    LET live == UNION {LiveRows(<<o, i>>) : i \in DeviceIds}
    IN  IF live = {} THEN 0 ELSE CHOOSE i \in live : \A j \in live : j <= i

\* sendToDevices: the token of the row is handed to Firebase, whose errors are
\* only logged.
sendToDevices(i) == notified' = i

\* sendToUser; without a live row nothing is sent.
sendToUser(o) ==
    /\ sendToDevices(PushRow(o))
    /\ UNCHANGED <<rows, call, latest, overlapped, deviceFaults>>

\* The shop reports an order fulfilled: its customer is told, and Telegram, each
\* whether or not the other can be.
handleOrderFulfilled(o) == sendToUser(o)

\* The courier's panel: the order is on its way, near or delivered.
controlOrder(o) == sendToUser(o)

DevicesNext ==
    \/ \E k \in Calls :
           \/ \E d \in Devices, token \in Tokens : AddDevice(k, d, token)
           \/ SameToken(k) \/ NewToken(k) \/ CreateDevice(k) \/ CutShort(k)
    \/ \E o \in Owners : handleOrderFulfilled(o) \/ controlOrder(o)

DevicesSpec == DevicesInit /\ [][DevicesNext]_deviceVars

\* A device once registered stays reachable when no call was cut short, however
\* calls overlap: it has a live row, or a call is about to create one.
DeviceStaysReachable ==
    deviceFaults = 0 =>
        \A d \in Devices :
            latest[d] # NoToken => LiveRows(d) # {} \/ Busy(d) # {}

\* A push goes to the token its device registered last, unless two calls of the
\* device overlapped or one was cut short: no older token is left live.
PushGoesToLastToken ==
    notified # 0 =>
        LET d == rows[notified].device
        IN  deviceFaults = 0 /\ d \notin overlapped /\ Busy(d) = {}
                => rows[notified].token = latest[d] /\ LiveRows(d) = {notified}
=============================================================================
