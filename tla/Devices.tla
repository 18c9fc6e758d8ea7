------------------------------ MODULE Devices ------------------------------
(***************************************************************************)
(* Device pairing (gateway/device_pairing.cpp) behind the device.* methods *)
(* of the gateway.  Each client's methods run on a thread of its own and   *)
(* the manager has no lock: an approval finds its request, builds the      *)
(* device and its token, and then enters it, and another thread may come   *)
(* between; of the outcomes of that race those are modelled that leave the *)
(* vectors intact.  Names, scopes and times are left out, and a token is   *)
(* its number in the order of issue.                                       *)
(***************************************************************************)
EXTENDS Naturals, Sequences, FiniteSets

CONSTANTS
  Client,      \* clients that call the methods
  Device, Role,
  None,
  MaxTokens,   \* bound: tokens issued
  MaxRequests  \* bound: pairing requests

VARIABLES
  requests,  \* pending_requests_
  paired,    \* paired_devices_: a device and its tokens by role
  found,     \* per client: the request that an approval has found, or None
  owner,     \* per token issued: its device
  void,      \* the tokens that a client was told are no longer in force
  asked

vars == <<requests, paired, found, owner, void, asked>>

Token == 1 .. Len(owner)

Request == [id: Nat, device: Device, role: Role]
Entry == [device: Device, tokens: [Role -> Nat \cup {None}]]

TypeOK ==
  /\ requests \in Seq(Request) /\ paired \in Seq(Entry)
  /\ found \in [Client -> Request \cup {None}]
  /\ owner \in Seq(Device) /\ Len(owner) <= MaxTokens
  /\ void \subseteq Token /\ asked \in 0 .. MaxRequests

\* The tokens that ListPairing's devices hold.
InForce == {paired[i].tokens[r] : i \in DOMAIN paired, r \in Role} \ {None}

\* The place of a device's first entry, if it is paired.
FindPairedDevice(d) ==
  {i \in DOMAIN paired : /\ paired[i].device = d
                         /\ \A j \in 1 .. (i - 1) : paired[j].device # d}

\* The place of a pending request, if it is pending.
FindPendingRequest(id) ==
  {i \in DOMAIN requests : /\ requests[i].id = id
                           /\ \A j \in 1 .. (i - 1) : requests[j].id # id}

\* What std::remove_if and erase leave of a vector: the elements at the places
\* I, in the order they were in.
Left(s, I) ==
  LET n == Cardinality(I)
  IN  {[k \in 1 .. n |-> s[f[k]]] :
         f \in {g \in [1 .. n -> I] : \A j, k \in 1 .. n : j < k => g[j] < g[k]}}

Without(id) == Left(requests, {i \in DOMAIN requests : requests[i].id # id})

Init ==
  /\ requests = << >> /\ paired = << >> /\ found = [c \in Client |-> None]
  /\ owner = << >> /\ void = {} /\ asked = 0

AddPairingRequest(d, r) ==
  /\ asked < MaxRequests
  /\ asked' = asked + 1
  /\ requests' = Append(requests, [id |-> asked', device |-> d, role |-> r])
  /\ UNCHANGED <<paired, found, owner, void>>

\* device.pair.approve: the request is found, or the call is refused.
DevicePairApprove(c, id) ==
  /\ found[c] = None
  /\ \E i \in FindPendingRequest(id) : found' = [found EXCEPT ![c] = requests[i]]
  /\ UNCHANGED <<requests, paired, owner, void, asked>>

\* The device is entered with its token, and the request is dropped.
ApprovePairing(c) ==
  LET r == found[c]
      t == Len(owner) + 1
  IN  /\ r # None /\ Len(owner) < MaxTokens
      /\ owner' = Append(owner, r.device)
      /\ paired' = Append(paired, [device |-> r.device,
                                   tokens |-> [x \in Role |-> IF x = r.role THEN t ELSE None]])
      /\ requests' \in Without(r.id)
      /\ found' = [found EXCEPT ![c] = None]
      /\ UNCHANGED <<void, asked>>

RejectPairing(id) ==
  /\ FindPendingRequest(id) # {}
  /\ requests' \in Without(id)
  /\ UNCHANGED <<paired, found, owner, void, asked>>

\* Mutant of RemovePairedDevice: only the entry that was found goes.
RemoveFirstEntry(d) ==
  /\ \E i \in FindPairedDevice(d) : paired' \in Left(paired, DOMAIN paired \ {i})
  /\ void' = void \cup {t \in Token : owner[t] = d}
  /\ UNCHANGED <<requests, found, owner, asked>>

\* device.pair.remove: every entry of the device goes.
RemovePairedDevice(d) ==
  /\ FindPairedDevice(d) # {}
  /\ paired' \in Left(paired, {i \in DOMAIN paired : paired[i].device # d})
  /\ void' = void \cup {t \in Token : owner[t] = d}
  /\ UNCHANGED <<requests, found, owner, asked>>

WithToken(i, r, t) == [paired EXCEPT ![i].tokens[r] = t]

\* device.token.rotate: the first entry's token of that role is replaced, or
\* made when it had none.
RotateDeviceToken(d, r) ==
  \E i \in FindPairedDevice(d) :
    /\ Len(owner) < MaxTokens
    /\ owner' = Append(owner, d)
    /\ paired' = WithToken(i, r, Len(owner'))
    /\ void' = void \cup ({paired[i].tokens[r]} \ {None})
    /\ UNCHANGED <<requests, found, asked>>

\* device.token.revoke, for a token that there is.
RevokeDeviceToken(d, r) ==
  \E i \in FindPairedDevice(d) :
    /\ paired[i].tokens[r] # None
    /\ paired' = WithToken(i, r, None)
    /\ void' = void \cup {paired[i].tokens[r]}
    /\ UNCHANGED <<requests, found, owner, asked>>

\* The methods, each on the thread of its client.
Free(c) == found[c] = None

DevicePairReject(c, id)     == Free(c) /\ RejectPairing(id)
DevicePairRemove(c, d)      == Free(c) /\ RemovePairedDevice(d)
DeviceTokenRotate(c, d, r)  == Free(c) /\ RotateDeviceToken(d, r)
DeviceTokenRevoke(c, d, r)  == Free(c) /\ RevokeDeviceToken(d, r)

Next ==
  \/ \E d \in Device, r \in Role : AddPairingRequest(d, r)
  \/ \E c \in Client :
       \/ ApprovePairing(c)
       \/ \E id \in 1 .. MaxRequests : DevicePairApprove(c, id) \/ DevicePairReject(c, id)
       \/ \E d \in Device :
            \/ DevicePairRemove(c, d)
            \/ \E r \in Role : DeviceTokenRotate(c, d, r) \/ DeviceTokenRevoke(c, d, r)

Spec == Init /\ [][Next]_vars

-----------------------------------------------------------------------------

\* A token whose device was removed, or that was rotated or revoked, is in no
\* entry again, although a device that was approved twice, or by two clients
\* at once, has several entries.
\* (gateway/device_pairing.cpp, ApprovePairing, RemovePairedDevice,
\* RotateDeviceToken, RevokeDeviceToken.)
VoidStaysVoid == InForce \cap void = {}

-----------------------------------------------------------------------------
(* What the proof of VoidStaysVoid rests on.                               *)

\* A token in force was issued to the device of its entry and is not void ...
TokenOK(e) ==
  \A r \in Role : e.tokens[r] # None =>
    /\ e.tokens[r] \in Token \ void
    /\ owner[e.tokens[r]] = e.device

\* ... and it is in one place.
HeldOnce ==
  \A i, j \in DOMAIN paired : \A q, r \in Role :
    paired[i].tokens[q] # None /\ paired[i].tokens[q] = paired[j].tokens[r] => i = j /\ q = r

IInv == TypeOK /\ HeldOnce /\ \A i \in DOMAIN paired : TokenOK(paired[i])
=============================================================================
