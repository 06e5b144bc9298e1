----------------------------- MODULE RoomCreation -----------------------------
(***************************************************************************)
(* Creating a room: the create form in several tabs, the callable with its *)
(* lost replies, and the transaction of createRoom over the request        *)
(* receipts, the room-code index and the documents of the rooms.           *)
(*                                                                         *)
(* The transaction writes everything a room consists of or nothing, so a   *)
(* room is one record, without the revision an answer also reports.  The   *)
(* form is left by reloading the page.                                     *)
(***************************************************************************)
EXTENDS Integers, FiniteSets

CONSTANTS
    Tabs,         \* browser tabs that may show the create form
    Identities,   \* anonymous Firebase identities
    Requests,     \* request IDs the forms may mint
    Codes,        \* room codes
    Rooms,        \* room IDs the server may mint
    Passphrases,
    MaxAttempts,  \* codes drawn before a creation fails
    None          \* no such document, code or request

ASSUME CreationAssumption ==
    /\ MaxAttempts \in Nat \ {0}
    /\ None \notin Rooms \cup Requests \cup Codes \cup Passphrases \cup Identities

VARIABLES
    receipts,   \* createRoomReceipts/{requestId}
    roomCodes,  \* roomCodes/{code}
    rooms,      \* rooms/{roomId}, with all that belongs to it
    identity,   \* per tab: the identity it is signed in as
    saved,      \* per tab: the request ID in sessionStorage
    form,       \* per tab: the create form
    calls,      \* per tab: the call under way, as sent or as answered
    strays,     \* calls whose caller gave up, still on their way
    minted,     \* history: request IDs minted
    told,       \* history: acceptances returned
    reveals     \* history: per room, how often its secrets were returned

serverVars == <<receipts, roomCodes, rooms, told, reveals>>
tabVars == <<identity, saved, form, calls, strays, minted>>
vars == <<serverVars, tabVars>>

Receipt == [room : Rooms, code : Codes, uid : Identities]
Room == [gm : Identities, passphrase : Passphrases, code : Codes]
Sent == [uid : Identities, request : Requests, passphrase : Passphrases]
Accepted == [uid : Identities, request : Requests, room : Rooms, code : Codes,
             secrets : BOOLEAN]

\* A denial or failure with a stable code; the form shows it like any other
\* failure of the call.
Rejected == [ok |-> FALSE]

Closed == [status |-> "closed", request |-> None, passphrase |-> None, room |-> None]

Form == [status : {"closed", "idle", "pending", "rejected", "accepted"},
         request : Requests \cup {None}, passphrase : Passphrases \cup {None},
         room : Rooms \cup {None}]

ASSUME NoCreationAssumption == None \notin Receipt \cup Room \cup Sent \cup Accepted \cup {Rejected}

Init ==
    /\ receipts = [q \in Requests |-> None]
    /\ roomCodes = [c \in Codes |-> None]
    /\ rooms = [r \in Rooms |-> None]
    /\ identity \in [Tabs -> Identities]
    /\ saved = [b \in Tabs |-> None]
    /\ form = [b \in Tabs |-> Closed]
    /\ calls = [b \in Tabs |-> None]
    /\ strays = {}
    /\ minted = {}
    /\ told = {}
    /\ reveals = [r \in Rooms |-> 0]

Created == {r \in Rooms : rooms[r] # None}

-----------------------------------------------------------------------------
\* The transaction.

Taken(code) == roomCodes[code] # None

\* Mutant: the last code drawn is used without looking it up.
FirstFreeUnchecked(draws, i) ==
    /\ i < MaxAttempts => ~Taken(draws[i])
    /\ \A j \in 1..(i - 1) : Taken(draws[j])

\* The draw that reserveRoomCode keeps.
FirstFree(draws, i) ==
    /\ ~Taken(draws[i])
    /\ \A j \in 1..(i - 1) : Taken(draws[j])

\* Mutant: a replay returns the codes it minted.
ReplayWithSecrets(call) ==
    LET receipt == receipts[call.request]
    IN  [uid |-> call.uid, request |-> call.request, room |-> receipt.room,
         code |-> receipt.code, secrets |-> TRUE]

\* What the receipt says, without the secrets: only their hashes are stored.
Replay(call) ==
    LET receipt == receipts[call.request]
    IN  [uid |-> call.uid, request |-> call.request, room |-> receipt.room,
         code |-> receipt.code, secrets |-> FALSE]

\* Mutant: whoever knows the request ID is answered.
ForeignNever(call) == FALSE

\* The request was another identity's.
Foreign(call) ==
    receipts[call.request] # None /\ receipts[call.request].uid # call.uid

Tell(acceptance) ==
    /\ told' = told \cup {acceptance}
    /\ reveals' = [reveals EXCEPT ![acceptance.room] = @ + (IF acceptance.secrets THEN 1 ELSE 0)]

Provision(call, r, code) ==
    /\ receipts' = [receipts EXCEPT ![call.request] = [room |-> r, code |-> code, uid |-> call.uid]]
    /\ roomCodes' = [roomCodes EXCEPT ![code] = r]
    /\ rooms' = [rooms EXCEPT ![r] = [gm |-> call.uid, passphrase |-> call.passphrase,
                                      code |-> code]]

\* createRoom for one call, and what it returns.
CreateRoom(call, result) ==
    \/ /\ Foreign(call)
       /\ result = Rejected
       /\ UNCHANGED serverVars
    \/ /\ ~Foreign(call) /\ receipts[call.request] # None
       /\ result = Replay(call)
       /\ Tell(result)
       /\ UNCHANGED <<receipts, roomCodes, rooms>>
    \/ /\ receipts[call.request] = None
       /\ \E draws \in [1..MaxAttempts -> Codes] :
             \/ /\ \A i \in 1..MaxAttempts : Taken(draws[i])
                /\ result = Rejected
                /\ UNCHANGED serverVars
             \/ \E i \in 1..MaxAttempts, r \in Rooms \ Created :
                   /\ FirstFree(draws, i)
                   /\ result = [uid |-> call.uid, request |-> call.request, room |-> r,
                                code |-> draws[i], secrets |-> TRUE]
                   /\ Provision(call, r, draws[i])
                   /\ Tell(result)

-----------------------------------------------------------------------------
\* The form and its calls.

\* The screen mounts: sessionStorage's request ID, or a new one kept there.
OpenForm(t) ==
    /\ form[t].status = "closed"
    /\ \E q \in IF saved[t] # None THEN {saved[t]} ELSE Requests \ minted :
          /\ form' = [form EXCEPT ![t] = [Closed EXCEPT !.status = "idle", !.request = q]]
          /\ saved' = [saved EXCEPT ![t] = q]
          /\ minted' = minted \cup {q}
    /\ UNCHANGED <<serverVars, identity, calls, strays>>

\* The fields stay open for editing until a room is accepted.
Submit(t, p) ==
    /\ form[t].status \in {"idle", "rejected"}
    /\ form' = [form EXCEPT ![t] = [@ EXCEPT !.status = "pending", !.passphrase = p]]
    /\ calls' = [calls EXCEPT ![t] = [uid |-> identity[t], request |-> form[t].request,
                                      passphrase |-> p]]
    /\ UNCHANGED <<serverVars, identity, saved, strays, minted>>

ServeCall(t) ==
    /\ calls[t] \in Sent
    /\ \E result \in Accepted \cup {Rejected} :
          /\ CreateRoom(calls[t], result)
          /\ calls' = [calls EXCEPT ![t] = result]
    /\ UNCHANGED <<identity, saved, form, strays, minted>>

ServeStray(call) ==
    /\ call \in strays
    /\ \E result \in Accepted \cup {Rejected} : CreateRoom(call, result)
    /\ strays' = strays \ {call}
    /\ UNCHANGED <<identity, saved, form, calls, minted>>

\* Mutant: a rejected form is left as it was.
ReceiveReplyStuck(t) ==
    /\ calls[t] \in Accepted \cup {Rejected}
    /\ calls' = [calls EXCEPT ![t] = None]
    /\ IF calls[t] = Rejected
       THEN UNCHANGED <<form, saved>>
       ELSE /\ form' = [form EXCEPT ![t] = [@ EXCEPT !.status = "accepted",
                                                     !.room = calls[t].room]]
            /\ saved' = [saved EXCEPT ![t] = None]
    /\ UNCHANGED <<serverVars, identity, strays, minted>>

\* An acceptance ends the request: the next form mints another.
ReceiveReply(t) ==
    /\ calls[t] \in Accepted \cup {Rejected}
    /\ calls' = [calls EXCEPT ![t] = None]
    /\ IF calls[t] = Rejected
       THEN /\ form' = [form EXCEPT ![t] = [@ EXCEPT !.status = "rejected"]]
            /\ UNCHANGED saved
       ELSE /\ form' = [form EXCEPT ![t] = [@ EXCEPT !.status = "accepted",
                                                     !.room = calls[t].room]]
            /\ saved' = [saved EXCEPT ![t] = None]
    /\ UNCHANGED <<serverVars, identity, strays, minted>>

\* A lost request or reply, a timeout or a throttled call: all look rejected.
LoseReply(t) ==
    /\ calls[t] # None
    /\ strays' = IF calls[t] \in Sent THEN strays \cup {calls[t]} ELSE strays
    /\ calls' = [calls EXCEPT ![t] = None]
    /\ form' = [form EXCEPT ![t] = [@ EXCEPT !.status = "rejected"]]
    /\ UNCHANGED <<serverVars, identity, saved, minted>>

\* The page is reloaded; sessionStorage survives.
Leave(t) ==
    /\ form[t].status # "closed"
    /\ form' = [form EXCEPT ![t] = Closed]
    /\ strays' = IF calls[t] \in Sent THEN strays \cup {calls[t]} ELSE strays
    /\ calls' = [calls EXCEPT ![t] = None]
    /\ UNCHANGED <<serverVars, identity, saved, minted>>

\* The browser's duplicate of a tab has its sessionStorage and its identity.
DuplicateTab(t, u) ==
    /\ form[u].status = "closed" /\ saved[t] # None
    /\ saved' = [saved EXCEPT ![u] = saved[t]]
    /\ identity' = [identity EXCEPT ![u] = identity[t]]
    /\ UNCHANGED <<serverVars, form, calls, strays, minted>>

\* A persisted sign-in is lost: its tabs continue under a new identity.
ReplaceIdentity(i, j) ==
    /\ \E t \in Tabs : identity[t] = i
    /\ \A t \in Tabs : identity[t] # j
    /\ \A q \in Requests : receipts[q] # None => receipts[q].uid # j
    /\ identity' = [t \in Tabs |-> IF identity[t] = i THEN j ELSE identity[t]]
    /\ UNCHANGED <<serverVars, saved, form, calls, strays, minted>>

Next ==
    \/ \E t \in Tabs :
          \/ OpenForm(t) \/ Leave(t)
          \/ ServeCall(t) \/ ReceiveReply(t) \/ LoseReply(t)
          \/ \E p \in Passphrases : Submit(t, p)
          \/ \E u \in Tabs : DuplicateTab(t, u)
    \/ \E call \in strays : ServeStray(call)
    \/ \E i, j \in Identities : ReplaceIdentity(i, j)

Spec == Init /\ [][Next]_vars

-----------------------------------------------------------------------------
\* Properties.

\* Every variable has its type, and a form waits exactly while its call is under
\* way: it is never left pending.
TypeOK ==
    /\ receipts \in [Requests -> Receipt \cup {None}]
    /\ roomCodes \in [Codes -> Rooms \cup {None}]
    /\ rooms \in [Rooms -> Room \cup {None}]
    /\ identity \in [Tabs -> Identities]
    /\ saved \in [Tabs -> Requests \cup {None}]
    /\ form \in [Tabs -> Form]
    /\ calls \in [Tabs -> Sent \cup Accepted \cup {Rejected, None}]
    /\ strays \subseteq Sent
    /\ minted \subseteq Requests
    /\ told \subseteq Accepted
    /\ reveals \in [Rooms -> Nat]
    /\ \A t \in Tabs : (form[t].status = "pending") <=> (calls[t] # None)
    /\ \A t \in Tabs : form[t].status = "closed" \/ form[t].request \in minted

\* A room is reached by its code and belongs to one request of its GM, whatever
\* was retried, duplicated or drawn twice: no orphan rooms, no second room for
\* a request, no code that leads elsewhere.
RoomsAccounted ==
    /\ \A r \in Created :
          /\ roomCodes[rooms[r].code] = r
          /\ \E q \in Requests :
                receipts[q] = [room |-> r, code |-> rooms[r].code, uid |-> rooms[r].gm]
    /\ \A c \in Codes : roomCodes[c] # None =>
          roomCodes[c] \in Created /\ rooms[roomCodes[c]].code = c
    /\ \A q, k \in Requests :
          /\ receipts[q] # None => receipts[q].room \in Created
          /\ receipts[q] # None /\ receipts[k] # None /\ q # k
             => receipts[q].room # receipts[k].room

\* The recovery and table codes leave the server once, with the room's creation.
SecretsOnce == \A r \in Rooms : reveals[r] = IF r \in Created THEN 1 ELSE 0

\* Only the identity that created a room is answered for its request, and
\* always about that one room.
OnlyCreatorTold ==
    \A a \in told :
        receipts[a.request] = [room |-> a.room, code |-> a.code, uid |-> a.uid]

\* CreateSessionScreen.tsx: the passphrase to share with the players, shown with
\* the accepted room, is the one that opens it.
ShownPassphraseOpens ==
    \A t \in Tabs : form[t].status = "accepted" =>
        form[t].passphrase = rooms[form[t].room].passphrase
=============================================================================
