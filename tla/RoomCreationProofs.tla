-------------------------- MODULE RoomCreationProofs --------------------------
(***************************************************************************)
(* Proofs about RoomCreation: type correctness, and that retries, shared   *)
(* request IDs and colliding codes never make a second or an orphan room,  *)
(* show secrets twice or tell anybody but the creator.                     *)
(***************************************************************************)
EXTENDS RoomCreation, TLAPS

\* The two halves of TypeOK.
ServerOK ==
    /\ receipts \in [Requests -> Receipt \cup {None}]
    /\ roomCodes \in [Codes -> Rooms \cup {None}]
    /\ rooms \in [Rooms -> Room \cup {None}]
    /\ told \subseteq Accepted
    /\ reveals \in [Rooms -> Nat]

\* A tab's form agrees with its call and with what was minted.
FormOK(f, call, ids) ==
    /\ f \in Form
    /\ call \in Sent \cup Accepted \cup {Rejected, None}
    /\ (f.status = "pending") <=> (call # None)
    /\ f.status = "closed" \/ f.request \in ids

TabsOK ==
    /\ identity \in [Tabs -> Identities]
    /\ saved \in [Tabs -> Requests \cup {None}]
    /\ strays \subseteq Sent
    /\ minted \subseteq Requests
    /\ form = [t \in Tabs |-> form[t]]
    /\ calls = [t \in Tabs |-> calls[t]]
    /\ \A t \in Tabs : FormOK(form[t], calls[t], minted)
    \* A saved request ID was minted, so a remounted form has a minted one.
    /\ \A t \in Tabs : saved[t] # None => saved[t] \in minted

Inv == ServerOK /\ RoomsAccounted /\ OnlyCreatorTold /\ SecretsOnce

-----------------------------------------------------------------------------
\* The transaction.

\* What a room's creation writes, given the draw it keeps.
Creates(call, r, code) ==
    /\ receipts[call.request] = None
    /\ r \in Rooms \ Created /\ code \in Codes /\ ~Taken(code)
    /\ Provision(call, r, code)
    /\ Tell([uid |-> call.uid, request |-> call.request, room |-> r, code |-> code,
             secrets |-> TRUE])

Replays(call) ==
    /\ receipts[call.request] # None /\ receipts[call.request].uid = call.uid
    /\ Tell(Replay(call))
    /\ UNCHANGED <<receipts, roomCodes, rooms>>

\* A served call creates a room, repeats an answer or changes nothing.
LEMMA Cases ==
    ASSUME ServerOK, NEW call \in Sent, NEW result, CreateRoom(call, result)
    PROVE  \/ UNCHANGED serverVars
           \/ Replays(call)
           \/ \E r \in Rooms, code \in Codes : Creates(call, r, code)
<1>1. CASE receipts[call.request] = None /\ ~UNCHANGED serverVars
  <2>1. ~Foreign(call)
    BY <1>1 DEF Foreign
  <2>2. PICK draws \in [1..MaxAttempts -> Codes], i \in 1..MaxAttempts, r \in Rooms \ Created :
            /\ FirstFree(draws, i)
            /\ result = [uid |-> call.uid, request |-> call.request, room |-> r,
                         code |-> draws[i], secrets |-> TRUE]
            /\ Provision(call, r, draws[i])
            /\ Tell(result)
    BY <1>1, <2>1 DEF CreateRoom
  <2>3. draws[i] \in Codes /\ ~Taken(draws[i])
    BY <2>2 DEF FirstFree
  <2> QED
    BY <1>1, <2>2, <2>3 DEF Creates
<1>2. CASE receipts[call.request] # None
  BY <1>2 DEF CreateRoom, Foreign, Replays
<1> QED
  BY <1>1, <1>2

LEMMA CreationKeepsInv ==
    ASSUME Inv, NEW call \in Sent, NEW r \in Rooms, NEW code \in Codes,
           Creates(call, r, code)
    PROVE  Inv'
<1> DEFINE q == call.request
           acceptance == [uid |-> call.uid, request |-> q, room |-> r, code |-> code,
                          secrets |-> TRUE]
           receipt == [room |-> r, code |-> code, uid |-> call.uid]
           room == [gm |-> call.uid, passphrase |-> call.passphrase, code |-> code]
<1>1. /\ q \in Requests /\ call.uid \in Identities
      /\ acceptance \in Accepted /\ receipt \in Receipt /\ room \in Room
  BY DEF Sent, Accepted, Receipt, Room
<1>2. /\ receipts[q] = None /\ rooms[r] = None /\ roomCodes[code] = None
      /\ receipts' = [receipts EXCEPT ![q] = receipt]
      /\ roomCodes' = [roomCodes EXCEPT ![code] = r]
      /\ rooms' = [rooms EXCEPT ![r] = room]
      /\ told' = told \cup {acceptance}
      /\ reveals' = [reveals EXCEPT ![r] = @ + 1]
  BY DEF Creates, Provision, Tell, Created, Taken
<1>3. /\ receipt # None /\ room # None /\ None \notin Rooms /\ None \notin Codes
      /\ None \notin Receipt
  BY <1>1, CreationAssumption, NoCreationAssumption
<1>4. /\ acceptance.uid = call.uid /\ acceptance.request = q /\ acceptance.room = r
      /\ acceptance.code = code
      /\ receipt.room = r /\ receipt.code = code /\ receipt.uid = call.uid
      /\ room.gm = call.uid /\ room.code = code
  OBVIOUS
<1> HIDE DEF q, acceptance, receipt, room
<1>5. ServerOK'
  BY <1>1, <1>2 DEF Inv, ServerOK
<1>6. /\ receipts'[q] = receipt /\ \A k \in Requests \ {q} : receipts'[k] = receipts[k]
      /\ roomCodes'[code] = r /\ \A c \in Codes \ {code} : roomCodes'[c] = roomCodes[c]
      /\ rooms'[r] = room /\ \A s \in Rooms \ {r} : rooms'[s] = rooms[s]
      /\ reveals'[r] = reveals[r] + 1 /\ \A s \in Rooms \ {r} : reveals'[s] = reveals[s]
  BY <1>1, <1>2 DEF Inv, ServerOK
<1>7. Created' = Created \cup {r} /\ r \notin Created
  BY <1>2, <1>3, <1>6 DEF Created
<1>8. RoomsAccounted'
  <2>1. ASSUME NEW s \in Created'
        PROVE  /\ roomCodes'[rooms'[s].code] = s
               /\ \E k \in Requests :
                     receipts'[k] = [room |-> s, code |-> rooms'[s].code, uid |-> rooms'[s].gm]
    <3>1. CASE s = r
      BY <1>1, <1>4, <1>6, <3>1 DEF receipt
    <3>2. CASE s # r
      <4>1. s \in Created /\ s \in Rooms /\ rooms'[s] = rooms[s] /\ rooms[s] \in Room
        BY <1>6, <1>7, <3>2 DEF Created, Inv, ServerOK
      <4>2. roomCodes[rooms[s].code] = s /\ rooms[s].code \in Codes
        BY <4>1 DEF Inv, RoomsAccounted, Room
      <4>3. rooms[s].code # code
        BY <1>2, <1>3, <4>1, <4>2
      <4>4. PICK k \in Requests :
               receipts[k] = [room |-> s, code |-> rooms[s].code, uid |-> rooms[s].gm]
        BY <4>1 DEF Inv, RoomsAccounted
      <4>5. receipts[k] \in Receipt
        BY <4>1, <4>2, <4>4 DEF Receipt, Room
      <4>6. receipts'[k] = receipts[k]
        BY <1>2, <1>3, <1>6, <4>5
      <4> QED
        BY <1>6, <4>1, <4>2, <4>3, <4>4, <4>6
    <3> QED
      BY <3>1, <3>2
  <2>2. ASSUME NEW c \in Codes, roomCodes'[c] # None
        PROVE  roomCodes'[c] \in Created' /\ rooms'[roomCodes'[c]].code = c
    <3>1. CASE c = code
      BY <1>4, <1>6, <1>7, <3>1
    <3>2. CASE c # code
      <4>1. roomCodes[c] \in Created /\ rooms[roomCodes[c]].code = c
        BY <1>6, <2>2, <3>2 DEF Inv, RoomsAccounted
      <4> QED
        BY <1>6, <1>7, <3>2, <4>1 DEF Created
    <3> QED
      BY <3>1, <3>2
  <2>3. ASSUME NEW k \in Requests, receipts'[k] # None
        PROVE  /\ receipts'[k].room \in Created'
               /\ k # q => receipts'[k].room # r
               /\ k = q => receipts'[k].room = r
    BY <1>4, <1>6, <1>7, <2>3 DEF Inv, RoomsAccounted
  <2>4. ASSUME NEW j \in Requests, NEW k \in Requests,
               receipts'[j] # None, receipts'[k] # None, j # k
        PROVE  receipts'[j].room # receipts'[k].room
    <3>1. CASE j = q \/ k = q
      BY <2>3, <2>4, <3>1
    <3>2. CASE j # q /\ k # q
      BY <1>6, <2>4, <3>2 DEF Inv, RoomsAccounted
    <3> QED
      BY <3>1, <3>2
  <2> QED
    BY <2>1, <2>2, <2>3, <2>4 DEF RoomsAccounted
<1>9. OnlyCreatorTold'
  <2> SUFFICES ASSUME NEW a \in told'
      PROVE receipts'[a.request] = [room |-> a.room, code |-> a.code, uid |-> a.uid]
    BY DEF OnlyCreatorTold
  <2>1. CASE a = acceptance
    BY <1>4, <1>6, <2>1 DEF receipt
  <2>2. CASE a \in told
    <3>1. a \in Accepted
          /\ receipts[a.request] = [room |-> a.room, code |-> a.code, uid |-> a.uid]
      BY <2>2 DEF Inv, OnlyCreatorTold, ServerOK
    <3>2. a.request \in Requests /\ receipts[a.request] \in Receipt
      BY <3>1 DEF Accepted, Receipt
    <3> QED
      BY <1>2, <1>3, <1>6, <3>1, <3>2
  <2> QED
    BY <1>2, <2>1, <2>2
<1>10. SecretsOnce'
  BY <1>6, <1>7 DEF Inv, SecretsOnce
<1> QED
  BY <1>5, <1>8, <1>9, <1>10 DEF Inv

LEMMA ReplayKeepsInv ==
    ASSUME Inv, NEW call \in Sent, Replays(call)
    PROVE  Inv'
<1> DEFINE q == call.request
           acceptance == Replay(call)
<1>1. /\ q \in Requests /\ receipts[q] \in Receipt /\ receipts[q].uid = call.uid
  BY DEF Inv, ServerOK, Replays, Sent
<1>2. /\ acceptance \in Accepted /\ ~acceptance.secrets
      /\ acceptance.request = q /\ acceptance.room = receipts[q].room
      /\ acceptance.code = receipts[q].code /\ acceptance.uid = call.uid
  BY <1>1 DEF Replay, Receipt, Accepted, Sent
<1>3. told' = told \cup {acceptance}
      /\ reveals' = [reveals EXCEPT ![acceptance.room] = @ + (IF acceptance.secrets THEN 1 ELSE 0)]
      /\ receipts' = receipts /\ roomCodes' = roomCodes /\ rooms' = rooms
  BY DEF Replays, Tell
<1>4. receipts[q] = [room |-> acceptance.room, code |-> acceptance.code, uid |-> acceptance.uid]
  BY <1>1, <1>2 DEF Receipt
<1> HIDE DEF q, acceptance
<1>5. reveals' = reveals
  BY <1>2, <1>3 DEF Inv, ServerOK, Accepted
<1>6. ServerOK'
  BY <1>2, <1>3, <1>5 DEF Inv, ServerOK
<1>7. RoomsAccounted' /\ SecretsOnce'
  BY <1>3, <1>5 DEF Inv, RoomsAccounted, SecretsOnce, Created
<1>8. OnlyCreatorTold'
  BY <1>2, <1>3, <1>4 DEF Inv, OnlyCreatorTold
<1> QED
  BY <1>6, <1>7, <1>8 DEF Inv

LEMMA ServeKeepsInv ==
    ASSUME Inv, NEW call \in Sent, NEW result, CreateRoom(call, result)
    PROVE  Inv'
<1>1. CASE UNCHANGED serverVars
  BY <1>1 DEF serverVars, Inv, ServerOK, RoomsAccounted, SecretsOnce, OnlyCreatorTold, Created
<1>2. ServerOK
  BY DEF Inv
<1> QED
  BY <1>1, <1>2, Cases, CreationKeepsInv, ReplayKeepsInv

LEMMA InitInv == Init => Inv
BY CreationAssumption DEF Init, Inv, ServerOK, RoomsAccounted, OnlyCreatorTold, SecretsOnce, Created

LEMMA StepInv == Inv /\ TabsOK /\ [Next]_vars => Inv'
<1> SUFFICES ASSUME Inv, TabsOK, [Next]_vars PROVE Inv'
  OBVIOUS
<1>1. ASSUME NEW t \in Tabs, ServeCall(t) PROVE Inv'
  BY <1>1, ServeKeepsInv DEF ServeCall
<1>2. ASSUME NEW call \in strays, ServeStray(call) PROVE Inv'
  BY <1>2, ServeKeepsInv DEF ServeStray, TabsOK
<1>3. CASE UNCHANGED serverVars
  BY <1>3 DEF serverVars, Inv, ServerOK, RoomsAccounted, SecretsOnce, OnlyCreatorTold, Created
<1> QED
  BY <1>1, <1>2, <1>3 DEF Next, vars, OpenForm, Leave, ReceiveReply, LoseReply, Submit,
     DuplicateTab, ReplaceIdentity

-----------------------------------------------------------------------------
\* The tabs.

\* A step that changes one tab's form and call keeps every tab's in order if it
\* keeps that one's.
LEMMA OneTab ==
    ASSUME TabsOK, NEW t \in Tabs, NEW f, NEW call,
           form' = [form EXCEPT ![t] = f], calls' = [calls EXCEPT ![t] = call],
           FormOK(f, call, minted'),
           minted \subseteq minted', minted' \subseteq Requests,
           saved' \in [Tabs -> Requests \cup {None}],
           \A u \in Tabs : saved'[u] # None => saved'[u] \in minted',
           identity' \in [Tabs -> Identities], strays' \subseteq Sent
    PROVE  TabsOK'
<1>1. form' = [u \in Tabs |-> form'[u]] /\ calls' = [u \in Tabs |-> calls'[u]]
  BY DEF TabsOK
<1>2. ASSUME NEW u \in Tabs PROVE FormOK(form'[u], calls'[u], minted')
  <2>1. CASE u = t
    BY <2>1 DEF TabsOK
  <2>2. CASE u # t
    <3>1. form'[u] = form[u] /\ calls'[u] = calls[u]
      BY <2>2 DEF TabsOK
    <3> QED
      BY <3>1 DEF TabsOK, FormOK
  <2> QED
    BY <2>1, <2>2
<1> QED
  BY <1>1, <1>2 DEF TabsOK

LEMMA InitTabs == Init => TabsOK
<1> SUFFICES ASSUME Init PROVE TabsOK
  OBVIOUS
<1>1. FormOK(Closed, None, minted)
  BY DEF FormOK, Closed, Form
<1> QED
  BY <1>1 DEF Init, TabsOK

LEMMA StepTabs == TabsOK /\ [Next]_vars => TabsOK'
<1> SUFFICES ASSUME TabsOK, [Next]_vars PROVE TabsOK'
  OBVIOUS
<1>0. ASSUME NEW t \in Tabs
      PROVE  /\ form[t] \in Form /\ FormOK(form[t], calls[t], minted)
             /\ form = [form EXCEPT ![t] = form[t]] /\ calls = [calls EXCEPT ![t] = calls[t]]
  BY DEF TabsOK, FormOK
<1>1. ASSUME NEW t \in Tabs, OpenForm(t) PROVE TabsOK'
  <2>1. PICK q \in IF saved[t] # None THEN {saved[t]} ELSE Requests \ minted :
           /\ form' = [form EXCEPT ![t] = [Closed EXCEPT !.status = "idle", !.request = q]]
           /\ saved' = [saved EXCEPT ![t] = q]
           /\ minted' = minted \cup {q}
    BY <1>1 DEF OpenForm
  <2>2. q \in Requests /\ calls[t] = None /\ calls' = calls /\ strays' = strays
        /\ identity' = identity
    BY <1>0, <1>1, <2>1 DEF TabsOK, OpenForm, FormOK
  <2>3. FormOK([Closed EXCEPT !.status = "idle", !.request = q], None, minted')
    BY <2>1, <2>2 DEF FormOK, Closed, Form
  <2>4. calls' = [calls EXCEPT ![t] = None]
    BY <1>0, <2>2
  <2>5. saved' \in [Tabs -> Requests \cup {None}] /\ minted' \subseteq Requests
        /\ \A u \in Tabs : saved'[u] # None => saved'[u] \in minted'
    BY <2>1, <2>2 DEF TabsOK
  <2>6. identity' \in [Tabs -> Identities] /\ strays' \subseteq Sent /\ minted \subseteq minted'
    BY <2>1, <2>2 DEF TabsOK
  <2> QED
    BY <2>1, <2>3, <2>4, <2>5, <2>6, OneTab
<1>2. ASSUME NEW t \in Tabs, NEW p \in Passphrases, Submit(t, p) PROVE TabsOK'
  <2> DEFINE f == [form[t] EXCEPT !.status = "pending", !.passphrase = p]
             call == [uid |-> identity[t], request |-> form[t].request, passphrase |-> p]
  <2>1. form[t].request \in minted /\ form[t].status # "closed"
    BY <1>0, <1>2 DEF Submit, FormOK
  <2>2. f \in Form /\ f.status = "pending" /\ f.request = form[t].request
    BY <1>0 DEF Form
  <2>3. call \in Sent
    BY <2>1 DEF Sent, TabsOK
  <2>4. form' = [form EXCEPT ![t] = f] /\ calls' = [calls EXCEPT ![t] = call]
        /\ UNCHANGED <<identity, saved, strays, minted>>
    BY <1>2 DEF Submit
  <2> HIDE DEF f, call
  <2>5. FormOK(f, call, minted')
    BY <2>1, <2>2, <2>3, <2>4, NoCreationAssumption DEF FormOK
  <2> QED
    BY <2>4, <2>5, OneTab DEF TabsOK
<1>3. ASSUME NEW t \in Tabs, ServeCall(t) PROVE TabsOK'
  <2>1. PICK result \in Accepted \cup {Rejected} : calls' = [calls EXCEPT ![t] = result]
    BY <1>3 DEF ServeCall
  <2>2. form' = [form EXCEPT ![t] = form[t]] /\ UNCHANGED <<identity, saved, strays, minted>>
    BY <1>0, <1>3 DEF ServeCall
  <2>3. calls[t] # None /\ result # None
    BY <1>3, <2>1, NoCreationAssumption DEF ServeCall
  <2>4. FormOK(form[t], result, minted')
    BY <1>0, <2>1, <2>2, <2>3 DEF FormOK
  <2> QED
    BY <2>1, <2>2, <2>4, OneTab DEF TabsOK
<1>4. ASSUME NEW t \in Tabs, ReceiveReply(t) PROVE TabsOK'
  <2>1. calls[t] # None /\ form[t].request \in minted
        /\ calls' = [calls EXCEPT ![t] = None] /\ UNCHANGED <<identity, strays, minted>>
    BY <1>0, <1>4, NoCreationAssumption DEF ReceiveReply, FormOK
  <2>2. CASE calls[t] = Rejected
    <3>1. form' = [form EXCEPT ![t] = [form[t] EXCEPT !.status = "rejected"]] /\ saved' = saved
      BY <1>4, <2>2 DEF ReceiveReply
    <3>2. FormOK([form[t] EXCEPT !.status = "rejected"], None, minted')
      BY <1>0, <2>1 DEF FormOK, Form
    <3> QED
      BY <2>1, <3>1, <3>2, OneTab DEF TabsOK
  <2>3. CASE calls[t] # Rejected
    <3>1. form' = [form EXCEPT ![t] = [form[t] EXCEPT !.status = "accepted",
                                                      !.room = calls[t].room]]
          /\ saved' = [saved EXCEPT ![t] = None]
      BY <1>4, <2>3 DEF ReceiveReply
    <3>2. calls[t].room \in Rooms
      BY <1>4, <2>3 DEF ReceiveReply, Accepted
    <3>3. FormOK([form[t] EXCEPT !.status = "accepted", !.room = calls[t].room], None, minted')
      BY <1>0, <2>1, <3>2 DEF FormOK, Form
    <3> QED
      BY <2>1, <3>1, <3>3, OneTab DEF TabsOK
  <2> QED
    BY <2>2, <2>3
<1>5. ASSUME NEW t \in Tabs, LoseReply(t) PROVE TabsOK'
  <2>1. form[t].request \in minted /\ calls' = [calls EXCEPT ![t] = None]
        /\ form' = [form EXCEPT ![t] = [form[t] EXCEPT !.status = "rejected"]]
        /\ UNCHANGED <<identity, saved, minted>>
    BY <1>0, <1>5 DEF LoseReply, FormOK
  <2>2. FormOK([form[t] EXCEPT !.status = "rejected"], None, minted')
    BY <1>0, <2>1 DEF FormOK, Form
  <2>3. strays' \subseteq Sent
    BY <1>5 DEF LoseReply, TabsOK
  <2> QED
    BY <2>1, <2>2, <2>3, OneTab DEF TabsOK
<1>6. ASSUME NEW t \in Tabs, Leave(t) PROVE TabsOK'
  <2>1. FormOK(Closed, None, minted')
    BY DEF FormOK, Closed, Form
  <2>2. strays' \subseteq Sent
    BY <1>6 DEF Leave, TabsOK
  <2> QED
    BY <1>6, <2>1, <2>2, OneTab DEF TabsOK, Leave
<1>7. ASSUME NEW t \in Tabs, NEW u \in Tabs, DuplicateTab(t, u) PROVE TabsOK'
  BY <1>7 DEF DuplicateTab, TabsOK
<1>8. ASSUME NEW i \in Identities, NEW j \in Identities, ReplaceIdentity(i, j) PROVE TabsOK'
  BY <1>8 DEF ReplaceIdentity, TabsOK
<1>9. CASE UNCHANGED tabVars
  BY <1>9 DEF tabVars, TabsOK
<1>10. ASSUME NEW call \in strays, ServeStray(call) PROVE TabsOK'
  BY <1>10 DEF ServeStray, TabsOK
<1> QED
  BY <1>1, <1>2, <1>3, <1>4, <1>5, <1>6, <1>7, <1>8, <1>9, <1>10 DEF Next, vars

-----------------------------------------------------------------------------
\* The theorems.

LEMMA Invariant == Spec => [](Inv /\ TabsOK)
<1>1. Init => Inv /\ TabsOK
  BY InitInv, InitTabs
<1>2. Inv /\ TabsOK /\ [Next]_vars => (Inv /\ TabsOK)'
  BY StepInv, StepTabs
<1> QED
  BY <1>1, <1>2, PTL DEF Spec

\* Every variable keeps its type, and a form waits exactly while its call is
\* under way.
THEOREM TypeCorrect == Spec => []TypeOK
<1>1. ServerOK /\ TabsOK => TypeOK
  BY DEF ServerOK, TabsOK, TypeOK, FormOK
<1>2. Inv => ServerOK
  BY DEF Inv
<1> QED
  BY <1>1, <1>2, Invariant, PTL

\* However creations are retried, duplicated or collide, every room is reached by
\* its code and belongs to one request of its GM.
THEOREM EveryRoomAccounted == Spec => []RoomsAccounted
<1>1. Inv => RoomsAccounted
  BY DEF Inv
<1> QED
  BY <1>1, Invariant, PTL

\* A room's recovery and table codes are returned once, when it is created.
THEOREM SecretsShownOnce == Spec => []SecretsOnce
<1>1. Inv => SecretsOnce
  BY DEF Inv
<1> QED
  BY <1>1, Invariant, PTL

\* A request's acceptances all name its one room and its one creator.
THEOREM CreatorAlone == Spec => []OnlyCreatorTold
<1>1. Inv => OnlyCreatorTold
  BY DEF Inv
<1> QED
  BY <1>1, Invariant, PTL
=============================================================================
