------------------------- MODULE RoomAuthorityProofs -------------------------
(***************************************************************************)
(* Theorems about RoomAuthority, for every number of identities, seats,    *)
(* codes and commands: the bindings and the event log first, then the      *)
(* seats, who is counted, who is the GM, who can come back, and what a     *)
(* recovery code is good for.                                              *)
(***************************************************************************)
EXTENDS RoomAuthority, FiniteSetTheorems, TLAPS

\* Setting the counters of a well-formed authority document keeps it so: the
\* updates of admission, of a GM claim and of an accepted command.
LEMMA CountedAuthority ==
    ASSUME NEW a \in Authority
    PROVE  /\ [a EXCEPT !.tableSeatClaimed = TRUE] \in Authority
           /\ [a EXCEPT !.participantCount = @ + 1] \in Authority
           /\ \A m \in Members :
                 [a EXCEPT !.participantCount = @ + 1, !.gmMemberId = m] \in Authority
<1>1. [a EXCEPT !.tableSeatClaimed = TRUE] \in Authority
  BY DEF Authority
<1>2. [a EXCEPT !.participantCount = @ + 1] \in Authority
  BY DEF Authority
<1>3. ASSUME NEW m \in Members, NEW b \in Authority
      PROVE  [b EXCEPT !.gmMemberId = m] \in Authority
  BY DEF Authority
<1> QED
  BY <1>1, <1>2, <1>3

LEMMA CommittedAuthority ==
    ASSUME authority \in Authority, NEW m \in Members, NEW c \in CommandIds,
           NEW batch, Len(batch) \in Nat
    PROVE  Committed(m, c, batch) \in Authority
<1> DEFINE revised == [authority EXCEPT !.roomRevision = @ + 1]
           numbered == [revised EXCEPT !.nextSequence = @ + Len(batch)]
<1>1. revised \in Authority
  BY DEF Authority
<1>2. ASSUME NEW b \in Authority
      PROVE  [b EXCEPT !.nextSequence = @ + Len(batch)] \in Authority
  <2>1. b.nextSequence + Len(batch) \in Nat \ {0}
    BY DEF Authority
  <2>2. ASSUME NEW k \in Nat \ {0}
        PROVE  [b EXCEPT !.nextSequence = k] \in Authority
    BY DEF Authority
  <2> QED
    BY <2>1, <2>2
<1>3. ASSUME NEW b \in Authority
      PROVE  [b EXCEPT !.state = Append(@, <<m, c>>)] \in Authority
  <2>1. Append(b.state, <<m, c>>) \in Seq(Entries)
    BY DEF Authority, Entries
  <2> QED
    BY <2>1 DEF Authority
<1> QED
  BY <1>1, <1>2, <1>3 DEF Committed

\* A command decided for the first time: its receipt is written where there was
\* none, and the answer made from it is returned.
Recorded(m, c, stored) ==
    /\ receipts[m][c] = None
    /\ stored \in Receipt
    /\ receipts' = [receipts EXCEPT ![m][c] = stored]
    /\ answers' = answers \cup {AnswerFrom(m, c, stored)}

\* A refusal leaves a rejected receipt and nothing else.
RecordedRefusal(m, c, stored) ==
    /\ Recorded(m, c, stored)
    /\ stored.status = "rejected"
    /\ UNCHANGED <<authority, seatVars, events, projections>>

\* An acceptance leaves an accepted receipt of the revision it makes.
RecordedAcceptance(m, c, stored) ==
    /\ Recorded(m, c, stored)
    /\ stored.status = "accepted"
    /\ stored.roomRevision = authority.roomRevision + 1
    /\ authority'.roomRevision = authority.roomRevision + 1
    /\ authority'.state = Append(authority.state, <<m, c>>)

LEMMA AnswerFromReceipt ==
    ASSUME NEW m \in Members, NEW c \in CommandIds, NEW receipt \in Receipt
    PROVE  AnswerFrom(m, c, receipt) \in Answer
BY DEF AnswerFrom, Answer, Receipt, Entries

\* Every verdict is a sequence of non-empty destination sets.
LEMMA VerdictShape ==
    ASSUME NEW c \in CommandIds, NEW batch \in Verdicts(c) \ {<<>>}
    PROVE  batch \in Seq(SUBSET Destinations) /\ Len(batch) \in Nat
<1>1. CASE Kind[c] = "pause"
  <2>1. {"shared"} \in SUBSET Destinations
    BY DEF Destinations
  <2>2. batch = <<{"shared"}>>
    BY <1>1 DEF Verdicts
  <2> QED
    BY <2>1, <2>2
<1>2. CASE Kind[c] # "pause"
  BY <1>2, ConstantsAssumption DEF Verdicts
<1> QED
  BY <1>1, <1>2

LEMMA RejectRecords ==
    ASSUME TypeOK, NEW m \in Members, NEW capability \in Capabilities, NEW c \in CommandIds,
           NEW expected \in KnownRevisions, RejectCommand(m, capability, c, expected)
    PROVE  \E stored \in Receipt : RecordedRefusal(m, c, stored)
<1> DEFINE failed == PlatformRejection(capability, c, expected)
           stored == [status |-> "rejected",
                      code |-> IF failed = "none" THEN "DECLINED" ELSE failed,
                      roomRevision |-> authority.roomRevision,
                      acceptedSequence |-> 0]
<1>1. failed \in ResultCodes
  BY DEF PlatformRejection, ResultCodes
<1>2. stored \in Receipt
  <2> HIDE DEF failed
  <2>1. (IF failed = "none" THEN "DECLINED" ELSE failed) \in ResultCodes
    BY <1>1 DEF ResultCodes
  <2> QED
    BY <2>1 DEF Receipt, TypeOK, Authority
<1>3. receipts' = [receipts EXCEPT ![m][c] = stored]
      /\ answers' = answers \cup {AnswerFrom(m, c, stored)}
  BY DEF RejectCommand
<1>4. receipts[m][c] = None /\ UNCHANGED <<authority, seatVars, events, projections>>
  BY DEF RejectCommand, Answered
<1>5. stored.status = "rejected"
  OBVIOUS
<1> HIDE DEF stored
<1> QED
  BY <1>2, <1>3, <1>4, <1>5 DEF RecordedRefusal, Recorded

LEMMA AcceptRecords ==
    ASSUME TypeOK, NEW m \in Members, NEW capability \in Capabilities, NEW c \in CommandIds,
           NEW expected \in KnownRevisions, AcceptCommand(m, capability, c, expected)
    PROVE  /\ authority' \in Authority
           /\ \E stored \in Receipt : RecordedAcceptance(m, c, stored)
<1>1. PICK batch \in Verdicts(c) \ {<<>>} :
        LET next == Committed(m, c, batch)
            stored == [status |-> "accepted", code |-> "none",
                       roomRevision |-> next.roomRevision,
                       acceptedSequence |-> authority.nextSequence]
        IN /\ authority' = next
           /\ receipts' = [receipts EXCEPT ![m][c] = stored]
           /\ answers' = answers \cup {AnswerFrom(m, c, stored)}
  BY DEF AcceptCommand
<1> DEFINE stored == [status |-> "accepted", code |-> "none",
                      roomRevision |-> authority'.roomRevision,
                      acceptedSequence |-> authority.nextSequence]
<1>2. authority' \in Authority
  BY <1>1, VerdictShape, CommittedAuthority DEF TypeOK
<1>3. /\ authority'.roomRevision = authority.roomRevision + 1
      /\ authority'.state = Append(authority.state, <<m, c>>)
  BY <1>1 DEF Committed, TypeOK, Authority
<1>4. stored \in Receipt
  BY <1>2 DEF Receipt, ResultCodes, TypeOK, Authority
<1>5. /\ receipts' = [receipts EXCEPT ![m][c] = stored]
      /\ answers' = answers \cup {AnswerFrom(m, c, stored)}
  BY <1>1
<1>6. receipts[m][c] = None
  BY DEF AcceptCommand, Answered
<1>7. stored.status = "accepted" /\ stored.roomRevision = authority'.roomRevision
  OBVIOUS
<1> HIDE DEF stored
<1> QED
  BY <1>2, <1>3, <1>4, <1>5, <1>6, <1>7 DEF RecordedAcceptance, Recorded

\* The initial documents are well formed, in a provisioned room and in one
\* whose GM seat is unclaimed.
LEMMA InitTypeOK == Init => TypeOK
<1> SUFFICES ASSUME Init PROVE TypeOK
  OBVIOUS
<1>1. /\ audit \in [Members -> Nat]
      /\ receipts \in [Members -> [CommandIds -> Receipt \cup {None}]]
      /\ events \subseteq EventCopy
      /\ answers \subseteq Answer
  BY DEF Init
<1>2. ASSUME NEW gm \in Members \cup {None}
      PROVE  FreshAuthority(gm) \in Authority
  BY DEF FreshAuthority, Authority
<1>3. ASSUME NEW u \in Uids, NEW m \in Members, NEW code \in Codes,
             ProvisionedRoom(u, m, code)
      PROVE  TypeOK
  <2>1. authority \in Authority /\ metaGm \in Members \cup {None}
    BY <1>2, <1>3 DEF ProvisionedRoom
  <2>2. bindings \in [Members -> Seat \cup {None}]
    BY <1>3 DEF ProvisionedRoom, Seat, Capabilities
  <2>3. uidBindings \in [Uids -> SeatIndex \cup {None}]
    BY <1>3 DEF ProvisionedRoom, SeatIndex, Capabilities
  <2>4. recovery \in [Members -> Codes \cup {None}] /\ issued \subseteq Codes
    BY <1>3 DEF ProvisionedRoom
  <2>5. [roomRevision |-> 0, view |-> <<>>] \in Projection
    BY DEF Projection
  <2>6. projections \in [Viewers -> Projection \cup {None}]
    BY <1>3, <2>5 DEF ProvisionedRoom
  <2> QED
    BY <1>1, <2>1, <2>2, <2>3, <2>4, <2>6 DEF TypeOK
<1>4. ASSUME UnclaimedRoom PROVE TypeOK
  BY <1>1, <1>2, <1>4 DEF UnclaimedRoom, TypeOK
<1> QED
  BY <1>3, <1>4 DEF Init

\* Every transaction keeps every document in shape.
LEMMA NextTypeOK == TypeOK /\ [Next]_vars => TypeOK'
<1> SUFFICES ASSUME TypeOK, [Next]_vars PROVE TypeOK'
  OBVIOUS
<1> USE ConstantsAssumption
<1>1. ASSUME NEW u \in Uids, NEW m \in Members, NEW capability \in Capabilities,
             NEW code \in Codes, CreateSeat(u, m, capability, code)
      PROVE  /\ bindings' \in [Members -> Seat \cup {None}]
             /\ uidBindings' \in [Uids -> SeatIndex \cup {None}]
             /\ recovery' \in [Members -> Codes \cup {None}]
             /\ projections' \in [Viewers -> Projection \cup {None}]
             /\ issued' \subseteq Codes
  <2>1. [uid |-> u, capability |-> capability] \in Seat
    BY DEF Seat
  <2>2. [memberId |-> m, capability |-> capability] \in SeatIndex
    BY DEF SeatIndex
  <2>3. [roomRevision |-> authority.roomRevision, view |-> authority.state] \in Projection
    BY DEF TypeOK, Authority, Projection
  <2> QED
    BY <1>1, <2>1, <2>2, <2>3 DEF CreateSeat, SeatDocuments, TypeOK
<1>2. ASSUME NEW u \in Uids, NEW capability \in {"player", "table"}, NEW valid \in BOOLEAN,
             AdmitMember(u, capability, valid)
      PROVE  TypeOK'
  <2>1. PICK m \in Members, code \in Codes : CreateSeat(u, m, capability, code)
    BY <1>2 DEF AdmitMember, Seated
  <2>2. authority' \in Authority
    BY <1>2, CountedAuthority DEF AdmitMember, TypeOK
  <2> QED
    BY <1>1, <1>2, <2>1, <2>2 DEF AdmitMember, TypeOK, Capabilities, commandVars
<1>3. ASSUME NEW u \in Uids, NEW valid \in BOOLEAN, ClaimSeat(u, valid)
      PROVE  TypeOK'
  <2>1. PICK m \in Members, code \in Codes :
          /\ CreateSeat(u, m, "gm", code)
          /\ authority' = [authority EXCEPT !.participantCount = @ + 1, !.gmMemberId = m]
          /\ metaGm' = m
    BY <1>3 DEF ClaimSeat, Seated
  <2>2. authority' \in Authority
    BY <2>1, CountedAuthority DEF TypeOK
  <2> QED
    BY <1>1, <1>3, <2>1, <2>2 DEF ClaimSeat, TypeOK, Capabilities, commandVars
<1>4. ASSUME NEW u \in Uids, NEW code \in issued, RecoverSeat(u, code)
      PROVE  TypeOK'
  <2>1. PICK m \in RecoverableSeats(code), fresh \in Codes \ issued :
          /\ RebindIndex(u, m)
          /\ bindings' = [bindings EXCEPT ![m].uid = u]
          /\ RotateCode(m, fresh)
          /\ audit' = [audit EXCEPT ![m] = @ + 1]
          /\ UNCHANGED <<authority, metaGm, commandVars, projections>>
    BY <1>4 DEF RecoverSeat
  <2>2. m \in Members /\ bindings[m] \in Seat
    BY <2>1 DEF RecoverableSeats, Seated, TypeOK
  <2>3. bindings' \in [Members -> Seat \cup {None}]
    BY <2>1, <2>2 DEF TypeOK, Seat
  <2>4. [memberId |-> m, capability |-> bindings[m].capability] \in SeatIndex
    BY <2>2 DEF Seat, SeatIndex
  <2>5. uidBindings' \in [Uids -> SeatIndex \cup {None}]
    BY <2>1, <2>4 DEF RebindIndex, TypeOK
  <2>6. recovery' \in [Members -> Codes \cup {None}] /\ issued' \subseteq Codes
    BY <2>1, <2>2 DEF RotateCode, TypeOK
  <2>7. audit' \in [Members -> Nat]
    BY <2>1, <2>2 DEF TypeOK
  <2> QED
    BY <2>1, <2>3, <2>5, <2>6, <2>7 DEF TypeOK, commandVars
<1>5. ASSUME NEW u \in Uids, NEW c \in CommandIds, NEW expected \in KnownRevisions,
             SubmitRoomCommand(u, c, expected)
      PROVE  TypeOK'
  <2> DEFINE m == uidBindings[u].memberId
             capability == uidBindings[u].capability
  <2>1. m \in Members
    BY <1>5 DEF SubmitRoomCommand, TypeOK, SeatIndex
  <2>2. capability \in Capabilities
    BY <1>5 DEF SubmitRoomCommand, TypeOK, SeatIndex
  <2>3. ASSUME NEW stored \in Receipt, Recorded(m, c, stored)
        PROVE  /\ receipts' \in [Members -> [CommandIds -> Receipt \cup {None}]]
               /\ answers' \subseteq Answer
    BY <2>1, <2>3, AnswerFromReceipt DEF Recorded, TypeOK
  <2>4. CASE ReplayCommand(m, c)
    <3>1. receipts[m][c] \in Receipt
      BY <2>1, <2>4 DEF ReplayCommand, Answered, TypeOK
    <3> QED
      BY <2>1, <2>4, <3>1, AnswerFromReceipt DEF ReplayCommand, TypeOK, seatVars
  <2>5. CASE RejectCommand(m, capability, c, expected)
    <3>1. PICK stored \in Receipt : RecordedRefusal(m, c, stored)
      BY <2>1, <2>2, <2>5, RejectRecords
    <3> QED
      BY <2>3, <3>1 DEF RecordedRefusal, TypeOK, seatVars
  <2>6. CASE AcceptCommand(m, capability, c, expected)
    <3>1. authority' \in Authority
      BY <2>1, <2>2, <2>6, AcceptRecords
    <3>2. PICK stored \in Receipt : RecordedAcceptance(m, c, stored)
      BY <2>1, <2>2, <2>6, AcceptRecords
    <3>3. PICK batch \in Verdicts(c) \ {<<>>} :
            events' = {e \in events : \A n \in Envelopes(m, c, batch) : ~SamePath(e, n)}
                        \cup Envelopes(m, c, batch)
      BY <2>6 DEF AcceptCommand
    <3>4. batch \in Seq(SUBSET Destinations) /\ Len(batch) \in Nat
      BY VerdictShape
    <3>5. Envelopes(m, c, batch) \subseteq EventCopy
      BY <2>1, <3>4 DEF Envelopes, EventCopy, Entries, Partitions, PartitionOf, EventActor,
                        TypeOK, Authority, Destinations
    <3>6. events' \subseteq EventCopy
      BY <3>3, <3>5 DEF TypeOK
    <3>7. [roomRevision |-> authority'.roomRevision, view |-> authority'.state] \in Projection
      BY <3>1 DEF Projection, Authority
    <3>8. RefreshProjections(authority')
      BY <2>6 DEF AcceptCommand
    <3>9. projections' \in [Viewers -> Projection \cup {None}]
      BY <3>7, <3>8 DEF RefreshProjections, TypeOK
    <3> QED
      BY <2>3, <2>6, <3>1, <3>2, <3>6, <3>9 DEF AcceptCommand, RecordedAcceptance, TypeOK,
                                                seatVars
  <2> HIDE DEF m, capability
  <2> QED
    BY <1>5, <2>4, <2>5, <2>6 DEF SubmitRoomCommand, m, capability
<1>6. ASSUME ArchiveRoom PROVE TypeOK'
  BY <1>6 DEF ArchiveRoom, TypeOK, Authority, seatVars, commandVars
<1>7. ASSUME NEW status \in {"open", "closed"}, SetAdmission(status) PROVE TypeOK'
  BY <1>7 DEF SetAdmission, TypeOK, Authority, seatVars, commandVars
<1>8. CASE UNCHANGED vars
  BY <1>8 DEF vars, seatVars, commandVars, TypeOK
<1> QED
  BY <1>2, <1>3, <1>4, <1>5, <1>6, <1>7, <1>8 DEF Next

\* TypeOK holds of every room: no interleaving of joins, recoveries, commands
\* and lifecycle writes leaves a malformed document behind.
THEOREM TypeCorrect == Spec => []TypeOK
<1>1. Init => TypeOK
  BY InitTypeOK
<1>2. TypeOK /\ [Next]_vars => TypeOK'
  BY NextTypeOK
<1> QED
  BY <1>1, <1>2, PTL DEF Spec

-----------------------------------------------------------------------------
\* What each kind of transaction does, as far as the invariants below care.

\* A join, by admitMember or claimSeat, seats an identity that held no seat on
\* a member that did not exist, and moves neither the revision nor the state.
Joined(u, m, capability, code) ==
    /\ uidBindings[u] = None
    /\ bindings[m] = None
    /\ CreateSeat(u, m, capability, code)
    /\ authority'.roomRevision = authority.roomRevision
    /\ authority'.state = authority.state
    /\ UNCHANGED commandVars

LEMMA AdmitJoins ==
    ASSUME TypeOK, NEW u \in Uids, NEW capability \in {"player", "table"},
           NEW valid \in BOOLEAN, AdmitMember(u, capability, valid)
    PROVE  \E m \in Members, code \in Codes : Joined(u, m, capability, code)
<1>1. PICK m \in Members \ Seated, code \in Codes \ issued :
        CreateSeat(u, m, capability, code)
  BY DEF AdmitMember
<1>2. uidBindings[u] = None
  BY DEF AdmitMember, DecideAdmitMember
<1>3. authority'.roomRevision = authority.roomRevision /\ authority'.state = authority.state
  BY DEF AdmitMember, TypeOK, Authority
<1> QED
  BY <1>1, <1>2, <1>3 DEF Joined, AdmitMember, Seated

LEMMA ClaimJoins ==
    ASSUME TypeOK, NEW u \in Uids, NEW valid \in BOOLEAN, ClaimSeat(u, valid)
    PROVE  \E m \in Members, code \in Codes : Joined(u, m, "gm", code)
<1>1. PICK m \in Members \ Seated, code \in Codes \ issued :
        /\ CreateSeat(u, m, "gm", code)
        /\ authority' = [authority EXCEPT !.participantCount = @ + 1, !.gmMemberId = m]
  BY DEF ClaimSeat
<1>2. uidBindings[u] = None
  BY DEF ClaimSeat, DecideClaimSeat
<1>3. authority'.roomRevision = authority.roomRevision /\ authority'.state = authority.state
  BY <1>1 DEF TypeOK, Authority
<1> QED
  BY <1>1, <1>2, <1>3 DEF Joined, ClaimSeat, Seated

\* A recovery moves one seat from its holder to the caller.
Rebound(u, m) ==
    /\ bindings[m] \in Seat
    /\ RebindIndex(u, m)
    /\ bindings' = [bindings EXCEPT ![m].uid = u]
    /\ UNCHANGED <<authority, commandVars, projections>>

LEMMA RecoverRebinds ==
    ASSUME TypeOK, NEW u \in Uids, NEW code \in issued, RecoverSeat(u, code)
    PROVE  \E m \in Members : Rebound(u, m)
BY DEF RecoverSeat, RecoverableSeats, Seated, TypeOK, Rebound

\* A command is replayed, refused or applied for the seat its caller holds.
LEMMA CommandCases ==
    ASSUME TypeOK, NEW u \in Uids, NEW c \in CommandIds, NEW expected \in KnownRevisions,
           SubmitRoomCommand(u, c, expected)
    PROVE  \E m \in Members, capability \in Capabilities :
              \/ ReplayCommand(m, c)
              \/ RejectCommand(m, capability, c, expected)
              \/ AcceptCommand(m, capability, c, expected)
<1>1. uidBindings[u] \in SeatIndex
  BY DEF SubmitRoomCommand, TypeOK
<1> QED
  BY <1>1 DEF SubmitRoomCommand, SeatIndex

\* Every step is a join, a recovery, a command, or leaves the seats, receipts,
\* events, answers and projections and the room's revision and state alone.
LEMMA StepCases ==
    ASSUME TypeOK, [Next]_vars
    PROVE  \/ \E u \in Uids, m \in Members, capability \in Capabilities, code \in Codes :
                 Joined(u, m, capability, code)
           \/ \E u \in Uids, m \in Members : Rebound(u, m)
           \/ \E m \in Members, capability \in Capabilities, c \in CommandIds,
                 expected \in KnownRevisions :
                 \/ ReplayCommand(m, c)
                 \/ RejectCommand(m, capability, c, expected)
                 \/ AcceptCommand(m, capability, c, expected)
           \/ /\ UNCHANGED <<bindings, uidBindings, commandVars, projections>>
              /\ authority'.roomRevision = authority.roomRevision
              /\ authority'.state = authority.state
<1>1. ASSUME ArchiveRoom \/ \E status \in {"open", "closed"} : SetAdmission(status)
      PROVE  /\ UNCHANGED <<bindings, uidBindings, commandVars, projections>>
             /\ authority'.roomRevision = authority.roomRevision
             /\ authority'.state = authority.state
  BY <1>1 DEF ArchiveRoom, SetAdmission, seatVars, TypeOK, Authority
<1>2. CASE UNCHANGED vars
  BY <1>2 DEF vars, seatVars
<1>3. CASE \E u \in Uids, capability \in {"player", "table"}, valid \in BOOLEAN :
              AdmitMember(u, capability, valid)
  BY <1>3, AdmitJoins DEF Capabilities
<1>4. CASE \E u \in Uids, valid \in BOOLEAN : ClaimSeat(u, valid)
  BY <1>4, ClaimJoins DEF Capabilities
<1>5. CASE \E u \in Uids, code \in issued : RecoverSeat(u, code)
  BY <1>5, RecoverRebinds
<1>6. CASE \E u \in Uids, c \in CommandIds, expected \in KnownRevisions :
              SubmitRoomCommand(u, c, expected)
  BY <1>6, CommandCases
<1> QED
  BY <1>1, <1>2, <1>3, <1>4, <1>5, <1>6 DEF Next

-----------------------------------------------------------------------------
\* Authorization: who may act as a member.

\* A provisioned room's only entry names its GM seat.
LEMMA InitIndexSound == Init => IndexSound
<1>1. ASSUME NEW u \in Uids, NEW m \in Members, NEW code \in Codes,
             ProvisionedRoom(u, m, code)
      PROVE  IndexSound
  <2>1. bindings[m] = [uid |-> u, capability |-> "gm"] /\ bindings[m] # None
    BY <1>1, NoneAssumption DEF ProvisionedRoom, Seat, Capabilities
  <2>2. ASSUME NEW v \in Uids, uidBindings[v] # None
        PROVE  v = u /\ uidBindings[v] = [memberId |-> m, capability |-> "gm"]
    BY <1>1, <2>2 DEF ProvisionedRoom
  <2> QED
    BY <2>1, <2>2 DEF IndexSound
<1>2. ASSUME UnclaimedRoom PROVE IndexSound
  BY <1>2 DEF UnclaimedRoom, IndexSound
<1> QED
  BY <1>1, <1>2 DEF Init

\* Joining, recovering, submitting and lifecycle writes keep every live index
\* entry pointing at a seat bound to its identity.
LEMMA NextIndexSound == TypeOK /\ IndexSound /\ [Next]_vars => IndexSound'
<1> SUFFICES ASSUME TypeOK, IndexSound, [Next]_vars,
                    NEW v \in Uids, uidBindings'[v] # None
             PROVE  LET n == uidBindings'[v].memberId
                    IN /\ bindings'[n] # None
                       /\ bindings'[n].uid = v
                       /\ bindings'[n].capability = uidBindings'[v].capability
  BY DEF IndexSound
<1> DEFINE Sound == LET n == uidBindings'[v].memberId
                     IN /\ bindings'[n] # None
                        /\ bindings'[n].uid = v
                        /\ bindings'[n].capability = uidBindings'[v].capability
<1>1. ASSUME NEW u \in Uids, NEW m \in Members, NEW capability \in Capabilities,
             NEW code \in Codes, Joined(u, m, capability, code)
      PROVE  Sound
  <2>1. /\ bindings' = [bindings EXCEPT ![m] = [uid |-> u, capability |-> capability]]
        /\ uidBindings' = [uidBindings EXCEPT ![u] = [memberId |-> m, capability |-> capability]]
        /\ bindings[m] = None
    BY <1>1 DEF Joined, CreateSeat, SeatDocuments
  <2>2. [uid |-> u, capability |-> capability] # None
    BY NoneAssumption DEF Seat
  <2>3. CASE v = u
    BY <2>1, <2>2, <2>3 DEF TypeOK
  <2>4. CASE v # u
    <3>1. uidBindings'[v] = uidBindings[v] /\ uidBindings[v] \in SeatIndex
      BY <2>1, <2>4 DEF TypeOK
    <3>2. uidBindings[v].memberId \in Members \ {m}
      BY <2>1, <3>1 DEF IndexSound, SeatIndex
    <3> QED
      BY <2>1, <3>1, <3>2 DEF IndexSound, TypeOK
  <2> QED
    BY <2>3, <2>4
<1>2. ASSUME NEW u \in Uids, NEW m \in Members, Rebound(u, m)
      PROVE  Sound
  <2>1. /\ bindings' \in [Members -> Seat \cup {None}]
        /\ bindings'[m].uid = u
        /\ bindings'[m].capability = bindings[m].capability
        /\ bindings'[m] \in Seat
        /\ \A x \in Members \ {m} : bindings'[x] = bindings[x]
    BY <1>2 DEF Rebound, TypeOK, Seat
  <2>2. bindings'[m] # None
    BY <2>1, NoneAssumption
  <2>3. CASE v = u
    BY <1>2, <2>1, <2>2, <2>3 DEF Rebound, RebindIndex
  <2>4. CASE v # u
    <3>1. v # bindings[m].uid /\ uidBindings'[v] = uidBindings[v]
      BY <1>2, <2>4 DEF Rebound, RebindIndex
    <3>2. uidBindings[v].memberId \in Members
      BY <3>1 DEF TypeOK, SeatIndex
    <3>3. uidBindings[v].memberId # m
      BY <3>1 DEF IndexSound
    <3> QED
      BY <2>1, <3>1, <3>2, <3>3 DEF IndexSound
  <2> QED
    BY <2>3, <2>4
<1>3. ASSUME UNCHANGED <<bindings, uidBindings>>
      PROVE  Sound
  BY <1>3 DEF IndexSound
<1>4. ASSUME NEW m \in Members, NEW capability \in Capabilities, NEW c \in CommandIds,
             NEW expected \in KnownRevisions,
             \/ ReplayCommand(m, c)
             \/ RejectCommand(m, capability, c, expected)
             \/ AcceptCommand(m, capability, c, expected)
      PROVE  UNCHANGED <<bindings, uidBindings>>
  BY <1>4 DEF ReplayCommand, RejectCommand, AcceptCommand, seatVars
<1> HIDE DEF Sound
<1>5. Sound
  BY <1>1, <1>2, <1>3, <1>4, StepCases
<1> QED
  BY <1>5 DEF Sound

\* The index entry that authorizes a caller always names a seat bound to that
\* caller: submitRoomCommand and the read rules, which trust it alone, act for
\* the right member.
THEOREM AuthorizationSound == Spec => []IndexSound
<1>1. Init => TypeOK /\ IndexSound
  BY InitTypeOK, InitIndexSound
<1>2. TypeOK /\ IndexSound /\ [Next]_vars => (TypeOK /\ IndexSound)'
  BY NextTypeOK, NextIndexSound
<1> QED
  BY <1>1, <1>2, PTL DEF Spec

\* After a recovery the identity that lost the seat can no longer act for it.
THEOREM RecoveryRevokes == Spec => []OneIdentityPerSeat
<1>1. IndexSound => OneIdentityPerSeat
  BY DEF IndexSound, OneIdentityPerSeat
<1> QED
  BY <1>1, AuthorizationSound, PTL

-----------------------------------------------------------------------------
\* Projections.

\* Read viewer by viewer: a viewer has a projection exactly when a seat shows
\* it, and then the current one.
Shown(v) == \E m \in Seated : ViewerId(m, bindings[m].capability) = v
Current == [roomRevision |-> authority.roomRevision, view |-> authority.state]
ViewersCurrent ==
    \A v \in Viewers : /\ Shown(v) => projections[v] = Current
                       /\ projections[v] # None => Shown(v)

LEMMA ViewersCurrentEnough == TypeOK => (ProjectionsCurrent <=> ViewersCurrent)
<1>1. ASSUME TypeOK, NEW m \in Seated
      PROVE  ViewerId(m, bindings[m].capability) \in Viewers
  <2>1. m \in Members /\ bindings[m] \in Seat
    BY <1>1 DEF Seated, TypeOK
  <2>2. bindings[m].capability \in Capabilities
    BY <2>1 DEF Seat
  <2> QED
    BY <2>1, <2>2 DEF ViewerId, Viewers, Capabilities
<1> QED
  BY <1>1 DEF ProjectionsCurrent, ViewersCurrent, Shown, Current

\* The creator's projection shows the room it created.
LEMMA InitViewersCurrent == Init => ViewersCurrent
<1>1. ASSUME NEW u \in Uids, NEW m \in Members, NEW code \in Codes,
             ProvisionedRoom(u, m, code)
      PROVE  ViewersCurrent
  <2>1. /\ [uid |-> u, capability |-> "gm"] # None
        /\ Current = [roomRevision |-> 0, view |-> <<>>]
    BY <1>1, NoneAssumption DEF ProvisionedRoom, Seat, Capabilities, Current, FreshAuthority
  <2>2. \A v \in Viewers : Shown(v) <=> v = "gm"
    BY <1>1, <2>1 DEF ProvisionedRoom, Shown, Seated, ViewerId
  <2> QED
    BY <1>1, <2>1, <2>2 DEF ProvisionedRoom, ViewersCurrent
<1>2. ASSUME UnclaimedRoom PROVE ViewersCurrent
  BY <1>2 DEF UnclaimedRoom, ViewersCurrent, Shown, Seated
<1> QED
  BY <1>1, <1>2 DEF Init

\* A join writes a current projection, a command rewrites them all, and no
\* other transaction moves the revision or the state.
LEMMA NextViewersCurrent ==
    TypeOK /\ ViewersCurrent /\ [Next]_vars => ViewersCurrent'
<1> SUFFICES ASSUME TypeOK, ViewersCurrent, [Next]_vars PROVE ViewersCurrent'
  OBVIOUS
<1>1. ASSUME NEW u \in Uids, NEW m \in Members, NEW capability \in Capabilities,
             NEW code \in Codes, Joined(u, m, capability, code)
      PROVE  ViewersCurrent'
  <2> DEFINE seat == [uid |-> u, capability |-> capability]
             joined == ViewerId(m, capability)
  <2>1. /\ Current' = Current
        /\ joined \in Viewers
        /\ projections' = [projections EXCEPT ![joined] = Current]
        /\ bindings' = [bindings EXCEPT ![m] = seat]
        /\ bindings[m] = None
    BY <1>1 DEF Joined, CreateSeat, SeatDocuments, ViewerId, Viewers, Capabilities, Current
  <2>2. seat # None /\ seat.capability = capability
    BY NoneAssumption DEF Seat
  <2>3. \A v \in Viewers : Shown(v)' <=> Shown(v) \/ v = joined
    <3> HIDE DEF seat
    <3>1. Seated' = Seated \cup {m} /\ m \notin Seated
      BY <2>1, <2>2 DEF Seated, TypeOK
    <3>2. \A x \in Seated : bindings'[x] = bindings[x]
      BY <2>1, <3>1 DEF Seated
    <3>3. bindings'[m].capability = capability
      BY <2>1, <2>2 DEF TypeOK
    <3> QED
      BY <3>1, <3>2, <3>3 DEF Shown
  <2> HIDE DEF joined
  <2>4. \A v \in Viewers : projections'[v] = IF v = joined THEN Current ELSE projections[v]
    BY <2>1 DEF TypeOK
  <2> QED
    BY <2>1, <2>3, <2>4 DEF ViewersCurrent
<1>2. ASSUME NEW u \in Uids, NEW m \in Members, Rebound(u, m)
      PROVE  ViewersCurrent'
  <2>1. /\ bindings'[m].capability = bindings[m].capability
        /\ bindings'[m] \in Seat
        /\ \A x \in Members \ {m} : bindings'[x] = bindings[x]
    BY <1>2 DEF Rebound, TypeOK, Seat
  <2>2. Seated' = Seated
    BY <1>2, <2>1, NoneAssumption DEF Seated, Rebound
  <2>3. \A v \in Viewers : Shown(v)' <=> Shown(v)
    BY <2>1, <2>2 DEF Shown, Seated
  <2> QED
    BY <1>2, <2>3 DEF Rebound, ViewersCurrent, Current
<1>3. ASSUME UNCHANGED <<bindings, projections>>,
             authority'.roomRevision = authority.roomRevision,
             authority'.state = authority.state
      PROVE  ViewersCurrent'
  BY <1>3 DEF ViewersCurrent, Shown, Seated, Current
<1>4. ASSUME NEW m \in Members, NEW capability \in Capabilities, NEW c \in CommandIds,
             NEW expected \in KnownRevisions, AcceptCommand(m, capability, c, expected)
      PROVE  ViewersCurrent'
  <2>1. bindings' = bindings /\ RefreshProjections(authority')
    BY <1>4 DEF AcceptCommand, seatVars
  <2>2. \A v \in Viewers : Shown(v)' <=> Shown(v)
    BY <2>1 DEF Shown, Seated
  <2>3. \A v \in Viewers : projections'[v] = IF Shown(v) THEN Current' ELSE projections[v]
    BY <2>1 DEF RefreshProjections, Shown, Current
  <2> QED
    BY <2>2, <2>3 DEF ViewersCurrent
<1>5. ASSUME NEW m \in Members, NEW capability \in Capabilities, NEW c \in CommandIds,
             NEW expected \in KnownRevisions,
             ReplayCommand(m, c) \/ RejectCommand(m, capability, c, expected)
      PROVE  ViewersCurrent'
  <2>1. UNCHANGED <<authority, bindings, projections>>
    BY <1>5 DEF ReplayCommand, RejectCommand, seatVars
  <2> QED
    BY <1>3, <2>1
<1> QED
  BY <1>1, <1>2, <1>3, <1>4, <1>5, StepCases

\* Whoever is seated sees the room as it is, whatever was interleaved with the
\* join: no viewer is left behind and none appears without a seat.
THEOREM ViewersSeeTheRoom == Spec => []ProjectionsCurrent
<1>1. Init => TypeOK /\ ViewersCurrent
  BY InitTypeOK, InitViewersCurrent
<1>2. TypeOK /\ ViewersCurrent /\ [Next]_vars => (TypeOK /\ ViewersCurrent)'
  BY NextTypeOK, NextViewersCurrent
<1>3. TypeOK /\ ViewersCurrent => ProjectionsCurrent
  BY ViewersCurrentEnough
<1> QED
  BY <1>1, <1>2, <1>3, PTL DEF Spec

-----------------------------------------------------------------------------
\* Commands: decided once, answered alike, applied once.

\* The four things a step may do to the receipts, the answers and the log.
Replayed(m, c) ==
    /\ receipts[m][c] # None
    /\ answers' = answers \cup {AnswerFrom(m, c, receipts[m][c])}
    /\ UNCHANGED <<authority, receipts>>

Unrecorded ==
    /\ UNCHANGED <<receipts, answers>>
    /\ authority'.roomRevision = authority.roomRevision
    /\ authority'.state = authority.state

LEMMA RecordCases ==
    ASSUME TypeOK, [Next]_vars
    PROVE  \/ \E m \in Members, c \in CommandIds, stored \in Receipt :
                 RecordedRefusal(m, c, stored) \/ RecordedAcceptance(m, c, stored)
           \/ \E m \in Members, c \in CommandIds : Replayed(m, c)
           \/ Unrecorded
<1>1. ASSUME NEW u \in Uids, NEW m \in Members, NEW capability \in Capabilities,
             NEW code \in Codes, Joined(u, m, capability, code)
      PROVE  Unrecorded
  BY <1>1 DEF Joined, Unrecorded, commandVars
<1>2. ASSUME NEW u \in Uids, NEW m \in Members, Rebound(u, m)
      PROVE  Unrecorded
  BY <1>2 DEF Rebound, Unrecorded, commandVars
<1>3. ASSUME NEW m \in Members, NEW c \in CommandIds, ReplayCommand(m, c)
      PROVE  Replayed(m, c)
  BY <1>3 DEF ReplayCommand, Replayed, Answered
<1>4. ASSUME UNCHANGED commandVars, authority'.roomRevision = authority.roomRevision,
             authority'.state = authority.state
      PROVE  Unrecorded
  BY <1>4 DEF Unrecorded, commandVars
<1>5. ASSUME NEW m \in Members, NEW capability \in Capabilities, NEW c \in CommandIds,
             NEW expected \in KnownRevisions,
             \/ ReplayCommand(m, c)
             \/ RejectCommand(m, capability, c, expected)
             \/ AcceptCommand(m, capability, c, expected)
      PROVE  \/ \E stored \in Receipt :
                   RecordedRefusal(m, c, stored) \/ RecordedAcceptance(m, c, stored)
             \/ Replayed(m, c)
  BY <1>3, <1>5, RejectRecords, AcceptRecords
<1> QED
  BY <1>1, <1>2, <1>4, <1>5, StepCases

\* The strengthening: the log is as long as the revision counts, every receipt
\* has been returned to its sender, nothing else ever was, and an accepted
\* receipt states a revision the room has reached.
AnswersRecorded ==
    /\ Len(authority.state) = authority.roomRevision
    /\ \A m \in Members, c \in CommandIds : receipts[m][c] # None =>
          AnswerFrom(m, c, receipts[m][c]) \in answers
    /\ \A a \in answers : \E m \in Members, c \in CommandIds :
          receipts[m][c] # None /\ a = AnswerFrom(m, c, receipts[m][c])
    /\ \A m \in Members, c \in CommandIds :
          receipts[m][c] # None /\ receipts[m][c].status = "accepted" =>
            receipts[m][c].roomRevision \in 1..authority.roomRevision

\* Before any command there is no receipt, no answer and no log.
LEMMA InitAnswersRecorded == Init => AnswersRecorded /\ AppliedExactlyOnce
<1> SUFFICES ASSUME Init PROVE AnswersRecorded /\ AppliedExactlyOnce
  OBVIOUS
<1>1. authority.state = <<>> /\ authority.roomRevision = 0
  BY DEF Init, ProvisionedRoom, UnclaimedRoom, FreshAuthority
<1>2. answers = {} /\ \A m \in Members, c \in CommandIds : receipts[m][c] = None
  BY DEF Init
<1> QED
  BY <1>1, <1>2 DEF AnswersRecorded, AppliedExactlyOnce

\* Writing a first receipt changes that receipt alone.
LEMMA RecordedAlone ==
    ASSUME TypeOK, NEW m \in Members, NEW c \in CommandIds, NEW stored \in Receipt,
           Recorded(m, c, stored)
    PROVE  /\ receipts'[m][c] = stored
           /\ stored # None
           /\ \A x \in Members, d \in CommandIds :
                 <<x, d>> # <<m, c>> => receipts'[x][d] = receipts[x][d]
BY NoneAssumption DEF Recorded, TypeOK

LEMMA NextAnswersRecorded ==
    TypeOK /\ AnswersRecorded /\ [Next]_vars => AnswersRecorded'
<1> SUFFICES ASSUME TypeOK, AnswersRecorded, [Next]_vars PROVE AnswersRecorded'
  OBVIOUS
<1>0. authority.roomRevision \in Nat /\ authority.state \in Seq(Entries)
  BY DEF TypeOK, Authority
<1>1. ASSUME NEW m \in Members, NEW c \in CommandIds, NEW stored \in Receipt,
             Recorded(m, c, stored),
             Len(authority'.state) = authority'.roomRevision,
             authority'.roomRevision \in Nat,
             authority'.roomRevision >= authority.roomRevision,
             stored.status = "accepted" => stored.roomRevision \in 1..authority'.roomRevision
      PROVE  AnswersRecorded'
  <2>1. /\ receipts'[m][c] = stored
        /\ stored # None
        /\ \A x \in Members, d \in CommandIds :
              <<x, d>> # <<m, c>> => receipts'[x][d] = receipts[x][d]
    BY <1>1, RecordedAlone
  <2>2. receipts[m][c] = None /\ answers' = answers \cup {AnswerFrom(m, c, stored)}
    BY <1>1 DEF Recorded
  <2>3. ASSUME NEW x \in Members, NEW d \in CommandIds, receipts'[x][d] # None
        PROVE  AnswerFrom(x, d, receipts'[x][d]) \in answers'
    BY <2>1, <2>2, <2>3 DEF AnswersRecorded
  <2>4. ASSUME NEW a \in answers'
        PROVE  \E x \in Members, d \in CommandIds :
                  receipts'[x][d] # None /\ a = AnswerFrom(x, d, receipts'[x][d])
    <3>1. CASE a \in answers
      <4>1. PICK x \in Members, d \in CommandIds :
              receipts[x][d] # None /\ a = AnswerFrom(x, d, receipts[x][d])
        BY <3>1 DEF AnswersRecorded
      <4>2. receipts'[x][d] = receipts[x][d]
        BY <2>1, <2>2, <4>1
      <4> QED
        BY <4>1, <4>2
    <3>2. CASE a = AnswerFrom(m, c, stored)
      BY <2>1, <3>2
    <3> QED
      BY <2>2, <3>1, <3>2
  <2>5. ASSUME NEW x \in Members, NEW d \in CommandIds,
               receipts'[x][d] # None, receipts'[x][d].status = "accepted"
        PROVE  receipts'[x][d].roomRevision \in 1..authority'.roomRevision
    <3>1. CASE <<x, d>> = <<m, c>>
      BY <1>1, <2>1, <2>5, <3>1
    <3>2. CASE <<x, d>> # <<m, c>>
      <4>1. receipts[x][d].roomRevision \in 1..authority.roomRevision
        BY <2>1, <2>5, <3>2 DEF AnswersRecorded
      <4> QED
        BY <1>0, <1>1, <2>1, <3>2, <4>1
    <3> QED
      BY <3>1, <3>2
  <2> QED
    BY <1>1, <2>3, <2>4, <2>5 DEF AnswersRecorded, AnswerFrom
<1>2. ASSUME NEW m \in Members, NEW c \in CommandIds, NEW stored \in Receipt,
             RecordedRefusal(m, c, stored)
      PROVE  AnswersRecorded'
  <2>1. authority' = authority /\ stored.status # "accepted"
    BY <1>2 DEF RecordedRefusal
  <2> QED
    BY <1>0, <1>1, <1>2, <2>1 DEF RecordedRefusal, AnswersRecorded
<1>3. ASSUME NEW m \in Members, NEW c \in CommandIds, NEW stored \in Receipt,
             RecordedAcceptance(m, c, stored)
      PROVE  AnswersRecorded'
  <2>1. Len(authority'.state) = Len(authority.state) + 1
    BY <1>0, <1>3 DEF RecordedAcceptance
  <2> QED
    BY <1>0, <1>1, <1>3, <2>1 DEF RecordedAcceptance, AnswersRecorded
<1>4. ASSUME NEW m \in Members, NEW c \in CommandIds, Replayed(m, c)
      PROVE  AnswersRecorded'
  BY <1>4 DEF Replayed, AnswersRecorded, AnswerFrom
<1>5. ASSUME Unrecorded PROVE AnswersRecorded'
  BY <1>5 DEF Unrecorded, AnswersRecorded, AnswerFrom
<1> QED
  BY <1>2, <1>3, <1>4, <1>5, RecordCases

LEMMA AnswersRecordedAlways == Spec => [](TypeOK /\ AnswersRecorded)
<1>1. Init => TypeOK /\ AnswersRecorded
  BY InitTypeOK, InitAnswersRecorded
<1>2. TypeOK /\ AnswersRecorded /\ [Next]_vars => (TypeOK /\ AnswersRecorded)'
  BY NextTypeOK, NextAnswersRecorded
<1> QED
  BY <1>1, <1>2, PTL DEF Spec

\* A retry is told what the first call was told, for any number of members,
\* retries and intervening transactions.
THEOREM RetriesAgree == Spec => []OneAnswerPerCommand
<1>1. TypeOK /\ AnswersRecorded => OneAnswerPerCommand
  <2> SUFFICES ASSUME AnswersRecorded, NEW a \in answers, NEW b \in answers,
                      a.command = b.command
               PROVE  a = b
    BY DEF OneAnswerPerCommand
  <2>1. PICK m \in Members, c \in CommandIds : a = AnswerFrom(m, c, receipts[m][c])
    BY DEF AnswersRecorded
  <2>2. PICK n \in Members, d \in CommandIds : b = AnswerFrom(n, d, receipts[n][d])
    BY DEF AnswersRecorded
  <2>3. a.command = <<m, c>> /\ b.command = <<n, d>>
    BY <2>1, <2>2 DEF AnswerFrom
  <2> QED
    BY <2>1, <2>2, <2>3
<1> QED
  BY <1>1, AnswersRecordedAlways, PTL

\* The log gains a command only with its first, accepted receipt, at the
\* position that receipt states.
LEMMA NextAppliedExactlyOnce ==
    TypeOK /\ AnswersRecorded /\ AppliedExactlyOnce /\ [Next]_vars => AppliedExactlyOnce'
<1> SUFFICES ASSUME TypeOK, AnswersRecorded, AppliedExactlyOnce, [Next]_vars
             PROVE  AppliedExactlyOnce'
  OBVIOUS
<1>0. authority.roomRevision \in Nat /\ authority.state \in Seq(Entries)
  BY DEF TypeOK, Authority
<1>1. ASSUME NEW m \in Members, NEW c \in CommandIds, NEW stored \in Receipt,
             RecordedRefusal(m, c, stored)
      PROVE  AppliedExactlyOnce'
  <2>1. /\ receipts'[m][c].status # "accepted"
        /\ receipts[m][c] = None
        /\ authority' = authority
        /\ \A x \in Members, d \in CommandIds :
              <<x, d>> # <<m, c>> => receipts'[x][d] = receipts[x][d]
    BY <1>1, RecordedAlone DEF RecordedRefusal, Recorded
  <2>2. ASSUME NEW x \in Members, NEW d \in CommandIds, NEW r \in 1..authority.roomRevision
        PROVE  authority.state[r] = <<x, d>> <=>
                 /\ receipts'[x][d] # None
                 /\ receipts'[x][d].status = "accepted"
                 /\ receipts'[x][d].roomRevision = r
    <3>1. CASE <<x, d>> = <<m, c>>
      BY <2>1, <3>1 DEF AppliedExactlyOnce
    <3>2. CASE <<x, d>> # <<m, c>>
      BY <2>1, <3>2 DEF AppliedExactlyOnce
    <3> QED
      BY <3>1, <3>2
  <2> QED
    BY <2>1, <2>2 DEF AppliedExactlyOnce
<1>2. ASSUME NEW m \in Members, NEW c \in CommandIds, NEW stored \in Receipt,
             RecordedAcceptance(m, c, stored)
      PROVE  AppliedExactlyOnce'
  <2> DEFINE last == authority.roomRevision + 1
  <2>1. /\ receipts'[m][c] = stored
        /\ stored # None /\ stored.status = "accepted" /\ stored.roomRevision = last
        /\ receipts[m][c] = None
        /\ \A x \in Members, d \in CommandIds :
              <<x, d>> # <<m, c>> => receipts'[x][d] = receipts[x][d]
    BY <1>2, RecordedAlone DEF RecordedAcceptance, Recorded
  <2>2. /\ authority'.roomRevision = last
        /\ Len(authority'.state) = last
        /\ authority'.state[last] = <<m, c>>
        /\ \A r \in 1..authority.roomRevision : authority'.state[r] = authority.state[r]
    BY <1>0, <1>2 DEF RecordedAcceptance, AnswersRecorded
  <2>3. ASSUME NEW x \in Members, NEW d \in CommandIds, NEW r \in 1..last
        PROVE  authority'.state[r] = <<x, d>> <=>
                 /\ receipts'[x][d] # None
                 /\ receipts'[x][d].status = "accepted"
                 /\ receipts'[x][d].roomRevision = r
    <3>1. CASE r = last
      <4>1. CASE <<x, d>> = <<m, c>>
        BY <2>1, <2>2, <3>1, <4>1
      <4>2. CASE <<x, d>> # <<m, c>>
        <5>1. ~(/\ receipts[x][d] # None
                /\ receipts[x][d].status = "accepted"
                /\ receipts[x][d].roomRevision = last)
          BY <1>0 DEF AnswersRecorded
        <5> QED
          BY <2>1, <2>2, <3>1, <4>2, <5>1
      <4> QED
        BY <4>1, <4>2
    <3>2. CASE r # last
      <4>1. r \in 1..authority.roomRevision
        BY <1>0, <3>2
      <4>2. CASE <<x, d>> = <<m, c>>
        BY <2>1, <2>2, <3>2, <4>1, <4>2 DEF AppliedExactlyOnce
      <4>3. CASE <<x, d>> # <<m, c>>
        <5>1. authority.state[r] = <<x, d>> <=>
                /\ receipts[x][d] # None
                /\ receipts[x][d].status = "accepted"
                /\ receipts[x][d].roomRevision = r
          BY <4>1 DEF AppliedExactlyOnce
        <5>2. authority'.state[r] = authority.state[r] /\ receipts'[x][d] = receipts[x][d]
          BY <2>1, <2>2, <4>1, <4>3
        <5> QED
          BY <5>1, <5>2
      <4> QED
        BY <4>2, <4>3
    <3> QED
      BY <3>1, <3>2
  <2> QED
    BY <2>2, <2>3 DEF AppliedExactlyOnce
<1>3. ASSUME UNCHANGED receipts, authority'.roomRevision = authority.roomRevision,
             authority'.state = authority.state
      PROVE  AppliedExactlyOnce'
  BY <1>3 DEF AppliedExactlyOnce
<1> QED
  BY <1>1, <1>2, <1>3, RecordCases DEF Replayed, Unrecorded

\* Exactly-once: a command is in the reduced state precisely when it has an
\* accepted receipt, once, at the receipt's revision.
THEOREM ExactlyOnce == Spec => []AppliedExactlyOnce
<1> DEFINE Inv == TypeOK /\ AnswersRecorded /\ AppliedExactlyOnce
<1>1. Init => Inv
  BY InitTypeOK, InitAnswersRecorded
<1>2. Inv /\ [Next]_vars => Inv'
  BY NextTypeOK, NextAnswersRecorded, NextAppliedExactlyOnce
<1> QED
  BY <1>1, <1>2, PTL DEF Spec

-----------------------------------------------------------------------------
\* The room implements the command service.

Outcomes == [r \in Entries |-> OutcomeOf(r[1], r[2])]
Telling(a) == <<a.command, [status |-> a.status, position |-> a.roomRevision]>>
Told == {Telling(a) : a \in answers}
ResultOf(stored) ==
    [status |-> stored.status,
     position |-> IF stored.status = "accepted" THEN stored.roomRevision ELSE 0]

\* A first receipt settles its own request, and its sender is told the outcome.
LEMMA RecordedSettles ==
    ASSUME TypeOK, NEW m \in Members, NEW c \in CommandIds, NEW stored \in Receipt,
           Recorded(m, c, stored)
    PROVE  Service!Settle(<<m, c>>, ResultOf(stored))
<1> DEFINE result == ResultOf(stored)
<1>1. /\ receipts'[m][c] = stored
      /\ stored # None
      /\ \A x \in Members, d \in CommandIds :
            <<x, d>> # <<m, c>> => receipts'[x][d] = receipts[x][d]
  BY RecordedAlone
<1>2. Outcomes[<<m, c>>] = [status |-> "open", position |-> 0]
  BY DEF Recorded, Outcomes, OutcomeOf, Entries
<1>3. Outcomes' = [Outcomes EXCEPT ![<<m, c>>] = result]
  <2>1. OutcomeOf(m, c)' = result
    BY <1>1 DEF OutcomeOf, ResultOf
  <2>2. ASSUME NEW r \in Entries, r # <<m, c>>
        PROVE  OutcomeOf(r[1], r[2])' = OutcomeOf(r[1], r[2])
    <3>1. r[1] \in Members /\ r[2] \in CommandIds /\ r = <<r[1], r[2]>>
      BY DEF Entries
    <3>2. receipts'[r[1]][r[2]] = receipts[r[1]][r[2]]
      BY <1>1, <2>2, <3>1
    <3> QED
      BY <3>2 DEF OutcomeOf
  <2>3. \A r \in Entries : OutcomeOf(r[1], r[2])' =
                           IF r = <<m, c>> THEN result ELSE OutcomeOf(r[1], r[2])
    BY <2>1, <2>2
  <2> QED
    BY <2>3 DEF Outcomes
<1>4. Told' = Told \cup {<<<<m, c>>, result>>}
  <2>1. Telling(AnswerFrom(m, c, stored)) = <<<<m, c>>, result>>
    BY DEF Telling, AnswerFrom, ResultOf
  <2> QED
    BY <2>1 DEF Told, Recorded
<1> QED
  BY <1>2, <1>3, <1>4 DEF Service!Settle, Service!Open, Outcomes, Told, Telling

LEMMA InitService == Init => Service!Init
<1> SUFFICES ASSUME Init PROVE Service!Init
  OBVIOUS
<1>1. authority.state = <<>> /\ answers = {}
  BY DEF Init, ProvisionedRoom, UnclaimedRoom, FreshAuthority
<1>2. \A r \in Entries : OutcomeOf(r[1], r[2]) = [status |-> "open", position |-> 0]
  BY DEF Init, OutcomeOf, Entries
<1> QED
  BY <1>1, <1>2 DEF Service!Init, Service!Open

\* A refusal is the service's Refuse, an acceptance its Apply; every other
\* transaction, a replay among them, leaves the service as it is.
LEMMA NextService ==
    TypeOK /\ AnswersRecorded /\ [Next]_vars => [Service!Next]_(Service!serviceVars)
<1> SUFFICES ASSUME TypeOK, AnswersRecorded, [Next]_vars
             PROVE  [Service!Next]_(Service!serviceVars)
  OBVIOUS
<1>1. ASSUME NEW m \in Members, NEW c \in CommandIds, NEW stored \in Receipt,
             RecordedRefusal(m, c, stored)
      PROVE  Service!Refuse(<<m, c>>)
  <2>1. Service!Settle(<<m, c>>, ResultOf(stored))
    BY <1>1, RecordedSettles DEF RecordedRefusal
  <2>2. ResultOf(stored) = [status |-> "rejected", position |-> 0]
    BY <1>1 DEF RecordedRefusal, ResultOf
  <2> QED
    BY <1>1, <2>1, <2>2 DEF RecordedRefusal, Service!Refuse, Service!Refused
<1>2. ASSUME NEW m \in Members, NEW c \in CommandIds, NEW stored \in Receipt,
             RecordedAcceptance(m, c, stored)
      PROVE  Service!Apply(<<m, c>>)
  <2>1. stored.status = "accepted" /\ stored.roomRevision = Len(authority.state) + 1
    BY <1>2 DEF RecordedAcceptance, AnswersRecorded
  <2>2. ResultOf(stored) = [status |-> "accepted", position |-> Len(authority.state) + 1]
    BY <2>1 DEF ResultOf
  <2>3. Service!Settle(<<m, c>>, ResultOf(stored))
    BY <1>2, RecordedSettles DEF RecordedAcceptance
  <2> QED
    BY <1>2, <2>2, <2>3 DEF RecordedAcceptance, Service!Apply, Service!Settle,
                            Service!AppliedAt
<1>3. ASSUME UNCHANGED <<receipts, answers>>, authority'.state = authority.state
      PROVE  UNCHANGED Service!serviceVars
  BY <1>3 DEF Service!serviceVars, OutcomeOf
<1>4. ASSUME NEW m \in Members, NEW c \in CommandIds, Replayed(m, c)
      PROVE  UNCHANGED Service!serviceVars
  <2>1. UNCHANGED <<authority, receipts, answers>>
    BY <1>4 DEF Replayed, AnswersRecorded
  <2> QED
    BY <1>3, <2>1
<1>5. \A m \in Members, c \in CommandIds : <<m, c>> \in Entries
  BY DEF Entries
<1> QED
  BY <1>1, <1>2, <1>3, <1>4, <1>5, RecordCases DEF Service!Next, Unrecorded

\* Refinement: seen from its senders, a room with its receipts, retries, joins
\* and recoveries is the service that decides every command exactly once.
THEOREM ImplementsService == Spec => RefinesCommandService
<1>1. Init => Service!Init
  BY InitService
<1>2. TypeOK /\ AnswersRecorded /\ [Next]_vars => [Service!Next]_(Service!serviceVars)
  BY NextService
<1> QED
  BY <1>1, <1>2, AnswersRecordedAlways, PTL DEF Spec, RefinesCommandService, Service!Spec

-----------------------------------------------------------------------------
\* The history: the order of the event log, what is permanent, and what gets
\* past the platform's checks.

\* Every verdict but a refusal has an event, and every event a destination.
LEMMA BatchShape ==
    ASSUME NEW c \in CommandIds, NEW batch \in Verdicts(c) \ {<<>>}
    PROVE  /\ Len(batch) \in Nat \ {0} /\ DOMAIN batch = 1..Len(batch)
           /\ \A i \in DOMAIN batch : batch[i] # {} /\ batch[i] \subseteq Destinations
<1>1. CASE Kind[c] = "pause"
  <2>1. batch = <<{"shared"}>>
    BY <1>1 DEF Verdicts
  <2> QED
    BY <2>1 DEF Destinations
<1>2. CASE Kind[c] # "pause"
  <2>1. batch \in Seq((SUBSET Destinations) \ {{}}) /\ batch # <<>>
    BY <1>2, ConstantsAssumption DEF Verdicts
  <2> QED
    BY <2>1
<1> QED
  BY <1>1, <1>2

\* What an accepted command leaves: its events behind all others, one sequence
\* number each, and a receipt that names the first of them.
Logged(m, c, batch) ==
    /\ batch \in Verdicts(c) \ {<<>>}
    /\ authority'.roomRevision = authority.roomRevision + 1
    /\ authority'.nextSequence = authority.nextSequence + Len(batch)
    /\ authority'.state = Append(authority.state, <<m, c>>)
    /\ events' = {e \in events : \A n \in Envelopes(m, c, batch) : ~SamePath(e, n)}
                   \cup Envelopes(m, c, batch)
    /\ receipts[m][c] = None
    /\ \E stored \in Receipt :
          /\ stored.status = "accepted" /\ stored.acceptedSequence = authority.nextSequence
          /\ receipts' = [receipts EXCEPT ![m][c] = stored]

\* What every other step leaves: the log, and every receipt there is.
LogAlone ==
    /\ UNCHANGED events
    /\ authority'.roomRevision = authority.roomRevision
    /\ authority'.nextSequence = authority.nextSequence
    /\ authority'.state = authority.state
    /\ \A m \in Members, c \in CommandIds :
          /\ receipts[m][c] # None => receipts'[m][c] = receipts[m][c]
          /\ receipts[m][c] = None /\ receipts'[m][c] # None =>
                receipts'[m][c].status = "rejected"

\* An accepted command is one its sender's seat may send.
Admissible(m, c) ==
    /\ authority.roomStatus = "active"
    /\ Kind[c] \in {"action", "pause"}
    /\ bindings[m].capability # "table"

LEMMA LogCases ==
    ASSUME TypeOK, IndexSound, [Next]_vars
    PROVE  \/ \E m \in Members, c \in CommandIds : \E batch :
                 Logged(m, c, batch) /\ Admissible(m, c)
           \/ LogAlone
<1>0. authority \in Authority
  BY DEF TypeOK
<1>1. ASSUME NEW u \in Uids, NEW c \in CommandIds, NEW expected \in KnownRevisions,
             SubmitRoomCommand(u, c, expected)
      PROVE  \/ \E m \in Members : \E batch : Logged(m, c, batch) /\ Admissible(m, c)
             \/ LogAlone
  <2> DEFINE m == uidBindings[u].memberId
             capability == uidBindings[u].capability
  <2>1. m \in Members /\ capability \in Capabilities /\ bindings[m].capability = capability
    BY <1>1 DEF SubmitRoomCommand, TypeOK, SeatIndex, IndexSound
  <2>2. CASE ReplayCommand(m, c)
    BY <2>2 DEF ReplayCommand, LogAlone
  <2>3. CASE RejectCommand(m, capability, c, expected)
    <3>1. PICK stored \in Receipt : RecordedRefusal(m, c, stored)
      BY <2>1, <2>3, RejectRecords
    <3>2. /\ receipts'[m][c] = stored
          /\ stored # None
          /\ \A x \in Members, d \in CommandIds :
                <<x, d>> # <<m, c>> => receipts'[x][d] = receipts[x][d]
      BY <2>1, <3>1, RecordedAlone DEF RecordedRefusal
    <3>3. /\ receipts[m][c] = None /\ stored.status = "rejected"
          /\ UNCHANGED <<authority, events>>
      BY <3>1 DEF RecordedRefusal, Recorded
    <3>4. ASSUME NEW x \in Members, NEW d \in CommandIds
          PROVE  /\ receipts[x][d] # None => receipts'[x][d] = receipts[x][d]
                 /\ receipts[x][d] = None /\ receipts'[x][d] # None =>
                       receipts'[x][d].status = "rejected"
      <4>1. CASE <<x, d>> = <<m, c>>
        BY <3>2, <3>3, <4>1
      <4>2. CASE <<x, d>> # <<m, c>>
        BY <3>2, <4>2
      <4> QED
        BY <4>1, <4>2
    <3> QED
      BY <3>3, <3>4 DEF LogAlone
  <2>4. CASE AcceptCommand(m, capability, c, expected)
    <3>1. PICK batch \in Verdicts(c) \ {<<>>} :
            LET next == Committed(m, c, batch)
                stored == [status |-> "accepted", code |-> "none",
                           roomRevision |-> next.roomRevision,
                           acceptedSequence |-> authority.nextSequence]
            IN /\ authority' = next
               /\ receipts' = [receipts EXCEPT ![m][c] = stored]
               /\ events' = {e \in events : \A n \in Envelopes(m, c, batch) : ~SamePath(e, n)}
                              \cup Envelopes(m, c, batch)
      BY <2>4 DEF AcceptCommand
    <3>2. /\ authority'.roomRevision = authority.roomRevision + 1
          /\ authority'.nextSequence = authority.nextSequence + Len(batch)
          /\ authority'.state = Append(authority.state, <<m, c>>)
      BY <1>0, <3>1 DEF Committed, Authority
    <3> DEFINE stored == [status |-> "accepted", code |-> "none",
                          roomRevision |-> authority'.roomRevision,
                          acceptedSequence |-> authority.nextSequence]
    <3>3. stored \in Receipt
      BY <1>0, <3>2 DEF Receipt, ResultCodes, Authority
    <3>4. /\ receipts' = [receipts EXCEPT ![m][c] = stored]
          /\ stored.status = "accepted" /\ stored.acceptedSequence = authority.nextSequence
      BY <3>1
    <3>5. receipts[m][c] = None
      BY <2>4 DEF AcceptCommand, Answered
    <3>6. PlatformRejection(capability, c, expected) = "none"
      BY <2>4 DEF AcceptCommand
    <3>7. Admissible(m, c)
      <4>1. authority.roomStatus # "archived" /\ capability \in {"player", "gm"}
            /\ Kind[c] \notin {"otherBuild", "oversized", "unknown"}
        BY <3>6 DEF PlatformRejection
      <4>2. Kind[c] \in Kinds /\ authority.roomStatus \in {"active", "archived"}
        BY <1>0, ConstantsAssumption DEF Authority
      <4> QED
        BY <2>1, <4>1, <4>2 DEF Admissible, Kinds
    <3>8. Logged(m, c, batch)
      <4> HIDE DEF stored
      <4> QED
        BY <3>1, <3>2, <3>3, <3>4, <3>5 DEF Logged
    <3> QED
      BY <2>1, <3>7, <3>8
  <2> QED
    BY <1>1, <2>2, <2>3, <2>4 DEF SubmitRoomCommand
<1>2. ASSUME NEW u \in Uids, NEW capability \in {"player", "table"}, NEW valid \in BOOLEAN,
             AdmitMember(u, capability, valid)
      PROVE  LogAlone
  BY <1>0, <1>2 DEF AdmitMember, LogAlone, commandVars, Authority
<1>3. ASSUME NEW u \in Uids, NEW valid \in BOOLEAN, ClaimSeat(u, valid)
      PROVE  LogAlone
  BY <1>0, <1>3 DEF ClaimSeat, LogAlone, commandVars, Authority
<1>4. ASSUME NEW u \in Uids, NEW code \in issued, RecoverSeat(u, code)
      PROVE  LogAlone
  BY <1>4 DEF RecoverSeat, LogAlone, commandVars
<1>5. ASSUME ArchiveRoom \/ \E status \in {"open", "closed"} : SetAdmission(status)
      PROVE  LogAlone
  BY <1>0, <1>5 DEF ArchiveRoom, SetAdmission, LogAlone, commandVars, Authority
<1>6. CASE UNCHANGED vars
  BY <1>6 DEF vars, commandVars, LogAlone
<1> QED
  BY <1>1, <1>2, <1>3, <1>4, <1>5, <1>6 DEF Next

-----------------------------------------------------------------------------
\* The event log.

\* The strengthening: no event is ahead of the counters that number the next ones.
LogBounded ==
    \A e \in events :
        /\ e.sequence \in 1..(authority.nextSequence - 1)
        /\ e.roomRevision \in 1..authority.roomRevision

LogInv == TypeOK /\ IndexSound /\ AnswersRecorded /\ LogBounded /\ EventLogOrdered

LEMMA InitLogInv == Init => LogInv
<1> SUFFICES ASSUME Init PROVE LogInv
  OBVIOUS
<1>1. events = {} /\ authority.nextSequence = 1 /\ authority.roomRevision = 0
  BY DEF Init, ProvisionedRoom, UnclaimedRoom, FreshAuthority
<1>2. \A m \in Members, c \in CommandIds : receipts[m][c] = None
  BY DEF Init
<1>3. LogBounded /\ EventLogOrdered
  BY <1>1, <1>2 DEF LogBounded, EventLogOrdered
<1> QED
  BY <1>3, InitTypeOK, InitIndexSound, InitAnswersRecorded DEF LogInv

\* The new events: all of one command and revision, one sequence number for each
\* event of the batch, none of them given to an earlier event.
LEMMA NewEvents ==
    ASSUME TypeOK, LogBounded, NEW m \in Members, NEW c \in CommandIds, NEW batch,
           Logged(m, c, batch)
    PROVE  LET next == authority.nextSequence
               copies == Envelopes(m, c, batch)
           IN  /\ Len(batch) \in Nat \ {0}
               /\ \A e \in copies : /\ e.command = <<m, c>>
                                    /\ e.roomRevision = authority.roomRevision + 1
                                    /\ e.sequence \in next..(next + Len(batch) - 1)
               /\ \A s \in next..(next + Len(batch) - 1) : \E e \in copies : e.sequence = s
               /\ events' = events \cup copies
<1> DEFINE next == authority.nextSequence
           copies == Envelopes(m, c, batch)
<1>0. next \in Nat \ {0} /\ authority.roomRevision \in Nat
  BY DEF TypeOK, Authority
<1>1. /\ Len(batch) \in Nat \ {0} /\ DOMAIN batch = 1..Len(batch)
      /\ \A i \in DOMAIN batch : batch[i] # {}
  BY BatchShape DEF Logged
<1>2. ASSUME NEW e \in copies
      PROVE  /\ e.command = <<m, c>>
             /\ e.roomRevision = authority.roomRevision + 1
             /\ e.sequence \in next..(next + Len(batch) - 1)
  <2>1. PICK i \in DOMAIN batch : \E d \in batch[i] :
          e = [partition |-> PartitionOf(d, m), sequence |-> next + i - 1,
               command |-> <<m, c>>, roomRevision |-> authority.roomRevision + 1,
               actor |-> EventActor(m)]
    BY DEF Envelopes
  <2>2. i \in 1..Len(batch)
    BY <1>1
  <2> QED
    BY <1>0, <1>1, <2>1, <2>2
<1>3. ASSUME NEW s \in next..(next + Len(batch) - 1)
      PROVE  \E e \in copies : e.sequence = s
  <2>1. s - next + 1 \in DOMAIN batch
    BY <1>0, <1>1
  <2>2. PICK d : d \in batch[s - next + 1]
    BY <1>1, <2>1
  <2> DEFINE e == [partition |-> PartitionOf(d, m), sequence |-> next + (s - next + 1) - 1,
                   command |-> <<m, c>>, roomRevision |-> authority.roomRevision + 1,
                   actor |-> EventActor(m)]
  <2>3. e \in copies
    BY <2>1, <2>2 DEF Envelopes
  <2>4. e.sequence = s
    BY <1>0, <1>1
  <2> QED
    BY <2>3, <2>4
<1>4. \A e \in events : \A n \in copies : ~SamePath(e, n)
  BY <1>0, <1>1, <1>2 DEF LogBounded, SamePath
<1>5. events' = events \cup copies
  BY <1>4 DEF Logged
<1> QED
  BY <1>1, <1>2, <1>3, <1>5

LEMMA NextLogInv == LogInv /\ [Next]_vars => LogInv'
<1> SUFFICES ASSUME LogInv, [Next]_vars PROVE LogInv'
  OBVIOUS
<1>1. TypeOK' /\ IndexSound' /\ AnswersRecorded'
  BY NextTypeOK, NextIndexSound, NextAnswersRecorded DEF LogInv
<1>2. ASSUME NEW m \in Members, NEW c \in CommandIds, NEW batch, Logged(m, c, batch)
      PROVE  LogBounded' /\ EventLogOrdered'
  <2> DEFINE next == authority.nextSequence
             after == next + Len(batch)
             rev == authority.roomRevision
             copies == Envelopes(m, c, batch)
  <2>0. /\ next \in Nat \ {0} /\ rev \in Nat /\ authority.state \in Seq(Entries)
        /\ Len(authority.state) = rev /\ TypeOK /\ LogBounded
    BY DEF LogInv, AnswersRecorded, TypeOK, Authority
  <2>1. /\ Len(batch) \in Nat \ {0}
        /\ \A e \in copies : /\ e.command = <<m, c>>
                             /\ e.roomRevision = rev + 1
                             /\ e.sequence \in next..(after - 1)
        /\ \A s \in next..(after - 1) : \E e \in copies : e.sequence = s
        /\ events' = events \cup copies
    BY <1>2, <2>0, NewEvents
  <2>2. /\ authority'.roomRevision = rev + 1 /\ authority'.nextSequence = after
        /\ authority'.state = Append(authority.state, <<m, c>>)
    BY <1>2 DEF Logged
  <2>3. \A e \in events : e.sequence \in 1..(next - 1) /\ e.roomRevision \in 1..rev
    BY DEF LogInv, LogBounded
  <2> HIDE DEF copies
  <2>4. LogBounded'
    BY <2>0, <2>1, <2>2, <2>3 DEF LogBounded
  <2>5. ASSUME NEW e \in events', NEW f \in events'
        PROVE  /\ e.sequence = f.sequence => e.command = f.command
               /\ e.sequence < f.sequence => e.roomRevision <= f.roomRevision
    <3>1. CASE e \in events /\ f \in events
      BY <3>1 DEF LogInv, EventLogOrdered
    <3>2. CASE e \in events /\ f \in copies
      BY <2>0, <2>1, <2>3, <3>2
    <3>3. CASE e \in copies /\ f \in events
      BY <2>0, <2>1, <2>3, <3>3
    <3>4. CASE e \in copies /\ f \in copies
      BY <2>0, <2>1, <3>4
    <3> QED
      BY <2>1, <3>1, <3>2, <3>3, <3>4
  <2>6. ASSUME NEW e \in events' PROVE authority'.state[e.roomRevision] = e.command
    <3>1. CASE e \in events
      <4>1. authority.state[e.roomRevision] = e.command /\ e.roomRevision \in 1..rev
        BY <2>3, <3>1 DEF LogInv, EventLogOrdered
      <4> QED
        BY <2>0, <2>2, <4>1
    <3>2. CASE e \in copies
      <4>1. authority'.state[rev + 1] = <<m, c>>
        BY <2>0, <2>2
      <4>2. e.roomRevision = rev + 1 /\ e.command = <<m, c>>
        BY <2>1, <3>2
      <4> QED
        BY <4>1, <4>2
    <3> QED
      BY <2>1, <3>1, <3>2
  <2>7. {e.sequence : e \in events'} = 1..(after - 1)
    <3>1. {e.sequence : e \in events} = 1..(next - 1)
      BY DEF LogInv, EventLogOrdered
    <3>2. {e.sequence : e \in copies} = next..(after - 1)
      BY <2>1
    <3>3. {e.sequence : e \in events'} =
            {e.sequence : e \in events} \cup {e.sequence : e \in copies}
      BY <2>1
    <3>4. 1..(next - 1) \cup next..(after - 1) = 1..(after - 1)
      BY <2>0, <2>1
    <3> QED
      BY <3>1, <3>2, <3>3, <3>4
  <2>8. ASSUME NEW x \in Members, NEW d \in CommandIds,
               receipts'[x][d] # None, receipts'[x][d].status = "accepted"
        PROVE  \E e \in events' : /\ e.command = <<x, d>>
                                  /\ e.sequence = receipts'[x][d].acceptedSequence
    <3>1. PICK stored \in Receipt :
            /\ stored.acceptedSequence = next
            /\ receipts' = [receipts EXCEPT ![m][c] = stored]
      BY <1>2 DEF Logged
    <3>2. CASE <<x, d>> = <<m, c>>
      <4>1. receipts'[x][d] = stored
        BY <2>0, <3>1, <3>2 DEF TypeOK
      <4>2. \E e \in copies : e.sequence = next
        BY <2>0, <2>1
      <4> QED
        BY <2>1, <3>1, <3>2, <4>1, <4>2
    <3>3. CASE <<x, d>> # <<m, c>>
      <4>1. receipts'[x][d] = receipts[x][d]
        BY <2>0, <3>1, <3>3 DEF TypeOK
      <4>2. PICK e \in events : e.command = <<x, d>> /\ e.sequence = receipts[x][d].acceptedSequence
        BY <2>8, <4>1 DEF LogInv, EventLogOrdered
      <4> QED
        BY <2>1, <4>1, <4>2
    <3> QED
      BY <3>2, <3>3
  <2> QED
    BY <2>2, <2>4, <2>5, <2>6, <2>7, <2>8 DEF EventLogOrdered
<1>3. ASSUME LogAlone PROVE LogBounded' /\ EventLogOrdered'
  <2>1. \A m \in Members, c \in CommandIds :
           receipts'[m][c] # None /\ receipts'[m][c].status = "accepted" =>
              receipts[m][c] # None /\ receipts'[m][c] = receipts[m][c]
    BY <1>3 DEF LogAlone
  <2>2. /\ events' = events /\ authority'.roomRevision = authority.roomRevision
        /\ authority'.nextSequence = authority.nextSequence
        /\ authority'.state = authority.state
    BY <1>3 DEF LogAlone
  <2>3. LogBounded'
    BY <2>2 DEF LogInv, LogBounded
  <2>4. ASSUME NEW m \in Members, NEW c \in CommandIds,
               receipts'[m][c] # None, receipts'[m][c].status = "accepted"
        PROVE  \E e \in events' : /\ e.command = <<m, c>>
                                  /\ e.sequence = receipts'[m][c].acceptedSequence
    <3>1. receipts[m][c] # None /\ receipts'[m][c] = receipts[m][c]
      BY <2>1, <2>4
    <3>2. PICK e \in events : e.command = <<m, c>> /\ e.sequence = receipts[m][c].acceptedSequence
      BY <2>4, <3>1 DEF LogInv, EventLogOrdered
    <3> QED
      BY <2>2, <3>1, <3>2
  <2>5. EventLogOrdered'
    BY <2>2, <2>4 DEF LogInv, EventLogOrdered
  <2> QED
    BY <2>3, <2>5
<1> QED
  BY <1>1, <1>2, <1>3, LogCases DEF LogInv

\* The event log is one total order without gaps, for any number of commands,
\* events and destinations, and a receipt names an event of its own command.
THEOREM LogOrdered == Spec => []EventLogOrdered
<1>1. LogInv => EventLogOrdered
  BY DEF LogInv
<1> QED
  BY <1>1, InitLogInv, NextLogInv, PTL DEF Spec

\* No transaction rewrites a receipt, an event or the order of the commands that
\* an earlier one has committed.
THEOREM HistoryKept == Spec => HistoryPermanent
<1> DEFINE Keeps ==
      /\ \A m \in Members, c \in CommandIds :
            receipts[m][c] # None => receipts'[m][c] = receipts[m][c]
      /\ events \subseteq events'
      /\ SubSeq(authority'.state, 1, Len(authority.state)) = authority.state
<1>1. LogInv /\ [Next]_vars => Keeps
  <2> SUFFICES ASSUME LogInv, [Next]_vars PROVE Keeps
    OBVIOUS
  <2>0. authority.state \in Seq(Entries) /\ TypeOK /\ LogBounded /\ IndexSound
    BY DEF LogInv, TypeOK, Authority
  <2>1. ASSUME NEW m \in Members, NEW c \in CommandIds, NEW batch, Logged(m, c, batch)
        PROVE  Keeps
    <3>1. events \subseteq events'
      BY <2>0, <2>1, NewEvents
    <3>2. \A x \in Members, d \in CommandIds :
             receipts[x][d] # None => receipts'[x][d] = receipts[x][d]
      BY <2>0, <2>1 DEF Logged, TypeOK
    <3>3. SubSeq(authority'.state, 1, Len(authority.state)) = authority.state
      <4>1. authority'.state = Append(authority.state, <<m, c>>) /\ <<m, c>> \in Entries
        BY <2>1 DEF Logged, Entries
      <4> QED
        BY <2>0, <4>1
    <3> QED
      BY <3>1, <3>2, <3>3
  <2>2. CASE LogAlone
    <3>1. SubSeq(authority.state, 1, Len(authority.state)) = authority.state
      BY <2>0
    <3> QED
      BY <2>2, <3>1 DEF LogAlone
  <2> QED
    BY <2>0, <2>1, <2>2, LogCases
<1> QED
  BY <1>1, InitLogInv, NextLogInv, PTL DEF Spec, HistoryPermanent

\* No command moves the state past the platform's checks: it takes an active room,
\* a request of the room's own build that parses, and a player or the GM.
THEOREM PlatformGuards == Spec => PlatformHolds
<1> DEFINE Holds ==
      authority'.state # authority.state =>
         LET applied == authority'.state[Len(authority'.state)]
         IN /\ authority.roomStatus = "active"
            /\ Kind[applied[2]] \in {"action", "pause"}
            /\ bindings[applied[1]].capability # "table"
<1>1. LogInv /\ [Next]_vars => Holds
  <2> SUFFICES ASSUME LogInv, [Next]_vars PROVE Holds
    OBVIOUS
  <2>0. authority.state \in Seq(Entries) /\ TypeOK /\ IndexSound
    BY DEF LogInv, TypeOK, Authority
  <2>1. ASSUME NEW m \in Members, NEW c \in CommandIds, NEW batch, Logged(m, c, batch),
               Admissible(m, c)
        PROVE  Holds
    <3>1. authority'.state = Append(authority.state, <<m, c>>) /\ <<m, c>> \in Entries
      BY <2>1 DEF Logged, Entries
    <3>2. authority'.state[Len(authority'.state)] = <<m, c>>
      BY <2>0, <3>1
    <3> QED
      BY <2>1, <3>2 DEF Admissible
  <2>2. CASE LogAlone
    BY <2>2 DEF LogAlone
  <2> QED
    BY <2>0, <2>1, <2>2, LogCases
<1> QED
  BY <1>1, InitLogInv, NextLogInv, PTL DEF Spec, PlatformHolds

-----------------------------------------------------------------------------
(* The seats.                                                              *)

Participants == {m \in Seated : bindings[m].capability # "table"}
Tables == {m \in Seated : bindings[m].capability = "table"}
GmSeats == {m \in Seated : bindings[m].capability = "gm"}

\* A seat always has a code, and it is one that was handed out.
CodesIssued == \A m \in Seated : recovery[m] # None /\ recovery[m] \in issued

\* The strengthening: finitely many seats, each with its code and its holder.
SeatInv ==
    /\ TypeOK /\ IndexSound
    /\ IsFiniteSet(Seated)
    /\ CodesIssued
    /\ OccupancyExact
    /\ GmAgreed

\* A seat is added: an identity without one gets a member that did not exist,
\* with a code that was never handed out.
SeatAdded(u, m, capability, code) ==
    /\ bindings[m] = None
    /\ code \notin issued
    /\ SeatDocuments(u, m, capability, code)
    /\ UNCHANGED audit

\* The three ways the seats change.
PlayerOrTableSeated(u, m, capability, code) ==
    /\ SeatAdded(u, m, capability, code)
    /\ capability \in {"player", "table"}
    /\ IF capability = "table"
       THEN /\ ~authority.tableSeatClaimed
            /\ authority'.tableSeatClaimed
            /\ authority'.participantCount = authority.participantCount
       ELSE /\ authority.participantCount < MaxSeats
            /\ authority'.participantCount = authority.participantCount + 1
            /\ authority'.tableSeatClaimed = authority.tableSeatClaimed
    /\ authority'.gmMemberId = authority.gmMemberId
    /\ UNCHANGED metaGm

GmSeated(u, m, code) ==
    /\ SeatAdded(u, m, "gm", code)
    /\ authority.gmMemberId = None
    /\ authority.participantCount < MaxSeats
    /\ authority'.participantCount = authority.participantCount + 1
    /\ authority'.tableSeatClaimed = authority.tableSeatClaimed
    /\ authority'.gmMemberId = m /\ metaGm' = m

SeatRecovered(u, m, code, fresh) ==
    /\ bindings[m] # None
    /\ recovery[m] = code /\ code \in issued /\ fresh \notin issued
    /\ RebindIndex(u, m)
    /\ bindings' = [bindings EXCEPT ![m].uid = u]
    /\ RotateCode(m, fresh)
    /\ audit' = [audit EXCEPT ![m] = @ + 1]
    /\ UNCHANGED <<authority, metaGm>>

SeatsAlone ==
    /\ UNCHANGED seatVars
    /\ authority'.participantCount = authority.participantCount
    /\ authority'.tableSeatClaimed = authority.tableSeatClaimed
    /\ authority'.gmMemberId = authority.gmMemberId

LEMMA SeatCases ==
    ASSUME TypeOK, [Next]_vars
    PROVE  \/ \E u \in Uids, m \in Members, capability \in Capabilities, code \in Codes :
                 PlayerOrTableSeated(u, m, capability, code)
           \/ \E u \in Uids, m \in Members, code \in Codes : GmSeated(u, m, code)
           \/ \E u \in Uids, m \in Members, code \in Codes, fresh \in Codes :
                 SeatRecovered(u, m, code, fresh)
           \/ SeatsAlone
<1>0. /\ authority \in Authority /\ authority.participantCount \in Nat /\ MaxSeats \in Nat
      /\ authority.tableSeatClaimed \in BOOLEAN
  BY ConstantsAssumption DEF TypeOK, Authority
<1>1. ASSUME NEW u \in Uids, NEW capability \in {"player", "table"}, NEW valid \in BOOLEAN,
             AdmitMember(u, capability, valid)
      PROVE  \E m \in Members, code \in Codes : PlayerOrTableSeated(u, m, capability, code)
  <2>1. PICK m \in Members \ Seated, code \in Codes \ issued :
          CreateSeat(u, m, capability, code)
    BY <1>1 DEF AdmitMember
  <2>2. SeatAdded(u, m, capability, code)
    BY <1>1, <2>1 DEF SeatAdded, CreateSeat, Seated, AdmitMember
  <2>3. IF capability = "table" THEN ~authority.tableSeatClaimed
        ELSE authority.participantCount < MaxSeats
    BY <1>0, <1>1 DEF AdmitMember, DecideAdmitMember
  <2>4. authority' = IF capability = "table"
                     THEN [authority EXCEPT !.tableSeatClaimed = TRUE]
                     ELSE [authority EXCEPT !.participantCount = @ + 1]
    BY <1>1 DEF AdmitMember
  <2>5. /\ IF capability = "table"
           THEN /\ authority'.tableSeatClaimed
                /\ authority'.participantCount = authority.participantCount
           ELSE /\ authority'.participantCount = authority.participantCount + 1
                /\ authority'.tableSeatClaimed = authority.tableSeatClaimed
        /\ authority'.gmMemberId = authority.gmMemberId
    BY <1>0, <2>4 DEF Authority
  <2> QED
    BY <1>1, <2>2, <2>3, <2>5 DEF PlayerOrTableSeated, AdmitMember
<1>2. ASSUME NEW u \in Uids, NEW valid \in BOOLEAN, ClaimSeat(u, valid)
      PROVE  \E m \in Members, code \in Codes : GmSeated(u, m, code)
  <2>1. PICK m \in Members \ Seated, code \in Codes \ issued :
          /\ CreateSeat(u, m, "gm", code)
          /\ authority' = [authority EXCEPT !.participantCount = @ + 1, !.gmMemberId = m]
          /\ metaGm' = m
    BY <1>2 DEF ClaimSeat
  <2>2. SeatAdded(u, m, "gm", code)
    BY <1>2, <2>1 DEF SeatAdded, CreateSeat, Seated, ClaimSeat
  <2>3. authority.gmMemberId = None /\ authority.participantCount < MaxSeats
    BY <1>0, <1>2 DEF ClaimSeat, DecideClaimSeat
  <2>4. /\ authority'.participantCount = authority.participantCount + 1
        /\ authority'.tableSeatClaimed = authority.tableSeatClaimed
        /\ authority'.gmMemberId = m
    BY <1>0, <2>1 DEF Authority
  <2> QED
    BY <2>1, <2>2, <2>3, <2>4 DEF GmSeated
<1>3. ASSUME NEW u \in Uids, NEW code \in issued, RecoverSeat(u, code)
      PROVE  \E m \in Members, fresh \in Codes : SeatRecovered(u, m, code, fresh) /\ code \in Codes
  BY <1>3 DEF RecoverSeat, RecoverableSeats, Seated, TypeOK, SeatRecovered
<1>4. ASSUME NEW u \in Uids, NEW c \in CommandIds, NEW expected \in KnownRevisions,
             SubmitRoomCommand(u, c, expected)
      PROVE  SeatsAlone
  <2>1. PICK m \in Members, capability \in Capabilities :
          \/ ReplayCommand(m, c)
          \/ RejectCommand(m, capability, c, expected)
          \/ AcceptCommand(m, capability, c, expected)
    BY <1>4, CommandCases
  <2>2. CASE ReplayCommand(m, c) \/ RejectCommand(m, capability, c, expected)
    BY <2>2 DEF ReplayCommand, RejectCommand, SeatsAlone
  <2>3. CASE AcceptCommand(m, capability, c, expected)
    <3>1. PICK batch : authority' = Committed(m, c, batch)
      BY <2>3 DEF AcceptCommand
    <3> QED
      BY <1>0, <2>3, <3>1 DEF AcceptCommand, SeatsAlone, Committed, Authority
  <2> QED
    BY <2>1, <2>2, <2>3
<1>5. ASSUME ArchiveRoom \/ \E status \in {"open", "closed"} : SetAdmission(status)
      PROVE  SeatsAlone
  BY <1>0, <1>5 DEF ArchiveRoom, SetAdmission, SeatsAlone, Authority
<1>6. CASE UNCHANGED vars
  BY <1>6 DEF vars, SeatsAlone
<1> QED
  BY <1>1, <1>2, <1>3, <1>4, <1>5, <1>6 DEF Next, Capabilities, TypeOK

-----------------------------------------------------------------------------
\* What a new seat, and a seat that changes hands, do to who is seated.

LEMMA AddedSeats ==
    ASSUME TypeOK, NEW u \in Uids, NEW m \in Members, NEW capability \in Capabilities,
           NEW code, SeatAdded(u, m, capability, code)
    PROVE  /\ m \notin Seated /\ Seated' = Seated \cup {m}
           /\ bindings'[m] = [uid |-> u, capability |-> capability]
           /\ \A x \in Members : x # m => bindings'[x] = bindings[x] /\ recovery'[x] = recovery[x]
           /\ recovery'[m] = code /\ issued' = issued \cup {code}
<1>1. [uid |-> u, capability |-> capability] # None
  BY NoneAssumption DEF Seat
<1>2. /\ bindings'[m] = [uid |-> u, capability |-> capability]
      /\ \A x \in Members : x # m => bindings'[x] = bindings[x] /\ recovery'[x] = recovery[x]
      /\ recovery'[m] = code /\ issued' = issued \cup {code}
  BY DEF SeatAdded, SeatDocuments, TypeOK
<1> QED
  BY <1>1, <1>2 DEF SeatAdded, Seated

LEMMA RecoveredSeats ==
    ASSUME TypeOK, NEW u \in Uids, NEW m \in Members, NEW code, NEW fresh,
           SeatRecovered(u, m, code, fresh)
    PROVE  /\ Seated' = Seated
           /\ \A x \in Seated : bindings'[x].capability = bindings[x].capability
           /\ \A x \in Members : x # m => bindings'[x] = bindings[x] /\ recovery'[x] = recovery[x]
           /\ recovery'[m] = fresh /\ issued' = issued \cup {fresh}
<1>1. bindings[m] \in Seat
  BY DEF SeatRecovered, TypeOK
<1>2. /\ bindings'[m] = [bindings[m] EXCEPT !.uid = u]
      /\ \A x \in Members : x # m => bindings'[x] = bindings[x] /\ recovery'[x] = recovery[x]
      /\ recovery'[m] = fresh /\ issued' = issued \cup {fresh}
  BY DEF SeatRecovered, RotateCode, TypeOK
<1>3. bindings'[m] \in Seat /\ bindings'[m].capability = bindings[m].capability
  BY <1>1, <1>2 DEF Seat
<1>4. bindings'[m] # None
  BY <1>3, NoneAssumption
<1> QED
  BY <1>2, <1>3, <1>4 DEF SeatRecovered, Seated

\* Adding a seat counts it on its side, and on no other.
LEMMA AddedCounts ==
    ASSUME TypeOK, IsFiniteSet(Seated), NEW u \in Uids, NEW m \in Members,
           NEW capability \in Capabilities, NEW code, SeatAdded(u, m, capability, code)
    PROVE  /\ IsFiniteSet(Seated)'
           /\ Participants' = IF capability = "table" THEN Participants ELSE Participants \cup {m}
           /\ Tables' = IF capability = "table" THEN Tables \cup {m} ELSE Tables
           /\ GmSeats' = IF capability = "gm" THEN GmSeats \cup {m} ELSE GmSeats
           /\ m \notin Participants /\ m \notin Tables
           /\ IsFiniteSet(Participants) /\ IsFiniteSet(Tables)
           /\ Cardinality(Participants) \in Nat /\ Cardinality(Tables) \in Nat
           /\ Cardinality(Participants \cup {m}) = Cardinality(Participants) + 1
           /\ Cardinality(Tables \cup {m}) = Cardinality(Tables) + 1
<1>1. /\ m \notin Seated /\ Seated' = Seated \cup {m}
      /\ bindings'[m].capability = capability
      /\ \A x \in Seated : bindings'[x].capability = bindings[x].capability
  <2>1. /\ m \notin Seated /\ Seated' = Seated \cup {m}
        /\ bindings'[m] = [uid |-> u, capability |-> capability]
        /\ \A x \in Members : x # m => bindings'[x] = bindings[x]
    BY AddedSeats
  <2>2. \A x \in Seated : x \in Members /\ x # m
    BY <2>1 DEF Seated
  <2> QED
    BY <2>1, <2>2
<1>2. IsFiniteSet(Seated)'
  BY <1>1, FS_AddElement
<1>3. /\ Participants' = IF capability = "table" THEN Participants ELSE Participants \cup {m}
      /\ Tables' = IF capability = "table" THEN Tables \cup {m} ELSE Tables
      /\ GmSeats' = IF capability = "gm" THEN GmSeats \cup {m} ELSE GmSeats
  BY <1>1 DEF Participants, Tables, GmSeats
<1>4. /\ IsFiniteSet(Participants) /\ IsFiniteSet(Tables)
      /\ m \notin Participants /\ m \notin Tables
  <2>1. Participants \in SUBSET Seated /\ Tables \in SUBSET Seated
    BY DEF Participants, Tables
  <2> QED
    BY <1>1, <2>1, FS_Subset
<1> QED
  BY <1>2, <1>3, <1>4, FS_AddElement, FS_CardinalityType

LEMMA InitSeatInv == Init => SeatInv
<1> SUFFICES ASSUME Init PROVE SeatInv
  OBVIOUS
<1>1. TypeOK /\ IndexSound
  BY InitTypeOK, InitIndexSound
<1>2. MaxSeats \in Nat \ {0}
  BY ConstantsAssumption
<1>3. ASSUME NEW u \in Uids, NEW m \in Members, NEW code \in Codes, ProvisionedRoom(u, m, code)
      PROVE  SeatInv
  <2>1. [uid |-> u, capability |-> "gm"] # None /\ code # None /\ m # None
    BY NoneAssumption, ConstantsAssumption DEF Seat, Capabilities
  <2>2. Seated = {m} /\ bindings[m].capability = "gm" /\ recovery[m] = code /\ issued = {code}
    BY <1>3, <2>1 DEF ProvisionedRoom, Seated
  <2>3. Participants = {m} /\ Tables = {} /\ GmSeats = {m}
    BY <2>2 DEF Participants, Tables, GmSeats
  <2>4. Cardinality({m}) = 1 /\ Cardinality({}) = 0 /\ IsFiniteSet({m})
    BY FS_Singleton, FS_EmptySet
  <2>5. authority.participantCount = 1 /\ authority.tableSeatClaimed = FALSE
        /\ authority.gmMemberId = m /\ metaGm = m
    BY <1>3, <2>1 DEF ProvisionedRoom, FreshAuthority
  <2>6. OccupancyExact
    <3>1. /\ authority.participantCount = Cardinality(Participants)
          /\ authority.participantCount <= MaxSeats
          /\ Cardinality(Tables) = IF authority.tableSeatClaimed THEN 1 ELSE 0
      BY <1>2, <2>3, <2>4, <2>5
    <3> QED
      BY <3>1 DEF OccupancyExact, Participants, Tables
  <2>7. GmAgreed
    BY <2>1, <2>3, <2>5 DEF GmAgreed, GmSeats
  <2>8. CodesIssued
    BY <2>1, <2>2 DEF CodesIssued
  <2> QED
    BY <1>1, <2>2, <2>4, <2>6, <2>7, <2>8 DEF SeatInv
<1>4. ASSUME UnclaimedRoom PROVE SeatInv
  <2>1. Seated = {}
    BY <1>4 DEF UnclaimedRoom, Seated
  <2>2. Participants = {} /\ Tables = {} /\ GmSeats = {}
    BY <2>1 DEF Participants, Tables, GmSeats
  <2>3. Cardinality({}) = 0 /\ IsFiniteSet({})
    BY FS_EmptySet
  <2>4. authority.participantCount = 0 /\ authority.tableSeatClaimed = FALSE
        /\ authority.gmMemberId = None /\ metaGm = None
    BY <1>4 DEF UnclaimedRoom, FreshAuthority
  <2>5. OccupancyExact
    BY <1>2, <2>2, <2>3, <2>4 DEF OccupancyExact, Participants, Tables
  <2>6. GmAgreed
    BY <2>2, <2>4 DEF GmAgreed, GmSeats
  <2>7. CodesIssued
    BY <2>1 DEF CodesIssued
  <2> QED
    BY <1>1, <2>1, <2>3, <2>5, <2>6, <2>7 DEF SeatInv
<1> QED
  BY <1>3, <1>4 DEF Init

LEMMA NextSeatInv == SeatInv /\ [Next]_vars => SeatInv'
<1> SUFFICES ASSUME SeatInv, [Next]_vars PROVE SeatInv'
  OBVIOUS
<1>1. TypeOK /\ TypeOK' /\ IndexSound'
  BY NextTypeOK, NextIndexSound DEF SeatInv
<1>2. /\ authority.participantCount = Cardinality(Participants)
      /\ authority.participantCount <= MaxSeats
      /\ Cardinality(Tables) = IF authority.tableSeatClaimed THEN 1 ELSE 0
      /\ GmSeats = {authority.gmMemberId} \ {None} /\ metaGm = authority.gmMemberId
      /\ IsFiniteSet(Seated)
      /\ MaxSeats \in Nat
      /\ authority.participantCount \in Nat
      /\ authority.tableSeatClaimed \in BOOLEAN
  BY <1>1, ConstantsAssumption
     DEF SeatInv, OccupancyExact, GmAgreed, Participants, Tables, GmSeats, TypeOK, Authority
<1>3. ASSUME IsFiniteSet(Seated)', CodesIssued',
             authority'.participantCount = Cardinality(Participants'),
             authority'.participantCount <= MaxSeats,
             Cardinality(Tables') = IF authority'.tableSeatClaimed THEN 1 ELSE 0,
             GmSeats' = {authority'.gmMemberId} \ {None}, metaGm' = authority'.gmMemberId
      PROVE  SeatInv'
  BY <1>1, <1>3 DEF SeatInv, OccupancyExact, GmAgreed, Participants, Tables, GmSeats
<1>4. ASSUME NEW u \in Uids, NEW m \in Members, NEW capability \in Capabilities,
             NEW code \in Codes, SeatAdded(u, m, capability, code)
      PROVE  CodesIssued'
  <2>1. code # None
    BY NoneAssumption
  <2> QED
    <3>1. /\ m \notin Seated /\ Seated' = Seated \cup {m}
          /\ bindings'[m] = [uid |-> u, capability |-> capability]
          /\ \A x \in Members : x # m => bindings'[x] = bindings[x] /\ recovery'[x] = recovery[x]
          /\ recovery'[m] = code /\ issued' = issued \cup {code}
      BY <1>1, <1>4, AddedSeats
    <3>2. \A x \in Seated : x \in Members /\ recovery[x] # None /\ recovery[x] \in issued
      BY DEF SeatInv, CodesIssued, Seated
    <3> QED
      BY <2>1, <3>1, <3>2 DEF CodesIssued
<1>5. ASSUME NEW u \in Uids, NEW m \in Members, NEW capability \in Capabilities,
             NEW code \in Codes, PlayerOrTableSeated(u, m, capability, code)
      PROVE  SeatInv'
  <2>1. SeatAdded(u, m, capability, code) /\ capability # "gm"
    BY <1>5 DEF PlayerOrTableSeated
  <2>2. CASE capability = "table"
    <3>1. Participants' = Participants /\ Tables' = Tables \cup {m} /\ GmSeats' = GmSeats
          /\ IsFiniteSet(Seated)' /\ Cardinality(Tables \cup {m}) = Cardinality(Tables) + 1
      BY <1>1, <1>2, <2>1, <2>2, AddedCounts
    <3> QED
      BY <1>2, <1>3, <1>4, <1>5, <2>1, <2>2, <3>1 DEF PlayerOrTableSeated
  <2>3. CASE capability # "table"
    <3>1. Participants' = Participants \cup {m} /\ Tables' = Tables /\ GmSeats' = GmSeats
          /\ IsFiniteSet(Seated)'
          /\ Cardinality(Participants \cup {m}) = Cardinality(Participants) + 1
      BY <1>1, <1>2, <2>1, <2>3, AddedCounts
    <3>2. authority'.participantCount <= MaxSeats
      BY <1>2, <1>5, <2>3 DEF PlayerOrTableSeated
    <3> QED
      BY <1>2, <1>3, <1>4, <1>5, <2>1, <2>3, <3>1, <3>2 DEF PlayerOrTableSeated
  <2> QED
    BY <2>2, <2>3
<1>6. ASSUME NEW u \in Uids, NEW m \in Members, NEW code \in Codes, GmSeated(u, m, code)
      PROVE  SeatInv'
  <2>1. SeatAdded(u, m, "gm", code) /\ "gm" \in Capabilities
    BY <1>6 DEF GmSeated, Capabilities
  <2>2. /\ Participants' = Participants \cup {m} /\ Tables' = Tables
        /\ GmSeats' = GmSeats \cup {m} /\ IsFiniteSet(Seated)'
        /\ Cardinality(Participants \cup {m}) = Cardinality(Participants) + 1
    BY <1>1, <1>2, <2>1, AddedCounts
  <2>3. GmSeats = {} /\ m # None
    BY <1>2, <1>6, ConstantsAssumption DEF GmSeated
  <2>4. authority'.participantCount <= MaxSeats
    BY <1>2, <1>6 DEF GmSeated
  <2> QED
    BY <1>2, <1>3, <1>4, <1>6, <2>1, <2>2, <2>3, <2>4 DEF GmSeated
<1>7. ASSUME NEW u \in Uids, NEW m \in Members, NEW code \in Codes, NEW fresh \in Codes,
             SeatRecovered(u, m, code, fresh)
      PROVE  SeatInv'
  <2>1. /\ Seated' = Seated
        /\ \A x \in Seated : bindings'[x].capability = bindings[x].capability
        /\ \A x \in Members : x # m => recovery'[x] = recovery[x]
        /\ recovery'[m] = fresh /\ issued' = issued \cup {fresh}
    BY <1>1, <1>7, RecoveredSeats
  <2>2. Participants' = Participants /\ Tables' = Tables /\ GmSeats' = GmSeats
    BY <2>1 DEF Participants, Tables, GmSeats
  <2>3. fresh # None
    BY NoneAssumption
  <2>4. CodesIssued'
    BY <2>1, <2>3 DEF SeatInv, CodesIssued, Seated
  <2> QED
    BY <1>2, <1>3, <1>7, <2>1, <2>2, <2>4 DEF SeatRecovered
<1>8. CASE SeatsAlone
  <2>1. Seated' = Seated /\ Participants' = Participants /\ Tables' = Tables /\ GmSeats' = GmSeats
        /\ CodesIssued'
    BY <1>8 DEF SeatsAlone, seatVars, Seated, Participants, Tables, GmSeats, SeatInv, CodesIssued
  <2> QED
    BY <1>2, <1>3, <1>8, <2>1 DEF SeatsAlone, seatVars
<1> QED
  BY <1>1, <1>5, <1>6, <1>7, <1>8, SeatCases

-----------------------------------------------------------------------------
\* Theorems.

\* For any capacity and any number of identities, the counters the capacity check
\* reads count exactly the seats there are, and never pass the cap.
THEOREM OccupancyCounted == Spec => []OccupancyExact
<1>1. SeatInv => OccupancyExact
  BY DEF SeatInv
<1> QED
  BY <1>1, InitSeatInv, NextSeatInv, PTL DEF Spec

\* There is never a second GM, and the two documents that name the GM agree.
THEOREM OneGm == Spec => []GmAgreed
<1>1. SeatInv => GmAgreed
  BY DEF SeatInv
<1> QED
  BY <1>1, InitSeatInv, NextSeatInv, PTL DEF Spec

\* Whoever can act can come back with the right secret to an active room: to one
\* closed for admission, to a full one, and to a seat that was recovered from
\* another identity.
THEOREM MembersReturn == Spec => []SeatedCanReturn
<1>1. SeatInv => SeatedCanReturn
  <2> SUFFICES ASSUME SeatInv, NEW u \in Uids, uidBindings[u] # None,
                      authority.roomStatus = "active"
               PROVE  "reclaim" = IF uidBindings[u].capability = "gm"
                                  THEN DecideClaimSeat(u, TRUE)
                                  ELSE DecideAdmitMember(u, uidBindings[u].capability, TRUE)
    BY DEF SeatedCanReturn
  <2>1. CASE uidBindings[u].capability = "gm"
    <3>1. uidBindings[u].memberId \in GmSeats
      BY <2>1 DEF SeatInv, IndexSound, GmSeats, Seated, TypeOK, SeatIndex
    <3>2. authority.gmMemberId = uidBindings[u].memberId
      BY <3>1 DEF SeatInv, GmAgreed, GmSeats
    <3> QED
      BY <2>1, <3>2 DEF DecideClaimSeat
  <2>2. CASE uidBindings[u].capability # "gm"
    BY <2>2 DEF DecideAdmitMember
  <2> QED
    BY <2>1, <2>2
<1> QED
  BY <1>1, InitSeatInv, NextSeatInv, PTL DEF Spec

\* A recovery code works once, and every seat always has one: a seat changes hands
\* only with an audit entry and a code never handed out before.
THEOREM CodesRotate == Spec => RedemptionRotatesCode
<1> DEFINE Rotates ==
      \A m \in Seated :
          /\ recovery[m] # None
          /\ bindings'[m].capability = bindings[m].capability
          /\ IF bindings'[m].uid # bindings[m].uid \/ recovery'[m] # recovery[m]
             THEN audit'[m] = audit[m] + 1 /\ recovery'[m] \notin issued
             ELSE audit'[m] = audit[m]
<1>1. SeatInv /\ [Next]_vars => Rotates
  <2> SUFFICES ASSUME SeatInv, [Next]_vars, NEW x \in Seated
               PROVE  /\ bindings'[x].capability = bindings[x].capability
                      /\ IF bindings'[x].uid # bindings[x].uid \/ recovery'[x] # recovery[x]
                         THEN audit'[x] = audit[x] + 1 /\ recovery'[x] \notin issued
                         ELSE audit'[x] = audit[x]
    BY DEF SeatInv, CodesIssued
  <2>1. TypeOK /\ x \in Members /\ bindings[x] # None
    BY DEF SeatInv, Seated
  <2>2. ASSUME bindings'[x] = bindings[x], recovery'[x] = recovery[x], audit'[x] = audit[x]
        PROVE  /\ bindings'[x].capability = bindings[x].capability
               /\ IF bindings'[x].uid # bindings[x].uid \/ recovery'[x] # recovery[x]
                  THEN audit'[x] = audit[x] + 1 /\ recovery'[x] \notin issued
                  ELSE audit'[x] = audit[x]
    BY <2>2
  <2>3. ASSUME NEW u \in Uids, NEW m \in Members, NEW capability \in Capabilities,
               NEW code \in Codes, SeatAdded(u, m, capability, code)
        PROVE  bindings'[x] = bindings[x] /\ recovery'[x] = recovery[x] /\ audit'[x] = audit[x]
    BY <2>1, <2>3, AddedSeats DEF SeatAdded
  <2>4. ASSUME NEW u \in Uids, NEW m \in Members, NEW code \in Codes, NEW fresh \in Codes,
               SeatRecovered(u, m, code, fresh)
        PROVE  /\ bindings'[x].capability = bindings[x].capability
               /\ IF bindings'[x].uid # bindings[x].uid \/ recovery'[x] # recovery[x]
                  THEN audit'[x] = audit[x] + 1 /\ recovery'[x] \notin issued
                  ELSE audit'[x] = audit[x]
    <3>1. /\ bindings'[x].capability = bindings[x].capability
          /\ x # m => bindings'[x] = bindings[x] /\ recovery'[x] = recovery[x]
          /\ recovery'[m] = fresh
      BY <2>1, <2>4, RecoveredSeats
    <3>2. /\ audit'[m] = audit[m] + 1
          /\ x # m => audit'[x] = audit[x]
          /\ recovery[m] = code /\ code \in issued /\ fresh \notin issued
      BY <2>1, <2>4 DEF SeatRecovered, TypeOK
    <3>3. CASE x = m
      BY <3>1, <3>2, <3>3
    <3>4. CASE x # m
      BY <3>1, <3>2, <3>4
    <3> QED
      BY <3>3, <3>4
  <2>5. CASE SeatsAlone
    BY <2>2, <2>5 DEF SeatsAlone, seatVars
  <2> QED
    BY <2>1, <2>2, <2>3, <2>4, <2>5, SeatCases DEF PlayerOrTableSeated, GmSeated, Capabilities
<1>2. [][Rotates]_vars => RedemptionRotatesCode
  BY PTL DEF RedemptionRotatesCode
<1> QED
  BY <1>1, <1>2, InitSeatInv, NextSeatInv, PTL DEF Spec, RedemptionRotatesCode

-----------------------------------------------------------------------------
\* The log its readers see.

LEMMA InitRoomLog ==
    ASSUME NEW P \in SUBSET Partitions
    PROVE  Init => Log(P)!Init
<1> SUFFICES ASSUME Init PROVE Log(P)!Init
  OBVIOUS
<1>1. events = {} /\ authority.nextSequence = 1 /\ authority.roomRevision = 0
  BY DEF Init, ProvisionedRoom, UnclaimedRoom, FreshAuthority
<1> QED
  BY <1>1 DEF Log!Init, CopiesIn

LEMMA NextRoomLog ==
    ASSUME NEW P \in SUBSET Partitions
    PROVE  LogInv /\ [Next]_vars => [Log(P)!Commit]_(Log(P)!logVars)
<1> SUFFICES ASSUME LogInv, [Next]_vars
             PROVE  [Log(P)!Commit]_(Log(P)!logVars)
  OBVIOUS
<1>0. /\ authority.nextSequence \in Nat \ {0} /\ authority.roomRevision \in Nat
      /\ TypeOK /\ LogBounded /\ IndexSound /\ events \subseteq EventCopy
  BY DEF LogInv, TypeOK, Authority
<1>1. ASSUME NEW m \in Members, NEW c \in CommandIds, NEW batch, Logged(m, c, batch)
      PROVE  Log(P)!Commit
  <2> DEFINE next == authority.nextSequence
             copies == Envelopes(m, c, batch)
             new == {[partition |-> e.partition, sequence |-> e.sequence,
                      roomRevision |-> e.roomRevision] : e \in {d \in copies : d.partition \in P}}
  <2>1. /\ Len(batch) \in Nat \ {0}
        /\ \A e \in copies : /\ e.roomRevision = authority.roomRevision + 1
                             /\ e.sequence \in next..(next + Len(batch) - 1)
        /\ events' = events \cup copies
    BY <1>0, <1>1, NewEvents
  <2>2. /\ authority'.roomRevision = authority.roomRevision + 1
        /\ authority'.nextSequence = next + Len(batch)
    BY <1>1 DEF Logged
  <2> HIDE DEF copies
  <2>3. CopiesIn(P)' = CopiesIn(P) \cup new
    BY <2>1 DEF CopiesIn
  <2>4. /\ (next - 1) + 1 = next /\ authority'.nextSequence - 1 = next + Len(batch) - 1
        /\ authority'.nextSequence - 1 \in Nat /\ next - 1 < authority'.nextSequence - 1
    BY <1>0, <2>1, <2>2
  <2>5. new \subseteq Log(P)!Numbered((next - 1) + 1, authority'.nextSequence - 1,
                                      authority.roomRevision + 1)
    BY <2>1, <2>4 DEF Log!Numbered
  <2> QED
    BY <2>2, <2>3, <2>4, <2>5 DEF Log!Commit
<1>2. ASSUME LogAlone PROVE UNCHANGED Log(P)!logVars
  BY <1>2 DEF LogAlone, Log!logVars, CopiesIn
<1> QED
  BY <1>0, <1>1, <1>2, LogCases

\* Refinement: whichever partitions a viewer may read, what it finds there is a log: the
\* events of one command at a time, behind all earlier ones and under the next revision.
\* Admission, recovery, refusals and replays leave it alone.
THEOREM ReadersSeeALog ==
    ASSUME NEW P \in SUBSET Partitions
    PROVE  Spec => RefinesRoomLog(P)
<1>1. Init => Log(P)!Init
  BY InitRoomLog
<1>2. LogInv /\ [Next]_vars => [Log(P)!Commit]_(Log(P)!logVars)
  BY NextRoomLog
<1> QED
  BY <1>1, <1>2, InitLogInv, NextLogInv, PTL DEF Spec, RefinesRoomLog, Log!Spec
=============================================================================
