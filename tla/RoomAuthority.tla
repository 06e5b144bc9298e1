---------------------------- MODULE RoomAuthority ----------------------------
(***************************************************************************)
(* One room's Firestore documents and the trusted functions that write     *)
(* them: admitMember, claimSeat, recoverSeat and submitRoomCommand.  Each  *)
(* function decides and writes inside one serializable Firestore           *)
(* transaction, so each is one atomic action here; concurrency between     *)
(* callers is the interleaving of these actions, and a lost reply, a       *)
(* double click or a client retry is the same call made again later.       *)
(*                                                                         *)
(* A denied or reclaiming call writes nothing and is a stuttering step.    *)
(* Secrets are abstracted to whether they verify; a recovery-code hash is  *)
(* the code it verifies; the template state is the sequence of commands    *)
(* reduced into it, of which every viewer's view is a function.            *)
(***************************************************************************)
EXTENDS Integers, Sequences, FiniteSets

CONSTANTS
    Uids,        \* Firebase Auth identities
    Members,     \* seat identities that may be minted (crypto.randomUUID)
    Codes,       \* recovery codes that may be generated
    CommandIds,  \* client-generated command IDs
    Kind,        \* [CommandIds -> Kinds]: what a retry resends unchanged
    Batches,     \* logical events the template may decide, with destinations
    MaxSeats,    \* MAX_PARTICIPANT_SEATS
    None         \* an absent document, or null

Capabilities == {"player", "gm", "table"}

\* What the server's checks tell apart in a request: an ordinary command, a
\* safety Pause, one from another template build, one over the payload limit
\* and one parseCommand does not recognise.
Kinds == {"action", "pause", "otherBuild", "oversized", "unknown"}

\* The destinations one logical event is copied to; "actor" is the submitting
\* member's own partition.
Destinations == {"shared", "gm", "actor"}

ASSUME ConstantsAssumption ==
    /\ Kind \in [CommandIds -> Kinds]
    /\ Batches \subseteq Seq((SUBSET Destinations) \ {{}}) \ {<<>>}
    /\ MaxSeats \in Nat \ {0}
    /\ None \notin Members
    /\ Members \cap {"gm", "table", "shared"} = {}

VARIABLES
    authority,    \* authority/current
    metaGm,       \* meta/current.gmMemberId, the client-readable mirror
    bindings,     \* bindings/{memberId}
    uidBindings,  \* uidBindings/{uid}
    recovery,     \* recovery/{memberId}
    audit,        \* number of SeatRecovered entries naming each member
    receipts,     \* receipts/{memberId}_{commandId}
    events,       \* events/{partition}/items/{sequence}
    projections,  \* projections/{viewerId}
    issued,       \* history: every recovery code ever handed out
    answers       \* history: every command result ever returned to a member

seatVars == <<metaGm, bindings, uidBindings, recovery, audit, issued>>
commandVars == <<receipts, events, answers>>
vars == <<authority, seatVars, commandVars, projections>>

-----------------------------------------------------------------------------
\* Document shapes.

Viewers == Members \cup {"gm", "table"}
Partitions == Members \cup {"shared", "gm"}
Entries == Members \X CommandIds

Seat == [uid : Uids, capability : Capabilities]
SeatIndex == [memberId : Members, capability : Capabilities]
\* The stable codes a room command is refused with; "DECLINED" stands for
\* every code of the template's own, "none" for an acceptance.
ResultCodes == {"none", "REVISION_CONFLICT", "ROOM_ARCHIVED",
                "TEMPLATE_VERSION_MISMATCH", "ROLE_FORBIDDEN", "PAYLOAD_TOO_LARGE",
                "UNKNOWN_ACTION", "DECLINED"}

Receipt == [status : {"accepted", "rejected"}, code : ResultCodes,
            roomRevision : Nat, acceptedSequence : Nat]
EventCopy == [partition : Partitions, sequence : Nat \ {0}, command : Entries,
              roomRevision : Nat, actor : Members \cup {"anonymous"}]
Projection == [roomRevision : Nat, view : Seq(Entries)]
Answer == [command : Entries, status : {"accepted", "rejected"}, code : ResultCodes,
           roomRevision : Nat]
Authority == [roomRevision : Nat, nextSequence : Nat \ {0},
              roomStatus : {"active", "archived"},
              admissionStatus : {"open", "closed"},
              participantCount : Nat, tableSeatClaimed : BOOLEAN,
              gmMemberId : Members \cup {None}, state : Seq(Entries)]

\* An absent document is no document, and no hash.
ASSUME NoneAssumption == None \notin Seat \cup SeatIndex \cup Codes \cup Receipt \cup Projection

Seated == {m \in Members : bindings[m] # None}
ViewerId(m, capability) == IF capability = "player" THEN m ELSE capability

\* createRoom's authority/current, with or without its GM.
FreshAuthority(gm) ==
    [roomRevision |-> 0, nextSequence |-> 1, roomStatus |-> "active",
     admissionStatus |-> "open",
     participantCount |-> IF gm = None THEN 0 ELSE 1,
     tableSeatClaimed |-> FALSE, gmMemberId |-> gm, state |-> <<>>]

\* The room as createRoom leaves it: its creator seated as GM.
ProvisionedRoom(u, m, code) ==
    /\ authority = FreshAuthority(m)
    /\ metaGm = m
    /\ bindings = [x \in Members |->
                     IF x = m THEN [uid |-> u, capability |-> "gm"] ELSE None]
    /\ uidBindings = [x \in Uids |->
                     IF x = u THEN [memberId |-> m, capability |-> "gm"] ELSE None]
    /\ recovery = [x \in Members |-> IF x = m THEN code ELSE None]
    /\ projections = [v \in Viewers |->
                     IF v = "gm" THEN [roomRevision |-> 0, view |-> <<>>] ELSE None]
    /\ issued = {code}

\* A room whose GM seat is still to be claimed, the one claimSeat serves.
UnclaimedRoom ==
    /\ authority = FreshAuthority(None)
    /\ metaGm = None
    /\ bindings = [x \in Members |-> None]
    /\ uidBindings = [x \in Uids |-> None]
    /\ recovery = [x \in Members |-> None]
    /\ projections = [v \in Viewers |-> None]
    /\ issued = {}

Init ==
    /\ \/ \E u \in Uids, m \in Members, code \in Codes : ProvisionedRoom(u, m, code)
       \/ UnclaimedRoom
    /\ audit = [m \in Members |-> 0]
    /\ receipts = [m \in Members |-> [c \in CommandIds |-> None]]
    /\ events = {}
    /\ answers = {}

-----------------------------------------------------------------------------
\* Admission: admitMember and claimSeat.

\* Mutants of the two decisions: capacity off by one; closure considered before
\* the caller's own seat; a GM claim that overlooks the seated GM.
AdmitOneTooMany(u, capability, secretValid) ==
    IF authority.roomStatus = "archived" THEN "ROOM_ARCHIVED"
    ELSE IF ~secretValid THEN "INVALID_PASSPHRASE"
    ELSE IF uidBindings[u] # None THEN
        IF uidBindings[u].capability # capability THEN "ROLE_FORBIDDEN" ELSE "reclaim"
    ELSE IF authority.admissionStatus = "closed" THEN "ADMISSION_CLOSED"
    ELSE IF \/ capability = "table" /\ authority.tableSeatClaimed
            \/ capability # "table" /\ authority.participantCount > MaxSeats
         THEN "ROOM_FULL"
    ELSE "create"

AdmitClosedFirst(u, capability, secretValid) ==
    IF authority.roomStatus = "archived" THEN "ROOM_ARCHIVED"
    ELSE IF ~secretValid THEN "INVALID_PASSPHRASE"
    ELSE IF authority.admissionStatus = "closed" THEN "ADMISSION_CLOSED"
    ELSE IF uidBindings[u] # None THEN
        IF uidBindings[u].capability # capability THEN "ROLE_FORBIDDEN" ELSE "reclaim"
    ELSE IF \/ capability = "table" /\ authority.tableSeatClaimed
            \/ capability # "table" /\ authority.participantCount >= MaxSeats
         THEN "ROOM_FULL"
    ELSE "create"

ClaimOverSeatedGm(u, secretValid) ==
    IF authority.roomStatus = "archived" THEN "ROOM_ARCHIVED"
    ELSE IF ~secretValid THEN "INVALID_PASSPHRASE"
    ELSE IF uidBindings[u] # None THEN "ROLE_FORBIDDEN"
    ELSE IF authority.admissionStatus = "closed" THEN "ADMISSION_CLOSED"
    ELSE IF authority.participantCount >= MaxSeats THEN "ROOM_FULL"
    ELSE "create"

\* The outcome of an AdmitMember request: "create", "reclaim" or an error code.
DecideAdmitMember(u, capability, secretValid) ==
    IF authority.roomStatus = "archived" THEN "ROOM_ARCHIVED"
    ELSE IF ~secretValid THEN "INVALID_PASSPHRASE"
    ELSE IF uidBindings[u] # None THEN
        IF uidBindings[u].capability # capability THEN "ROLE_FORBIDDEN" ELSE "reclaim"
    ELSE IF authority.admissionStatus = "closed" THEN "ADMISSION_CLOSED"
    ELSE IF \/ capability = "table" /\ authority.tableSeatClaimed
            \/ capability # "table" /\ authority.participantCount >= MaxSeats
         THEN "ROOM_FULL"
    ELSE "create"

\* The outcome of a ClaimSeat request; a GM binding that is not the seated GM's
\* never reclaims.
DecideClaimSeat(u, secretValid) ==
    IF authority.roomStatus = "archived" THEN "ROOM_ARCHIVED"
    ELSE IF ~secretValid THEN "INVALID_PASSPHRASE"
    ELSE IF uidBindings[u] # None THEN
        IF uidBindings[u].capability # "gm" THEN "ROLE_FORBIDDEN"
        ELSE IF authority.gmMemberId # uidBindings[u].memberId THEN "GM_SEAT_TAKEN"
        ELSE "reclaim"
    ELSE IF authority.gmMemberId # None THEN "GM_SEAT_TAKEN"
    ELSE IF authority.admissionStatus = "closed" THEN "ADMISSION_CLOSED"
    ELSE IF authority.participantCount >= MaxSeats THEN "ROOM_FULL"
    ELSE "create"

SeatDocuments(u, m, capability, code) ==
    /\ bindings' = [bindings EXCEPT ![m] = [uid |-> u, capability |-> capability]]
    /\ uidBindings' = [uidBindings EXCEPT ![u] = [memberId |-> m, capability |-> capability]]
    /\ recovery' = [recovery EXCEPT ![m] = code]
    /\ issued' = issued \cup {code}

\* Mutant: the first projection claims revision 0, as it did before the fix.
CreateSeatAtRevisionZero(u, m, capability, code) ==
    /\ SeatDocuments(u, m, capability, code)
    /\ projections' = [projections EXCEPT ![ViewerId(m, capability)] =
                         [roomRevision |-> 0, view |-> authority.state]]

\* The seat's documents, and its first projection at the room's live revision.
CreateSeat(u, m, capability, code) ==
    /\ SeatDocuments(u, m, capability, code)
    /\ projections' = [projections EXCEPT ![ViewerId(m, capability)] =
                         [roomRevision |-> authority.roomRevision, view |-> authority.state]]

AdmitMember(u, capability, secretValid) ==
    /\ DecideAdmitMember(u, capability, secretValid) = "create"
    /\ \E m \in Members \ Seated, code \in Codes \ issued :
          CreateSeat(u, m, capability, code)
    /\ authority' = IF capability = "table"
                    THEN [authority EXCEPT !.tableSeatClaimed = TRUE]
                    ELSE [authority EXCEPT !.participantCount = @ + 1]
    /\ UNCHANGED <<metaGm, audit, commandVars>>

ClaimSeat(u, secretValid) ==
    /\ DecideClaimSeat(u, secretValid) = "create"
    /\ \E m \in Members \ Seated, code \in Codes \ issued :
          /\ CreateSeat(u, m, "gm", code)
          /\ authority' = [authority EXCEPT !.participantCount = @ + 1, !.gmMemberId = m]
          /\ metaGm' = m
    /\ UNCHANGED <<audit, commandVars>>

-----------------------------------------------------------------------------
\* Recovery: the seat whose stored hash verifies the code is rebound.

RecoverableSeats(code) == {m \in Seated : recovery[m] = code}

\* Mutant: the identity that held the seat keeps its entry.
RebindKeepsOld(u, m) ==
    uidBindings' = [uidBindings EXCEPT ![u] =
                      [memberId |-> m, capability |-> bindings[m].capability]]

\* The seat's entry moves to the redeeming identity: the old one is deleted,
\* whatever seat it names, and an entry the redeemer had is overwritten.
RebindIndex(u, m) ==
    uidBindings' = [x \in Uids |->
        IF x = u THEN [memberId |-> m, capability |-> bindings[m].capability]
        ELSE IF x = bindings[m].uid THEN None
        ELSE uidBindings[x]]

\* Mutant: the redeemed code stays valid.
RotateKeepsCode(m, fresh) ==
    /\ issued' = issued \cup {fresh}
    /\ UNCHANGED recovery

RotateCode(m, fresh) ==
    /\ issued' = issued \cup {fresh}
    /\ recovery' = [recovery EXCEPT ![m] = fresh]

RecoverSeat(u, code) ==
    \E m \in RecoverableSeats(code), fresh \in Codes \ issued :
       /\ RebindIndex(u, m)
       /\ bindings' = [bindings EXCEPT ![m].uid = u]
       /\ RotateCode(m, fresh)
       /\ audit' = [audit EXCEPT ![m] = @ + 1]
       /\ UNCHANGED <<authority, metaGm, commandVars, projections>>

-----------------------------------------------------------------------------
\* Commands: submitRoomCommand and the engine's runCommand.

AnswerFrom(m, c, receipt) ==
    [command |-> <<m, c>>, status |-> receipt.status, code |-> receipt.code,
     roomRevision |-> IF receipt.status = "accepted" THEN receipt.roomRevision ELSE 0]

\* Mutants: no receipt is looked up; only an accepted one is honoured.
AnsweredNever(m, c) == FALSE

AnsweredIfAccepted(m, c) ==
    receipts[m][c] # None /\ receipts[m][c].status = "accepted"

\* The transaction's receipt lookup finds an earlier answer.
Answered(m, c) == receipts[m][c] # None

\* Mutant: a request of another build passes.
PlatformIgnoresBuild(capability, c, expected) ==
    IF expected # <<>> /\ expected # <<authority.roomRevision>> THEN "REVISION_CONFLICT"
    ELSE IF authority.roomStatus = "archived" THEN "ROOM_ARCHIVED"
    ELSE IF capability \notin {"player", "gm"} THEN "ROLE_FORBIDDEN"
    ELSE "none"

\* Mutant: the table seat is not refused.
PlatformAdmitsTable(capability, c, expected) ==
    IF expected # <<>> /\ expected # <<authority.roomRevision>> THEN "REVISION_CONFLICT"
    ELSE IF authority.roomStatus = "archived" THEN "ROOM_ARCHIVED"
    ELSE IF Kind[c] = "otherBuild" THEN "TEMPLATE_VERSION_MISMATCH"
    ELSE IF Kind[c] = "oversized" THEN "PAYLOAD_TOO_LARGE"
    ELSE IF Kind[c] = "unknown" THEN "UNKNOWN_ACTION"
    ELSE "none"

\* The first check a request fails, before the template sees it; expected is
\* <<>> when the request carries no expectedRevision.
PlatformRejection(capability, c, expected) ==
    IF expected # <<>> /\ expected # <<authority.roomRevision>> THEN "REVISION_CONFLICT"
    ELSE IF authority.roomStatus = "archived" THEN "ROOM_ARCHIVED"
    ELSE IF Kind[c] = "otherBuild" THEN "TEMPLATE_VERSION_MISMATCH"
    ELSE IF capability \notin {"player", "gm"} THEN "ROLE_FORBIDDEN"
    ELSE IF Kind[c] = "oversized" THEN "PAYLOAD_TOO_LARGE"
    ELSE IF Kind[c] = "unknown" THEN "UNKNOWN_ACTION"
    ELSE "none"

\* What the template may decide: a Pause always stands, any other command may
\* be declined (<<>>) or decided as one of the batches.
Verdicts(c) == IF Kind[c] = "pause" THEN {<<{"shared"}>>} ELSE Batches \cup {<<>>}

\* Mutant: the event carries no actor.
EventActorMissing(m) == None

\* submitRoomCommand passes runCommand no actor, so its default applies.
EventActor(m) == m

PartitionOf(d, m) == IF d = "actor" THEN m ELSE d

\* Mutant: numbering starts one too low.
EnvelopesOffByOne(m, c, batch) ==
    UNION {{[partition |-> PartitionOf(d, m),
             sequence |-> authority.nextSequence + i - 2,
             command |-> <<m, c>>,
             roomRevision |-> authority.roomRevision + 1,
             actor |-> EventActor(m)] : d \in batch[i]} : i \in DOMAIN batch}

\* One sequence per logical event, shared by all its destination copies.
Envelopes(m, c, batch) ==
    UNION {{[partition |-> PartitionOf(d, m),
             sequence |-> authority.nextSequence + i - 1,
             command |-> <<m, c>>,
             roomRevision |-> authority.roomRevision + 1,
             actor |-> EventActor(m)] : d \in batch[i]} : i \in DOMAIN batch}

\* Mutant: one sequence per command instead of one per event.
CommittedOnePerCommand(m, c, batch) ==
    [authority EXCEPT !.roomRevision = @ + 1,
                      !.nextSequence = @ + 1,
                      !.state = Append(@, <<m, c>>)]

\* The authority after the command: one revision per command, one sequence per
\* logical event, the events reduced into the state.
Committed(m, c, batch) ==
    [authority EXCEPT !.roomRevision = @ + 1,
                      !.nextSequence = @ + Len(batch),
                      !.state = Append(@, <<m, c>>)]

SamePath(e, f) == e.partition = f.partition /\ e.sequence = f.sequence

\* A command already answered: its receipt answers again, nothing is decided.
ReplayCommand(m, c) ==
    /\ Answered(m, c)
    /\ answers' = answers \cup {AnswerFrom(m, c, receipts[m][c])}
    /\ UNCHANGED <<authority, seatVars, receipts, events, projections>>

RejectCommand(m, capability, c, expected) ==
    LET failed == PlatformRejection(capability, c, expected)
        stored == [status |-> "rejected",
                   code |-> IF failed = "none" THEN "DECLINED" ELSE failed,
                   roomRevision |-> authority.roomRevision,
                   acceptedSequence |-> 0]
    IN /\ ~Answered(m, c)
       /\ failed # "none" \/ <<>> \in Verdicts(c)
       /\ receipts' = [receipts EXCEPT ![m][c] = stored]
       /\ answers' = answers \cup {AnswerFrom(m, c, stored)}
       /\ UNCHANGED <<authority, seatVars, events, projections>>

\* Every bound viewer's projection, recomputed from the new authority.
RefreshProjections(next) ==
    projections' = [v \in Viewers |->
        IF \E x \in Seated : ViewerId(x, bindings[x].capability) = v
        THEN [roomRevision |-> next.roomRevision, view |-> next.state]
        ELSE projections[v]]

AcceptCommand(m, capability, c, expected) ==
    /\ ~Answered(m, c)
    /\ PlatformRejection(capability, c, expected) = "none"
    /\ \E batch \in Verdicts(c) \ {<<>>} :
          LET next == Committed(m, c, batch)
              copies == Envelopes(m, c, batch)
              stored == [status |-> "accepted", code |-> "none",
                         roomRevision |-> next.roomRevision,
                         acceptedSequence |-> authority.nextSequence]
          IN /\ authority' = next
             /\ receipts' = [receipts EXCEPT ![m][c] = stored]
             /\ events' = {e \in events : \A n \in copies : ~SamePath(e, n)} \cup copies
             /\ RefreshProjections(next)
             /\ answers' = answers \cup {AnswerFrom(m, c, stored)}
    /\ UNCHANGED seatVars

\* The caller is the member its uidBindings entry names; without one the answer
\* is AUTH_REQUIRED and nothing is written.
SubmitRoomCommand(u, c, expected) ==
    /\ uidBindings[u] # None
    /\ LET m == uidBindings[u].memberId
           capability == uidBindings[u].capability
       IN \/ ReplayCommand(m, c)
          \/ RejectCommand(m, capability, c, expected)
          \/ AcceptCommand(m, capability, c, expected)

-----------------------------------------------------------------------------
\* Writers outside the repository: it reads roomStatus and admissionStatus,
\* which no code of it changes.

ArchiveRoom ==
    /\ authority.roomStatus = "active"
    /\ authority' = [authority EXCEPT !.roomStatus = "archived"]
    /\ UNCHANGED <<seatVars, commandVars, projections>>

SetAdmission(status) ==
    /\ authority.admissionStatus # status
    /\ authority' = [authority EXCEPT !.admissionStatus = status]
    /\ UNCHANGED <<seatVars, commandVars, projections>>

\* A client can only hold a revision the room has already reached.
KnownRevisions == {<<>>} \cup {<<r>> : r \in 0..authority.roomRevision}

Next ==
    \/ \E u \in Uids, capability \in {"player", "table"}, secretValid \in BOOLEAN :
          AdmitMember(u, capability, secretValid)
    \/ \E u \in Uids, secretValid \in BOOLEAN : ClaimSeat(u, secretValid)
    \/ \E u \in Uids, code \in issued : RecoverSeat(u, code)
    \/ \E u \in Uids, c \in CommandIds, expected \in KnownRevisions :
          SubmitRoomCommand(u, c, expected)
    \/ ArchiveRoom
    \/ \E status \in {"open", "closed"} : SetAdmission(status)

Spec == Init /\ [][Next]_vars

-----------------------------------------------------------------------------
\* Properties.

\* Every document has its shape; in particular the counters stay natural
\* numbers and the room never loses its authority document.
TypeOK ==
    /\ authority \in Authority
    /\ metaGm \in Members \cup {None}
    /\ bindings \in [Members -> Seat \cup {None}]
    /\ uidBindings \in [Uids -> SeatIndex \cup {None}]
    /\ recovery \in [Members -> Codes \cup {None}]
    /\ audit \in [Members -> Nat]
    /\ receipts \in [Members -> [CommandIds -> Receipt \cup {None}]]
    /\ events \subseteq EventCopy
    /\ projections \in [Viewers -> Projection \cup {None}]
    /\ issued \subseteq Codes
    /\ answers \subseteq Answer

\* What authorizes a caller agrees with the seat it names: a live uidBindings
\* entry points at a seat bound to that very identity, with its capability.
\* Joins and recoveries in any order must not leave an identity that was
\* replaced on a seat able to act as its member.
IndexSound ==
    \A u \in Uids : uidBindings[u] # None =>
        LET m == uidBindings[u].memberId
        IN /\ bindings[m] # None
           /\ bindings[m].uid = u
           /\ bindings[m].capability = uidBindings[u].capability

\* No two identities can act as the same member: rebinding a seat revokes the
\* identity that held it.
OneIdentityPerSeat ==
    \A u, v \in Uids :
        uidBindings[u] # None /\ uidBindings[v] # None
          /\ uidBindings[u].memberId = uidBindings[v].memberId => u = v

\* The occupancy the capacity check reads is the occupancy there is: the
\* counters of authority/current count exactly the seated members, never above
\* the cap, however admissions, GM claims and recoveries interleave.
OccupancyExact ==
    /\ authority.participantCount =
         Cardinality({m \in Seated : bindings[m].capability # "table"})
    /\ authority.participantCount <= MaxSeats
    /\ Cardinality({m \in Seated : bindings[m].capability = "table"}) =
         IF authority.tableSeatClaimed THEN 1 ELSE 0

\* There is at most one GM seat, authority/current names it, and the
\* client-readable mirror in meta/current names the same one.
GmAgreed ==
    /\ {m \in Seated : bindings[m].capability = "gm"} = {authority.gmMemberId} \ {None}
    /\ metaGm = authority.gmMemberId

\* An identity that can act is never shut out: with the right secret it gets
\* its own seat back although the room is closed or full, and although the
\* seat was recovered from another identity in between.
SeatedCanReturn ==
    \A u \in Uids : uidBindings[u] # None /\ authority.roomStatus = "active" =>
        "reclaim" = IF uidBindings[u].capability = "gm"
                    THEN DecideClaimSeat(u, TRUE)
                    ELSE DecideAdmitMember(u, uidBindings[u].capability, TRUE)

\* Every seated viewer, and no one else, has a projection, and it shows the
\* authority's current state at its current revision: whoever joins between
\* two commands starts level, and no command leaves a viewer behind.
ProjectionsCurrent ==
    /\ \A m \in Seated :
          projections[ViewerId(m, bindings[m].capability)] =
            [roomRevision |-> authority.roomRevision, view |-> authority.state]
    /\ \A v \in Viewers : projections[v] # None =>
          \E m \in Seated : ViewerId(m, bindings[m].capability) = v

\* Exactly-once: a command has an accepted receipt precisely when it was
\* reduced into the state, and then once, at the revision the receipt states.
AppliedExactlyOnce ==
    /\ Len(authority.state) = authority.roomRevision
    /\ \A m \in Members, c \in CommandIds : \A r \in 1..authority.roomRevision :
          authority.state[r] = <<m, c>> <=>
            /\ receipts[m][c] # None
            /\ receipts[m][c].status = "accepted"
            /\ receipts[m][c].roomRevision = r

\* A retry is told what the first call was told, whatever happened to the room
\* in between: every answer a member ever got to a command is the same.
OneAnswerPerCommand ==
    \A a, b \in answers : a.command = b.command => a = b

\* The event log is one total order, read through partitions: a sequence
\* number belongs to one event of one command, numbers follow the order in
\* which commands were applied, none is skipped, and the sequence an accepted
\* receipt hands to a reconnecting client is one of its own command's.
EventLogOrdered ==
    /\ \A e, f \in events :
          /\ e.sequence = f.sequence => e.command = f.command
          /\ e.sequence < f.sequence => e.roomRevision <= f.roomRevision
    /\ \A e \in events : authority.state[e.roomRevision] = e.command
    /\ {e.sequence : e \in events} = 1..(authority.nextSequence - 1)
    /\ \A m \in Members, c \in CommandIds :
          receipts[m][c] # None /\ receipts[m][c].status = "accepted" =>
            \E e \in events : /\ e.command = <<m, c>>
                              /\ e.sequence = receipts[m][c].acceptedSequence

\* History is never rewritten: a receipt, an event copy and the order of the
\* applied commands are permanent once a transaction has committed them.
HistoryPermanent ==
    [][/\ \A m \in Members, c \in CommandIds :
             receipts[m][c] # None => receipts'[m][c] = receipts[m][c]
       /\ events \subseteq events'
       /\ SubSeq(authority'.state, 1, Len(authority.state)) = authority.state]_vars

\* No command gets past the platform's checks, however often and in whatever
\* order it is retried: the state moves only in an active room, by a request of
\* the room's own build that parses, from a player or the GM.
PlatformHolds ==
    [][authority'.state # authority.state =>
         LET applied == authority'.state[Len(authority'.state)]
         IN /\ authority.roomStatus = "active"
            /\ Kind[applied[2]] \in {"action", "pause"}
            /\ bindings[applied[1]].capability # "table"]_vars

\* A recovery code works once and no seat is ever left without one: a seat
\* changes hands only together with an audit entry and a code never handed
\* out before, and keeps its capability.
RedemptionRotatesCode ==
    [][\A m \in Seated :
          /\ recovery[m] # None
          /\ bindings'[m].capability = bindings[m].capability
          /\ IF bindings'[m].uid # bindings[m].uid \/ recovery'[m] # recovery[m]
             THEN audit'[m] = audit[m] + 1 /\ recovery'[m] \notin issued
             ELSE audit'[m] = audit[m]]_vars

\* A room implements the command service: receipts are its outcomes, the
\* reduced commands its log, the returned results what senders are told.
OutcomeOf(m, c) ==
    [status |-> IF receipts[m][c] = None THEN "open" ELSE receipts[m][c].status,
     position |-> IF receipts[m][c] # None /\ receipts[m][c].status = "accepted"
                  THEN receipts[m][c].roomRevision ELSE 0]

Service == INSTANCE CommandService WITH
    Requests <- Entries,
    log <- authority.state,
    outcome <- [r \in Entries |-> OutcomeOf(r[1], r[2])],
    told <- {<<a.command, [status |-> a.status, position |-> a.roomRevision]>> : a \in answers}

\* Every call of the room's functions is one step of the command service or
\* none: retries, lost replies, joins and recoveries stay invisible in it.
RefinesCommandService == Service!Spec

\* What is stored in the partitions a viewer reads.
CopiesIn(P) ==
    {[partition |-> e.partition, sequence |-> e.sequence, roomRevision |-> e.roomRevision] :
        e \in {d \in events : d.partition \in P}}

Log(P) == INSTANCE RoomLog WITH
    Partitions <- P,
    last <- authority.nextSequence - 1,
    revision <- authority.roomRevision,
    copies <- CopiesIn(P)

\* Whichever partitions a viewer reads, the room is a log of events to it: a
\* command adds its events behind all others and at once, everything else adds none.
RefinesRoomLog(P) == Log(P)!Spec

-----------------------------------------------------------------------------
\* What the documentation says and the code does not do.

\* ARCHITECTURE.md section 8: one authenticated identity holds one seat, and
\* uidBindings stays in sync with bindings.  A recovery by an identity that
\* already holds another seat breaks it.
SeatsMirrored ==
    \A m \in Seated :
        uidBindings[bindings[m].uid] = [memberId |-> m, capability |-> bindings[m].capability]

\* ARCHITECTURE.md section 7: safety events always use the anonymous actor.
SafetyAnonymous ==
    \A e \in events : Kind[e.command[2]] = "pause" => e.actor = "anonymous"
=============================================================================
