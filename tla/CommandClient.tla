---------------------------- MODULE CommandClient ----------------------------
(***************************************************************************)
(* One member's browser: tabs sharing an outbox in localStorage, each with *)
(* a FirebaseRoomRepository and the sync loop of useRoomProjection, over a *)
(* network that loses requests and replies.  The server is CommandService, *)
(* which RoomAuthority is shown to implement.                              *)
(*                                                                         *)
(* A step is what runs between two awaits.  A dispatch the screen refuses  *)
(* writes nothing and is a stuttering step.  Commands are command IDs:     *)
(* each click mints one, and an entry keeps its payload under it.          *)
(***************************************************************************)
EXTENDS Integers, Sequences, FiniteSets

CONSTANTS
    Tabs,        \* repository instances alive in this browser
    Commands,    \* command IDs the screens may mint
    Pauses,      \* the Pause commands among them
    MaxPending,  \* entries the outbox holds
    MaxReloads,  \* bound: page reloads
    None         \* no call, no entry under way

ASSUME ClientAssumption ==
    /\ Pauses \subseteq Commands
    /\ MaxPending \in Nat /\ MaxReloads \in Nat
    /\ None \notin Commands

VARIABLES
    log, outcome, told,  \* the command service
    seated,    \* the member's uidBindings entry names this identity
    storage,   \* saved commands, in localStorage
    calls,     \* per tab and command in its sending set: posted, or the reply
    waiting,   \* per tab: dispatches whose promise is unresolved
    strays,    \* requests whose caller gave up, still on their way
    sync,      \* per tab: the sync pass under way
    issued,    \* history: saved commands, in the order of the clicks
    learned,   \* history: results a tab took for final
    reloads    \* page reloads so far

serverVars == <<log, outcome, told>>
vars == <<serverVars, seated, storage, calls, waiting, strays, sync, issued,
          learned, reloads>>

Server == INSTANCE CommandService WITH Requests <- Commands

Ordinary == Commands \ Pauses

\* A refusal for want of a seat leaves no receipt; a command that could not be
\* saved is never sent.
Denied == [status |-> "denied", position |-> 0]
Unsaved == [status |-> "unsaved", position |-> 0]
Posted == [status |-> "posted", position |-> 0]

Outcome == [status : {"open", "accepted", "rejected"}, position : Nat]
Result == Outcome \cup {Denied, Unsaved}

\* No call is no reply.
ASSUME NoCallAssumption == None \notin Result \cup {Posted}

\* A call of the sending set, and a sync pass: the entries still to check, the
\* one being checked and its receipt as read, or None while it is sent again.
Call == Result \cup {Posted, None}
Pass == [on : BOOLEAN, todo : SUBSET Commands,
         at : Commands \cup {None}, receipt : Outcome \cup {None}]

IdleSync == [on |-> FALSE, todo |-> {}, at |-> None, receipt |-> None]

Init ==
    /\ Server!Init
    /\ seated = TRUE
    /\ storage = {}
    /\ calls = [t \in Tabs |-> [c \in Commands |-> None]]
    /\ waiting = [t \in Tabs |-> {}]
    /\ strays = {}
    /\ sync = [t \in Tabs |-> IdleSync]
    /\ issued = <<>>
    /\ learned = {}
    /\ reloads = 0

Sending(t) == {c \in Commands : calls[t][c] # None}

\* The command whose send the sync pass of a tab awaits.
AwaitsSend(t, c) == sync[t].at = c /\ sync[t].receipt = None

-----------------------------------------------------------------------------
\* Dispatch.

\* Mutant: only this tab's own dispatches are looked at.
BlockedHere(t, c) == c \in Ordinary /\ waiting[t] \cap Ordinary # {}

\* The screen refuses an ordinary command while another one is unresolved in
\* this tab or saved by any.
Blocked(t, c) ==
    c \in Ordinary /\ (waiting[t] \cup storage) \cap Ordinary # {}

Post(t, c) == calls' = [calls EXCEPT ![t][c] = Posted]

\* A click: the command is saved before it is sent, or not sent at all.
Dispatch(t, c) ==
    /\ c \notin {issued[i] : i \in DOMAIN issued} /\ <<c, Unsaved>> \notin learned
    /\ ~Blocked(t, c)
    /\ IF Cardinality(storage) >= MaxPending
       THEN /\ learned' = learned \cup {<<c, Unsaved>>}
            /\ UNCHANGED <<storage, calls, waiting, issued>>
       ELSE /\ storage' = storage \cup {c}
            /\ issued' = Append(issued, c)
            /\ waiting' = [waiting EXCEPT ![t] = @ \cup {c}]
            /\ Post(t, c)
            /\ UNCHANGED learned
    /\ UNCHANGED <<serverVars, seated, strays, sync, reloads>>

\* Mutant: the queue under one key, written back as this pass last read it.
ForgetFromSnapshot(t, c) ==
    storage' = IF sync[t].on THEN sync[t].todo \ {c} ELSE storage \ {c}

\* One key per command.
Forget(t, c) == storage' = storage \ {c}

\* Mutant: a settled entry leaves the promise of its dispatch alone.
CompleteUnresolved(t, c, result) ==
    /\ Forget(t, c)
    /\ learned' = learned \cup {<<c, result>>}
    /\ UNCHANGED waiting

\* A final result: the entry is forgotten and this tab's promise resolved.
Complete(t, c, result) ==
    /\ Forget(t, c)
    /\ waiting' = [waiting EXCEPT ![t] = @ \ {c}]
    /\ learned' = learned \cup {<<c, result>>}

-----------------------------------------------------------------------------
\* The server and the network.

\* submitRoomCommand: decided once, answered from the receipt afterwards.
Serve(c) ==
    IF seated /\ outcome[c] = Server!Open
    THEN Server!Apply(c) \/ Server!Refuse(c)
    ELSE UNCHANGED serverVars

ServeCall(t, c) ==
    /\ calls[t][c] = Posted
    /\ Serve(c)
    /\ calls' = [calls EXCEPT ![t][c] = IF seated THEN outcome'[c] ELSE Denied]
    /\ UNCHANGED <<seated, storage, waiting, strays, sync, issued, learned, reloads>>

ServeStray(c) ==
    /\ c \in strays
    /\ Serve(c)
    /\ strays' = strays \ {c}
    /\ UNCHANGED <<seated, storage, calls, waiting, sync, issued, learned, reloads>>

\* Mutant: a sync pass that awaited the call goes on waiting.
EndCallUnnoticed(t, c) ==
    /\ calls' = [calls EXCEPT ![t][c] = None]
    /\ UNCHANGED sync

\* The call is over; a sync pass that awaited it goes on.
EndCall(t, c) ==
    /\ calls' = [calls EXCEPT ![t][c] = None]
    /\ sync' = IF AwaitsSend(t, c) THEN [sync EXCEPT ![t].at = None] ELSE sync

ReceiveReply(t, c) ==
    /\ calls[t][c] \notin {None, Posted}
    /\ Complete(t, c, calls[t][c])
    /\ EndCall(t, c)
    /\ UNCHANGED <<serverVars, seated, strays, issued, reloads>>

\* Mutant: a call that failed is taken for a refused one.
LoseReplyRefused(t, c) ==
    /\ calls[t][c] # None
    /\ strays' = IF calls[t][c] = Posted THEN strays \cup {c} ELSE strays
    /\ Complete(t, c, Server!Refused)
    /\ EndCall(t, c)
    /\ UNCHANGED <<serverVars, seated, issued, reloads>>

\* A timeout, a transport error or a malformed reply says nothing about the
\* command, which stays saved; the request may still arrive.
LoseReply(t, c) ==
    /\ calls[t][c] # None
    /\ strays' = IF calls[t][c] = Posted THEN strays \cup {c} ELSE strays
    /\ EndCall(t, c)
    /\ UNCHANGED <<serverVars, seated, storage, waiting, issued, learned, reloads>>

\* Another identity redeems the member's recovery code.
LoseSeat ==
    /\ seated
    /\ seated' = FALSE
    /\ UNCHANGED <<serverVars, storage, calls, waiting, strays, sync, issued,
                   learned, reloads>>

-----------------------------------------------------------------------------
\* The sync loop, and reconcilePending within it.

clientVars == <<storage, calls, waiting, strays, issued, learned, reloads>>

StartSync(t) ==
    /\ ~sync[t].on
    /\ sync' = [sync EXCEPT ![t] = [IdleSync EXCEPT !.on = TRUE, !.todo = storage]]
    /\ UNCHANGED <<serverVars, seated, clientVars>>

\* An entry this tab is sending is left to that call.
SkipEntry(t, c) ==
    /\ c \in sync[t].todo /\ sync[t].at = None
    /\ c \in Sending(t)
    /\ sync' = [sync EXCEPT ![t].todo = @ \ {c}]
    /\ UNCHANGED <<serverVars, seated, clientVars>>

\* The receipt as it is when read; the access rules deny it without a seat.
ReadReceipt(t, c) ==
    /\ c \in sync[t].todo /\ sync[t].at = None
    /\ c \notin Sending(t)
    /\ seated
    /\ sync' = [sync EXCEPT ![t] = [on |-> TRUE, todo |-> @.todo \ {c},
                                    at |-> c, receipt |-> outcome[c]]]
    /\ UNCHANGED <<serverVars, seated, clientVars>>

\* Mutant: an entry without a receipt is left for the next pass.
ResendNever(t, c) ==
    /\ sync' = [sync EXCEPT ![t].at = None, ![t].receipt = None]
    /\ UNCHANGED calls

\* No durable outcome: the identical command is sent again and awaited.
Resend(t, c) ==
    /\ Post(t, c)
    /\ sync' = [sync EXCEPT ![t].receipt = None]

\* What was read is used; the command may have been decided since.
UseReceipt(t, c) ==
    /\ sync[t].at = c /\ sync[t].receipt # None
    /\ IF sync[t].receipt = Server!Open
       THEN /\ Resend(t, c)
            /\ UNCHANGED <<storage, waiting, learned>>
       ELSE /\ Complete(t, c, sync[t].receipt)
            /\ sync' = [sync EXCEPT ![t].at = None, ![t].receipt = None]
            /\ UNCHANGED calls
    /\ UNCHANGED <<serverVars, seated, strays, issued, reloads>>

\* The pass is over, or one of its reads failed; the timer starts another.
EndSync(t) ==
    /\ sync[t].on
    /\ ~\E c \in Commands : AwaitsSend(t, c)
    /\ sync' = [sync EXCEPT ![t] = IdleSync]
    /\ UNCHANGED <<serverVars, seated, clientVars>>

\* Memory is lost, storage is not, and requests stay on their way.
Reload(t) ==
    /\ reloads < MaxReloads
    /\ reloads' = reloads + 1
    /\ strays' = strays \cup {c \in Commands : calls[t][c] = Posted}
    /\ calls' = [calls EXCEPT ![t] = [c \in Commands |-> None]]
    /\ waiting' = [waiting EXCEPT ![t] = {}]
    /\ sync' = [sync EXCEPT ![t] = IdleSync]
    /\ UNCHANGED <<serverVars, seated, storage, issued, learned>>

Next ==
    \/ \E t \in Tabs, c \in Commands :
          \/ Dispatch(t, c)
          \/ ServeCall(t, c) \/ ReceiveReply(t, c) \/ LoseReply(t, c)
          \/ SkipEntry(t, c) \/ ReadReceipt(t, c) \/ UseReceipt(t, c)
    \/ \E t \in Tabs : StartSync(t) \/ EndSync(t) \/ Reload(t)
    \/ \E c \in Commands : ServeStray(c)
    \/ LoseSeat

Spec == Init /\ [][Next]_vars

\* Every call ends; the timer of every pass fires; a request sent again and
\* again is served, and a receipt asked for again and again is read and used.
Fairness ==
    /\ \A t \in Tabs :
          /\ WF_vars(StartSync(t)) /\ WF_vars(EndSync(t))
          /\ \A c \in Commands :
                /\ WF_vars(ReceiveReply(t, c) \/ LoseReply(t, c))
                /\ SF_vars(ServeCall(t, c))
                /\ SF_vars(ReadReceipt(t, c))
                /\ SF_vars(UseReceipt(t, c))

FairSpec == Spec /\ Fairness

-----------------------------------------------------------------------------
\* Properties.

\* Every variable has its type, an idle pass keeps nothing, and a pass that
\* awaits a send awaits a call still under way, never one that ended: the sync
\* loop of a tab cannot hang.
TypeOK ==
    /\ log \in Seq(Commands)
    /\ outcome \in [Commands -> Outcome]
    /\ told \subseteq Commands \X Outcome
    /\ seated \in BOOLEAN
    /\ storage \subseteq Commands
    /\ calls \in [Tabs -> [Commands -> Call]]
    /\ waiting \in [Tabs -> SUBSET Commands]
    /\ strays \subseteq Commands
    /\ sync \in [Tabs -> Pass]
    /\ \A t \in Tabs : ~sync[t].on => sync[t] = IdleSync
    /\ \A t \in Tabs, c \in Commands : AwaitsSend(t, c) => c \in Sending(t)
    /\ issued \in Seq(Commands)
    /\ learned \subseteq Commands \X Result
    /\ reloads \in 0..MaxReloads

\* A result a tab took for final is the service's: whatever was lost, resent,
\* reloaded or reconciled by another tab, accepted means applied at that
\* position, rejected means refused, unsaved means never sent, and only an
\* identity without its seat is denied.
LearnedIsTrue ==
    \A l \in learned :
        CASE l[2] = Denied -> ~seated
          [] l[2] = Unsaved -> outcome[l[1]] = Server!Open
          [] OTHER -> outcome[l[1]] = l[2]

\* No saved command is lost: it leaves the outbox only once the service has
\* decided it or the seat is gone.
NothingForgotten ==
    \A i \in DOMAIN issued :
        issued[i] \notin storage => outcome[issued[i]] # Server!Open \/ ~seated

\* A member's ordinary commands are applied in the order of the clicks, in
\* whichever tabs, although none of them waits for the others' network.
AppliedInIssueOrder ==
    \A i, j \in DOMAIN issued :
        \A p, q \in DOMAIN log :
            /\ i < j /\ {issued[i], issued[j]} \subseteq Ordinary
            /\ log[p] = issued[i] /\ log[q] = issued[j]
            => p < q

\* A saved command is settled, or the seat is lost: reconnecting checks it
\* automatically, as the screens say, however many replies were lost before.
SavedCommandsSettle ==
    \A c \in Commands : c \in storage ~> c \notin storage \/ ~seated

\* A dispatch gets its answer, or the seat is lost: the promise of a call whose
\* reply was lost is settled by reconciliation.
WaitingCallsSettle ==
    \A t \in Tabs, c \in Commands : c \in waiting[t] ~> c \notin waiting[t] \/ ~seated

\* FirebaseRoomRepository.ts, dispatch: reconciliation settles a command only
\* after a definitive outcome is known, so one that was denied was not applied.
DefinitiveOutcome ==
    \A l \in learned : l[2] = Denied => outcome[l[1]].status # "accepted"
=============================================================================
