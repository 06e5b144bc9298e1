------------------------- MODULE CommandClientProofs -------------------------
(***************************************************************************)
(* Proofs about CommandClient: type correctness, that no reply, resend or  *)
(* reload makes a tab take a wrong result for final or lose a saved        *)
(* command, and that clicks keep their order.                              *)
(***************************************************************************)
EXTENDS CommandClient, SequenceTheorems, TLAPS

Saved == {issued[i] : i \in DOMAIN issued}

\* The service's decision of the command, or the denial of an identity without
\* its seat.
Final(result, decision, hasSeat) ==
    IF result = Denied THEN ~hasSeat
    ELSE result \notin {Server!Open, Unsaved} /\ decision = result

\* Replies on their way and receipts already read are final.
RepliesFinal ==
    \A t \in Tabs, c \in Commands :
        calls[t][c] \notin {None, Posted} => Final(calls[t][c], outcome[c], seated)

ReceiptsFinal ==
    \A t \in Tabs : sync[t].receipt \notin {None, Server!Open} =>
        /\ sync[t].at \in Commands
        /\ outcome[sync[t].at] = sync[t].receipt

LearnedFinal ==
    \A l \in learned : l[2] # Unsaved => Final(l[2], outcome[l[1]], seated)

\* What was not saved was never sent.
TabSaved(pass, tabCalls) ==
    /\ pass.todo \subseteq Saved
    /\ pass.at \in Saved \cup {None}
    /\ \A c \in Commands : tabCalls[c] # None => c \in Saved

OnlySavedSent ==
    /\ storage \cup strays \subseteq Saved
    /\ \A t \in Tabs : TabSaved(sync[t], calls[t])
    /\ \A c \in Commands : outcome[c] # Server!Open => c \in Saved

UnsavedKeptOut == \A c \in Commands : <<c, Unsaved>> \in learned => c \notin Saved

SavedKept ==
    \A c \in Saved : c \notin storage => outcome[c] # Server!Open \/ ~seated

ClientInv ==
    TypeOK /\ RepliesFinal /\ ReceiptsFinal /\ LearnedFinal /\ OnlySavedSent
    /\ UnsavedKeptOut /\ SavedKept

-----------------------------------------------------------------------------
\* The service decides a command at most once, and only the one it serves; a
\* seated caller's is decided afterwards.
LEMMA ServeDecidesOnce ==
    ASSUME TypeOK, NEW c \in Commands, Serve(c)
    PROVE  /\ log' \in Seq(Commands)
           /\ outcome' \in [Commands -> Outcome]
           /\ told' \subseteq Commands \X Outcome
           /\ \A d \in Commands : outcome[d] # Server!Open \/ d # c => outcome'[d] = outcome[d]
           /\ seated => outcome'[c] # Server!Open
<1>1. ASSUME NEW result \in Outcome, result # Server!Open, Server!Settle(c, result),
             log' \in Seq(Commands)
      PROVE  /\ outcome' \in [Commands -> Outcome]
             /\ told' \subseteq Commands \X Outcome
             /\ \A d \in Commands :
                   outcome[d] # Server!Open \/ d # c => outcome'[d] = outcome[d]
             /\ outcome'[c] # Server!Open
  BY <1>1 DEF TypeOK, Server!Settle
<1>2. CASE seated /\ outcome[c] = Server!Open /\ Server!Apply(c)
  <2>1. Server!AppliedAt(Len(log) + 1) \in Outcome
        /\ Server!AppliedAt(Len(log) + 1) # Server!Open
    BY DEF TypeOK, Outcome, Server!AppliedAt, Server!Open
  <2>2. log' \in Seq(Commands) /\ Server!Settle(c, Server!AppliedAt(Len(log) + 1))
    BY <1>2 DEF Server!Apply, TypeOK
  <2> QED
    BY <1>1, <2>1, <2>2
<1>3. CASE seated /\ outcome[c] = Server!Open /\ Server!Refuse(c)
  <2>1. Server!Refused \in Outcome /\ Server!Refused # Server!Open
    BY DEF Outcome, Server!Refused, Server!Open
  <2>2. log' \in Seq(Commands) /\ Server!Settle(c, Server!Refused)
    BY <1>3 DEF Server!Refuse, TypeOK
  <2> QED
    BY <1>1, <2>1, <2>2
<1>4. CASE ~(seated /\ outcome[c] = Server!Open)
  BY <1>4 DEF Serve, serverVars, TypeOK
<1> QED
  BY <1>2, <1>3, <1>4 DEF Serve

\* What TypeOK says of one tab's sync pass, given its calls.
PassOK(pass, tabCalls) ==
    /\ pass \in Pass
    /\ ~pass.on => pass = IdleSync
    /\ \A c \in Commands : pass.at = c /\ pass.receipt = None => tabCalls[c] # None

\* The same for all tabs, and the rest of TypeOK.
TabsOK ==
    /\ calls \in [Tabs -> [Commands -> Call]]
    /\ sync \in [Tabs -> Pass]
    /\ \A t \in Tabs : PassOK(sync[t], calls[t])

OthersOK ==
    /\ log \in Seq(Commands)
    /\ outcome \in [Commands -> Outcome]
    /\ told \subseteq Commands \X Outcome
    /\ seated \in BOOLEAN
    /\ storage \subseteq Commands
    /\ waiting \in [Tabs -> SUBSET Commands]
    /\ strays \subseteq Commands
    /\ issued \in Seq(Commands)
    /\ learned \subseteq Commands \X Result
    /\ reloads \in 0..MaxReloads

LEMMA TypeParts == TypeOK <=> TabsOK /\ OthersOK
BY DEF TypeOK, TabsOK, OthersOK, PassOK, AwaitsSend, Sending

LEMMA TypePartsNext == TypeOK' <=> TabsOK' /\ OthersOK'
BY DEF TypeOK, TabsOK, OthersOK, PassOK, AwaitsSend, Sending

\* A step that changes one tab's calls and pass keeps every tab's in order if
\* it keeps that one's.
LEMMA OneTab ==
    ASSUME TabsOK, NEW t \in Tabs,
           sync' = [sync EXCEPT ![t] = sync'[t]],
           calls' = [calls EXCEPT ![t] = calls'[t]],
           calls'[t] \in [Commands -> Call],
           PassOK(sync'[t], calls'[t])
    PROVE  TabsOK'
<1>1. ASSUME NEW u \in Tabs, u # t PROVE sync'[u] = sync[u] /\ calls'[u] = calls[u]
  BY <1>1 DEF TabsOK
<1>2. calls' \in [Tabs -> [Commands -> Call]]
  BY DEF TabsOK
<1>3. sync' \in [Tabs -> Pass]
  BY DEF TabsOK, PassOK
<1>4. ASSUME NEW u \in Tabs PROVE PassOK(sync'[u], calls'[u])
  BY <1>1 DEF TabsOK
<1> QED
  BY <1>2, <1>3, <1>4 DEF TabsOK

LEMMA InitType == Init => TypeOK
<1> SUFFICES ASSUME Init PROVE TabsOK /\ OthersOK
  BY TypeParts
<1>1. outcome \in [Commands -> Outcome] /\ log \in Seq(Commands) /\ told = {}
  BY DEF Init, Server!Init, Server!Open, Outcome
<1>2. OthersOK
  BY <1>1, ClientAssumption DEF Init, OthersOK
<1>3. IdleSync \in Pass /\ ~IdleSync.on /\ IdleSync.at = None
  BY DEF IdleSync, Pass
<1>4. TabsOK
  BY <1>3, ClientAssumption DEF Init, TabsOK, PassOK, Call
<1> QED
  BY <1>2, <1>4

LEMMA StepType == TypeOK /\ [Next]_vars => TypeOK'
<1> SUFFICES ASSUME TabsOK, OthersOK, TypeOK, [Next]_vars PROVE TabsOK' /\ OthersOK'
  BY TypeParts, TypePartsNext
<1>1. ASSUME NEW t \in Tabs, NEW c \in Commands, Dispatch(t, c) PROVE TabsOK' /\ OthersOK'
  <2>1. sync' = [sync EXCEPT ![t] = sync'[t]] /\ sync'[t] = sync[t]
    BY <1>1 DEF Dispatch, TabsOK
  <2>2. calls' = [calls EXCEPT ![t] = calls'[t]]
        /\ (calls'[t] = calls[t] \/ calls'[t] = [calls[t] EXCEPT ![c] = Posted])
    BY <1>1 DEF Dispatch, Post, TabsOK
  <2>3. PassOK(sync'[t], calls'[t]) /\ calls'[t] \in [Commands -> Call]
    BY <2>1, <2>2, NoCallAssumption DEF TabsOK, PassOK, Call
  <2>4. TabsOK'
    BY <2>1, <2>2, <2>3, OneTab
  <2> QED
    <3>1. CASE Cardinality(storage) >= MaxPending
      BY <1>1, <2>4, <3>1 DEF Dispatch, OthersOK, Result, serverVars
    <3>2. CASE ~(Cardinality(storage) >= MaxPending)
      <4>1. issued' = Append(issued, c) /\ storage' = storage \cup {c}
            /\ waiting' = [waiting EXCEPT ![t] = @ \cup {c}]
        BY <1>1, <3>2 DEF Dispatch
      <4>2. issued \in Seq(Commands) /\ issued' \in Seq(Commands)
        BY <4>1 DEF OthersOK
      <4>3. storage' \subseteq Commands /\ waiting' \in [Tabs -> SUBSET Commands]
        BY <4>1 DEF OthersOK
      <4> QED
        <5>1. UNCHANGED <<log, outcome, told, seated, strays, reloads, learned>>
          BY <1>1, <3>2 DEF Dispatch, serverVars
        <5> QED
          BY <2>4, <4>2, <4>3, <5>1 DEF OthersOK
    <3> QED
      BY <3>1, <3>2
<1>2. ASSUME NEW t \in Tabs, NEW c \in Commands, ServeCall(t, c) PROVE TabsOK' /\ OthersOK'
  <2>0. outcome' \in [Commands -> Outcome]
        /\ log' \in Seq(Commands) /\ told' \subseteq Commands \X Outcome
    BY <1>2, ServeDecidesOnce DEF ServeCall
  <2>1. sync' = [sync EXCEPT ![t] = sync'[t]] /\ sync'[t] = sync[t]
    BY <1>2 DEF ServeCall, TabsOK
  <2>2. PICK reply \in Result : calls' = [calls EXCEPT ![t][c] = reply]
    BY <1>2, <2>0 DEF ServeCall, Result
  <2>3. calls' = [calls EXCEPT ![t] = calls'[t]] /\ calls'[t] = [calls[t] EXCEPT ![c] = reply]
    BY <2>2 DEF TabsOK
  <2>4. PassOK(sync'[t], calls'[t]) /\ calls'[t] \in [Commands -> Call]
    BY <2>1, <2>3, NoCallAssumption DEF TabsOK, PassOK, Call
  <2>5. TabsOK'
    BY <2>1, <2>3, <2>4, OneTab
  <2> QED
    BY <1>2, <2>0, <2>5 DEF ServeCall, OthersOK
<1>3. ASSUME NEW t \in Tabs, NEW c \in Commands, EndCall(t, c) PROVE TabsOK'
  <2>1. calls' = [calls EXCEPT ![t] = calls'[t]] /\ calls'[t] = [calls[t] EXCEPT ![c] = None]
    BY <1>3 DEF EndCall, TabsOK
  <2>2. sync' = [sync EXCEPT ![t] = sync'[t]]
        /\ sync'[t] = IF AwaitsSend(t, c) THEN [sync[t] EXCEPT !.at = None] ELSE sync[t]
    BY <1>3 DEF EndCall, TabsOK
  <2>3. calls'[t] \in [Commands -> Call]
    BY <2>1 DEF TabsOK, Call
  <2>4. PassOK(sync'[t], calls'[t])
    <3>1. CASE AwaitsSend(t, c)
      <4>1. sync'[t] \in Pass /\ sync'[t].on = sync[t].on /\ sync'[t].at = None
        BY <2>2, <3>1 DEF TabsOK, Pass
      <4>2. sync[t].on
        BY <3>1, ClientAssumption DEF AwaitsSend, TabsOK, PassOK, IdleSync
      <4> QED
        BY <4>1, <4>2, ClientAssumption DEF PassOK
    <3>2. CASE ~AwaitsSend(t, c)
      BY <3>2, <2>1, <2>2 DEF TabsOK, PassOK, AwaitsSend
    <3> QED
      BY <3>1, <3>2
  <2> QED
    BY <2>1, <2>2, <2>3, <2>4, OneTab
<1>4. ASSUME NEW t \in Tabs, NEW c \in Commands, ReceiveReply(t, c) PROVE TabsOK' /\ OthersOK'
  <2>1. calls[t][c] \in Result
    BY <1>4 DEF ReceiveReply, TabsOK, Call
  <2> QED
    BY <1>3, <1>4, <2>1 DEF ReceiveReply, Complete, Forget, OthersOK, serverVars
<1>5. ASSUME NEW t \in Tabs, NEW c \in Commands, LoseReply(t, c) PROVE TabsOK' /\ OthersOK'
  BY <1>3, <1>5 DEF LoseReply, OthersOK, serverVars
<1>6. ASSUME NEW t \in Tabs, NEW c \in Commands, SkipEntry(t, c) PROVE TabsOK' /\ OthersOK'
  <2>1. sync' = [sync EXCEPT ![t] = sync'[t]] /\ sync'[t] = [sync[t] EXCEPT !.todo = @ \ {c}]
    BY <1>6 DEF SkipEntry, TabsOK
  <2>2. calls' = [calls EXCEPT ![t] = calls'[t]] /\ calls'[t] = calls[t]
    BY <1>6 DEF SkipEntry, clientVars, TabsOK
  <2>3. sync[t].on
    BY <1>6 DEF SkipEntry, TabsOK, PassOK, IdleSync
  <2>4. calls'[t] \in [Commands -> Call] /\ PassOK(sync'[t], calls'[t])
    BY <2>1, <2>2, <2>3 DEF TabsOK, PassOK, Pass
  <2>5. TabsOK'
    BY <2>1, <2>2, <2>4, OneTab
  <2> QED
    BY <1>6, <2>5 DEF SkipEntry, OthersOK, serverVars, clientVars
<1>7. ASSUME NEW t \in Tabs, NEW c \in Commands, ReadReceipt(t, c) PROVE TabsOK' /\ OthersOK'
  <2>1. sync' = [sync EXCEPT ![t] = sync'[t]]
        /\ sync'[t] = [on |-> TRUE, todo |-> sync[t].todo \ {c},
                       at |-> c, receipt |-> outcome[c]]
    BY <1>7 DEF ReadReceipt, TabsOK
  <2>2. calls' = [calls EXCEPT ![t] = calls'[t]] /\ calls'[t] = calls[t]
    BY <1>7 DEF ReadReceipt, clientVars, TabsOK
  <2>3. sync[t].todo \ {c} \subseteq Commands
    BY DEF TabsOK, Pass
  <2>4. outcome[c] \in Outcome /\ outcome[c] # None
    BY NoCallAssumption DEF OthersOK, Result
  <2>5. sync'[t] \in Pass /\ sync'[t].on /\ sync'[t].receipt = outcome[c]
    BY <2>1, <2>3, <2>4 DEF TabsOK, Pass
  <2>6. calls'[t] \in [Commands -> Call] /\ PassOK(sync'[t], calls'[t])
    BY <2>2, <2>4, <2>5 DEF TabsOK, PassOK
  <2>7. TabsOK'
    BY <2>1, <2>2, <2>6, OneTab
  <2> QED
    BY <1>7, <2>7 DEF ReadReceipt, OthersOK, serverVars, clientVars
<1>8. ASSUME NEW t \in Tabs, NEW c \in Commands, UseReceipt(t, c) PROVE TabsOK' /\ OthersOK'
  <2>1. sync[t].on /\ sync[t].at = c /\ sync[t].receipt \in Outcome
    BY <1>8, ClientAssumption DEF UseReceipt, TabsOK, PassOK, IdleSync, Pass
  <2>2. CASE sync[t].receipt = Server!Open
    <3>1. sync' = [sync EXCEPT ![t] = sync'[t]] /\ sync'[t] = [sync[t] EXCEPT !.receipt = None]
      BY <1>8, <2>2 DEF UseReceipt, Resend, TabsOK
    <3>2. calls' = [calls EXCEPT ![t] = calls'[t]]
          /\ calls'[t] = [calls[t] EXCEPT ![c] = Posted]
      BY <1>8, <2>2 DEF UseReceipt, Resend, Post, TabsOK
    <3>3. sync'[t] \in Pass /\ sync'[t].on /\ sync'[t].at = c
      BY <2>1, <3>1 DEF TabsOK, Pass
    <3>4. calls'[t] \in [Commands -> Call] /\ calls'[t][c] # None
      BY <3>2, NoCallAssumption DEF TabsOK, Call
    <3>5. PassOK(sync'[t], calls'[t])
      BY <3>3, <3>4 DEF PassOK
    <3>6. TabsOK'
      BY <3>1, <3>2, <3>4, <3>5, OneTab
    <3> QED
      BY <1>8, <2>2, <3>6 DEF UseReceipt, OthersOK, serverVars
  <2>3. CASE sync[t].receipt # Server!Open
    <3>1. sync' = [sync EXCEPT ![t] = sync'[t]]
          /\ sync'[t] = [sync[t] EXCEPT !.at = None, !.receipt = None]
      BY <1>8, <2>3 DEF UseReceipt, TabsOK
    <3>2. calls' = [calls EXCEPT ![t] = calls'[t]] /\ calls'[t] = calls[t]
      BY <1>8, <2>3 DEF UseReceipt, TabsOK
    <3>3. sync'[t] \in Pass /\ sync'[t].on /\ sync'[t].at = None
      BY <2>1, <3>1 DEF TabsOK, Pass
    <3>4. calls'[t] \in [Commands -> Call] /\ PassOK(sync'[t], calls'[t])
      BY <3>2, <3>3, ClientAssumption DEF TabsOK, PassOK
    <3>5. TabsOK'
      BY <3>1, <3>2, <3>4, OneTab
    <3>6. Complete(t, c, sync[t].receipt) /\ UNCHANGED <<serverVars, seated, strays, issued, reloads>>
      BY <1>8, <2>3 DEF UseReceipt
    <3> QED
      BY <2>1, <3>5, <3>6 DEF Complete, Forget, OthersOK, serverVars, Result
  <2> QED
    BY <2>2, <2>3
<1>9. ASSUME NEW t \in Tabs, StartSync(t) PROVE TabsOK' /\ OthersOK'
  <2>1. sync' = [sync EXCEPT ![t] = sync'[t]]
        /\ sync'[t] = [on |-> TRUE, todo |-> storage, at |-> None, receipt |-> None]
    BY <1>9 DEF StartSync, TabsOK, IdleSync
  <2>2. calls' = [calls EXCEPT ![t] = calls'[t]] /\ calls'[t] = calls[t]
    BY <1>9 DEF StartSync, clientVars, TabsOK
  <2>3. calls'[t] \in [Commands -> Call] /\ PassOK(sync'[t], calls'[t])
    BY <2>1, <2>2, ClientAssumption DEF TabsOK, OthersOK, PassOK, Pass
  <2>4. TabsOK'
    BY <2>1, <2>2, <2>3, OneTab
  <2> QED
    BY <1>9, <2>4 DEF StartSync, OthersOK, serverVars, clientVars
<1>10. ASSUME NEW t \in Tabs, NEW r \in [Commands -> Call],
              sync' = [sync EXCEPT ![t] = IdleSync], calls' = [calls EXCEPT ![t] = r]
       PROVE  TabsOK'
  <2>1. sync' = [sync EXCEPT ![t] = sync'[t]] /\ sync'[t] = IdleSync
    BY <1>10 DEF TabsOK
  <2>2. calls' = [calls EXCEPT ![t] = calls'[t]] /\ calls'[t] = r
    BY <1>10 DEF TabsOK
  <2>3. PassOK(sync'[t], calls'[t])
    BY <2>1, ClientAssumption DEF PassOK, Pass, IdleSync
  <2> QED
    BY <2>1, <2>2, <2>3, OneTab
<1>11. ASSUME NEW t \in Tabs, EndSync(t) PROVE TabsOK' /\ OthersOK'
  <2>1. calls' = [calls EXCEPT ![t] = calls[t]] /\ calls[t] \in [Commands -> Call]
    BY <1>11 DEF EndSync, clientVars, TabsOK
  <2>2. PICK r \in [Commands -> Call] : calls' = [calls EXCEPT ![t] = r]
    BY <2>1
  <2> QED
    BY <1>10, <1>11, <2>2 DEF EndSync, OthersOK, serverVars, clientVars
<1>12. ASSUME NEW t \in Tabs, Reload(t) PROVE TabsOK' /\ OthersOK'
  <2>1. [c \in Commands |-> None] \in [Commands -> Call]
    BY DEF Call
  <2>2. TabsOK'
    BY <1>10, <1>12, <2>1 DEF Reload
  <2>3. reloads' \in 0..MaxReloads
    BY <1>12, ClientAssumption DEF Reload, OthersOK
  <2> QED
    BY <1>12, <2>2, <2>3 DEF Reload, OthersOK, serverVars
<1>13. ASSUME NEW c \in Commands, ServeStray(c) PROVE TabsOK' /\ OthersOK'
  BY <1>13, ServeDecidesOnce DEF ServeStray, TabsOK, OthersOK
<1>14. CASE LoseSeat
  BY <1>14 DEF LoseSeat, TabsOK, OthersOK, serverVars
<1>15. CASE UNCHANGED vars
  BY <1>15 DEF vars, TabsOK, OthersOK, serverVars
<1> QED
  BY <1>1, <1>2, <1>4, <1>5, <1>6, <1>7, <1>8, <1>9, <1>11, <1>12, <1>13, <1>14, <1>15
  DEF Next

\* Whatever is lost, reloaded or reconciled, the client's variables keep their
\* types and no sync pass waits for a call that has ended.
THEOREM TypeCorrect == Spec => []TypeOK
BY InitType, StepType, PTL DEF Spec

-----------------------------------------------------------------------------
\* What the service decided stays, and a lost seat stays lost.
LEMMA DecisionsStay ==
    ASSUME TypeOK, [Next]_vars
    PROVE  /\ \A c \in Commands : outcome[c] # Server!Open => outcome'[c] = outcome[c]
           /\ ~seated => ~seated'
<1>1. ASSUME NEW c \in Commands, Serve(c), UNCHANGED seated
      PROVE  /\ \A d \in Commands : outcome[d] # Server!Open => outcome'[d] = outcome[d]
             /\ ~seated => ~seated'
  BY <1>1, ServeDecidesOnce
<1>2. CASE UNCHANGED <<outcome, seated>> \/ LoseSeat
  BY <1>2 DEF LoseSeat, serverVars
<1>3. CASE \E t \in Tabs, c \in Commands : ServeCall(t, c) \/ ServeStray(c)
  BY <1>1, <1>3 DEF ServeCall, ServeStray
<1>4. UNCHANGED <<outcome, seated>> \/ LoseSeat
      \/ (\E t \in Tabs, c \in Commands : ServeCall(t, c)) \/ (\E c \in Commands : ServeStray(c))
  BY DEF Next, vars, serverVars, clientVars, Dispatch, ReceiveReply, LoseReply, SkipEntry,
         ReadReceipt, UseReceipt, StartSync, EndSync, Reload
<1>5. CASE \E c \in Commands : ServeStray(c)
  BY <1>1, <1>5 DEF ServeStray
<1> QED
  BY <1>2, <1>3, <1>4, <1>5

\* Saved commands are never unsaved; only a dispatch saves one.
LEMMA DispatchSaves ==
    ASSUME TypeOK, NEW c \in Commands, issued' = Append(issued, c)
    PROVE  Saved' = Saved \cup {c}
<1>1. issued \in Seq(Commands)
  BY DEF TypeOK
<1>2. DOMAIN issued' = DOMAIN issued \cup {Len(issued) + 1}
  BY <1>1
<1>3. \A i \in DOMAIN issued : issued'[i] = issued[i]
  BY <1>1
<1>4. issued'[Len(issued) + 1] = c
  BY <1>1
<1> QED
  BY <1>2, <1>3, <1>4 DEF Saved

LEMMA SavedGrows ==
    ASSUME TypeOK, [Next]_vars
    PROVE  /\ UNCHANGED issued \/ \E t \in Tabs, c \in Commands : Dispatch(t, c)
           /\ Saved \subseteq Saved'
<1>1. ASSUME NEW t \in Tabs, NEW c \in Commands, Dispatch(t, c)
      PROVE  UNCHANGED issued \/ Saved' = Saved \cup {c}
  BY <1>1, DispatchSaves DEF Dispatch
<1>2. UNCHANGED issued \/ \E t \in Tabs, c \in Commands : Dispatch(t, c)
  BY DEF Next, vars, clientVars, ServeCall, ServeStray, ReceiveReply, LoseReply, SkipEntry,
         ReadReceipt, UseReceipt, StartSync, EndSync, Reload, LoseSeat
<1>3. UNCHANGED issued => Saved' = Saved
  BY DEF Saved
<1> QED
  BY <1>1, <1>2, <1>3

\* A served call gets a final reply.
LEMMA ServedFinal ==
    ASSUME TypeOK, NEW t \in Tabs, NEW c \in Commands, ServeCall(t, c)
    PROVE  /\ calls' = [calls EXCEPT ![t][c] = calls'[t][c]]
           /\ Final(calls'[t][c], outcome'[c], seated')
<1>1. Serve(c) /\ UNCHANGED seated
      /\ calls' = [calls EXCEPT ![t][c] = IF seated THEN outcome'[c] ELSE Denied]
  BY DEF ServeCall
<1>2. outcome'[c] \in Outcome /\ (seated => outcome'[c] # Server!Open)
  BY <1>1, ServeDecidesOnce
<1>3. calls'[t][c] = (IF seated THEN outcome'[c] ELSE Denied)
  BY <1>1 DEF TypeOK
<1>4. outcome'[c] # Denied /\ outcome'[c] # Unsaved
  BY <1>2 DEF Outcome, Denied, Unsaved
<1> QED
  BY <1>1, <1>2, <1>3, <1>4 DEF Final

LEMMA RepliesStayFinal ==
    ASSUME TypeOK, RepliesFinal, [Next]_vars
    PROVE  RepliesFinal'
<1> SUFFICES ASSUME NEW u \in Tabs, NEW d \in Commands, calls'[u][d] \notin {None, Posted}
             PROVE  Final(calls'[u][d], outcome'[d], seated')
  BY DEF RepliesFinal
<1>1. CASE calls'[u][d] = calls[u][d]
  BY <1>1, DecisionsStay DEF RepliesFinal, Final
<1>2. ASSUME NEW t \in Tabs, NEW c \in Commands, ServeCall(t, c), calls'[u][d] # calls[u][d]
      PROVE  Final(calls'[u][d], outcome'[d], seated')
  <2>1. t = u /\ c = d
    BY <1>2, ServedFinal DEF TypeOK
  <2> QED
    BY <1>2, <2>1, ServedFinal
<1>3. ASSUME NEW t \in Tabs, NEW c \in Commands,
             Dispatch(t, c) \/ ReceiveReply(t, c) \/ LoseReply(t, c) \/ UseReceipt(t, c)
      PROVE  calls'[u][d] \in {calls[u][d], None, Posted}
  <2>1. UNCHANGED calls \/ calls' = [calls EXCEPT ![t][c] = Posted]
        \/ calls' = [calls EXCEPT ![t][c] = None]
    BY <1>3 DEF Dispatch, Post, ReceiveReply, LoseReply, EndCall, UseReceipt, Resend
  <2> QED
    BY <2>1 DEF TypeOK
<1>4. ASSUME NEW t \in Tabs, Reload(t) PROVE calls'[u][d] \in {calls[u][d], None}
  BY <1>4 DEF Reload, TypeOK
<1>5. ASSUME NEW t \in Tabs, NEW c \in Commands, SkipEntry(t, c) \/ ReadReceipt(t, c)
      PROVE  UNCHANGED calls
  BY <1>5 DEF SkipEntry, ReadReceipt, clientVars
<1>6. ASSUME NEW t \in Tabs, StartSync(t) \/ EndSync(t) PROVE UNCHANGED calls
  BY <1>6 DEF StartSync, EndSync, clientVars
<1>7. ASSUME NEW c \in Commands, ServeStray(c) PROVE UNCHANGED calls
  BY <1>7 DEF ServeStray
<1>8. LoseSeat \/ UNCHANGED vars => UNCHANGED calls
  BY DEF LoseSeat, vars
<1> QED
  BY <1>1, <1>2, <1>3, <1>4, <1>5, <1>6, <1>7, <1>8 DEF Next

\* A pass gets a receipt only by reading it.
LEMMA ReceiptsStayFinal ==
    ASSUME TypeOK, ReceiptsFinal, [Next]_vars
    PROVE  ReceiptsFinal'
<1> SUFFICES ASSUME NEW u \in Tabs, sync'[u].receipt \notin {None, Server!Open}
             PROVE  sync'[u].at \in Commands /\ outcome'[sync'[u].at] = sync'[u].receipt
  BY DEF ReceiptsFinal
<1>1. CASE sync'[u].at = sync[u].at /\ sync'[u].receipt = sync[u].receipt
  BY <1>1, DecisionsStay DEF ReceiptsFinal
<1>2. ASSUME NEW t \in Tabs, NEW c \in Commands, ReadReceipt(t, c),
             sync'[u].at # sync[u].at \/ sync'[u].receipt # sync[u].receipt
      PROVE  sync'[u].at \in Commands /\ outcome'[sync'[u].at] = sync'[u].receipt
  <2>1. t = u
    BY <1>2 DEF ReadReceipt, TypeOK
  <2>2. sync'[u].at = c /\ sync'[u].receipt = outcome[c] /\ UNCHANGED outcome
    BY <1>2, <2>1 DEF ReadReceipt, TypeOK, serverVars
  <2> QED
    BY <2>2
<1>3. ASSUME NEW t \in Tabs, NEW c \in Commands, EndCall(t, c)
      PROVE  sync'[u].receipt = sync[u].receipt
             /\ (sync'[u].at = sync[u].at \/ sync'[u].receipt = None)
  BY <1>3 DEF EndCall, AwaitsSend, TypeOK, Pass
<1>4. ASSUME NEW t \in Tabs, NEW c \in Commands, SkipEntry(t, c)
      PROVE  sync'[u].at = sync[u].at /\ sync'[u].receipt = sync[u].receipt
  BY <1>4 DEF SkipEntry, TypeOK, Pass
<1>5. ASSUME NEW t \in Tabs, NEW c \in Commands, UseReceipt(t, c)
      PROVE  sync'[u] = sync[u] \/ sync'[u].receipt = None
  BY <1>5 DEF UseReceipt, Resend, TypeOK, Pass
<1>6. ASSUME NEW t \in Tabs, StartSync(t) \/ EndSync(t) \/ Reload(t)
      PROVE  sync'[u] = sync[u] \/ sync'[u].receipt = None
  <2>1. CASE t # u
    BY <1>6, <2>1 DEF StartSync, EndSync, Reload, TypeOK
  <2>2. CASE t = u /\ StartSync(t)
    BY <2>2 DEF StartSync, TypeOK, IdleSync
  <2>3. CASE t = u /\ (EndSync(t) \/ Reload(t))
    BY <2>3 DEF EndSync, Reload, TypeOK, IdleSync
  <2> QED
    BY <1>6, <2>1, <2>2, <2>3
<1>7. ASSUME NEW t \in Tabs, NEW c \in Commands,
             Dispatch(t, c) \/ ServeCall(t, c) \/ ServeStray(c)
      PROVE  UNCHANGED sync
  BY <1>7 DEF Dispatch, ServeCall, ServeStray
<1>8. LoseSeat \/ UNCHANGED vars => UNCHANGED sync
  BY DEF LoseSeat, vars
<1>9. (\E c \in Commands : ServeStray(c)) => UNCHANGED sync
  BY DEF ServeStray
<1> QED
  BY <1>1, <1>2, <1>3, <1>4, <1>5, <1>6, <1>7, <1>8, <1>9 DEF Next, ReceiveReply, LoseReply

\* A tab takes for final a reply it received, a receipt it read, or that its
\* command could not be saved.
LEMMA LearnedStaysFinal ==
    ASSUME TypeOK, RepliesFinal, ReceiptsFinal, LearnedFinal, [Next]_vars
    PROVE  LearnedFinal'
<1> SUFFICES ASSUME NEW l \in learned', l[2] # Unsaved
             PROVE  Final(l[2], outcome'[l[1]], seated')
  BY DEF LearnedFinal
<1>1. CASE l \in learned
  <2>1. l[1] \in Commands /\ Final(l[2], outcome[l[1]], seated)
    BY <1>1 DEF LearnedFinal, TypeOK
  <2> QED
    BY <2>1, DecisionsStay DEF Final
<1>2. ASSUME NEW t \in Tabs, NEW c \in Commands, ReceiveReply(t, c)
      PROVE  l \in learned \/ (l = <<c, calls[t][c]>> /\ calls[t][c] \notin {None, Posted})
  BY <1>2 DEF ReceiveReply, Complete
<1>3. ASSUME NEW t \in Tabs, NEW c \in Commands, UseReceipt(t, c)
      PROVE  l \in learned \/ (/\ l = <<c, sync[t].receipt>> /\ sync[t].at = c
                               /\ sync[t].receipt \notin {None, Server!Open})
  BY <1>3 DEF UseReceipt, Complete
<1>4. ASSUME NEW t \in Tabs, NEW c \in Commands, ReceiveReply(t, c), l \notin learned
      PROVE  Final(l[2], outcome'[l[1]], seated')
  <2>1. l = <<c, calls[t][c]>> /\ Final(calls[t][c], outcome[c], seated)
    BY <1>2, <1>4 DEF RepliesFinal
  <2> QED
    BY <2>1, DecisionsStay DEF Final
<1>5. ASSUME NEW t \in Tabs, NEW c \in Commands, UseReceipt(t, c), l \notin learned
      PROVE  Final(l[2], outcome'[l[1]], seated')
  <2>1. l = <<c, sync[t].receipt>> /\ sync[t].receipt \notin {None, Server!Open}
        /\ outcome[c] = sync[t].receipt
    BY <1>3, <1>5 DEF ReceiptsFinal
  <2>2. sync[t].receipt \in Outcome
    BY <2>1 DEF TypeOK, Pass
  <2>3. sync[t].receipt # Denied /\ sync[t].receipt # Unsaved
    BY <2>2 DEF Outcome, Denied, Unsaved
  <2>4. outcome'[c] = outcome[c]
    BY <2>1, DecisionsStay
  <2> QED
    BY <2>1, <2>3, <2>4 DEF Final
<1>6. ASSUME NEW t \in Tabs, NEW c \in Commands, Dispatch(t, c) PROVE l \in learned
  BY <1>6 DEF Dispatch
<1>7. ASSUME NEW t \in Tabs, NEW c \in Commands,
             ServeCall(t, c) \/ LoseReply(t, c) \/ SkipEntry(t, c) \/ ReadReceipt(t, c)
      PROVE  l \in learned
  BY <1>7 DEF ServeCall, LoseReply, SkipEntry, ReadReceipt, clientVars
<1>8. ASSUME NEW t \in Tabs, StartSync(t) \/ EndSync(t) \/ Reload(t) PROVE l \in learned
  BY <1>8 DEF StartSync, EndSync, Reload, clientVars
<1>9. ASSUME NEW c \in Commands, ServeStray(c) PROVE l \in learned
  BY <1>9 DEF ServeStray
<1>10. LoseSeat \/ UNCHANGED vars => l \in learned
  BY DEF LoseSeat, vars
<1> QED
  BY <1>1, <1>4, <1>5, <1>6, <1>7, <1>8, <1>9, <1>10 DEF Next

\* Only a dispatch adds to the outbox, and what it adds it records as issued.
LEMMA StorageSaved ==
    ASSUME TypeOK, storage \subseteq Saved, [Next]_vars
    PROVE  storage' \subseteq Saved'
<1>1. ASSUME NEW t \in Tabs, NEW c \in Commands, Dispatch(t, c)
      PROVE  storage' \subseteq Saved'
  <2>1. storage' = storage \/ (storage' = storage \cup {c} /\ Saved' = Saved \cup {c})
    BY <1>1, DispatchSaves DEF Dispatch
  <2> QED
    BY <2>1, SavedGrows
<1>2. storage' \subseteq storage \/ \E t \in Tabs, c \in Commands : Dispatch(t, c)
  BY DEF Next, vars, clientVars, ServeCall, ServeStray, ReceiveReply, LoseReply, SkipEntry,
         ReadReceipt, UseReceipt, StartSync, EndSync, Reload, LoseSeat, Complete, Forget
<1> QED
  BY <1>1, <1>2, SavedGrows

\* A stray was a posted call.
LEMMA StraysSaved ==
    ASSUME TypeOK, OnlySavedSent, [Next]_vars
    PROVE  strays' \subseteq Saved'
<1>1. strays' \subseteq strays \cup {c \in Commands : \E t \in Tabs : calls[t][c] # None}
  <2>1. ASSUME NEW t \in Tabs, NEW c \in Commands, LoseReply(t, c)
        PROVE  strays' \subseteq strays \cup {c} /\ calls[t][c] # None
    BY <2>1 DEF LoseReply
  <2>2. ASSUME NEW t \in Tabs, Reload(t)
        PROVE  strays' = strays \cup {c \in Commands : calls[t][c] = Posted}
    BY <2>2 DEF Reload
  <2>3. \/ strays' \subseteq strays
        \/ \E t \in Tabs, c \in Commands : LoseReply(t, c)
        \/ \E t \in Tabs : Reload(t)
    BY DEF Next, vars, clientVars, Dispatch, ServeCall, ServeStray, ReceiveReply, SkipEntry,
           ReadReceipt, UseReceipt, StartSync, EndSync, LoseSeat
  <2>4. Posted # None
    BY NoCallAssumption
  <2> QED
    BY <2>1, <2>2, <2>3, <2>4
<1> QED
  BY <1>1, SavedGrows DEF OnlySavedSent, TabSaved

\* A decided command was served, and so was a call or a stray.
LEMMA DecidedSaved ==
    ASSUME TypeOK, OnlySavedSent, [Next]_vars, NEW c \in Commands, outcome'[c] # Server!Open
    PROVE  c \in Saved'
<1>1. outcome[c] = Server!Open => (\E t \in Tabs : ServeCall(t, c)) \/ ServeStray(c)
  <2>1. ASSUME NEW d \in Commands, Serve(d), d # c PROVE outcome'[c] = outcome[c]
    <3>1. outcome[c] # Server!Open \/ c # d => outcome'[c] = outcome[c]
      BY <2>1, ServeDecidesOnce
    <3> QED
      BY <2>1, <3>1
  <2>2. ASSUME NEW t \in Tabs, NEW d \in Commands, ServeCall(t, d), d # c
        PROVE  outcome'[c] = outcome[c]
    BY <2>1, <2>2 DEF ServeCall
  <2>3. ASSUME NEW d \in Commands, ServeStray(d), d # c PROVE outcome'[c] = outcome[c]
    BY <2>1, <2>3 DEF ServeStray
  <2>4. \/ UNCHANGED outcome
        \/ \E t \in Tabs, d \in Commands : ServeCall(t, d)
        \/ \E d \in Commands : ServeStray(d)
    BY DEF Next, vars, serverVars, Dispatch, ReceiveReply, LoseReply, SkipEntry, ReadReceipt,
           UseReceipt, StartSync, EndSync, Reload, LoseSeat
  <2> QED
    BY <2>2, <2>3, <2>4
<1>2. ASSUME NEW t \in Tabs, ServeCall(t, c) PROVE c \in Saved
  BY <1>2, NoCallAssumption DEF ServeCall, OnlySavedSent, TabSaved
<1>3. ServeStray(c) => c \in Saved
  BY DEF ServeStray, OnlySavedSent
<1> QED
  BY <1>1, <1>2, <1>3, SavedGrows DEF OnlySavedSent

\* A pass works on what was stored when it started, and a tab sends what it
\* dispatched or what its pass found without a receipt.
LEMMA TabsSaved ==
    ASSUME TypeOK, OnlySavedSent, [Next]_vars, NEW u \in Tabs
    PROVE  TabSaved(sync[u], calls[u])'
<1>1. sync'[u].todo \subseteq sync[u].todo \cup storage
      /\ sync'[u].at \in {sync[u].at, None} \cup sync[u].todo
  <2>1. ASSUME NEW t \in Tabs, NEW c \in Commands, EndCall(t, c)
        PROVE  sync'[u].todo = sync[u].todo /\ sync'[u].at \in {sync[u].at, None}
    BY <2>1 DEF EndCall, TypeOK, Pass
  <2>2. ASSUME NEW t \in Tabs, NEW c \in Commands, SkipEntry(t, c)
        PROVE  sync'[u].todo \subseteq sync[u].todo /\ sync'[u].at = sync[u].at
    BY <2>2 DEF SkipEntry, TypeOK, Pass
  <2>3. ASSUME NEW t \in Tabs, NEW c \in Commands, ReadReceipt(t, c)
        PROVE  sync'[u].todo \subseteq sync[u].todo
               /\ sync'[u].at \in {sync[u].at} \cup sync[u].todo
    BY <2>3 DEF ReadReceipt, TypeOK
  <2>4. ASSUME NEW t \in Tabs, NEW c \in Commands, UseReceipt(t, c)
        PROVE  sync'[u].todo = sync[u].todo /\ sync'[u].at \in {sync[u].at, None}
    <3>1. CASE sync[t].receipt = Server!Open
      <4>1. sync' = [sync EXCEPT ![t].receipt = None]
        BY <2>4, <3>1 DEF UseReceipt, Resend
      <4>2. sync[u] \in Pass /\ (t # u => sync'[u] = sync[u])
            /\ (t = u => sync'[u] = [sync[u] EXCEPT !.receipt = None])
        BY <4>1 DEF TypeOK
      <4> QED
        BY <4>2 DEF Pass
    <3>2. CASE sync[t].receipt # Server!Open
      BY <2>4, <3>2 DEF UseReceipt, TypeOK, Pass
    <3> QED
      BY <3>1, <3>2
  <2>5. ASSUME NEW t \in Tabs, StartSync(t) \/ EndSync(t) \/ Reload(t)
        PROVE  sync'[u] = sync[u]
               \/ (sync'[u].todo \subseteq storage /\ sync'[u].at = None)
    <3>1. CASE t # u
      BY <2>5, <3>1 DEF StartSync, EndSync, Reload, TypeOK
    <3>2. CASE t = u /\ StartSync(t)
      BY <3>2 DEF StartSync, TypeOK, IdleSync
    <3>3. CASE t = u /\ (EndSync(t) \/ Reload(t))
      BY <3>3 DEF EndSync, Reload, TypeOK, IdleSync
    <3> QED
      BY <2>5, <3>1, <3>2, <3>3
  <2>6. ASSUME NEW t \in Tabs, NEW c \in Commands, Dispatch(t, c) \/ ServeCall(t, c)
        PROVE  UNCHANGED sync
    BY <2>6 DEF Dispatch, ServeCall
  <2>7. ASSUME NEW c \in Commands, ServeStray(c) PROVE UNCHANGED sync
    BY <2>7 DEF ServeStray
  <2>8. LoseSeat \/ UNCHANGED vars => UNCHANGED sync
    BY DEF LoseSeat, vars
  <2> QED
    BY <2>1, <2>2, <2>3, <2>4, <2>5, <2>6, <2>7, <2>8 DEF Next, ReceiveReply, LoseReply
<1>2. ASSUME NEW d \in Commands, calls'[u][d] # None, calls[u][d] = None PROVE d \in Saved'
  <2>1. ASSUME NEW t \in Tabs, NEW c \in Commands, Dispatch(t, c) PROVE d \in Saved'
    <3>1. issued' = Append(issued, c) /\ calls' = [calls EXCEPT ![t][c] = Posted]
      BY <1>2, <2>1 DEF Dispatch, Post
    <3>2. d = c
      BY <1>2, <3>1 DEF TypeOK
    <3> QED
      BY <3>1, <3>2, DispatchSaves
  <2>2. ASSUME NEW t \in Tabs, NEW c \in Commands, UseReceipt(t, c) PROVE d \in Saved'
    <3>1. calls' = [calls EXCEPT ![t][c] = Posted]
      BY <1>2, <2>2 DEF UseReceipt, Resend, Post
    <3>2. d = c /\ sync[t].at = c
      BY <1>2, <2>2, <3>1 DEF UseReceipt, TypeOK
    <3>3. c \in Saved
      BY <3>2, ClientAssumption DEF OnlySavedSent, TabSaved
    <3> QED
      BY <3>2, <3>3, SavedGrows
  <2>3. ASSUME NEW t \in Tabs, NEW c \in Commands, ServeCall(t, c) PROVE FALSE
    <3>1. calls[t][c] # None /\ calls' = [calls EXCEPT ![t][c] = calls'[t][c]]
      BY <2>3, ServedFinal, NoCallAssumption DEF ServeCall
    <3> QED
      BY <1>2, <3>1 DEF TypeOK
  <2>4. ASSUME NEW t \in Tabs, NEW c \in Commands, EndCall(t, c) PROVE FALSE
    BY <1>2, <2>4 DEF EndCall, TypeOK
  <2>5. ASSUME NEW t \in Tabs, Reload(t) PROVE FALSE
    BY <1>2, <2>5 DEF Reload, TypeOK
  <2>6. ASSUME NEW t \in Tabs, NEW c \in Commands, SkipEntry(t, c) \/ ReadReceipt(t, c)
        PROVE  FALSE
    BY <1>2, <2>6 DEF SkipEntry, ReadReceipt, clientVars
  <2>7. ASSUME NEW t \in Tabs, StartSync(t) \/ EndSync(t) PROVE FALSE
    BY <1>2, <2>7 DEF StartSync, EndSync, clientVars
  <2>8. (\E c \in Commands : ServeStray(c)) \/ LoseSeat \/ UNCHANGED vars => UNCHANGED calls
    BY DEF ServeStray, LoseSeat, vars
  <2> QED
    BY <1>2, <2>1, <2>2, <2>3, <2>4, <2>5, <2>6, <2>7, <2>8 DEF Next, ReceiveReply, LoseReply
<1> QED
  BY <1>1, <1>2, SavedGrows DEF OnlySavedSent, TabSaved

\* A command that could not be saved is never dispatched again.
LEMMA UnsavedStaysOut ==
    ASSUME TypeOK, RepliesFinal, OnlySavedSent, UnsavedKeptOut, [Next]_vars
    PROVE  UnsavedKeptOut'
<1> SUFFICES ASSUME NEW d \in Commands, <<d, Unsaved>> \in learned' PROVE d \notin Saved'
  BY DEF UnsavedKeptOut
<1>1. ASSUME NEW t \in Tabs, NEW c \in Commands, Dispatch(t, c) PROVE d \notin Saved'
  <2>1. CASE Cardinality(storage) >= MaxPending
    <3>1. learned' = learned \cup {<<c, Unsaved>>} /\ UNCHANGED issued /\ c \notin Saved
      BY <1>1, <2>1 DEF Dispatch, Saved
    <3>2. Saved' = Saved
      BY <3>1 DEF Saved
    <3> QED
      BY <3>1, <3>2 DEF UnsavedKeptOut
  <2>2. CASE ~(Cardinality(storage) >= MaxPending)
    <3>1. UNCHANGED learned /\ <<c, Unsaved>> \notin learned /\ issued' = Append(issued, c)
      BY <1>1, <2>2 DEF Dispatch
    <3>2. Saved' = Saved \cup {c}
      BY <3>1, DispatchSaves
    <3> QED
      BY <3>1, <3>2 DEF UnsavedKeptOut
  <2> QED
    BY <2>1, <2>2
<1>2. ASSUME NEW t \in Tabs, NEW c \in Commands, ReceiveReply(t, c)
      PROVE  <<d, Unsaved>> \in learned
  <2>1. learned' = learned \cup {<<c, calls[t][c]>>} /\ calls[t][c] \notin {None, Posted}
    BY <1>2 DEF ReceiveReply, Complete
  <2>2. calls[t][c] # Unsaved
    BY <2>1 DEF RepliesFinal, Final, Denied, Unsaved
  <2> QED
    BY <2>1, <2>2
<1>3. ASSUME NEW t \in Tabs, NEW c \in Commands, UseReceipt(t, c)
      PROVE  <<d, Unsaved>> \in learned
  <2>1. UNCHANGED learned \/ learned' = learned \cup {<<c, sync[t].receipt>>}
    BY <1>3 DEF UseReceipt, Complete
  <2>2. sync[t].receipt # Unsaved
    <3>1. sync[t].receipt \in Outcome
      BY <1>3 DEF UseReceipt, TypeOK, Pass
    <3> QED
      BY <3>1 DEF Outcome, Unsaved
  <2> QED
    BY <2>1, <2>2
<1>4. \/ UNCHANGED learned
      \/ \E t \in Tabs, c \in Commands : Dispatch(t, c) \/ ReceiveReply(t, c) \/ UseReceipt(t, c)
  BY DEF Next, vars, clientVars, ServeCall, ServeStray, LoseReply, SkipEntry, ReadReceipt,
         StartSync, EndSync, Reload, LoseSeat
<1>5. Saved' = Saved \/ \E t \in Tabs, c \in Commands : Dispatch(t, c)
  BY SavedGrows DEF Saved
<1> QED
  BY <1>1, <1>2, <1>3, <1>4, <1>5 DEF UnsavedKeptOut

\* An entry is forgotten only for a final result.
LEMMA SavedStayKept ==
    ASSUME ClientInv, [Next]_vars
    PROVE  SavedKept'
<1> USE DEF ClientInv
<1> SUFFICES ASSUME NEW d \in Saved', d \notin storage'
             PROVE  outcome'[d] # Server!Open \/ ~seated'
  BY DEF SavedKept
<1>1. CASE d \in Saved /\ d \notin storage
  <2>1. d \in Commands
    BY <1>1 DEF Saved, TypeOK
  <2> QED
    BY <1>1, <2>1, DecisionsStay DEF SavedKept
<1>2. ASSUME NEW t \in Tabs, NEW c \in Commands, Dispatch(t, c)
      PROVE  d \in Saved /\ d \notin storage
  <2>1. CASE UNCHANGED <<issued, storage>>
    BY <2>1 DEF Saved
  <2>2. CASE issued' = Append(issued, c) /\ storage' = storage \cup {c}
    BY <2>2, DispatchSaves
  <2> QED
    BY <1>2, <2>1, <2>2 DEF Dispatch
<1>3. ASSUME NEW t \in Tabs, NEW c \in Commands, NEW result, Complete(t, c, result),
             Final(result, outcome[c], seated), UNCHANGED <<issued, outcome, seated>>
      PROVE  outcome'[d] # Server!Open \/ ~seated'
  <2>1. Saved' = Saved /\ storage' = storage \ {c}
    BY <1>3 DEF Saved, Complete, Forget
  <2>2. outcome[c] # Server!Open \/ ~seated
    BY <1>3 DEF Final
  <2> QED
    BY <1>1, <1>3, <2>1, <2>2
<1>4. ASSUME NEW t \in Tabs, NEW c \in Commands, ReceiveReply(t, c)
      PROVE  outcome'[d] # Server!Open \/ ~seated'
  BY <1>3, <1>4 DEF ReceiveReply, RepliesFinal, serverVars
<1>5. ASSUME NEW t \in Tabs, NEW c \in Commands, UseReceipt(t, c), storage' # storage
      PROVE  outcome'[d] # Server!Open \/ ~seated'
  <2>1. Complete(t, c, sync[t].receipt) /\ UNCHANGED <<issued, outcome, seated>>
        /\ sync[t].at = c /\ sync[t].receipt \notin {None, Server!Open}
    BY <1>5 DEF UseReceipt, serverVars
  <2>2. outcome[c] = sync[t].receipt /\ sync[t].receipt \in Outcome
    BY <2>1 DEF ReceiptsFinal, TypeOK, Pass
  <2>3. sync[t].receipt # Denied /\ sync[t].receipt # Unsaved
    BY <2>2 DEF Outcome, Denied, Unsaved
  <2> QED
    BY <1>3, <2>1, <2>2, <2>3 DEF Final
<1>6. \/ UNCHANGED storage
      \/ \E t \in Tabs, c \in Commands : Dispatch(t, c) \/ ReceiveReply(t, c)
      \/ \E t \in Tabs, c \in Commands : UseReceipt(t, c) /\ storage' # storage
  BY DEF Next, vars, clientVars, ServeCall, ServeStray, LoseReply, SkipEntry, ReadReceipt,
         StartSync, EndSync, Reload, LoseSeat
<1>7. Saved' = Saved \/ \E t \in Tabs, c \in Commands : Dispatch(t, c)
  BY SavedGrows DEF Saved
<1> QED
  BY <1>1, <1>2, <1>4, <1>5, <1>6, <1>7

LEMMA InitInv == Init => ClientInv
<1> SUFFICES ASSUME Init PROVE ClientInv
  OBVIOUS
<1>1. Saved = {}
  BY DEF Init, Saved
<1>2. RepliesFinal
  BY DEF Init, RepliesFinal
<1>3. ReceiptsFinal /\ \A t \in Tabs : TabSaved(sync[t], calls[t])
  BY <1>1 DEF Init, ReceiptsFinal, TabSaved, IdleSync
<1>4. LearnedFinal /\ UnsavedKeptOut /\ SavedKept
  BY <1>1 DEF Init, LearnedFinal, UnsavedKeptOut, SavedKept
<1>5. OnlySavedSent
  BY <1>1, <1>3 DEF Init, OnlySavedSent, Server!Init
<1> QED
  BY <1>2, <1>3, <1>4, <1>5, InitType DEF ClientInv

LEMMA StepInv == ClientInv /\ [Next]_vars => ClientInv'
<1> SUFFICES ASSUME ClientInv, [Next]_vars PROVE ClientInv'
  OBVIOUS
<1>1. TypeOK'
  BY StepType DEF ClientInv
<1>2. RepliesFinal' /\ ReceiptsFinal' /\ LearnedFinal'
  BY RepliesStayFinal, ReceiptsStayFinal, LearnedStaysFinal DEF ClientInv
<1>3. OnlySavedSent'
  <2>1. storage' \subseteq Saved' /\ strays' \subseteq Saved'
    BY StorageSaved, StraysSaved DEF ClientInv, OnlySavedSent
  <2>2. \A t \in Tabs : TabSaved(sync[t], calls[t])'
    BY TabsSaved DEF ClientInv
  <2>3. \A c \in Commands : outcome'[c] # Server!Open => c \in Saved'
    BY DecidedSaved DEF ClientInv
  <2> QED
    BY <2>1, <2>2, <2>3 DEF OnlySavedSent
<1>4. UnsavedKeptOut' /\ SavedKept'
  BY UnsavedStaysOut, SavedStayKept DEF ClientInv
<1> QED
  BY <1>1, <1>2, <1>3, <1>4 DEF ClientInv

-----------------------------------------------------------------------------
LEMMA Inductive == Spec => []ClientInv
BY InitInv, StepInv, PTL DEF Spec

\* Whatever is lost, resent, reloaded or reconciled by another tab, a result a
\* tab takes for final is the service's.
THEOREM LearnedTrue == Spec => []LearnedIsTrue
<1>1. ClientInv => LearnedIsTrue
  <2> SUFFICES ASSUME ClientInv, NEW l \in learned
               PROVE  CASE l[2] = Denied -> ~seated
                        [] l[2] = Unsaved -> outcome[l[1]] = Server!Open
                        [] OTHER -> outcome[l[1]] = l[2]
    BY DEF LearnedIsTrue
  <2>1. l = <<l[1], l[2]>> /\ l[1] \in Commands
    BY DEF ClientInv, TypeOK
  <2>2. Denied # Unsaved
    BY DEF Denied, Unsaved
  <2>3. CASE l[2] = Denied
    BY <2>2, <2>3 DEF ClientInv, LearnedFinal, Final
  <2>4. CASE l[2] = Unsaved
    BY <2>1, <2>2, <2>4 DEF ClientInv, OnlySavedSent, UnsavedKeptOut
  <2>5. CASE l[2] # Denied /\ l[2] # Unsaved
    BY <2>5 DEF ClientInv, LearnedFinal, Final
  <2> QED
    BY <2>2, <2>3, <2>4, <2>5
<1> QED
  BY <1>1, Inductive, PTL

\* No saved command is lost: crashes, losses and other tabs included.
THEOREM NothingLost == Spec => []NothingForgotten
<1>1. ClientInv => NothingForgotten
  BY DEF ClientInv, SavedKept, Saved, NothingForgotten
<1> QED
  BY <1>1, Inductive, PTL

-----------------------------------------------------------------------------
\* Order.  A click is accepted only once the ordinary commands before it are
\* settled, and the server applies nothing for an identity without its seat.
IssuedOnce ==
    \A i, j \in DOMAIN issued : i # j => issued[i] # issued[j]

LogDecided == \A p \in DOMAIN log : outcome[log[p]] # Server!Open

EarlierDecided ==
    seated => \A i, j \in DOMAIN issued :
                  i < j /\ issued[i] \in Ordinary /\ issued[j] \in Ordinary
                  => outcome[issued[i]] # Server!Open

OrderInv == IssuedOnce /\ LogDecided /\ EarlierDecided /\ AppliedInIssueOrder

LEMMA InitOrder == Init => OrderInv
BY DEF Init, Server!Init, OrderInv, IssuedOnce, LogDecided, EarlierDecided, AppliedInIssueOrder

\* A step that issues nothing and changes nothing at the server.
LEMMA OrderSame ==
    ASSUME OrderInv, UNCHANGED <<issued, log, outcome>>, seated' => seated
    PROVE  OrderInv'
BY DEF OrderInv, IssuedOnce, LogDecided, EarlierDecided, AppliedInIssueOrder

LEMMA OrderDispatch ==
    ASSUME ClientInv, OrderInv, NEW t \in Tabs, NEW c \in Commands, Dispatch(t, c)
    PROVE  OrderInv'
<1>1. UNCHANGED <<log, outcome, seated>>
  BY DEF Dispatch, serverVars
<1>2. CASE UNCHANGED issued
  BY <1>1, <1>2, OrderSame
<1>3. CASE issued' = Append(issued, c)
  <2>1. issued \in Seq(Commands) /\ log \in Seq(Commands)
    BY DEF ClientInv, TypeOK
  <2> DEFINE n == Len(issued) + 1
  <2>2. /\ DOMAIN issued' = DOMAIN issued \cup {n} /\ issued'[n] = c
        /\ \A i \in DOMAIN issued : i < n /\ i # n /\ issued'[i] = issued[i]
        /\ \A i \in DOMAIN issued' : ~(n < i)
    BY <1>3, <2>1
  <2> HIDE DEF n
  <2>3. c \notin Saved
    BY DEF Dispatch, Saved
  <2>4. \A i \in DOMAIN issued : issued[i] # c /\ issued[i] \in Saved
    BY <2>3 DEF Saved
  <2>5. IssuedOnce'
    BY <2>2, <2>4 DEF IssuedOnce, OrderInv
  <2>6. LogDecided'
    BY <1>1 DEF LogDecided, OrderInv
  <2>7. \A p \in DOMAIN log : log[p] # c
    BY <2>1, <2>3 DEF OrderInv, LogDecided, ClientInv, OnlySavedSent
  <2>8. AppliedInIssueOrder'
    <3> SUFFICES ASSUME NEW i \in DOMAIN issued', NEW j \in DOMAIN issued',
                        NEW p \in DOMAIN log, NEW q \in DOMAIN log,
                        i < j, {issued'[i], issued'[j]} \subseteq Ordinary,
                        log[p] = issued'[i], log[q] = issued'[j]
                 PROVE  p < q
      BY <1>1 DEF AppliedInIssueOrder
    <3>1. i \in DOMAIN issued /\ j \in DOMAIN issued
      BY <2>2, <2>7
    <3>2. issued'[i] = issued[i] /\ issued'[j] = issued[j]
      BY <2>2, <3>1
    <3> QED
      BY <3>1, <3>2 DEF OrderInv, AppliedInIssueOrder
  <2>9. ASSUME seated, c \in Ordinary, NEW i \in DOMAIN issued, issued[i] \in Ordinary
        PROVE  outcome[issued[i]] # Server!Open
    <3>1. issued[i] \notin storage
      BY <2>9 DEF Dispatch, Blocked
    <3> QED
      BY <2>4, <2>9, <3>1 DEF ClientInv, SavedKept
  <2>10. EarlierDecided'
    <3> SUFFICES ASSUME seated, NEW i \in DOMAIN issued', NEW j \in DOMAIN issued',
                        i < j, issued'[i] \in Ordinary, issued'[j] \in Ordinary
                 PROVE  outcome[issued'[i]] # Server!Open
      BY <1>1 DEF EarlierDecided
    <3>1. i \in DOMAIN issued /\ issued'[i] = issued[i]
      BY <2>2
    <3>2. CASE j = n
      BY <2>2, <2>9, <3>1, <3>2
    <3>3. CASE j \in DOMAIN issued
      <4>1. issued'[j] = issued[j]
        BY <2>2, <3>3
      <4> QED
        BY <3>1, <3>3, <4>1 DEF OrderInv, EarlierDecided
    <3> QED
      BY <2>2, <3>2, <3>3
  <2> QED
    BY <2>5, <2>6, <2>8, <2>10 DEF OrderInv
<1> QED
  BY <1>2, <1>3 DEF Dispatch

LEMMA OrderServe ==
    ASSUME ClientInv, OrderInv, NEW c \in Commands, Serve(c), UNCHANGED <<seated, issued>>
    PROVE  OrderInv'
<1>1. TypeOK
  BY DEF ClientInv
<1>2. \A d \in Commands : outcome[d] # Server!Open => outcome'[d] = outcome[d]
  BY <1>1, ServeDecidesOnce
<1>3. log \in Seq(Commands) /\ issued \in Seq(Commands)
  BY <1>1 DEF TypeOK
<1>4. IssuedOnce'
  BY DEF OrderInv, IssuedOnce
<1>5. EarlierDecided'
  <2>1. \A i \in DOMAIN issued : issued[i] \in Commands
    BY <1>3
  <2> QED
    BY <1>2, <2>1 DEF OrderInv, EarlierDecided
<1>6. CASE UNCHANGED log
  <2>1. \A p \in DOMAIN log : log[p] \in Commands
    BY <1>3
  <2>2. LogDecided'
    BY <1>2, <1>6, <2>1 DEF OrderInv, LogDecided
  <2>3. AppliedInIssueOrder'
    BY <1>6 DEF OrderInv, AppliedInIssueOrder
  <2> QED
    BY <1>4, <1>5, <2>2, <2>3 DEF OrderInv
<1>7. CASE seated /\ outcome[c] = Server!Open /\ log' = Append(log, c)
  <2> DEFINE n == Len(log) + 1
  <2>1. /\ DOMAIN log' = DOMAIN log \cup {n} /\ log'[n] = c
        /\ \A p \in DOMAIN log : p < n /\ log'[p] = log[p] /\ log[p] \in Commands
    BY <1>3, <1>7
  <2> HIDE DEF n
  <2>2. outcome'[c] # Server!Open
    BY <1>1, <1>7, ServeDecidesOnce
  <2>3. LogDecided'
    BY <1>2, <2>1, <2>2 DEF OrderInv, LogDecided
  <2>4. AppliedInIssueOrder'
    <3> SUFFICES ASSUME NEW i \in DOMAIN issued, NEW j \in DOMAIN issued,
                        NEW p \in DOMAIN log', NEW q \in DOMAIN log',
                        i < j, issued[i] \in Ordinary, issued[j] \in Ordinary,
                        log'[p] = issued[i], log'[q] = issued[j]
                 PROVE  p < q
      BY DEF AppliedInIssueOrder
    <3>1. issued[i] # issued[j]
      BY <1>3 DEF OrderInv, IssuedOnce
    <3>2. p # n
      BY <1>7, <2>1 DEF OrderInv, EarlierDecided
    <3>3. p \in DOMAIN log /\ log[p] = issued[i]
      BY <2>1, <3>2
    <3>4. CASE q = n
      BY <2>1, <3>3, <3>4
    <3>5. CASE q \in DOMAIN log
      <4>1. log[q] = issued[j]
        BY <2>1, <3>5
      <4> QED
        BY <3>3, <3>5, <4>1 DEF OrderInv, AppliedInIssueOrder
    <3> QED
      BY <2>1, <3>4, <3>5
  <2> QED
    BY <1>4, <1>5, <2>3, <2>4 DEF OrderInv
<1> QED
  BY <1>6, <1>7 DEF Serve, serverVars, Server!Apply, Server!Refuse

LEMMA StepOrder == ClientInv /\ OrderInv /\ [Next]_vars => OrderInv'
<1> SUFFICES ASSUME ClientInv, OrderInv, [Next]_vars PROVE OrderInv'
  OBVIOUS
<1>1. ASSUME NEW t \in Tabs, NEW c \in Commands, ServeCall(t, c) PROVE OrderInv'
  BY <1>1, OrderServe DEF ServeCall
<1>2. ASSUME NEW c \in Commands, ServeStray(c) PROVE OrderInv'
  BY <1>2, OrderServe DEF ServeStray
<1>3. \/ UNCHANGED <<issued, log, outcome>> /\ (seated' => seated)
      \/ \E t \in Tabs, c \in Commands : Dispatch(t, c)
      \/ \E t \in Tabs, c \in Commands : ServeCall(t, c)
      \/ \E c \in Commands : ServeStray(c)
  BY DEF Next, vars, serverVars, clientVars, ReceiveReply, LoseReply, SkipEntry, ReadReceipt,
         UseReceipt, StartSync, EndSync, Reload, LoseSeat
<1> QED
  BY <1>1, <1>2, <1>3, OrderSame, OrderDispatch

\* A member's ordinary commands are applied in the order of the clicks.
THEOREM OrderKept == Spec => []AppliedInIssueOrder
<1>1. OrderInv => AppliedInIssueOrder
  BY DEF OrderInv
<1> QED
  BY <1>1, Inductive, InitOrder, StepOrder, PTL DEF Spec
=============================================================================
