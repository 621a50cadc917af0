-------------------------- MODULE LspRequestsProofs --------------------------
(***************************************************************************)
(* Theorems about LspRequests, for every set of request ids and of worker  *)
(* threads and for every value of the capacities.                          *)
(***************************************************************************)
EXTENDS LspRequests, FiniteSetTheorems, SequenceTheorems, TLAPS

ReplyMessage == [kind : AnswerKinds, id : Ids, rev : Nat]

(* Adding an id keeps the cancelled set finite and within its cap.         *)
LEMMA WithCancelledType ==
  ASSUME cancelled \subseteq Ids, Cardinality(cancelled) <= MAX_CANCELLED_IDS,
         NEW id \in Ids
  PROVE  /\ WithCancelled(id) \subseteq Ids
         /\ Cardinality(WithCancelled(id)) <= MAX_CANCELLED_IDS
<1>. DEFINE kept == IF Cardinality(cancelled) >= MAX_CANCELLED_IDS
                      THEN {} ELSE cancelled
<1>1. IsFiniteSet(cancelled)
  BY IdsAssumption, FS_Subset
<1>2. IsFiniteSet(kept) /\ kept \subseteq Ids
  BY <1>1, FS_EmptySet
<1>3. Cardinality(kept) \in Nat /\ Cardinality(kept) < MAX_CANCELLED_IDS
  BY <1>1, FS_EmptySet, FS_CardinalityType, BoundsAssumption
<1>4. Cardinality(kept \cup {id}) <= Cardinality(kept) + 1
  BY <1>2, <1>3, FS_AddElement
<1>5. IsFiniteSet(kept \cup {id})
  BY <1>2, FS_AddElement
<1>6. Cardinality(kept \cup {id}) \in Nat
  BY <1>5, FS_CardinalityType
<1>7. WithCancelled(id) = kept \cup {id}
  BY DEF WithCancelled
<1>. HIDE DEF kept
<1>. QED
  BY <1>2, <1>3, <1>4, <1>6, <1>7, BoundsAssumption

(* Taking an id out does too.                                              *)
LEMMA WithoutCancelledType ==
  ASSUME cancelled \subseteq Ids, Cardinality(cancelled) <= MAX_CANCELLED_IDS,
         NEW id
  PROVE  /\ cancelled \ {id} \subseteq Ids
         /\ Cardinality(cancelled \ {id}) <= MAX_CANCELLED_IDS
<1>1. IsFiniteSet(cancelled)
  BY IdsAssumption, FS_Subset
<1>2. /\ IsFiniteSet(cancelled \ {id})
      /\ Cardinality(cancelled \ {id}) <= Cardinality(cancelled)
  BY <1>1, FS_Subset
<1>3. Cardinality(cancelled) \in Nat /\ Cardinality(cancelled \ {id}) \in Nat
  BY <1>1, <1>2, FS_CardinalityType
<1>. QED
  BY <1>2, <1>3, BoundsAssumption

(* A message is well typed, and Send keeps the channel and the control     *)
(* point well typed.                                                       *)
LEMMA SendType ==
  ASSUME out \in Seq(Message), NEW m \in Message, NEW next, Send(m, next)
  PROVE  out' \in Seq(Message) /\ pc' \in {next, "stopped"}
BY AppendProperties DEF Send

LEMMA AnswerType ==
  ASSUME out \in Seq(Message), pending \subseteq Ids,
         NEW m \in Message, NEW next, Answer(m, next)
  PROVE  /\ out' \in Seq(Message) /\ pc' \in {next, "stopped"}
         /\ pending' \subseteq Ids
BY SendType DEF Answer

LEMMA MsgType ==
  ASSUME NEW kind \in Kinds, NEW id \in Ids \cup {NoId}, NEW r \in Nat
  PROVE  /\ Msg(kind, id, r) \in Message
         /\ Msg(kind, id, r).id = id /\ Msg(kind, id, r).kind = kind
         /\ kind \in AnswerKinds /\ id \in Ids => Msg(kind, id, r) \in ReplyMessage
BY DEF Msg, Message, ReplyMessage

-----------------------------------------------------------------------------
(* Type correctness, and the bounds on the queue and on the cancelled set. *)

(* A worker's step keeps the worker's own state well typed.                *)
LEMMA StepType ==
  ASSUME TypeOK, NEW w \in Workers, NEW s, NEW j, Step(w, s, j),
         s \in {"idle", "taken", "running", "replied", "panicked"},
         j \in Job \/ (s = "idle" /\ j = NoJob)
  PROVE  /\ wstate' \in [Workers -> {"idle", "taken", "running", "replied",
                                     "panicked"}]
         /\ wjob' \in [Workers -> [id : Ids \cup {NoId}, rev : Nat]]
         /\ \A v \in Workers : wstate'[v] # "idle" => wjob'[v] \in Job
<1>1. j \in [id : Ids \cup {NoId}, rev : Nat]
  BY DEF Job, NoJob
<1>. QED
  BY <1>1 DEF Step, TypeOK

LEMMA ReplyType ==
  ASSUME TypeOK, NEW w \in Workers, NEW kind \in AnswerKinds, Reply(w, kind)
  PROVE  TypeOK'
<1>1. wjob[w] \in Job
  BY DEF Reply, TypeOK
<1>2. Msg(kind, wjob[w].id, wjob[w].rev) \in ReplyMessage
  BY <1>1 DEF Msg, ReplyMessage, Job
<1>3. results' \in Seq(ReplyMessage)
  BY <1>2, AppendProperties DEF Reply, TypeOK, ReplyMessage
<1>. QED
  BY <1>1, <1>3, StepType
     DEF Reply, TypeOK, ReplyMessage, mainVars, clientVars

LEMMA TypeInductive == TypeOK /\ [Next]_vars => TypeOK'
<1>. SUFFICES ASSUME TypeOK, [Next]_vars PROVE TypeOK'
  OBVIOUS
<1>1. ASSUME NEW id \in Ids, RefuseCancelled(id) PROVE TypeOK'
  <2>1. Msg("cancelled", id, rev) \in Message
    BY DEF TypeOK, Msg, Message, Kinds, AnswerKinds
  <2>2. out' \in Seq(Message) /\ pc' \in {"select", "stopped"}
    BY <1>1, <2>1, SendType DEF RefuseCancelled, TypeOK
  <2>3. /\ cancelled' \subseteq Ids
        /\ Cardinality(cancelled') <= MAX_CANCELLED_IDS
    BY <1>1, WithoutCancelledType DEF RefuseCancelled, TypeOK
  <2>. QED
    BY <1>1, <2>2, <2>3
       DEF RefuseCancelled, ReceiveRequest, Receive, TypeOK, workerVars
<1>2. ASSUME NEW id \in Ids, Dispatch(id) PROVE TypeOK'
  <2>1. [id |-> id, rev |-> rev] \in Job
    BY DEF TypeOK, Job
  <2>2. queue' \in Seq(Job) /\ Len(queue') = Len(queue) + 1
    BY <1>2, <2>1, AppendProperties DEF Dispatch, TypeOK
  <2>3. Len(queue) \in Nat
    BY LenProperties DEF TypeOK
  <2>4. Len(queue') <= QUEUE_CAPACITY
    BY <1>2, <2>2, <2>3, BoundsAssumption DEF Dispatch
  <2>. QED
    BY <1>2, <2>2, <2>4
       DEF Dispatch, ReceiveRequest, Receive, TypeOK, workerVars
<1>3. ASSUME NEW id \in Ids, RefuseFull(id) PROVE TypeOK'
  <2>1. Msg("failed", id, rev) \in Message
    BY DEF TypeOK, Msg, Message, Kinds, AnswerKinds
  <2>2. out' \in Seq(Message) /\ pc' \in {"select", "stopped"}
    BY <1>3, <2>1, SendType DEF RefuseFull, TypeOK
  <2>. QED
    BY <1>3, <2>2 DEF RefuseFull, ReceiveRequest, Receive, TypeOK, workerVars
<1>4. ASSUME NEW id \in Ids, ReceiveCancel(id) PROVE TypeOK'
  <2>1. /\ cancelled' \subseteq Ids
        /\ Cardinality(cancelled') <= MAX_CANCELLED_IDS
    BY <1>4, WithCancelledType DEF ReceiveCancel, TypeOK
  <2>. QED
    BY <1>4, <2>1 DEF ReceiveCancel, Receive, TypeOK, workerVars
<1>5. CASE ReceiveEdit
  BY <1>5 DEF ReceiveEdit, Receive, TypeOK, workerVars
<1>6. CASE Shutdown
  <2>1. Msg("shutdown", NoId, rev) \in Message
    BY DEF TypeOK, Msg, Message, Kinds
  <2>2. out' \in Seq(Message) /\ pc' = "stopped"
    BY <1>6, <2>1, SendType DEF Shutdown, TypeOK
  <2>. QED
    BY <1>6, <2>2 DEF Shutdown, Receive, TypeOK, workerVars
<1>7. CASE Disconnect
  BY <1>7 DEF Disconnect, TypeOK, workerVars, clientVars
<1>8. CASE AnswerCancelled
  <2>1. Msg("cancelled", cancelling, rev) \in Message
    BY <1>8 DEF AnswerCancelled, TypeOK, Msg, Message, Kinds, AnswerKinds
  <2>2. /\ out' \in Seq(Message) /\ pc' \in {"select", "stopped"}
        /\ pending' \subseteq Ids
    BY <1>8, <2>1, AnswerType DEF AnswerCancelled, TypeOK
  <2>. QED
    BY <1>8, <2>2 DEF AnswerCancelled, TypeOK, workerVars, clientVars
<1>9. CASE DrainQueued
  <2>1. /\ Head(queue) \in Job /\ queue' \in Seq(Job)
        /\ Len(queue') <= QUEUE_CAPACITY
    BY <1>9, HeadTailProperties, LenProperties, BoundsAssumption
       DEF DrainQueued, TypeOK
  <2>2. Msg("modified", Head(queue).id, rev) \in Message
    BY <2>1 DEF TypeOK, Msg, Message, Kinds, AnswerKinds, Job
  <2>3. /\ out' \in Seq(Message) /\ pc' \in {"drain", "stopped"}
        /\ pending' \subseteq Ids
    BY <1>9, <2>2, AnswerType DEF DrainQueued, TypeOK
  <2>. QED
    BY <1>9, <2>1, <2>3 DEF DrainQueued, TypeOK, workerVars, clientVars
<1>10. CASE BeginWrite
  BY <1>10 DEF BeginWrite, TypeOK, workerVars, clientVars
<1>11. CASE FinishWithoutWrite
  BY <1>11 DEF FinishWithoutWrite, TypeOK, workerVars, clientVars
<1>12. CASE WriteInput
  BY <1>12 DEF WriteInput, TypeOK, workerVars, clientVars
<1>13. CASE TakeReply
  <2>1. Head(results) \in ReplyMessage /\ results' \in Seq(ReplyMessage)
    BY <1>13, HeadTailProperties DEF TakeReply, TypeOK, ReplyMessage
  <2>2. Head(results) \in Message
    BY <2>1 DEF ReplyMessage, Message, Kinds
  <2>3. /\ out' \in Seq(Message) /\ pc' \in {"select", "stopped"}
        /\ pending' \subseteq Ids
    BY <1>13, <2>2, AnswerType DEF TakeReply, TypeOK
  <2>. QED
    BY <1>13, <2>1, <2>3
       DEF TakeReply, TypeOK, workerVars, clientVars, ReplyMessage
<1>14. CASE FlushDirty
  <2>1. Msg("diagnostics", NoId, rev) \in Message
    BY DEF TypeOK, Msg, Message, Kinds
  <2>2. out' \in Seq(Message) /\ pc' \in {"select", "stopped"}
    BY <1>14, <2>1, SendType DEF FlushDirty, TypeOK
  <2>. QED
    BY <1>14, <2>2 DEF FlushDirty, TypeOK, workerVars, clientVars
<1>15. ASSUME NEW w \in Workers, Worker(w) PROVE TypeOK'
  <2>. USE DEF mainVars, clientVars
  <2>1. CASE Take(w)
    <3>1. /\ Head(queue) \in Job /\ queue' \in Seq(Job)
          /\ Len(queue') <= QUEUE_CAPACITY
      BY <2>1, HeadTailProperties, LenProperties, BoundsAssumption
         DEF Take, TypeOK
    <3>. QED
      BY <2>1, <3>1, StepType DEF Take, TypeOK
  <2>2. CASE SkipCancelled(w)
    <3>1. /\ cancelled' \subseteq Ids
          /\ Cardinality(cancelled') <= MAX_CANCELLED_IDS
      BY <2>2, WithoutCancelledType DEF SkipCancelled, TypeOK
    <3>. QED
      BY <2>2, <3>1, StepType DEF SkipCancelled, TypeOK
  <2>3. CASE Start(w)
    BY <2>3, StepType DEF Start, TypeOK
  <2>4. CASE Finish(w)
    BY <2>4, ReplyType DEF Finish, AnswerKinds
  <2>5. CASE Unwind(w)
    BY <2>5, ReplyType DEF Unwind, AnswerKinds
  <2>6. CASE Release(w)
    BY <2>6, StepType DEF Release, TypeOK
  <2>7. CASE Panic(w)
    BY <2>7, StepType DEF Panic, TypeOK
  <2>8. CASE ReportPanic(w)
    <3>1. wjob[w] \in Job
      BY <2>8 DEF ReportPanic, TypeOK
    <3>2. Msg("internal", wjob[w].id, wjob[w].rev) \in ReplyMessage
      BY <3>1 DEF Msg, ReplyMessage, Job, AnswerKinds
    <3>3. results' \in Seq(ReplyMessage)
      BY <2>8, <3>2, AppendProperties DEF ReportPanic, TypeOK, ReplyMessage
    <3>. QED
      BY <2>8, <3>3, StepType DEF ReportPanic, TypeOK, ReplyMessage
  <2>. QED
    BY <1>15, <2>1, <2>2, <2>3, <2>4, <2>5, <2>6, <2>7, <2>8 DEF Worker, Work
<1>16. CASE WriteMessage
  <2>1. Head(out) \in Message /\ out' \in Seq(Message)
    BY <1>16, HeadTailProperties DEF WriteMessage, TypeOK
  <2>2. answered' \in [Ids -> Nat] /\ shown' \in Nat
    BY <1>16, <2>1 DEF WriteMessage, TypeOK, Message
  <2>. QED
    BY <1>16, <2>1, <2>2 DEF WriteMessage, TypeOK, workerVars, mainVars
<1>17. CASE FailWrite
  <2>1. <<>> \in Seq(Message)
    BY EmptySeq
  <2>. QED
    BY <1>17, <2>1 DEF FailWrite, TypeOK, workerVars, clientVars, mainVars
<1>18. CASE UNCHANGED vars
  BY <1>18 DEF vars, TypeOK, workerVars, clientVars, mainVars
<1>. QED
  BY <1>1, <1>2, <1>3, <1>4, <1>5, <1>6, <1>7, <1>8, <1>9, <1>10, <1>11,
     <1>12, <1>13, <1>14, <1>15, <1>16, <1>17, <1>18
     DEF Next, FromClient, Main, Rest

LEMMA TypeInitial == Init => TypeOK
<1>1. Cardinality({}) = 0
  BY FS_EmptySet
<1>2. /\ <<>> \in Seq(Job) /\ Len(<<>>) = 0
      /\ <<>> \in Seq(Message) /\ <<>> \in Seq(ReplyMessage)
  BY EmptySeq
<1>. SUFFICES ASSUME Init PROVE TypeOK
  OBVIOUS
<1>3. /\ queue \in Seq(Job) /\ Len(queue) <= QUEUE_CAPACITY
      /\ results \in Seq(ReplyMessage) /\ out \in Seq(Message)
  BY <1>2, BoundsAssumption DEF Init
<1>4. /\ cancelled \subseteq Ids
      /\ Cardinality(cancelled) <= MAX_CANCELLED_IDS
  BY <1>1, BoundsAssumption DEF Init
<1>5. /\ wstate \in [Workers -> {"idle"}] /\ \A w \in Workers : wstate[w] = "idle"
      /\ wjob \in [Workers -> [id : Ids \cup {NoId}, rev : Nat]]
  BY DEF Init, NoJob
<1>. QED
  BY <1>3, <1>4, <1>5, BoundsAssumption, IdsAssumption
     DEF Init, TypeOK, ReplyMessage

(* The server's state is always well typed; in particular the pool never   *)
(* holds more jobs than its channel and the cancelled set never outgrows   *)
(* its cap, for every value of the two.                                    *)
THEOREM TypeCorrect == Spec => []TypeOK
BY TypeInitial, TypeInductive, PTL DEF Spec

-----------------------------------------------------------------------------
(* Exactly one response per request.                                       *)

LEMMA PositionsAppend ==
  ASSUME NEW s \in Seq(Message), NEW m \in Message, NEW id
  PROVE  Positions(Append(s, m), id) =
           Positions(s, id) \cup (IF m.id = id THEN {Len(s) + 1} ELSE {})
<1>1. /\ Len(s) \in Nat /\ Len(Append(s, m)) = Len(s) + 1
      /\ \A i \in 1..Len(s) : Append(s, m)[i] = s[i]
      /\ Append(s, m)[Len(s) + 1] = m
  BY AppendProperties, LenProperties
<1>. QED
  BY <1>1 DEF Positions

LEMMA PositionsTail ==
  ASSUME NEW s \in Seq(Message), s # <<>>, NEW id
  PROVE  /\ \A i \in Positions(Tail(s), id) : i + 1 \in Positions(s, id)
         /\ Head(s).id = id <=> 1 \in Positions(s, id)
         /\ Positions(s, id) \subseteq Nat \ {0}
         /\ Positions(Tail(s), id) \subseteq Nat \ {0}
<1>1. /\ Len(s) \in Nat \ {0} /\ Len(Tail(s)) = Len(s) - 1
      /\ \A i \in 1..Len(Tail(s)) : Tail(s)[i] = s[i + 1]
      /\ Head(s) = s[1]
  BY HeadTailProperties, LenProperties, EmptySeq
<1>. QED
  BY <1>1 DEF Positions

(* A message for no id, or for a pending id on its way out of `pending`,   *)
(* leaves every request with exactly one response.                         *)
LEMMA AnswerKeepsOnce ==
  ASSUME TypeOK, AnsweredOnce, NEW m \in Message, NEW next, Answer(m, next),
         UNCHANGED <<asked, answered>>
  PROVE  AnsweredOnce'
<1>. SUFFICES ASSUME NEW id \in Ids
              PROVE  /\ \/ asked'[id] = answered'[id] + 1
                        \/ asked'[id] = answered'[id]
                     /\ id \in pending' => /\ asked'[id] = answered'[id] + 1
                                           /\ Responses(id)' = {}
                     /\ \A i \in Responses(id)' :
                          /\ asked'[id] = answered'[id] + 1
                          /\ id \notin pending' /\ Responses(id)' = {i}
  BY DEF AnsweredOnce
<1>1. Positions(Append(out, m), id) =
        Responses(id) \cup (IF m.id = id THEN {Len(out) + 1} ELSE {})
  BY PositionsAppend DEF TypeOK, Responses
<1>2. CASE out' = Append(out, m) /\ m.id \in pending
           /\ pending' = pending \ {m.id}
  BY <1>1, <1>2 DEF AnsweredOnce, Responses
<1>3. CASE out' = out /\ pending' = pending
  BY <1>3 DEF AnsweredOnce, Responses, Positions
<1>4. CASE out' = out /\ pending' = pending \ {m.id}
  BY <1>4 DEF AnsweredOnce, Responses, Positions
<1>. QED
  BY <1>2, <1>3, <1>4 DEF Answer, Send

LEMMA NotifyKeepsOnce ==
  ASSUME TypeOK, AnsweredOnce, NEW m \in Message, NEW next, Send(m, next),
         m.id = NoId, UNCHANGED <<pending, asked, answered>>
  PROVE  AnsweredOnce'
<1>1. CASE out' = out
  BY <1>1 DEF AnsweredOnce, Responses, Positions
<1>2. CASE out' = Append(out, m)
  <2>1. ASSUME NEW id \in Ids
        PROVE  Positions(Append(out, m), id) = Responses(id)
    <3>1. m.id # id
      BY IdsAssumption
    <3>2. out \in Seq(Message)
      BY DEF TypeOK
    <3>3. Positions(Append(out, m), id) =
            Positions(out, id) \cup
              (IF m.id = id THEN {Len(out) + 1} ELSE {})
      BY <3>2, PositionsAppend
    <3>. QED
      BY <3>1, <3>3 DEF Responses
  <2>. QED
    BY <1>2, <2>1 DEF AnsweredOnce, Responses
<1>. QED
  BY <1>1, <1>2 DEF Send

(* A request refused on arrival gets its response at once.                 *)
LEMMA RefuseKeepsOnce ==
  ASSUME TypeOK, AnsweredOnce, NEW r \in Ids, NEW m \in Message, m.id = r,
         NEW next, Send(m, next), ReceiveRequest(r),
         UNCHANGED <<pending, answered>>
  PROVE  AnsweredOnce'
<1>1. asked[r] \in Nat /\ asked[r] = answered[r] /\ asked'[r] = answered'[r] + 1
      /\ \A id \in Ids \ {r} : asked'[id] = asked[id]
  BY DEF ReceiveRequest, TypeOK
<1>2. r \notin pending /\ Responses(r) = {}
  BY <1>1 DEF AnsweredOnce
<1>3. \A id \in Ids : Positions(Append(out, m), id) =
        Responses(id) \cup (IF id = r THEN {Len(out) + 1} ELSE {})
  BY PositionsAppend DEF TypeOK, Responses
<1>4. CASE out' = Append(out, m)
  BY <1>1, <1>2, <1>3, <1>4 DEF AnsweredOnce, Responses
<1>5. CASE out' = out
  BY <1>1, <1>2, <1>5 DEF AnsweredOnce, Responses
<1>. QED
  BY <1>4, <1>5 DEF Send

LEMMA WriteKeepsOnce ==
  ASSUME TypeOK, AnsweredOnce, WriteMessage
  PROVE  AnsweredOnce'
<1>. DEFINE h == Head(out).id
<1>1. /\ out # <<>> /\ out \in Seq(Message) /\ out' = Tail(out)
      /\ UNCHANGED <<asked, pending>>
  BY DEF WriteMessage, TypeOK, mainVars
<1>2. Head(out) \in Message
  BY <1>1, HeadTailProperties
<1>. SUFFICES ASSUME NEW id \in Ids
              PROVE  /\ \/ asked'[id] = answered'[id] + 1
                        \/ asked'[id] = answered'[id]
                     /\ id \in pending' => /\ asked'[id] = answered'[id] + 1
                                           /\ Responses(id)' = {}
                     /\ \A i \in Responses(id)' :
                          /\ asked'[id] = answered'[id] + 1
                          /\ id \notin pending' /\ Responses(id)' = {i}
  BY DEF AnsweredOnce
<1>3. /\ \A i \in Responses(id)' : i + 1 \in Responses(id)
      /\ h = id <=> 1 \in Responses(id)
      /\ Responses(id) \subseteq Nat \ {0}
      /\ Responses(id)' \subseteq Nat \ {0}
  BY <1>1, PositionsTail DEF Responses
<1>4. CASE h = id
  <2>1. 1 \in Responses(id) /\ Responses(id) = {1}
    BY <1>3, <1>4 DEF AnsweredOnce
  <2>2. Responses(id)' = {}
    BY <1>3, <2>1
  <2>3. answered'[id] = answered[id] + 1 /\ asked[id] = answered[id] + 1
    BY <1>1, <1>4, <2>1 DEF AnsweredOnce, WriteMessage, TypeOK
  <2>4. id \notin pending'
    BY <1>1, <2>1 DEF AnsweredOnce
  <2>. QED
    BY <1>1, <2>2, <2>3, <2>4
<1>5. CASE h # id
  <2>1. answered'[id] = answered[id]
    BY <1>5 DEF WriteMessage, TypeOK
  <2>2. \A i, j \in Responses(id)' : i = j
    BY <1>3 DEF AnsweredOnce
  <2>3. \A i \in Responses(id)' : Responses(id)' = {i}
    BY <2>2
  <2>. QED
    BY <1>1, <1>3, <2>1, <2>3 DEF AnsweredOnce
<1>. QED
  BY <1>4, <1>5

LEMMA OnceInductive == TypeOK /\ AnsweredOnce /\ [Next]_vars => AnsweredOnce'
<1>. SUFFICES ASSUME TypeOK, AnsweredOnce, [Next]_vars PROVE AnsweredOnce'
  OBVIOUS
<1>1. ASSUME NEW id \in Ids, RefuseCancelled(id) PROVE AnsweredOnce'
  <2>1. Msg("cancelled", id, rev) \in Message /\ Msg("cancelled", id, rev).id = id
    BY DEF TypeOK, Msg, Message, Kinds, AnswerKinds
  <2>. QED
    BY <1>1, <2>1, RefuseKeepsOnce DEF RefuseCancelled
<1>2. ASSUME NEW id \in Ids, Dispatch(id) PROVE AnsweredOnce'
  <2>1. /\ asked[id] \in Nat /\ asked[id] = answered[id]
        /\ asked'[id] = answered'[id] + 1
        /\ \A j \in Ids \ {id} : asked'[j] = asked[j]
        /\ UNCHANGED <<out, answered>> /\ pending' = pending \cup {id}
    BY <1>2 DEF Dispatch, ReceiveRequest, TypeOK
  <2>2. Responses(id) = {}
    BY <2>1 DEF AnsweredOnce
  <2>. QED
    BY <2>1, <2>2 DEF AnsweredOnce, Responses
<1>3. ASSUME NEW id \in Ids, RefuseFull(id) PROVE AnsweredOnce'
  <2>1. Msg("failed", id, rev) \in Message /\ Msg("failed", id, rev).id = id
    BY DEF TypeOK, Msg, Message, Kinds, AnswerKinds
  <2>. QED
    BY <1>3, <2>1, RefuseKeepsOnce DEF RefuseFull
<1>4. CASE AnswerCancelled
  <2>1. Msg("cancelled", cancelling, rev) \in Message
    BY DEF TypeOK, Msg, Message, Kinds, AnswerKinds
  <2>. QED
    BY <1>4, <2>1, AnswerKeepsOnce DEF AnswerCancelled, clientVars
<1>5. CASE DrainQueued
  <2>1. Head(queue) \in Job
    BY <1>5, HeadTailProperties DEF DrainQueued, TypeOK
  <2>2. Msg("modified", Head(queue).id, rev) \in Message
    BY <2>1 DEF TypeOK, Msg, Message, Kinds, AnswerKinds, Job
  <2>. QED
    BY <1>5, <2>2, AnswerKeepsOnce DEF DrainQueued, clientVars
<1>6. CASE TakeReply
  <2>1. Head(results) \in ReplyMessage
    BY <1>6, HeadTailProperties DEF TakeReply, TypeOK, ReplyMessage
  <2>2. Head(results) \in Message
    BY <2>1 DEF ReplyMessage, Message, Kinds
  <2>. QED
    BY <1>6, <2>2, AnswerKeepsOnce DEF TakeReply, clientVars
<1>7. CASE FlushDirty
  <2>1. Msg("diagnostics", NoId, rev) \in Message
        /\ Msg("diagnostics", NoId, rev).id = NoId
    BY DEF TypeOK, Msg, Message, Kinds
  <2>. QED
    BY <1>7, <2>1, NotifyKeepsOnce DEF FlushDirty, clientVars
<1>8. CASE Shutdown
  <2>1. Msg("shutdown", NoId, rev) \in Message
        /\ Msg("shutdown", NoId, rev).id = NoId
    BY DEF TypeOK, Msg, Message, Kinds
  <2>. QED
    BY <1>8, <2>1, NotifyKeepsOnce DEF Shutdown
<1>9. CASE WriteMessage
  BY <1>9, WriteKeepsOnce
<1>10. CASE FailWrite
  <2>1. Positions(<<>>, 0) = {} /\ \A id \in Ids : Responses(id)' = {}
    BY <1>10 DEF FailWrite, Responses, Positions
  <2>. QED
    BY <1>10, <2>1 DEF FailWrite, AnsweredOnce, mainVars, clientVars
<1>11. CASE UNCHANGED <<out, pending, asked, answered>>
  BY <1>11 DEF AnsweredOnce, Responses
<1>12. CASE \/ ReceiveEdit \/ Disconnect \/ BeginWrite \/ FinishWithoutWrite
            \/ WriteInput \/ (\E id \in Ids : ReceiveCancel(id))
            \/ (\E w \in Workers : Worker(w)) \/ UNCHANGED vars
  <2>1. UNCHANGED <<out, pending, asked, answered>>
    BY <1>12 DEF ReceiveEdit, Disconnect, BeginWrite, FinishWithoutWrite,
         WriteInput, ReceiveCancel, Worker, Work, Take, SkipCancelled, Start,
         Finish, Unwind, Reply, Release, Panic, ReportPanic, vars, mainVars,
         clientVars
  <2>. QED
    BY <2>1, <1>11
<1>. QED
  BY <1>1, <1>2, <1>3, <1>4, <1>5, <1>6, <1>7, <1>8, <1>9, <1>10, <1>12
     DEF Next, FromClient, Main, Rest

(* JSON-RPC's "exactly one response per request": in every reachable state *)
(* an outstanding request has at most one response on its way, none while  *)
(* it is pending, and an id that is not outstanding has none.              *)
THEOREM OneResponse == Spec => []AnsweredOnce
<1>1. Init => AnsweredOnce
  BY DEF Init, AnsweredOnce, Responses, Positions
<1>. QED
  BY <1>1, TypeInitial, TypeInductive, OnceInductive, PTL DEF Spec

-----------------------------------------------------------------------------
(* The set of clones is closed when an input is written.                   *)

(* A job the main thread appends to the queue is a new clone; taking the   *)
(* head of the queue adds none.                                            *)
LEMMA QueueAppend ==
  ASSUME queue \in Seq(Job), NEW job \in Job, queue' = Append(queue, job),
         UNCHANGED workerVars
  PROVE  Clones' = Clones \cup {job}
<1>1. /\ Len(queue) \in Nat /\ Len(queue') = Len(queue) + 1
      /\ \A i \in 1..Len(queue) : queue'[i] = queue[i]
      /\ queue'[Len(queue) + 1] = job
  BY AppendProperties, LenProperties
<1>2. {queue'[i] : i \in 1..Len(queue')} =
        {queue[i] : i \in 1..Len(queue)} \cup {job}
  <2>1. \A i : i \in 1..Len(queue') <=> i \in 1..Len(queue) \/ i = Len(queue) + 1
    BY <1>1
  <2>. QED
    BY <1>1, <2>1
<1>. QED
  BY <1>2 DEF Clones, workerVars

LEMMA QueueTail ==
  ASSUME queue \in Seq(Job), queue # <<>>, queue' = Tail(queue)
  PROVE  /\ Head(queue) \in Clones
         /\ {queue'[i] : i \in 1..Len(queue')} \subseteq
              {queue[i] : i \in 1..Len(queue)}
<1>1. /\ Len(queue) \in Nat \ {0} /\ Len(queue') = Len(queue) - 1
      /\ \A i \in 1..Len(queue') : queue'[i] = queue[i + 1]
      /\ Head(queue) = queue[1]
  BY HeadTailProperties, LenProperties, EmptySeq
<1>. QED
  BY <1>1 DEF Clones

LEMMA SnapshotsInductive ==
  TypeOK /\ SnapshotsCurrent /\ [Next]_vars => SnapshotsCurrent'
<1>. SUFFICES ASSUME TypeOK, SnapshotsCurrent, [Next]_vars
              PROVE  SnapshotsCurrent'
  OBVIOUS
<1>1. ASSUME NEW id \in Ids, Dispatch(id) PROVE SnapshotsCurrent'
  <2>1. [id |-> id, rev |-> rev] \in Job
    BY DEF TypeOK, Job
  <2>2. Clones' = Clones \cup {[id |-> id, rev |-> rev]} /\ rev' = rev
    BY <1>1, <2>1, QueueAppend DEF Dispatch, TypeOK
  <2>. QED
    BY <2>2 DEF SnapshotsCurrent
<1>2. CASE DrainQueued
  <2>1. {queue'[i] : i \in 1..Len(queue')} \subseteq
          {queue[i] : i \in 1..Len(queue)}
    BY <1>2, QueueTail DEF DrainQueued, TypeOK
  <2>2. UNCHANGED <<wstate, wjob, rev>>
    BY <1>2 DEF DrainQueued, workerVars
  <2>3. Clones' \subseteq Clones
    BY <2>1, <2>2 DEF Clones
  <2>. QED
    BY <2>2, <2>3 DEF SnapshotsCurrent
<1>3. CASE WriteInput
  <2>1. Clones' = Clones
    BY <1>3 DEF WriteInput, Clones, workerVars
  <2>. QED
    BY <1>3, <2>1 DEF WriteInput, SnapshotsCurrent
<1>4. ASSUME NEW w \in Workers, Take(w) PROVE SnapshotsCurrent'
  <2>1. /\ Head(queue) \in Clones
        /\ {queue'[i] : i \in 1..Len(queue')} \subseteq
             {queue[i] : i \in 1..Len(queue)}
    BY <1>4, QueueTail DEF Take, TypeOK
  <2>2. /\ wjob'[w] = Head(queue) /\ rev' = rev
        /\ \A v \in Workers \ {w} : wstate'[v] = wstate[v] /\ wjob'[v] = wjob[v]
    BY <1>4 DEF Take, Step, TypeOK
  <2>3. Clones' \subseteq Clones
    BY <2>1, <2>2 DEF Clones
  <2>. QED
    BY <2>2, <2>3 DEF SnapshotsCurrent
<1>5. ASSUME NEW w \in Workers,
             \/ SkipCancelled(w) \/ Start(w) \/ Finish(w) \/ Unwind(w)
             \/ Release(w) \/ Panic(w) \/ ReportPanic(w)
      PROVE  SnapshotsCurrent'
  <2>1. /\ UNCHANGED <<queue, rev>>
        /\ \A v \in Workers \ {w} : wstate'[v] = wstate[v] /\ wjob'[v] = wjob[v]
        /\ \/ wstate'[w] \in {"idle", "panicked"}
           \/ wstate[w] \in {"taken", "running"} /\ wjob'[w] = wjob[w]
    BY <1>5 DEF SkipCancelled, Start, Finish, Unwind, Reply, Release, Panic,
         ReportPanic, Step, TypeOK
  <2>2. Clones' \subseteq Clones
    BY <2>1 DEF Clones
  <2>. QED
    BY <2>1, <2>2 DEF SnapshotsCurrent
<1>6. CASE UNCHANGED <<queue, wstate, wjob, rev>>
  BY <1>6 DEF SnapshotsCurrent, Clones
<1>7. CASE \/ (\E id \in Ids : \/ RefuseCancelled(id) \/ RefuseFull(id)
                               \/ ReceiveCancel(id))
           \/ ReceiveEdit \/ Shutdown \/ Disconnect \/ AnswerCancelled
           \/ BeginWrite \/ FinishWithoutWrite \/ TakeReply \/ FlushDirty
           \/ WriteMessage \/ FailWrite \/ UNCHANGED vars
  <2>1. UNCHANGED <<queue, wstate, wjob, rev>>
    BY <1>7 DEF RefuseCancelled, RefuseFull, ReceiveCancel, ReceiveEdit,
         Shutdown, Disconnect, AnswerCancelled, BeginWrite, FinishWithoutWrite,
         TakeReply, FlushDirty, WriteMessage, FailWrite, vars, workerVars
  <2>. QED
    BY <2>1, <1>6
<1>. QED
  BY <1>1, <1>2, <1>3, <1>4, <1>5, <1>7
     DEF Next, FromClient, Main, Worker, Work, Rest

(* "Taking the clone here closes the set" (dispatch_request): no job, in   *)
(* the queue or in a worker, ever holds a clone of a revision other than   *)
(* the current one.                                                        *)
THEOREM ClonesAreCurrent == Spec => []SnapshotsCurrent
<1>1. Init => SnapshotsCurrent
  BY DEF Init, SnapshotsCurrent, Clones
<1>. QED
  BY <1>1, TypeInitial, TypeInductive, SnapshotsInductive, PTL DEF Spec

-----------------------------------------------------------------------------
(* No request is forgotten.                                                *)

LEMMA FoundAppend ==
  ASSUME NEW S, NEW s \in Seq(S), NEW m \in S, NEW id
  PROVE  /\ Positions(s, id) # {} => Positions(Append(s, m), id) # {}
         /\ m.id = id => Positions(Append(s, m), id) # {}
<1>1. /\ Len(s) \in Nat /\ Len(Append(s, m)) = Len(s) + 1
      /\ \A i \in 1..Len(s) : Append(s, m)[i] = s[i]
      /\ Append(s, m)[Len(s) + 1] = m
  BY AppendProperties, LenProperties
<1>. QED
  BY <1>1 DEF Positions

LEMMA FoundTail ==
  ASSUME NEW S, NEW s \in Seq(S), s # <<>>, NEW id, Positions(s, id) # {}
  PROVE  Head(s).id = id \/ Positions(Tail(s), id) # {}
<1>1. /\ Len(s) \in Nat \ {0} /\ Len(Tail(s)) = Len(s) - 1
      /\ \A i \in 1..Len(Tail(s)) : Tail(s)[i] = s[i + 1]
      /\ Head(s) = s[1]
  BY HeadTailProperties, LenProperties, EmptySeq
<1>2. PICK i \in 1..Len(s) : s[i].id = id
  BY DEF Positions
<1>3. CASE i = 1
  BY <1>1, <1>2, <1>3
<1>4. CASE i # 1
  <2>1. i - 1 \in 1..Len(Tail(s)) /\ Tail(s)[i - 1] = s[i]
    BY <1>1, <1>4
  <2>. QED
    BY <1>2, <2>1 DEF Positions
<1>. QED
  BY <1>3, <1>4

(* Some path that will answer id exists.                                   *)
Reachable(id) == \/ Positions(queue, id) # {}
                 \/ \E w \in Workers : Owes(w, id)
                 \/ Positions(results, id) # {}

(* What a step of one worker leaves every other request with.              *)
LEMMA OthersKeepOwing ==
  ASSUME NEW w \in Workers, NEW id, ~Owes(w, id) \/ Owes(w, id)',
         \A v \in Workers \ {w} : wstate'[v] = wstate[v] /\ wjob'[v] = wjob[v],
         \E v \in Workers : Owes(v, id)
  PROVE  \E v \in Workers : Owes(v, id)'
BY DEF Owes

LEMMA ForgottenInductive ==
  TypeOK /\ NoRequestForgotten /\ [Next]_vars => NoRequestForgotten'
<1>. SUFFICES ASSUME TypeOK, NoRequestForgotten, [Next]_vars,
                     pc' # "stopped", NEW id \in Ids, id \in pending'
              PROVE  \/ pc' = "cancel" /\ cancelling' = id
                     \/ id \notin cancelled' /\ Reachable(id)'
  BY TypeInductive DEF NoRequestForgotten, Reachable, TypeOK
<1>0. ASSUME pc # "stopped", id \in pending
      PROVE  \/ pc = "cancel" /\ cancelling = id
             \/ id \notin cancelled /\ Reachable(id)
  BY <1>0 DEF NoRequestForgotten, Reachable
<1>. DEFINE Goal == \/ pc' = "cancel" /\ cancelling' = id
                    \/ id \notin cancelled' /\ Reachable(id)'
<1>1. ASSUME NEW r \in Ids, RefuseCancelled(r) PROVE Goal
  BY <1>0, <1>1 DEF RefuseCancelled, ReceiveRequest, Receive, Reachable, Owes,
     workerVars
<1>2. ASSUME NEW r \in Ids, Dispatch(r) PROVE Goal
  <2>1. /\ [id |-> r, rev |-> rev] \in Job /\ [id |-> r, rev |-> rev].id = r
        /\ queue \in Seq(Job)
    BY DEF TypeOK, Job
  <2>2. /\ Positions(queue, id) # {} => Positions(queue', id) # {}
        /\ r = id => Positions(queue', id) # {}
    BY <1>2, <2>1, FoundAppend DEF Dispatch
  <2>3. /\ pc = "select" /\ UNCHANGED <<wstate, wjob, results, cancelled>>
        /\ r \notin cancelled /\ pending' = pending \cup {r}
    BY <1>2 DEF Dispatch, ReceiveRequest, Receive, workerVars, WasCancelled
  <2>. QED
    BY <1>0, <2>2, <2>3 DEF Reachable, Owes
<1>3. ASSUME NEW r \in Ids, RefuseFull(r) PROVE Goal
  BY <1>0, <1>3 DEF RefuseFull, ReceiveRequest, Receive, Reachable, Owes,
     workerVars
<1>4. ASSUME NEW r \in Ids, ReceiveCancel(r) PROVE Goal
  BY <1>0, <1>4 DEF ReceiveCancel, Receive, WithCancelled, Reachable, Owes,
     workerVars
<1>5. CASE AnswerCancelled
  <2>1. Msg("cancelled", cancelling, rev).id = cancelling
    BY DEF Msg
  <2>2. /\ pc = "cancel" /\ id \in pending /\ id # cancelling
        /\ UNCHANGED <<cancelled, queue, wstate, wjob, results>>
    BY <1>5, <2>1 DEF AnswerCancelled, Answer, workerVars
  <2>. QED
    BY <1>0, <2>2 DEF Reachable, Owes
<1>6. CASE DrainQueued
  <2>1. Msg("modified", Head(queue).id, rev).id = Head(queue).id
    BY DEF Msg
  <2>2. /\ pc = "drain" /\ id \in pending /\ id # Head(queue).id
        /\ UNCHANGED <<cancelled, wstate, wjob, results>>
    BY <1>6, <2>1 DEF DrainQueued, Answer, workerVars
  <2>3. Positions(queue, id) # {} => Positions(queue', id) # {}
    BY <1>6, <2>2, FoundTail DEF DrainQueued, TypeOK
  <2>. QED
    BY <1>0, <2>2, <2>3 DEF Reachable, Owes
<1>7. CASE TakeReply
  <2>1. /\ pc = "select" /\ id \in pending /\ id # Head(results).id
        /\ UNCHANGED <<cancelled, wstate, wjob, queue>>
    BY <1>7 DEF TakeReply, Answer, workerVars
  <2>2. Positions(results, id) # {} => Positions(results', id) # {}
    BY <1>7, <2>1, FoundTail DEF TakeReply, TypeOK
  <2>. QED
    BY <1>0, <2>1, <2>2 DEF Reachable, Owes
<1>8. CASE \/ ReceiveEdit \/ Shutdown \/ Disconnect \/ BeginWrite
           \/ FinishWithoutWrite \/ WriteInput \/ FlushDirty
           \/ WriteMessage \/ FailWrite \/ UNCHANGED vars
  <2>1. /\ pc # "stopped" /\ (pc = "cancel" => pc' = "cancel")
        /\ UNCHANGED <<pending, cancelling, cancelled, queue, wstate, wjob,
                       results>>
    BY <1>8 DEF ReceiveEdit, Shutdown, Disconnect, BeginWrite, Receive,
         FinishWithoutWrite, WriteInput, FlushDirty, WriteMessage, FailWrite,
         vars, mainVars, workerVars
  <2>. QED
    BY <1>0, <2>1 DEF Reachable, Owes
<1>9. ASSUME NEW w \in Workers, Worker(w) PROVE Goal
  <2>1. /\ pc # "stopped" /\ UNCHANGED <<pc, cancelling, pending>>
        /\ \A v \in Workers \ {w} : wstate'[v] = wstate[v] /\ wjob'[v] = wjob[v]
    BY <1>9 DEF Worker, Work, Take, SkipCancelled, Start, Finish, Unwind,
         Reply, Release, Panic, ReportPanic, Step, mainVars, TypeOK
  <2>2. \/ pc = "cancel" /\ cancelling = id
        \/ id \notin cancelled /\ Reachable(id)
    BY <1>0, <2>1
  <2>. SUFFICES ASSUME id \notin cancelled, Reachable(id)
                PROVE  id \notin cancelled' /\ Reachable(id)'
    BY <2>1, <2>2
  <2>3. CASE Take(w)
    <3>1. ~Owes(w, id) /\ (Head(queue).id = id => Owes(w, id)')
      BY <2>3 DEF Take, Step, Owes, TypeOK
    <3>2. Positions(queue, id) # {} =>
            Head(queue).id = id \/ Positions(queue', id) # {}
      BY <2>3, FoundTail DEF Take, TypeOK
    <3>3. UNCHANGED <<cancelled, results>>
      BY <2>3 DEF Take
    <3>. QED
      BY <2>1, <3>1, <3>2, <3>3, OthersKeepOwing DEF Reachable
  <2>4. CASE SkipCancelled(w)
    <3>1. /\ ~Owes(w, id) /\ UNCHANGED <<queue, results>>
          /\ cancelled' \subseteq cancelled
      BY <2>4 DEF SkipCancelled, Owes
    <3>. QED
      BY <2>1, <3>1, OthersKeepOwing DEF Reachable
  <2>5. CASE Start(w) \/ Panic(w) \/ Release(w)
    <3>1. /\ UNCHANGED <<queue, results, cancelled>>
          /\ ~Owes(w, id) \/ Owes(w, id)'
      BY <2>5 DEF Start, Panic, Release, Step, Owes, TypeOK
    <3>. QED
      BY <2>1, <3>1, OthersKeepOwing DEF Reachable
  <2>6. ASSUME NEW kind \in AnswerKinds, UNCHANGED <<queue, cancelled>>,
               wjob[w] \in Job,
               results' = Append(results, Msg(kind, wjob[w].id, wjob[w].rev))
        PROVE  id \notin cancelled' /\ Reachable(id)'
    <3>1. /\ Msg(kind, wjob[w].id, wjob[w].rev) \in ReplyMessage
          /\ Msg(kind, wjob[w].id, wjob[w].rev).id = wjob[w].id
          /\ results \in Seq(ReplyMessage)
      BY <2>6 DEF TypeOK, Msg, ReplyMessage, Job
    <3>2. /\ Positions(results, id) # {} => Positions(results', id) # {}
          /\ wjob[w].id = id => Positions(results', id) # {}
      BY <2>6, <3>1, FoundAppend
    <3>3. ~Owes(w, id) \/ wjob[w].id = id
      BY DEF Owes
    <3>. QED
      BY <2>1, <2>6, <3>2, <3>3, OthersKeepOwing DEF Reachable
  <2>7. CASE Finish(w) \/ Unwind(w)
    BY <2>6, <2>7 DEF Finish, Unwind, Reply, AnswerKinds, TypeOK
  <2>8. CASE ReportPanic(w)
    BY <2>6, <2>8 DEF ReportPanic, AnswerKinds, TypeOK
  <2>. QED
    BY <1>9, <2>3, <2>4, <2>5, <2>7, <2>8 DEF Worker, Work
<1>. QED
  BY <1>1, <1>2, <1>3, <1>4, <1>5, <1>6, <1>7, <1>8, <1>9
     DEF Next, FromClient, Main, Rest

(* No request is forgotten, whichever of the five paths is to answer it:   *)
(* while the server runs, every pending request is in the queue, with a    *)
(* worker that still owes its reply, in the results channel, or being      *)
(* cancelled at this moment, and nothing else reads its id as cancelled.   *)
THEOREM NothingForgotten == Spec => []NoRequestForgotten
<1>1. Init => NoRequestForgotten
  BY DEF Init, NoRequestForgotten
<1>. QED
  BY <1>1, TypeInitial, TypeInductive, ForgottenInductive, PTL DEF Spec

-----------------------------------------------------------------------------
(* The refinement: every step of the request path asks, answers or stops,  *)
(* or is invisible to the client.                                          *)

(* A request is asked for when it arrives, answered when its response is   *)
(* handed over, and nothing brings back a server that has stopped.         *)
LEMMA ContractStep ==
  TypeOK /\ AnsweredOnce /\ [Next]_vars => [Contract!Next]_(Contract!vars)
<1>. SUFFICES ASSUME TypeOK, AnsweredOnce, [Next]_vars
              PROVE  [Contract!Next]_(Contract!vars)
  OBVIOUS
<1>. USE DEF Contract!Next, Contract!vars
<1>1. ASSUME NEW id \in Ids, \/ RefuseCancelled(id) \/ Dispatch(id)
                             \/ RefuseFull(id)
      PROVE  Contract!Ask(id)
  <2>1. pc = "select" /\ (pc' = "select" \/ ~writerUp) /\ writerUp' = writerUp
    BY <1>1 DEF RefuseCancelled, Dispatch, RefuseFull, ReceiveRequest, Receive,
       Send
  <2>2. /\ asked[id] = answered[id] /\ asked' = [asked EXCEPT ![id] = @ + 1]
        /\ answered' = answered
    BY <1>1 DEF RefuseCancelled, Dispatch, RefuseFull, ReceiveRequest
  <2>. QED
    BY <2>1, <2>2 DEF Contract!Ask
<1>2. CASE WriteMessage
  <2>1. /\ out # <<>> /\ out \in Seq(Message)
        /\ UNCHANGED <<asked, pc, writerUp>>
    BY <1>2 DEF WriteMessage, TypeOK, mainVars
  <2>2. CASE Head(out).id \in Ids
    <3>1. 1 \in Responses(Head(out).id)
      BY <2>1, PositionsTail DEF Responses
    <3>2. answered[Head(out).id] < asked[Head(out).id]
      BY <2>2, <3>1 DEF AnsweredOnce, TypeOK
    <3>3. Contract!Answer(Head(out).id)
      BY <1>2, <2>1, <2>2, <3>2 DEF WriteMessage, Contract!Answer
    <3>. QED
      BY <2>2, <3>3
  <2>3. CASE Head(out).id \notin Ids
    BY <1>2, <2>1, <2>3 DEF WriteMessage
  <2>. QED
    BY <2>2, <2>3
<1>3. ASSUME UNCHANGED <<asked, answered>>,
             writerUp' => writerUp, pc = "stopped" => pc' = pc
      PROVE  [Contract!Next]_(Contract!vars)
  BY <1>3 DEF Contract!Stop, TypeOK
<1>4. CASE \/ (\E id \in Ids : ReceiveCancel(id)) \/ ReceiveEdit \/ Shutdown
           \/ Disconnect \/ AnswerCancelled \/ DrainQueued \/ BeginWrite
           \/ FinishWithoutWrite \/ WriteInput \/ TakeReply \/ FlushDirty
  <2>1. UNCHANGED <<asked, answered, writerUp>> /\ pc # "stopped"
    BY <1>4 DEF ReceiveCancel, ReceiveEdit, Shutdown, Receive, Disconnect,
         AnswerCancelled, DrainQueued, BeginWrite, FinishWithoutWrite,
         WriteInput, TakeReply, FlushDirty, clientVars
  <2>. QED
    BY <2>1, <1>3
<1>6. CASE FailWrite
  BY <1>3, <1>6 DEF FailWrite, mainVars, clientVars
<1>5. ASSUME NEW w \in Workers, Worker(w)
      PROVE  UNCHANGED <<asked, answered, pc, writerUp>>
  BY <1>5 DEF Worker, Work, Take, SkipCancelled, Start, Finish, Unwind,
       Reply, Release, Panic, ReportPanic, mainVars, clientVars
<1>7. CASE UNCHANGED vars
  BY <1>7 DEF vars, mainVars, clientVars
<1>. QED
  BY <1>1, <1>2, <1>4, <1>5, <1>6, <1>7 DEF Next, FromClient, Main, Rest

(* The request path implements the contract of RequestContract: whatever   *)
(* the workers, the cancellations and the writer do, the client only sees  *)
(* its requests taken, one response to each that is outstanding, and the   *)
(* server stop at most once.                                               *)
THEOREM Implements == Spec => ImplementsContract
<1>1. Init => Contract!Init
  BY DEF Init, Contract!Init
<1>. QED
  BY <1>1, TypeCorrect, OneResponse, ContractStep, PTL
     DEF Spec, ImplementsContract, Contract!Spec
=============================================================================
