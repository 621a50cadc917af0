----------------------------- MODULE LspRequests -----------------------------
(***************************************************************************)
(* The request path of the FlatPPL language server (crates/lsp): the main  *)
(* loop of server.rs, the bounded worker pool of pool.rs, the results      *)
(* channel back to the main loop, the set of cancelled ids both sides      *)
(* share, and the writer thread of outbound.rs.                            *)
(*                                                                         *)
(* An edit stands for any notification whose handler drains the queue and  *)
(* may write a salsa input; what it does to the documents is the business  *)
(* of LspDocuments.  Here it is the number of input writes that matters:   *)
(* `rev` counts them, and every Database clone and every reply carries the *)
(* revision it was made under.                                             *)
(***************************************************************************)
EXTENDS Naturals, Sequences, FiniteSets

CONSTANTS
  Ids,                \* the request ids the client uses
  NoId,               \* the id of a message that answers no request
  Workers,            \* the pool's threads
  QUEUE_CAPACITY,     \* jobs the pool's channel holds (256 in the code)
  MAX_CANCELLED_IDS,  \* cancelled ids kept before the set is cleared (4096)
  OUTBOUND_BACKLOG,   \* unwritten messages at which replies are held (4)
  ReuseIds,           \* may the client ask again under an answered id?
  MaxMessages         \* bound: messages the client sends in all

ASSUME IdsAssumption == NoId \notin Ids /\ IsFiniteSet(Ids)
ASSUME BoundsAssumption == /\ QUEUE_CAPACITY \in Nat \ {0}
                           /\ MAX_CANCELLED_IDS \in Nat \ {0}
                           /\ OUTBOUND_BACKLOG \in Nat \ {0}
                           /\ MaxMessages \in Nat
                           /\ ReuseIds \in BOOLEAN

VARIABLES
  pc,          \* what the main thread is doing
  cancelling,  \* the id whose cancel the main thread is processing, or NoId
  pending,     \* requests received and not yet answered by the main thread
  cancelled,   \* ids named by $/cancelRequest and not read since
  queue,       \* jobs waiting in the pool's channel
  wstate,      \* what each worker is doing
  wjob,        \* the job of each worker that has one
  results,     \* replies the main thread has not taken yet
  out,         \* messages the writer thread has not taken yet
  writerUp,    \* FALSE once a write to the client failed
  rev,         \* salsa input writes so far
  armed,       \* is the diagnostics deadline set?
  shown,       \* revision of the last diagnostics handed to the client
  asked,       \* requests received, by id
  answered,    \* responses handed to the client, by id
  budget       \* messages the client may still send

mainVars   == <<pc, cancelling, pending>>
workerVars == <<wstate, wjob>>
clientVars == <<asked, answered, shown, budget>>
vars == <<mainVars, cancelled, queue, workerVars, results, out, writerUp,
          rev, armed, clientVars>>

AnswerKinds == {"result", "modified", "cancelled", "failed", "internal"}
Kinds       == AnswerKinds \cup {"diagnostics", "shutdown"}
Message     == [kind : Kinds, id : Ids \cup {NoId}, rev : Nat]
Job         == [id : Ids, rev : Nat]
NoJob       == [id |-> NoId, rev |-> 0]

Msg(kind, id, r) == [kind |-> kind, id |-> id, rev |-> r]

Init ==
  /\ pc = "select" /\ cancelling = NoId /\ pending = {}
  /\ cancelled = {} /\ queue = <<>>
  /\ wstate = [w \in Workers |-> "idle"] /\ wjob = [w \in Workers |-> NoJob]
  /\ results = <<>> /\ out = <<>> /\ writerUp = TRUE
  /\ rev = 0 /\ armed = FALSE /\ shown = 0
  /\ asked = [id \in Ids |-> 0] /\ answered = [id \in Ids |-> 0]
  /\ budget = MaxMessages

-----------------------------------------------------------------------------
(* The main thread.                                                        *)

(* Hand m to the writer and go on at `next`; a send to a writer that died  *)
(* is an error that ends the main loop.                                    *)
Send(m, next) ==
  IF writerUp THEN out' = Append(out, m) /\ pc' = next
              ELSE UNCHANGED out         /\ pc' = "stopped"

(* `answer`: the first path to claim a pending id answers it.              *)
AnswerUnclaimed(m, next) == pending' = pending \ {m.id} /\ Send(m, next)

Answer(m, next) ==
  \/ /\ m.id \in pending
     /\ pending' = pending \ {m.id}
     /\ Send(m, next)
  \/ /\ m.id \notin pending
     /\ pc' = next
     /\ UNCHANGED <<pending, out>>

(* The client sends one of its messages; the main loop selects it.         *)
Receive == pc = "select" /\ budget > 0 /\ budget' = budget - 1

(* A request arrives under id: no request under it may be outstanding.     *)
ReceiveRequest(id) ==
  /\ Receive
  /\ asked[id] = answered[id] /\ (ReuseIds \/ asked[id] = 0)
  /\ asked' = [asked EXCEPT ![id] = @ + 1]

(* `take_cancelled` on the main thread, for a cancel that came first.      *)
NeverCancelled(id) == FALSE

WasCancelled(id) == id \in cancelled

RefuseCancelled(id) ==
  /\ ReceiveRequest(id)
  /\ WasCancelled(id)
  /\ cancelled' = cancelled \ {id}
  /\ Send(Msg("cancelled", id, rev), "select")
  /\ UNCHANGED <<pending, cancelling, queue, workerVars, results, writerUp,
                 rev, armed, answered, shown>>

(* `dispatch_request`: the Database clone is taken here, on this thread.   *)
Dispatch(id) ==
  /\ ReceiveRequest(id)
  /\ ~WasCancelled(id)
  /\ Len(queue) < QUEUE_CAPACITY
  /\ pending' = pending \cup {id}
  /\ queue' = Append(queue, [id |-> id, rev |-> rev])
  /\ UNCHANGED <<pc, cancelling, cancelled, workerVars, results, out,
                 writerUp, rev, armed, answered, shown>>

RefuseFull(id) ==
  /\ ReceiveRequest(id)
  /\ ~WasCancelled(id)
  /\ Len(queue) >= QUEUE_CAPACITY
  /\ Send(Msg("failed", id, rev), "select")
  /\ UNCHANGED <<pending, cancelling, cancelled, queue, workerVars, results,
                 writerUp, rev, armed, answered, shown>>

(* `note_cancelled`: the set is cleared when it reaches its cap.           *)
WithCancelledLate(id) ==
  (IF Cardinality(cancelled) > MAX_CANCELLED_IDS THEN {} ELSE cancelled)
     \cup {id}

WithCancelled(id) ==
  (IF Cardinality(cancelled) >= MAX_CANCELLED_IDS THEN {} ELSE cancelled)
     \cup {id}

(* $/cancelRequest, for any id: the id is recorded first and the request   *)
(* answered second, and a worker may run between the two.                  *)
ReceiveCancel(id) ==
  /\ Receive
  /\ cancelled' = WithCancelled(id)
  /\ cancelling' = id
  /\ pc' = "cancel"
  /\ UNCHANGED <<pending, queue, workerVars, results, out, writerUp, rev,
                 armed, asked, answered, shown>>

AnswerCancelled ==
  /\ pc = "cancel"
  /\ Answer(Msg("cancelled", cancelling, rev), "select")
  /\ cancelling' = NoId
  /\ UNCHANGED <<cancelled, queue, workerVars, results, writerUp, rev, armed,
                 clientVars>>

(* An edit notification; `release_stale_requests` is its first effect.     *)
ReceiveEdit ==
  /\ Receive
  /\ pc' = "drain"
  /\ UNCHANGED <<cancelling, pending, cancelled, queue, workerVars, results,
                 out, writerUp, rev, armed, asked, answered, shown>>

(* `drain_queued` pops one job at a time; a dropped job drops its clone.   *)
DrainQueued ==
  /\ pc = "drain" /\ queue # <<>>
  /\ queue' = Tail(queue)
  /\ Answer(Msg("modified", Head(queue).id, rev), "drain")
  /\ UNCHANGED <<cancelling, cancelled, workerVars, results, writerUp, rev,
                 armed, clientVars>>

(* The handler reaches a salsa setter: `cancel_others` raises the flag     *)
(* that unwinds running queries and waits for every clone to drop.         *)
BeginWrite ==
  /\ pc = "drain" /\ queue = <<>>
  /\ pc' = "write"
  /\ UNCHANGED <<cancelling, pending, cancelled, queue, workerVars, results,
                 out, writerUp, rev, armed, clientVars>>

(* The handler finds no input to change.  All but an empty urlSources      *)
(* still arm the deadline.                                                 *)
FinishWithoutWrite ==
  /\ pc = "drain" /\ queue = <<>>
  /\ pc' = "select"
  /\ armed' \in {armed, TRUE}
  /\ UNCHANGED <<cancelling, pending, cancelled, queue, workerVars, results,
                 out, writerUp, rev, clientVars>>

(* The jobs that hold a Database clone: queued ones, and a worker's from   *)
(* the moment it takes the job until the job ends.                         *)
RunningClones == {wjob[w] : w \in {v \in Workers : wstate[v] = "running"}}

Clones ==
  {queue[i] : i \in 1..Len(queue)} \cup
  {wjob[w] : w \in {v \in Workers : wstate[v] \in
                                      {"taken", "running", "replied"}}}

WriteUnannounced ==
  /\ pc = "write" /\ Clones = {}
  /\ rev' = rev + 1 /\ pc' = "select"
  /\ UNCHANGED <<cancelling, pending, cancelled, queue, workerVars, results,
                 out, writerUp, armed, clientVars>>

WriteInput ==
  /\ pc = "write" /\ Clones = {}
  /\ rev' = rev + 1
  /\ armed' = TRUE
  /\ pc' = "select"
  /\ UNCHANGED <<cancelling, pending, cancelled, queue, workerVars, results,
                 out, writerUp, clientVars>>

(* The results channel is left out of the `select!` while the writer's     *)
(* backlog is full.                                                        *)
Throttled == Len(out) >= OUTBOUND_BACKLOG

TakeReply ==
  /\ pc = "select" /\ ~Throttled /\ results # <<>>
  /\ results' = Tail(results)
  /\ Answer(Head(results), "select")
  /\ UNCHANGED <<cancelling, cancelled, queue, workerVars, writerUp, rev,
                 armed, clientVars>>

(* `flush_dirty`, from the `default` arm: nothing else was ready.          *)
FlushDirty ==
  /\ pc = "select" /\ armed /\ (Throttled \/ results = <<>>)
  /\ Send(Msg("diagnostics", NoId, rev), "select")
  /\ armed' = ~writerUp
  /\ UNCHANGED <<cancelling, pending, cancelled, queue, workerVars, results,
                 writerUp, rev, clientVars>>

(* A shutdown request is answered outside `pending` and ends the loop.     *)
Shutdown ==
  /\ Receive
  /\ Send(Msg("shutdown", NoId, rev), "stopped")
  /\ UNCHANGED <<cancelling, pending, cancelled, queue, workerVars, results,
                 writerUp, rev, armed, asked, answered, shown>>

(* The client's end of the connection closes: the loop breaks.             *)
Disconnect ==
  /\ pc = "select"
  /\ pc' = "stopped"
  /\ UNCHANGED <<cancelling, pending, cancelled, queue, workerVars, results,
                 out, writerUp, rev, armed, clientVars>>

-----------------------------------------------------------------------------
(* The workers.  Once the main loop has ended nothing they do is observed. *)

(* Worker w moves to state s with job j.                                   *)
Step(w, s, j) == /\ pc # "stopped"
                 /\ wstate' = [wstate EXCEPT ![w] = s]
                 /\ wjob' = [wjob EXCEPT ![w] = j]

Take(w) ==
  /\ wstate[w] = "idle" /\ queue # <<>>
  /\ queue' = Tail(queue)
  /\ Step(w, "taken", Head(queue))
  /\ UNCHANGED <<mainVars, cancelled, results, out, writerUp, rev, armed,
                 clientVars>>

(* `take_cancelled` in the job: it returns without a reply.                *)
SkipCancelled(w) ==
  /\ wstate[w] = "taken" /\ wjob[w].id \in cancelled
  /\ cancelled' = cancelled \ {wjob[w].id}
  /\ Step(w, "idle", NoJob)
  /\ UNCHANGED <<mainVars, queue, results, out, writerUp, rev, armed,
                 clientVars>>

Start(w) ==
  /\ wstate[w] = "taken" /\ wjob[w].id \notin cancelled
  /\ Step(w, "running", wjob[w])
  /\ UNCHANGED <<mainVars, cancelled, queue, results, out, writerUp, rev,
                 armed, clientVars>>

(* The job sends its reply while it still holds its clone.                 *)
ReplyBlocking(w, kind) ==
  /\ wstate[w] = "running"
  /\ Len(results) < 1
  /\ results' = Append(results, Msg(kind, wjob[w].id, wjob[w].rev))
  /\ Step(w, "replied", wjob[w])
  /\ UNCHANGED <<mainVars, cancelled, queue, out, writerUp, rev, armed,
                 clientVars>>

Reply(w, kind) ==
  /\ wstate[w] = "running"
  /\ results' = Append(results, Msg(kind, wjob[w].id, wjob[w].rev))
  /\ Step(w, "replied", wjob[w])
  /\ UNCHANGED <<mainVars, cancelled, queue, out, writerUp, rev, armed,
                 clientVars>>

(* The handler returned, with a result or with an error of its own.        *)
Finish(w) == Reply(w, "result")

(* A write is waiting: a query of the job unwound with salsa::Cancelled.   *)
Unwind(w) == pc = "write" /\ Reply(w, "modified")

(* The clone drops as the closure returns.                                 *)
Release(w) ==
  /\ wstate[w] = "replied"
  /\ Step(w, "idle", NoJob)
  /\ UNCHANGED <<mainVars, cancelled, queue, results, out, writerUp, rev,
                 armed, clientVars>>

(* Any other panic drops the clone as it unwinds ...                       *)
PanicSilently(w) ==
  /\ wstate[w] = "running"
  /\ Step(w, "idle", NoJob)
  /\ UNCHANGED <<mainVars, cancelled, queue, results, out, writerUp, rev,
                 armed, clientVars>>

Panic(w) ==
  /\ wstate[w] = "running"
  /\ Step(w, "panicked", wjob[w])
  /\ UNCHANGED <<mainVars, cancelled, queue, results, out, writerUp, rev,
                 armed, clientVars>>

(* ... and the worker survives it and reports it through `on_panic`.       *)
ReportPanic(w) ==
  /\ wstate[w] = "panicked"
  /\ results' = Append(results, Msg("internal", wjob[w].id, wjob[w].rev))
  /\ Step(w, "idle", NoJob)
  /\ UNCHANGED <<mainVars, cancelled, queue, out, writerUp, rev, armed,
                 clientVars>>

-----------------------------------------------------------------------------
(* The writer thread.  A message it has taken counts as handed over: what  *)
(* `backlog` measures is the channel, not the message being written.       *)

WriteMessage ==
  /\ writerUp /\ out # <<>>
  /\ out' = Tail(out)
  /\ LET m == Head(out) IN
       /\ answered' = IF m.id \in Ids
                        THEN [answered EXCEPT ![m.id] = @ + 1]
                        ELSE answered
       /\ shown' = IF m.kind = "diagnostics" THEN m.rev ELSE shown
  /\ UNCHANGED <<mainVars, cancelled, queue, workerVars, results, writerUp,
                 rev, armed, asked, budget>>

(* A write fails: the thread ends and its channel is discarded.            *)
FailWrite ==
  /\ writerUp /\ out # <<>>
  /\ writerUp' = FALSE /\ out' = <<>>
  /\ UNCHANGED <<mainVars, cancelled, queue, workerVars, results, rev, armed,
                 clientVars>>

-----------------------------------------------------------------------------

(* Nothing is left to do: the client is silent, or the server has ended.   *)
Quiescent ==
  \/ pc = "stopped" /\ out = <<>>
  \/ /\ pc = "select" /\ budget = 0 /\ pending = {} /\ ~armed
     /\ queue = <<>> /\ results = <<>> /\ out = <<>>
     /\ \A w \in Workers : wstate[w] = "idle"

Rest == Quiescent /\ UNCHANGED vars

FromClient ==
  \/ \E id \in Ids : \/ RefuseCancelled(id) \/ Dispatch(id) \/ RefuseFull(id)
                     \/ ReceiveCancel(id)
  \/ ReceiveEdit \/ Shutdown \/ Disconnect

Main == \/ AnswerCancelled \/ DrainQueued \/ BeginWrite \/ FinishWithoutWrite
        \/ WriteInput \/ TakeReply

Work(w) == \/ Take(w) \/ SkipCancelled(w) \/ Start(w) \/ Finish(w)
           \/ Unwind(w) \/ Release(w) \/ ReportPanic(w)

Worker(w) == Work(w) \/ Panic(w)

Next == \/ FromClient \/ Main \/ FlushDirty
        \/ \E w \in Workers : Worker(w)
        \/ WriteMessage \/ FailWrite
        \/ Rest

Spec == Init /\ [][Next]_vars

(* The main loop never returns to the client while it has a step of its    *)
(* own to take, a query terminates, and the client keeps reading.  Nothing *)
(* obliges the client to send, a query to panic, or a write to fail.       *)
Fairness == /\ WF_vars(Main) /\ WF_vars(FlushDirty) /\ WF_vars(WriteMessage)
            /\ \A w \in Workers : WF_vars(Work(w))

FairSpec == Spec /\ Fairness

-----------------------------------------------------------------------------
(* The types of the variables, and the two bounds the code gives: the      *)
(* pool's channel and the set of cancelled ids.                            *)
TypeOK ==
  /\ pc \in {"select", "cancel", "drain", "write", "stopped"}
  /\ cancelling \in Ids \cup {NoId} /\ (pc = "cancel" => cancelling \in Ids)
  /\ pending \subseteq Ids
  /\ cancelled \subseteq Ids /\ Cardinality(cancelled) <= MAX_CANCELLED_IDS
  /\ queue \in Seq(Job) /\ Len(queue) <= QUEUE_CAPACITY
  /\ wstate \in [Workers -> {"idle", "taken", "running", "replied",
                             "panicked"}]
  /\ wjob \in [Workers -> [id : Ids \cup {NoId}, rev : Nat]]
  /\ \A w \in Workers : wstate[w] # "idle" => wjob[w] \in Job
  /\ results \in Seq([kind : AnswerKinds, id : Ids, rev : Nat])
  /\ out \in Seq(Message)
  /\ writerUp \in BOOLEAN /\ armed \in BOOLEAN
  /\ rev \in Nat /\ shown \in Nat /\ budget \in Nat
  /\ asked \in [Ids -> Nat] /\ answered \in [Ids -> Nat]

(* The positions in a channel of the messages, or jobs, that carry id.     *)
Positions(s, id) == {i \in 1..Len(s) : s[i].id = id}

Responses(id) == Positions(out, id)

(* Exactly one response per request (server.rs, `pending` and `answer`):   *)
(* five paths can answer an id, and at every moment an outstanding request *)
(* is still to be claimed by one of them, or has one response on its way,  *)
(* or lost it to a failed write; and no other request has any.             *)
AnsweredOnce ==
  \A id \in Ids :
    LET outstanding == asked[id] = answered[id] + 1 IN
    /\ outstanding \/ asked[id] = answered[id]
    /\ id \in pending => outstanding /\ Responses(id) = {}
    /\ \A i \in Responses(id) :
         outstanding /\ id \notin pending /\ Responses(id) = {i}

(* The worker w still has its reply to make.                               *)
Owes(w, id) == /\ wstate[w] \in {"taken", "running", "panicked"}
               /\ wjob[w].id = id

(* No request is forgotten: as long as a request is pending, some path     *)
(* that will answer it exists, although a job that reads its id in the     *)
(* cancelled set returns without a word and a drained job is dropped.      *)
NoRequestForgotten ==
  pc # "stopped" =>
    \A id \in pending :
      \/ pc = "cancel" /\ cancelling = id
      \/ /\ id \notin cancelled
         /\ \/ Positions(queue, id) # {}
            \/ \E w \in Workers : Owes(w, id)
            \/ Positions(results, id) # {}

(* The set of clones is closed when an input is written (dispatch_request, *)
(* "taking the clone here closes the set"): no job ever reads a revision   *)
(* other than the current one.                                             *)
SnapshotsCurrent == \A job \in Clones : job.rev = rev

(* The request path implements the contract with the client.               *)
Contract == INSTANCE RequestContract
              WITH serving <- pc # "stopped" /\ writerUp

ImplementsContract == Contract!Spec

(* ... and answers every request, under the fairness above.                *)
ImplementsFairContract == Contract!FairSpec

(* An input write never deadlocks: the clones it waits for are dropped,    *)
(* although the main thread takes no reply meanwhile.                      *)
EditsComplete == pc \in {"drain", "write"} ~> pc \in {"select", "stopped"}

(* Every edit's diagnostics reach the client once the burst settles, with  *)
(* the backlog full or not.                                                *)
DiagnosticsCatchUp ==
  (rev > shown) ~> (rev = shown \/ pc = "stopped" \/ ~writerUp)
=============================================================================
