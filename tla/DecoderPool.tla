----------------------------- MODULE DecoderPool -----------------------------
(***************************************************************************)
(* Asynchronous decoding in js/meshopt_decoder.mjs: the main thread keeps  *)
(* a pool of web workers, sends each request to the worker with the least  *)
(* work pending and settles the promise of the request when the worker     *)
(* answers; without workers it decodes itself, once its own WebAssembly    *)
(* module is ready.                                                        *)
(*                                                                         *)
(* The main thread and the workers share nothing: posted messages arrive   *)
(* in the order they were posted, between a pair of threads.  A worker's   *)
(* handler defers all it does to the promise "ready", whose callbacks run  *)
(* in the order of the messages, so a message stays in the inbox here      *)
(* until that callback runs.  A handler runs to its end before the next.   *)
(***************************************************************************)
EXTENDS Integers, Sequences, FiniteSets, Functions

CONSTANTS
  MaxRequests, (* Bound on the calls of decodeGltfBufferAsync.               *)
  Kinds,       (* The requests there are: how many elements they have and    *)
               (* whether their source is malformed.                         *)
  PoolSizes,   (* Arguments of useWorkers.                                   *)
  MaxCalls,    (* Bound on the calls of useWorkers.                          *)
  MaxWorkers   (* Bound on the workers that are ever created.                *)

ASSUME BoundsAssumption ==
  /\ MaxRequests \in Nat /\ MaxCalls \in Nat /\ MaxWorkers \in Nat
  /\ Kinds \subseteq [count : Nat, malformed : BOOLEAN] /\ PoolSizes \subseteq Nat

Request == 1..MaxRequests
Worker  == 1..MaxWorkers

\* postMessage({}): a message without an id.
Close == 0

VARIABLES
  kind,      (* The kind of every request.                                  *)
  promise,   (* What decodeGltfBufferAsync has returned.                    *)
  issued,    (* Calls of decodeGltfBufferAsync so far; they are numbered in *)
             (* that order, those to workers in the code, too.              *)
  calls,     (* Calls of useWorkers so far.                                 *)
  workers,   (* The pool, a sequence of workers.                            *)
  created,   (* Workers created so far; they are numbered in that order.    *)
  pending,   (* The sum of the counts a worker has to decode.               *)
  requests,  (* The requests a worker has been sent and not answered.       *)
  inbox,     (* Messages to a worker.                                       *)
  outbox,    (* Messages from a worker: a request and the promise's fate.   *)
  status,    (* "none", "loading", "ready" or "closed", for every worker.   *)
  ready,     (* Whether the module of the main thread is ready.             *)
  waiting    (* Requests that wait for that.                                *)

poolVars   == <<workers, created>>
workerVars == <<pending, requests, inbox, outbox, status>>
mainVars   == <<ready, waiting>>
vars       == <<kind, promise, issued, calls, poolVars, workerVars, mainVars>>

Init ==
  /\ kind \in [Request -> Kinds]
  /\ promise = [r \in Request |-> "none"]
  /\ issued = 0 /\ calls = 0
  /\ workers = <<>> /\ created = 0
  /\ pending = [w \in Worker |-> 0] /\ requests = [w \in Worker |-> {}]
  /\ inbox = [w \in Worker |-> <<>>] /\ outbox = [w \in Worker |-> <<>>]
  /\ status = [w \in Worker |-> "none"]
  /\ ready = FALSE /\ waiting = <<>>

-----------------------------------------------------------------------------
(* The main thread. *)

Pool == {workers[i] : i \in 1..Len(workers)}

\* The pool grows by new workers at its end or shrinks from there.
Resized(size) ==
  [i \in 1..size |-> IF i <= Len(workers) THEN workers[i] ELSE created + i - Len(workers)]

Kept(size) == {workers[i] : i \in 1..IF size < Len(workers) THEN size ELSE Len(workers)}

\* A mistake: the workers that are told to close stay in the pool.
UseWorkersKept(size) ==
  /\ calls < MaxCalls
  /\ created + size - Len(workers) <= MaxWorkers
  /\ calls' = calls + 1
  /\ workers' = IF size > Len(workers) THEN Resized(size) ELSE workers
  /\ created' = IF size > Len(workers) THEN created + size - Len(workers) ELSE created
  /\ status' = [w \in Worker |-> IF w \in created + 1..created' THEN "loading" ELSE status[w]]
  /\ inbox' = [w \in Worker |-> IF w \in Pool \ Kept(size) THEN Append(inbox[w], Close)
                                                          ELSE inbox[w]]
  /\ UNCHANGED <<kind, promise, issued, pending, requests, outbox, mainVars>>

\* A mistake: the workers that leave the pool are not told.
UseWorkersForgotten(size) ==
  /\ calls < MaxCalls
  /\ created + size - Len(workers) <= MaxWorkers
  /\ calls' = calls + 1
  /\ workers' = Resized(size)
  /\ created' = IF size > Len(workers) THEN created + size - Len(workers) ELSE created
  /\ status' = [w \in Worker |-> IF w \in created + 1..created' THEN "loading" ELSE status[w]]
  /\ UNCHANGED <<kind, promise, issued, pending, requests, inbox, outbox, mainVars>>

\* useWorkers: workers are created, or told to close and forgotten.
UseWorkers(size) ==
  /\ calls < MaxCalls
  /\ created + size - Len(workers) <= MaxWorkers
  /\ calls' = calls + 1
  /\ workers' = Resized(size)
  /\ created' = IF size > Len(workers) THEN created + size - Len(workers) ELSE created
  /\ status' = [w \in Worker |-> IF w \in created + 1..created' THEN "loading" ELSE status[w]]
  /\ inbox' = [w \in Worker |-> IF w \in Pool \ Kept(size) THEN Append(inbox[w], Close)
                                                          ELSE inbox[w]]
  /\ UNCHANGED <<kind, promise, issued, pending, requests, outbox, mainVars>>

\* The first worker of the pool with the least pending work.
Chosen ==
  CHOOSE w \in Pool : \E i \in 1..Len(workers) :
    /\ w = workers[i]
    /\ \A j \in 1..Len(workers) :
         \/ pending[w] < pending[workers[j]]
         \/ pending[w] = pending[workers[j]] /\ i <= j

NewRequest(r) ==
  /\ issued < MaxRequests /\ r = issued + 1
  /\ issued' = r
  /\ promise' = [promise EXCEPT ![r] = "pending"]

\* A mistake: the work is not counted until it is done.
DecodeOnWorkerUncounted(r) ==
  /\ workers # <<>>
  /\ NewRequest(r)
  /\ requests' = [requests EXCEPT ![Chosen] = @ \cup {r}]
  /\ inbox' = [inbox EXCEPT ![Chosen] = Append(@, r)]
  /\ UNCHANGED <<kind, calls, poolVars, pending, outbox, status, mainVars>>

\* decodeGltfBufferAsync with workers: decodeWorker.
DecodeOnWorker(r) ==
  /\ workers # <<>>
  /\ NewRequest(r)
  /\ pending' = [pending EXCEPT ![Chosen] = @ + kind[r].count]
  /\ requests' = [requests EXCEPT ![Chosen] = @ \cup {r}]
  /\ inbox' = [inbox EXCEPT ![Chosen] = Append(@, r)]
  /\ UNCHANGED <<kind, calls, poolVars, outbox, status, mainVars>>

\* decodeGltfBufferAsync without workers: the rest is a callback of ready.
DecodeOnMain(r) ==
  /\ workers = <<>>
  /\ NewRequest(r)
  /\ waiting' = Append(waiting, r)
  /\ UNCHANGED <<kind, calls, poolVars, workerVars, ready>>

\* A decoder that returns an error throws.
Fate(r) == IF kind[r].malformed THEN "rejected" ELSE "resolved"

MainReady ==
  /\ ~ready
  /\ ready' = TRUE
  /\ UNCHANGED <<kind, promise, issued, calls, poolVars, workerVars, waiting>>

MainDecode ==
  /\ ready /\ waiting # <<>>
  /\ promise' = [promise EXCEPT ![Head(waiting)] = Fate(Head(waiting))]
  /\ waiting' = Tail(waiting)
  /\ UNCHANGED <<kind, issued, calls, poolVars, workerVars, ready>>

\* A mistake: the pending work is not updated.
ReceiveUncounted(w) ==
  /\ outbox[w] # <<>>
  /\ LET answer == Head(outbox[w])
     IN  /\ promise' = [promise EXCEPT ![answer.id] = answer.action]
         /\ requests' = [requests EXCEPT ![w] = @ \ {answer.id}]
  /\ outbox' = [outbox EXCEPT ![w] = Tail(@)]
  /\ UNCHANGED <<kind, issued, calls, poolVars, pending, inbox, status, mainVars>>

\* onmessage, the handler of the answers of a worker.
Receive(w) ==
  /\ outbox[w] # <<>>
  /\ LET answer == Head(outbox[w])
     IN  /\ pending' = [pending EXCEPT ![w] = @ - answer.count]
         /\ promise' = [promise EXCEPT ![answer.id] = answer.action]
         /\ requests' = [requests EXCEPT ![w] = @ \ {answer.id}]
  /\ outbox' = [outbox EXCEPT ![w] = Tail(@)]
  /\ UNCHANGED <<kind, issued, calls, poolVars, inbox, status, mainVars>>

-----------------------------------------------------------------------------
(* A worker: workerProcess. *)

WorkerReady(w) ==
  /\ status[w] = "loading"
  /\ status' = [status EXCEPT ![w] = "ready"]
  /\ UNCHANGED <<kind, promise, issued, calls, poolVars, pending, requests, inbox,
                 outbox, mainVars>>

\* A mistake: errors are not caught around the decoder.
WorkerDecodeAlways(w) ==
  /\ status[w] = "ready" /\ inbox[w] # <<>> /\ Head(inbox[w]) # Close
  /\ LET r == Head(inbox[w])
     IN  outbox' = [outbox EXCEPT ![w] = Append(@, [id |-> r, count |-> kind[r].count,
                                                    action |-> "resolved"])]
  /\ inbox' = [inbox EXCEPT ![w] = Tail(@)]
  /\ UNCHANGED <<kind, promise, issued, calls, poolVars, pending, requests, status,
                 mainVars>>

WorkerDecode(w) ==
  /\ status[w] = "ready" /\ inbox[w] # <<>> /\ Head(inbox[w]) # Close
  /\ LET r == Head(inbox[w])
     IN  outbox' = [outbox EXCEPT ![w] = Append(@, [id |-> r, count |-> kind[r].count,
                                                    action |-> Fate(r)])]
  /\ inbox' = [inbox EXCEPT ![w] = Tail(@)]
  /\ UNCHANGED <<kind, promise, issued, calls, poolVars, pending, requests, status,
                 mainVars>>

\* self.close() drops whatever is still in the inbox; answers that were posted still arrive.
WorkerClose(w) ==
  /\ status[w] = "ready" /\ inbox[w] # <<>> /\ Head(inbox[w]) = Close
  /\ status' = [status EXCEPT ![w] = "closed"]
  /\ inbox' = [inbox EXCEPT ![w] = <<>>]
  /\ UNCHANGED <<kind, promise, issued, calls, poolVars, pending, requests, outbox,
                 mainVars>>

Next ==
  \/ \E size \in PoolSizes : UseWorkers(size)
  \/ \E r \in Request : DecodeOnWorker(r)
  \/ \E r \in Request : DecodeOnMain(r)
  \/ MainReady
  \/ MainDecode
  \/ \E w \in Worker : Receive(w)
  \/ \E w \in Worker : WorkerReady(w)
  \/ \E w \in Worker : WorkerDecode(w)
  \/ \E w \in Worker : WorkerClose(w)

\* The event loops of the threads go on as long as they have anything to run, and the modules
\* are instantiated at some time; nobody has to call anything.
Fairness ==
  /\ WF_vars(MainReady)
  /\ WF_vars(MainDecode)
  /\ \A w \in Worker :
       WF_vars(Receive(w)) /\ WF_vars(WorkerReady(w)) /\ WF_vars(WorkerDecode(w))
       /\ WF_vars(WorkerClose(w))

Spec == Init /\ [][Next]_vars /\ Fairness

-----------------------------------------------------------------------------
(* What the pool has to guarantee. *)

Answer == [id : Request, count : {k.count : k \in Kinds}, action : {"resolved", "rejected"}]

TypeOK ==
  /\ kind \in [Request -> Kinds]
  /\ promise \in [Request -> {"none", "pending", "resolved", "rejected"}]
  /\ issued \in 0..MaxRequests /\ calls \in 0..MaxCalls
  /\ workers \in Seq(Worker) /\ created \in 0..MaxWorkers
  /\ pending \in [Worker -> Nat] /\ requests \in [Worker -> SUBSET Request]
  /\ inbox \in [Worker -> Seq(Request \cup {Close})] /\ outbox \in [Worker -> Seq(Answer)]
  /\ status \in [Worker -> {"none", "loading", "ready", "closed"}]
  /\ ready \in BOOLEAN /\ waiting \in Seq(Request)

\* The worker's record in the main thread agrees with what is on its way to or from the worker,
\* whether it is still in the pool or not: every request is in one place, once, and pending,
\* which decides where the next request goes, is the sum of the counts of what is outstanding.
\* A worker closes with nothing left to do, and is not in the pool by then; so whatever is
\* pending is still on its way through a worker, or waits for the module of the main thread.
Inside(w)   == {i \in 1..Len(inbox[w]) : inbox[w][i] # Close}
Queued(w)   == {inbox[w][i] : i \in Inside(w)}
Answered(w) == {outbox[w][i].id : i \in 1..Len(outbox[w])}
Requests(w) == Queued(w) \cup Answered(w)
Load(w)     == SumFunctionOnSet([r \in Request |-> kind[r].count], requests[w])
Waiting     == {waiting[i] : i \in 1..Len(waiting)}

Accounted ==
  /\ TypeOK
  /\ \A w \in Worker :
       /\ requests[w] = Requests(w)
       /\ Cardinality(requests[w]) = Cardinality(Inside(w)) + Len(outbox[w])
       /\ pending[w] = Load(w)
       /\ \A r \in requests[w] : promise[r] = "pending"
       /\ status[w] = "closed" => w \notin Pool /\ inbox[w] = <<>>
  /\ \A r \in Request : promise[r] = "pending" =>
       r \in Waiting \/ \E w \in Worker : r \in requests[w]

\* A promise is settled once and with its own verdict, whichever thread has decoded: the pool
\* implements AsyncDecoder.
Service     == INSTANCE AsyncDecoder WITH malformed <- {r \in Request : kind[r].malformed}
ServiceSpec == Service!Spec

\* Every promise is settled, also if the pool is resized at any time; and a worker that left
\* the pool is closed.
EverySettles ==
  \A r \in Request : promise[r] = "pending" ~> promise[r] \in {"resolved", "rejected"}

RetiredClose ==
  \A w \in Worker : (status[w] # "none" /\ w \notin Pool) ~> status[w] = "closed"
=============================================================================
