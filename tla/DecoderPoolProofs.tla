-------------------------- MODULE DecoderPoolProofs --------------------------
(***************************************************************************)
(* Proofs about asynchronous decoding, for every number of requests, calls *)
(* and workers: nothing is lost or settled twice while the pool is         *)
(* resized, and the accounting that balances it is exact.                  *)
(***************************************************************************)
EXTENDS DecoderPool, SetLemmas

-----------------------------------------------------------------------------
(* The inductive invariant. *)

\* What holds of one worker: its record names what is in its two queues, each request once; an
\* answer repeats the request; a worker that is told to close is told last, after it left the
\* pool; and one that does not exist yet has no message.
WorkerInv(w) ==
  /\ requests[w] = Requests(w)
  /\ \A i, j \in Inside(w) : inbox[w][i] = inbox[w][j] => i = j
  /\ \A i, j \in 1..Len(outbox[w]) : outbox[w][i].id = outbox[w][j].id => i = j
  /\ Queued(w) \cap Answered(w) = {}
  /\ pending[w] = Load(w)
  /\ \A i \in 1..Len(outbox[w]) :
       outbox[w][i].count = kind[outbox[w][i].id].count /\ outbox[w][i].action = Fate(outbox[w][i].id)
  /\ \A i \in 1..Len(inbox[w]) : inbox[w][i] = Close => i = Len(inbox[w]) /\ w \notin Pool
  /\ status[w] = "closed" => w \notin Pool /\ inbox[w] = <<>>
  /\ w > created => inbox[w] = <<>>

\* What holds of the workers and the main thread together: a request is in one place.
SharedInv ==
  /\ \A r \in Request : promise[r] = "none" <=> r > issued
  /\ \A w \in Worker : \A r \in requests[w] : promise[r] = "pending" /\ r \notin Waiting
  /\ \A v, w \in Worker : v # w => requests[v] \cap requests[w] = {}
  /\ \A r \in Waiting : promise[r] = "pending"
  /\ \A i, j \in 1..Len(waiting) : waiting[i] = waiting[j] => i = j
  /\ \A w \in Pool : w <= created
  /\ \A r \in Request : promise[r] = "pending" =>
       r \in Waiting \/ \E w \in Worker : r \in requests[w]

IInv == TypeOK /\ SharedInv /\ \A w \in Worker : WorkerInv(w)

-----------------------------------------------------------------------------
(* Types. *)

LEMMA Constants ==
  /\ MaxRequests \in Nat /\ MaxCalls \in Nat /\ MaxWorkers \in Nat
  /\ Request \subseteq Nat /\ Close \notin Request /\ IsFiniteSet(Request)
  /\ Worker \subseteq Nat
  /\ \A size \in PoolSizes : size \in Nat
  /\ \A k \in Kinds : k.count \in Nat /\ k.malformed \in BOOLEAN
<1>1. IsFiniteSet(Request)
  BY BoundsAssumption, FS_Interval DEF Request
<1>2. \A k \in Kinds : k.count \in Nat /\ k.malformed \in BOOLEAN
  <2>1. \A k \in [count : Nat, malformed : BOOLEAN] : k.count \in Nat /\ k.malformed \in BOOLEAN
    OBVIOUS
  <2> QED
    BY <2>1, BoundsAssumption
<1> QED
  BY <1>1, <1>2, BoundsAssumption DEF Request, Worker, Close

LEMMA FateType ==
  ASSUME TypeOK, NEW r \in Request
  PROVE  Fate(r) \in {"resolved", "rejected"} /\ kind[r] \in Kinds /\ kind[r].count \in Nat
  BY Constants DEF TypeOK, Fate

\* What is in the queues of a worker are requests.
LEMMA RequestsType ==
  ASSUME TypeOK, NEW w \in Worker
  PROVE  /\ Len(inbox[w]) \in Nat /\ Len(outbox[w]) \in Nat
         /\ Inside(w) \subseteq 1..Len(inbox[w])
         /\ Queued(w) \subseteq Request /\ Answered(w) \subseteq Request
         /\ \A i \in 1..Len(outbox[w]) : outbox[w][i] \in Answer /\ outbox[w][i].id \in Request
         /\ IsFiniteSet(requests[w]) /\ requests[w] \subseteq Request
<1>1. inbox[w] \in Seq(Request \cup {Close}) /\ outbox[w] \in Seq(Answer) /\ requests[w] \subseteq Request
  BY DEF TypeOK
<1>2. \A i \in 1..Len(outbox[w]) : outbox[w][i] \in Answer
  BY <1>1
<1>3. \A i \in 1..Len(inbox[w]) : inbox[w][i] \in Request \cup {Close}
  BY <1>1
<1> QED
  BY <1>1, <1>2, <1>3, Constants, FS_Subset DEF Inside, Queued, Answered, Answer

LEMMA PoolType ==
  ASSUME TypeOK
  PROVE  Pool \subseteq Worker /\ Len(workers) \in Nat
  BY DEF TypeOK, Pool

\* The search finds a worker of the pool.
LEMMA ChosenType ==
  ASSUME TypeOK, workers # <<>>
  PROVE  Chosen \in Pool
<1> DEFINE n == Len(workers)
           Loads == {pending[workers[i]] : i \in 1..n}
<1>1. n \in Nat /\ n >= 1 /\ \A i \in 1..n : pending[workers[i]] \in Nat
  BY EmptySeq, PoolType DEF TypeOK
<1>2. Loads \subseteq Nat /\ Loads # {}
  BY <1>1
<1>3. PICK m \in Loads : \A y \in Loads : ~ (<<y, m>> \in OpToRel(<, Nat))
  BY <1>2, WFMin, NatLessThanWellFounded
<1> DEFINE Least == {i \in 1..n : pending[workers[i]] = m}
<1>4. Least \subseteq Nat /\ Least # {}
  BY <1>1
<1>5. PICK i \in Least : \A y \in Least : ~ (<<y, i>> \in OpToRel(<, Nat))
  <2> HIDE DEF Least
  <2> QED
    BY <1>4, WFMin, NatLessThanWellFounded
<1>6. ASSUME NEW j \in 1..n
      PROVE  \/ pending[workers[i]] < pending[workers[j]]
             \/ pending[workers[i]] = pending[workers[j]] /\ i <= j
  <2>1. ~ (pending[workers[j]] < m)
    BY <1>1, <1>2, <1>3 DEF OpToRel
  <2>2. pending[workers[j]] = m => ~ (j < i)
    BY <1>4, <1>5 DEF OpToRel
  <2> QED
    BY <1>1, <2>1, <2>2
<1>7. workers[i] \in Pool
  BY DEF Pool
<1> QED
  BY <1>6, <1>7 DEF Chosen

LEMMA InitType == Init => TypeOK
<1> SUFFICES ASSUME Init PROVE TypeOK
  OBVIOUS
<1>1. workers \in Seq(Worker) /\ waiting \in Seq(Request)
  BY EmptySeq DEF Init
<1>2. inbox \in [Worker -> Seq(Request \cup {Close})] /\ outbox \in [Worker -> Seq(Answer)]
  BY EmptySeq DEF Init
<1>3. issued \in 0..MaxRequests /\ calls \in 0..MaxCalls /\ created \in 0..MaxWorkers
  BY Constants DEF Init
<1>4. kind \in [Request -> Kinds] /\ promise \in [Request -> {"none", "pending", "resolved", "rejected"}]
  BY DEF Init
<1>5. pending \in [Worker -> Nat] /\ requests \in [Worker -> SUBSET Request]
      /\ status \in [Worker -> {"none", "loading", "ready", "closed"}] /\ ready \in BOOLEAN
  BY DEF Init
<1> QED
  BY <1>1, <1>2, <1>3, <1>4, <1>5 DEF TypeOK

-----------------------------------------------------------------------------
(* A step leaves a worker alone, or has one of the following effects. *)

\* A worker stays as it is unless the pool takes it back.
LEMMA WorkerKept ==
  ASSUME TypeOK, NEW w \in Worker, WorkerInv(w), kind' = kind,
         inbox'[w] = inbox[w], outbox'[w] = outbox[w], requests'[w] = requests[w],
         pending'[w] = pending[w], status'[w] = "closed" => status[w] = "closed",
         Pool' \subseteq Pool, created' = created
  PROVE  WorkerInv(w)'
<1>1. Inside(w)' = Inside(w) /\ Queued(w)' = Queued(w) /\ Answered(w)' = Answered(w)
  BY DEF Queued, Answered, Inside
<1>2. Requests(w)' = Requests(w)
  BY <1>1 DEF Requests
<1>3. Load(w)' = Load(w)
  BY DEF Load, Request
<1>4. (\A i, j \in Inside(w) : inbox[w][i] = inbox[w][j] => i = j)'
  BY <1>1 DEF WorkerInv
<1>5. (\A i \in 1..Len(outbox[w]) : outbox[w][i].count = kind[outbox[w][i].id].count
                                    /\ outbox[w][i].action = Fate(outbox[w][i].id))'
  BY DEF WorkerInv, Fate
<1>6. (\A i \in 1..Len(inbox[w]) : inbox[w][i] = Close => i = Len(inbox[w]) /\ w \notin Pool)'
  BY DEF WorkerInv
<1> QED
  BY <1>1, <1>2, <1>3, <1>4, <1>5, <1>6 DEF WorkerInv

\* The main thread sends a request.
LEMMA WorkerSent ==
  ASSUME TypeOK, NEW w \in Worker, WorkerInv(w), NEW r \in Request, kind' = kind, w \in Pool,
         r \notin requests[w], w <= created,
         inbox'[w] = Append(inbox[w], r), outbox'[w] = outbox[w],
         requests'[w] = requests[w] \cup {r},
         pending'[w] = pending[w] + kind[r].count, status'[w] = status[w],
         workers' = workers, created' = created
  PROVE  WorkerInv(w)'
<1> DEFINE n == Len(inbox[w])
<1>1. inbox[w] \in Seq(Request \cup {Close}) /\ r # Close /\ n \in Nat
  BY Constants, RequestsType DEF TypeOK
<1>2. /\ Len(inbox'[w]) = n + 1 /\ inbox'[w][n + 1] = r
      /\ \A i \in 1..n : inbox'[w][i] = inbox[w][i]
  BY <1>1, Enqueue
<1>3. Inside(w)' = Inside(w) \cup {n + 1}
  BY <1>1, <1>2 DEF Inside
<1>4. n + 1 \notin Inside(w) /\ Inside(w) \subseteq 1..n
  BY <1>1 DEF Inside
<1>5. Queued(w)' = Queued(w) \cup {r}
  BY <1>2, <1>3, <1>4 DEF Queued
<1>6. Answered(w)' = Answered(w)
  BY DEF Answered
<1>7. r \notin Queued(w) /\ r \notin Answered(w)
  BY DEF WorkerInv, Requests
<1>8. (requests[w] = Requests(w))'
  BY <1>5, <1>6 DEF WorkerInv, Requests
<1>9. (\A i, j \in Inside(w) : inbox[w][i] = inbox[w][j] => i = j)'
  BY <1>2, <1>3, <1>4, <1>7 DEF WorkerInv, Queued
<1>10. (pending[w] = Load(w))'
  <2> DEFINE f == [q \in Request |-> kind[q].count]
  <2>1. /\ IsFiniteSet(requests[w]) /\ requests[w] \subseteq Request
        /\ \A q \in Request : f[q] \in Nat
    BY RequestsType, FateType
  <2>2. SumFunctionOnSet(f, requests[w] \cup {r}) = SumFunctionOnSet(f, requests[w]) + f[r]
    BY <2>1, SumAdd, SMTT(30)
  <2> QED
    BY <2>2 DEF WorkerInv, Load, Request
<1>11. (\A i \in 1..Len(inbox[w]) : inbox[w][i] = Close => i = Len(inbox[w]) /\ w \notin Pool)'
  BY <1>1, <1>2 DEF WorkerInv
<1>12. (status[w] = "closed" => w \notin Pool /\ inbox[w] = <<>>)'
  BY DEF WorkerInv
<1>13. (w > created => inbox[w] = <<>>)'
  BY DEF TypeOK, Worker
<1> QED
  BY <1>5, <1>6, <1>7, <1>8, <1>9, <1>10, <1>11, <1>12, <1>13 DEF WorkerInv, Fate

\* The main thread tells a worker that left the pool to close.
LEMMA WorkerRetired ==
  ASSUME TypeOK, NEW w \in Worker, WorkerInv(w), kind' = kind, w \in Pool, w \notin Pool',
         inbox'[w] = Append(inbox[w], Close), outbox'[w] = outbox[w],
         requests'[w] = requests[w], pending'[w] = pending[w], status'[w] = status[w],
         w <= created, created' = created
  PROVE  WorkerInv(w)'
<1> DEFINE n == Len(inbox[w])
<1>1. inbox[w] \in Seq(Request \cup {Close}) /\ n \in Nat
  BY RequestsType DEF TypeOK
<1>2. /\ Len(inbox'[w]) = n + 1 /\ inbox'[w][n + 1] = Close
      /\ \A i \in 1..n : inbox'[w][i] = inbox[w][i]
  BY <1>1, Enqueue
<1>3. Inside(w)' = Inside(w) /\ Inside(w) \subseteq 1..n
  BY <1>1, <1>2 DEF Inside
<1>4. Queued(w)' = Queued(w) /\ Answered(w)' = Answered(w)
  BY <1>2, <1>3 DEF Queued, Answered
<1>5. (\A i \in 1..Len(inbox[w]) : inbox[w][i] = Close => i = Len(inbox[w]) /\ w \notin Pool)'
  BY <1>1, <1>2 DEF WorkerInv
<1>6. (\A i, j \in Inside(w) : inbox[w][i] = inbox[w][j] => i = j)'
  BY <1>2, <1>3 DEF WorkerInv
<1>7. (status[w] = "closed" => w \notin Pool /\ inbox[w] = <<>>)'
  BY DEF WorkerInv
<1>8. (requests[w] = Requests(w) /\ Queued(w) \cap Answered(w) = {} /\ pending[w] = Load(w))'
  BY <1>4 DEF WorkerInv, Load, Requests, Request
<1>9. ~ (w > created')
  BY DEF TypeOK, Worker
<1>10. (\A i \in 1..Len(outbox[w]) : outbox[w][i].count = kind[outbox[w][i].id].count
                                     /\ outbox[w][i].action = Fate(outbox[w][i].id))'
  BY DEF WorkerInv, Fate
<1> QED
  BY <1>5, <1>6, <1>7, <1>8, <1>9, <1>10 DEF WorkerInv

\* The worker decodes the oldest message and answers it.
LEMMA WorkerDecoded ==
  ASSUME TypeOK, NEW w \in Worker, WorkerInv(w), WorkerDecode(w)
  PROVE  WorkerInv(w)' /\ requests'[w] = requests[w]
<1> DEFINE r == Head(inbox[w])
           n == Len(inbox[w])
           m == Len(outbox[w])
           answer == [id |-> r, count |-> kind[r].count, action |-> Fate(r)]
<1>1. /\ inbox[w] \in Seq(Request \cup {Close}) /\ outbox[w] \in Seq(Answer)
      /\ inbox[w] # <<>> /\ r # Close /\ n \in Nat /\ m \in Nat
  BY RequestsType DEF TypeOK, WorkerDecode
<1>2. /\ inbox'[w] = Tail(inbox[w]) /\ outbox'[w] = Append(outbox[w], answer)
      /\ UNCHANGED <<kind, pending, requests, status, workers, created>>
  BY DEF WorkerDecode, TypeOK, poolVars
<1>3. /\ r = inbox[w][1] /\ r \in Request /\ n >= 1 /\ Len(inbox'[w]) = n - 1
      /\ \A i \in 1..Len(inbox'[w]) : inbox'[w][i] = inbox[w][i + 1]
  BY <1>1, <1>2, Dequeue
<1>4. answer \in Answer /\ answer.id = r /\ answer.count = kind[r].count /\ answer.action = Fate(r)
  BY <1>3, FateType DEF Answer
<1>5. /\ Len(outbox'[w]) = m + 1 /\ outbox'[w][m + 1] = answer
      /\ \A i \in 1..m : outbox'[w][i] = outbox[w][i]
  <2> HIDE DEF answer
  <2> QED
    BY <1>1, <1>2, <1>4, Enqueue
<1>6. Inside(w)' = {i \in 1..n - 1 : i + 1 \in Inside(w)} /\ 1 \in Inside(w) /\ Inside(w) \subseteq 1..n
  BY <1>1, <1>3 DEF Inside
<1>7. \A i, j \in Inside(w) : inbox[w][i] = inbox[w][j] => i = j
  BY DEF WorkerInv
<1>8. Queued(w)' = Queued(w) \ {r}
  <2>1. ASSUME NEW i \in Inside(w)' PROVE inbox'[w][i] \in Queued(w) \ {r}
    <3>1. i \in 1..n - 1 /\ i + 1 \in Inside(w) /\ inbox'[w][i] = inbox[w][i + 1]
      BY <1>3, <1>6, <2>1
    <3>2. inbox[w][i + 1] # inbox[w][1]
      BY <1>1, <1>6, <1>7, <3>1
    <3> QED
      BY <1>3, <3>1, <3>2 DEF Queued
  <2>2. ASSUME NEW i \in Inside(w), inbox[w][i] # r PROVE inbox[w][i] \in Queued(w)'
    <3>1. i - 1 \in Inside(w)' /\ i \in 2..n
      BY <1>1, <1>3, <1>6, <2>2
    <3>2. inbox'[w][i - 1] = inbox[w][i]
      BY <1>1, <1>3, <3>1
    <3> QED
      BY <3>1, <3>2 DEF Queued
  <2> QED
    BY <2>1, <2>2 DEF Queued
<1>9. Answered(w)' = Answered(w) \cup {r}
  <2> HIDE DEF answer, r
  <2> QED
    BY <1>1, <1>4, <1>5, SMTT(30) DEF Answered
<1>10. r \in Queued(w) /\ r \notin Answered(w)
  BY <1>3, <1>6 DEF WorkerInv, Queued
<1>11. Requests(w)' = Requests(w)
  BY <1>8, <1>9, <1>10 DEF Requests
<1>12. (\A i, j \in Inside(w) : inbox[w][i] = inbox[w][j] => i = j)'
  <2> SUFFICES ASSUME NEW i \in Inside(w)', NEW j \in Inside(w)', inbox'[w][i] = inbox'[w][j]
               PROVE  i = j
    OBVIOUS
  <2>1. /\ i \in 1..n - 1 /\ i + 1 \in Inside(w) /\ inbox'[w][i] = inbox[w][i + 1]
        /\ j \in 1..n - 1 /\ j + 1 \in Inside(w) /\ inbox'[w][j] = inbox[w][j + 1]
    BY <1>3, <1>6
  <2>2. i + 1 = j + 1
    BY <1>7, <2>1
  <2> QED
    BY <1>1, <2>1, <2>2
<1>13. (\A i, j \in 1..Len(outbox[w]) : outbox[w][i].id = outbox[w][j].id => i = j)'
  <2>1. \A i \in 1..m : outbox'[w][i].id = outbox[w][i].id /\ outbox[w][i].id # r
    BY <1>5, <1>10 DEF Answered
  <2>2. \A i, j \in 1..m : outbox[w][i].id = outbox[w][j].id => i = j
    BY DEF WorkerInv
  <2>3. outbox'[w][m + 1].id = r
    BY <1>4, <1>5
  <2> HIDE DEF answer, r
  <2>4. \A i \in 1..m + 1 : i \in 1..m \/ i = m + 1
    BY <1>1
  <2> QED
    BY <1>5, <2>1, <2>2, <2>3, <2>4
<1>14. (Queued(w) \cap Answered(w) = {})'
  BY <1>8, <1>9 DEF WorkerInv
<1>15. (\A i \in 1..Len(outbox[w]) : outbox[w][i].count = kind[outbox[w][i].id].count
                                     /\ outbox[w][i].action = Fate(outbox[w][i].id))'
  <2>2. ASSUME NEW i \in 1..Len(outbox[w])'
        PROVE  outbox'[w][i].count = kind[outbox'[w][i].id].count
               /\ outbox'[w][i].action = Fate(outbox'[w][i].id)
    <3>1. CASE i = m + 1
      BY <1>4, <1>5, <3>1
    <3>2. CASE i # m + 1
      <4>1. i \in 1..m
        BY <1>1, <1>5, <3>2
      <4> QED
        BY <1>5, <4>1 DEF WorkerInv
    <3> QED
      BY <3>1, <3>2
  <2> HIDE DEF r, answer
  <2> QED
    BY <1>2, <2>2 DEF Fate
<1>16. (\A i \in 1..Len(inbox[w]) : inbox[w][i] = Close => i = Len(inbox[w]) /\ w \notin Pool)'
  <2> SUFFICES ASSUME NEW i \in 1..Len(inbox[w])', inbox'[w][i] = Close
               PROVE  i = Len(inbox'[w]) /\ w \notin Pool'
    OBVIOUS
  <2>1. i + 1 \in 1..n /\ inbox[w][i + 1] = Close
    BY <1>1, <1>3
  <2>2. i + 1 = n /\ w \notin Pool
    BY <2>1 DEF WorkerInv
  <2> QED
    BY <1>1, <1>2, <1>3, <2>2 DEF Pool
<1>17. (status[w] = "closed" => w \notin Pool /\ inbox[w] = <<>>)' /\ (w > created => inbox[w] = <<>>)'
  BY <1>1, <1>2 DEF WorkerInv, WorkerDecode
<1>18. (pending[w] = Load(w))'
  BY <1>2 DEF WorkerInv, Load, Request
<1> QED
  BY <1>2, <1>11, <1>12, <1>13, <1>14, <1>15, <1>16, <1>17, <1>18 DEF WorkerInv

\* The worker closes: nothing but that message was left.
LEMMA WorkerClosed ==
  ASSUME TypeOK, NEW w \in Worker, WorkerInv(w), WorkerClose(w)
  PROVE  WorkerInv(w)'
<1>1. /\ inbox[w] \in Seq(Request \cup {Close}) /\ Len(inbox[w]) \in Nat
      /\ inbox[w] # <<>> /\ Head(inbox[w]) = Close
  BY RequestsType DEF TypeOK, WorkerClose
<1>2. /\ inbox'[w] = <<>> /\ UNCHANGED <<kind, pending, requests, outbox, workers, created>>
  BY DEF WorkerClose, TypeOK, poolVars
<1>3. inbox[w][1] = Close /\ 1 \in 1..Len(inbox[w])
  BY <1>1, Dequeue
<1>4. Len(inbox[w]) = 1 /\ w \notin Pool
  BY <1>3 DEF WorkerInv
<1>5. Inside(w) = {} /\ Inside(w)' = {}
  BY <1>2, <1>3, <1>4 DEF Inside
<1>6. Queued(w) = {} /\ Queued(w)' = {} /\ Answered(w)' = Answered(w)
  BY <1>2, <1>5 DEF Queued, Answered
<1>7. (requests[w] = Requests(w) /\ pending[w] = Load(w))'
  BY <1>2, <1>6 DEF WorkerInv, Requests, Load, Request
<1>8. (status[w] = "closed" => w \notin Pool /\ inbox[w] = <<>>)'
  BY <1>2, <1>4 DEF Pool
<1>9. (\A i \in 1..Len(outbox[w]) : outbox[w][i].count = kind[outbox[w][i].id].count
                                    /\ outbox[w][i].action = Fate(outbox[w][i].id))'
  BY <1>2 DEF WorkerInv, Fate
<1>10. (\A i \in 1..Len(inbox[w]) : inbox[w][i] = Close => i = Len(inbox[w]) /\ w \notin Pool)'
  BY <1>2
<1> QED
  BY <1>2, <1>5, <1>6, <1>7, <1>8, <1>9, <1>10 DEF WorkerInv

\* The main thread receives the oldest answer.
LEMMA WorkerReceived ==
  ASSUME TypeOK, NEW w \in Worker, WorkerInv(w), Receive(w)
  PROVE  /\ WorkerInv(w)'
         /\ pending[w] - Head(outbox[w]).count \in Nat
         /\ Head(outbox[w]).id \in requests[w]
         /\ Head(outbox[w]).action = Fate(Head(outbox[w]).id)
<1> DEFINE answer == Head(outbox[w])
           m == Len(outbox[w])
<1>1. outbox[w] \in Seq(Answer) /\ outbox[w] # <<>> /\ m \in Nat
  BY RequestsType DEF TypeOK, Receive
<1>2. /\ outbox'[w] = Tail(outbox[w]) /\ requests'[w] = requests[w] \ {answer.id}
      /\ pending'[w] = pending[w] - answer.count
      /\ UNCHANGED <<kind, inbox, status, workers, created>>
  BY DEF Receive, TypeOK, poolVars
<1>3. /\ answer = outbox[w][1] /\ answer \in Answer /\ m >= 1 /\ Len(outbox'[w]) = m - 1
      /\ \A i \in 1..Len(outbox'[w]) : outbox'[w][i] = outbox[w][i + 1]
  BY <1>1, <1>2, Dequeue
<1> HIDE DEF answer
<1>4. 1 \in 1..m /\ \A i \in 1..m - 1 : i + 1 \in 1..m /\ i + 1 # 1
  BY <1>1, <1>3
<1>5. /\ answer.id \in Request /\ answer.id \in Answered(w) /\ answer.id \in requests[w]
      /\ answer.count = kind[answer.id].count /\ answer.action = Fate(answer.id)
  BY <1>3, <1>4 DEF WorkerInv, Answered, Requests, Answer
<1>6. Answered(w)' = Answered(w) \ {answer.id}
  <2>1. ASSUME NEW i \in 1..m - 1 PROVE outbox'[w][i].id \in Answered(w) \ {answer.id}
    <3>1. outbox'[w][i] = outbox[w][i + 1] /\ i + 1 \in 1..m /\ i + 1 # 1
      BY <1>3, <1>4, <2>1
    <3>2. outbox[w][i + 1].id # outbox[w][1].id
      BY <1>4, <3>1 DEF WorkerInv
    <3> QED
      BY <1>3, <3>1, <3>2 DEF Answered
  <2>2. ASSUME NEW i \in 1..m, outbox[w][i].id # answer.id PROVE outbox[w][i].id \in Answered(w)'
    <3>1. i # 1
      BY <1>3, <2>2
    <3>2. i - 1 \in 1..m - 1 /\ (i - 1) + 1 = i
      BY <1>1, <3>1
    <3>3. outbox'[w][i - 1] = outbox[w][i]
      BY <1>3, <3>2
    <3> QED
      BY <1>3, <3>2, <3>3 DEF Answered
  <2>3. Answered(w)' = {outbox'[w][i].id : i \in 1..m - 1} /\ Answered(w) = {outbox[w][i].id : i \in 1..m}
    BY <1>3 DEF Answered
  <2> QED
    BY <2>1, <2>2, <2>3
<1>7. Inside(w)' = Inside(w) /\ Queued(w)' = Queued(w)
  BY <1>2 DEF Inside, Queued
<1>8. (requests[w] = Requests(w) /\ Queued(w) \cap Answered(w) = {})'
  BY <1>2, <1>5, <1>6, <1>7 DEF WorkerInv, Requests
<1> DEFINE f == [q \in Request |-> kind[q].count]
<1>9. /\ IsFiniteSet(requests[w]) /\ requests[w] \subseteq Request
      /\ \A q \in Request : f[q] \in Nat
  BY RequestsType, FateType
<1>10. SumFunctionOnSet(f, requests[w] \ {answer.id}) = SumFunctionOnSet(f, requests[w]) - f[answer.id]
  BY <1>5, <1>9, SumRemove
<1>11. (pending[w] = Load(w))'
  BY <1>2, <1>5, <1>10 DEF WorkerInv, Load, Request
<1>12. SumFunctionOnSet(f, requests[w] \ {answer.id}) \in Nat
  <2>1. IsFiniteSet(requests[w] \ {answer.id})
    BY <1>9, FS_Subset
  <2> QED
    BY <1>9, <2>1, SumNat
<1>13. pending[w] - answer.count \in Nat
  BY <1>5, <1>10, <1>12 DEF WorkerInv, Load
<1>14. (\A i, j \in 1..Len(outbox[w]) : outbox[w][i].id = outbox[w][j].id => i = j)'
  <2> SUFFICES ASSUME NEW i \in 1..m - 1, NEW j \in 1..m - 1, outbox'[w][i].id = outbox'[w][j].id
               PROVE  i = j
    BY <1>3
  <2>1. outbox[w][i + 1].id = outbox[w][j + 1].id /\ i + 1 \in 1..m /\ j + 1 \in 1..m
    BY <1>3, <1>4
  <2>2. i + 1 = j + 1
    BY <2>1 DEF WorkerInv
  <2> QED
    BY <1>1, <2>2
<1>15. (\A i \in 1..Len(outbox[w]) : outbox[w][i].count = kind[outbox[w][i].id].count
                                     /\ outbox[w][i].action = Fate(outbox[w][i].id))'
  <2> SUFFICES ASSUME NEW i \in 1..m - 1
               PROVE  outbox'[w][i].count = kind[outbox'[w][i].id].count
                      /\ outbox'[w][i].action = Fate(outbox'[w][i].id)
    BY <1>2, <1>3 DEF Fate
  <2> QED
    BY <1>3, <1>4 DEF WorkerInv
<1>16. (\A i \in 1..Len(inbox[w]) : inbox[w][i] = Close => i = Len(inbox[w]) /\ w \notin Pool)'
  BY <1>2 DEF WorkerInv, Pool
<1>17. (status[w] = "closed" => w \notin Pool /\ inbox[w] = <<>>)' /\ (w > created => inbox[w] = <<>>)'
  BY <1>2 DEF WorkerInv, Pool
<1>18. (\A i, j \in Inside(w) : inbox[w][i] = inbox[w][j] => i = j)'
  BY <1>2, <1>7 DEF WorkerInv
<1>19. WorkerInv(w)'
  BY <1>8, <1>11, <1>14, <1>15, <1>16, <1>17, <1>18 DEF WorkerInv
<1> QED
  BY <1>5, <1>13, <1>19 DEF answer

-----------------------------------------------------------------------------
(* Every action keeps the invariant. *)

LEMMA InitInv == Init => IInv
<1> SUFFICES ASSUME Init PROVE IInv
  OBVIOUS
<1>1. TypeOK
  BY InitType
<1>2. Pool = {} /\ Waiting = {}
  BY DEF Init, Pool, Waiting
<1>3. SharedInv
  <2>1. \A r \in Request : r > 0
    BY DEF Request
  <2> QED
    BY <1>2, <2>1 DEF Init, SharedInv
<1>4. ASSUME NEW w \in Worker PROVE WorkerInv(w)
  <2>1. /\ inbox[w] = <<>> /\ outbox[w] = <<>> /\ requests[w] = {} /\ pending[w] = 0
        /\ status[w] = "none"
    BY DEF Init
  <2>2. Inside(w) = {} /\ Queued(w) = {} /\ Answered(w) = {} /\ Requests(w) = {}
    BY <2>1 DEF Inside, Queued, Answered, Requests
  <2>3. Load(w) = 0
    BY <2>1, SumEmpty DEF Load
  <2> QED
    BY <2>1, <2>2, <2>3 DEF WorkerInv
<1> QED
  BY <1>1, <1>3, <1>4 DEF IInv

\* A request that is new is nowhere.
LEMMA NewIsNowhere ==
  ASSUME TypeOK, SharedInv, NEW r \in Request, r = issued + 1
  PROVE  /\ promise[r] = "none" /\ r \notin Waiting
         /\ \A w \in Worker : r \notin requests[w]
<1>1. r > issued
  BY DEF TypeOK
<1> QED
  BY <1>1 DEF SharedInv

LEMMA NewRequestType ==
  ASSUME TypeOK, SharedInv, NEW r \in Request, NewRequest(r)
  PROVE  /\ issued' \in 0..MaxRequests
         /\ promise' \in [Request -> {"none", "pending", "resolved", "rejected"}]
         /\ promise'[r] = "pending" /\ \A q \in Request : q # r => promise'[q] = promise[q]
         /\ \A q \in Request : promise'[q] = "none" <=> q > issued'
<1>1. issued' = issued + 1 /\ r = issued + 1 /\ issued \in Nat /\ issued < MaxRequests
      /\ promise' = [promise EXCEPT ![r] = "pending"]
  BY Constants DEF NewRequest, TypeOK
<1>2. \A q \in Request : q # r => (q > issued <=> q > issued')
  BY <1>1, Constants
<1>3. r > issued /\ ~ (r > issued')
  BY <1>1
<1> QED
  BY <1>1, <1>2, <1>3, Constants DEF TypeOK, SharedInv

LEMMA UseWorkersInv ==
  ASSUME IInv, NEW size \in PoolSizes, UseWorkers(size)
  PROVE  IInv'
<1> DEFINE n == Len(workers)
<1>1. TypeOK /\ SharedInv /\ \A w \in Worker : WorkerInv(w)
  BY DEF IInv
<1>2. size \in Nat /\ n \in Nat /\ created \in 0..MaxWorkers /\ MaxWorkers \in Nat /\ MaxCalls \in Nat
      /\ calls \in 0..MaxCalls /\ \A i \in 1..n : workers[i] \in Worker
  BY <1>1, Constants, PoolType DEF TypeOK
<1>3. /\ calls < MaxCalls /\ created + size - n <= MaxWorkers /\ calls' = calls + 1
      /\ workers' = Resized(size)
      /\ created' = IF size > n THEN created + size - n ELSE created
      /\ status' = [w \in Worker |-> IF w \in created + 1..created' THEN "loading" ELSE status[w]]
      /\ inbox' = [w \in Worker |-> IF w \in Pool \ Kept(size) THEN Append(inbox[w], Close)
                                                              ELSE inbox[w]]
      /\ UNCHANGED <<kind, promise, issued, pending, requests, outbox, ready, waiting>>
  BY DEF UseWorkers, mainVars
<1>4. created' \in created..MaxWorkers /\ created' \in Nat
  BY <1>2, <1>3
<1>5. ASSUME NEW i \in 1..size
      PROVE  Resized(size)[i] = (IF i <= n THEN workers[i] ELSE created + i - n)
             /\ (i > n => created + i - n \in created + 1..created')
             /\ Resized(size)[i] \in Worker
  BY <1>2, <1>3 DEF Resized, Worker
<1>6. workers' \in Seq(Worker) /\ Len(workers') = size
  <2>1. Resized(size) \in [1..size -> Worker]
    BY <1>5 DEF Resized
  <2>2. workers' \in [1..size -> Worker]
    BY <1>3, <2>1
  <2> QED
    BY <1>2, <2>2
<1>7. Pool' = {Resized(size)[i] : i \in 1..size}
  BY <1>3, <1>6 DEF Pool
<1>8. Pool' \subseteq Kept(size) \cup (created + 1..created')
  <2> SUFFICES ASSUME NEW i \in 1..size
               PROVE  Resized(size)[i] \in Kept(size) \cup (created + 1..created')
    BY <1>7
  <2>1. CASE i <= n
    <3>1. i \in 1..(IF size < n THEN size ELSE n)
      BY <1>2, <2>1
    <3> QED
      BY <1>5, <2>1, <3>1 DEF Kept
  <2>2. CASE ~ (i <= n)
    BY <1>2, <1>5, <2>2
  <2> QED
    BY <2>1, <2>2
<1>9. Kept(size) \subseteq Pool
  BY <1>2 DEF Kept, Pool
<1>10. \A w \in Pool : w \in Worker /\ w <= created /\ w \notin created + 1..created'
  BY <1>1, <1>2, PoolType DEF SharedInv, Worker
<1>11. inbox' \in [Worker -> Seq(Request \cup {Close})]
  <2>1. \A w \in Worker : Append(inbox[w], Close) \in Seq(Request \cup {Close})
    BY <1>1, Enqueue DEF TypeOK
  <2> QED
    BY <1>1, <1>3, <2>1 DEF TypeOK
<1>12. TypeOK'
  <2>1. status' \in [Worker -> {"none", "loading", "ready", "closed"}]
    BY <1>1, <1>3 DEF TypeOK
  <2>2. calls' \in 0..MaxCalls /\ created' \in 0..MaxWorkers
    BY <1>2, <1>3, <1>4
  <2> QED
    BY <1>1, <1>3, <1>6, <1>11, <2>1, <2>2 DEF TypeOK, Answer
<1>13. SharedInv'
  <2>1. Waiting' = Waiting
    BY <1>3 DEF Waiting
  <2>2. \A w \in Pool' : w <= created'
    BY <1>2, <1>4, <1>8, <1>9, <1>10, PoolType, <1>1 DEF Worker
  <2> QED
    BY <1>1, <1>3, <2>1, <2>2 DEF SharedInv
<1>14. ASSUME NEW w \in Worker PROVE WorkerInv(w)'
  <2>1. WorkerInv(w)
    BY <1>1
  <2>2. CASE w \in Pool \ Kept(size)
    <3>1. w \notin Pool' /\ w <= created
      BY <1>8, <1>10, <2>2
    <3>2. created' = created
      <4>1. SUFFICES ASSUME size > n PROVE FALSE
        BY <1>3
      <4>2. Kept(size) = Pool
        BY <1>2, <4>1 DEF Kept, Pool
      <4> QED
        BY <2>2, <4>2
    <3>3. inbox'[w] = Append(inbox[w], Close) /\ status'[w] = status[w]
      BY <1>3, <1>10, <2>2
    <3> QED
      BY <1>1, <1>3, <2>1, <2>2, <3>1, <3>2, <3>3, WorkerRetired
  <2>3. CASE w \notin Pool \ Kept(size) /\ w \notin created + 1..created'
    <3>1. inbox'[w] = inbox[w] /\ status'[w] = status[w]
      BY <1>3, <2>3
    <3>2. w \in Pool' => w \in Pool
      BY <1>8, <1>9, <2>3
    <3>3. w > created' => w > created
      BY <1>2, <1>4 DEF Worker
    <3>4. Inside(w)' = Inside(w) /\ Queued(w)' = Queued(w) /\ Answered(w)' = Answered(w)
      BY <1>3, <3>1 DEF Inside, Queued, Answered
    <3>5. (requests[w] = Requests(w) /\ Queued(w) \cap Answered(w) = {} /\ pending[w] = Load(w))'
      BY <1>3, <2>1, <3>4 DEF WorkerInv, Requests, Load, Request
    <3>6. (\A i \in 1..Len(outbox[w]) : outbox[w][i].count = kind[outbox[w][i].id].count
                                        /\ outbox[w][i].action = Fate(outbox[w][i].id))'
      BY <1>3, <2>1 DEF WorkerInv, Fate
    <3>7. (\A i, j \in Inside(w) : inbox[w][i] = inbox[w][j] => i = j)'
      BY <2>1, <3>1, <3>4 DEF WorkerInv
    <3>8. (\A i \in 1..Len(inbox[w]) : inbox[w][i] = Close => i = Len(inbox[w]) /\ w \notin Pool)'
      BY <2>1, <3>1, <3>2 DEF WorkerInv
    <3> QED
      BY <1>3, <2>1, <3>1, <3>2, <3>3, <3>5, <3>6, <3>7, <3>8 DEF WorkerInv
  <2>4. CASE w \in created + 1..created'
    <3>1. inbox[w] = <<>>
      BY <1>2, <2>1, <2>4 DEF WorkerInv
    <3>2. inbox'[w] = <<>> /\ status'[w] = "loading" /\ ~ (w > created')
      BY <1>2, <1>3, <1>4, <1>10, <2>4, <3>1
    <3>3. Inside(w)' = Inside(w) /\ Queued(w)' = Queued(w) /\ Answered(w)' = Answered(w)
      BY <1>3, <3>1, <3>2 DEF Inside, Queued, Answered
    <3>4. (requests[w] = Requests(w) /\ Queued(w) \cap Answered(w) = {} /\ pending[w] = Load(w))'
      BY <1>3, <2>1, <3>3 DEF WorkerInv, Requests, Load, Request
    <3>5. (\A i \in 1..Len(outbox[w]) : outbox[w][i].count = kind[outbox[w][i].id].count
                                        /\ outbox[w][i].action = Fate(outbox[w][i].id))'
      BY <1>3, <2>1 DEF WorkerInv, Fate
    <3>6. (\A i, j \in Inside(w) : inbox[w][i] = inbox[w][j] => i = j)'
      BY <2>1, <3>1, <3>2, <3>3 DEF WorkerInv
    <3> QED
      BY <1>3, <2>1, <3>2, <3>4, <3>5, <3>6 DEF WorkerInv
  <2> QED
    BY <2>2, <2>3, <2>4
<1> QED
  BY <1>12, <1>13, <1>14 DEF IInv

LEMMA DecodeOnWorkerInv ==
  ASSUME IInv, NEW r \in Request, DecodeOnWorker(r)
  PROVE  IInv' /\ Service!Call(r)
<1>1. TypeOK /\ SharedInv /\ \A w \in Worker : WorkerInv(w)
  BY DEF IInv
<1>2. PICK c : c = Chosen
  OBVIOUS
<1>3. c \in Pool /\ c \in Worker /\ c <= created
  BY <1>1, <1>2, ChosenType, PoolType DEF DecodeOnWorker, SharedInv
<1>4. /\ NewRequest(r) /\ r = issued + 1
      /\ pending' = [pending EXCEPT ![c] = @ + kind[r].count]
      /\ requests' = [requests EXCEPT ![c] = @ \cup {r}]
      /\ inbox' = [inbox EXCEPT ![c] = Append(@, r)]
      /\ UNCHANGED <<kind, calls, workers, created, outbox, status, ready, waiting>>
  BY <1>2 DEF DecodeOnWorker, NewRequest, poolVars, mainVars
<1>5. promise[r] = "none" /\ r \notin Waiting /\ \A w \in Worker : r \notin requests[w]
  BY <1>1, <1>4, NewIsNowhere
<1>6. /\ issued' \in 0..MaxRequests
      /\ promise' \in [Request -> {"none", "pending", "resolved", "rejected"}]
      /\ promise'[r] = "pending" /\ \A q \in Request : q # r => promise'[q] = promise[q]
      /\ \A q \in Request : promise'[q] = "none" <=> q > issued'
  BY <1>1, <1>4, NewRequestType
<1>7. pending[c] + kind[r].count \in Nat /\ Append(inbox[c], r) \in Seq(Request \cup {Close})
  BY <1>1, <1>3, FateType, Enqueue DEF TypeOK
<1>8. TypeOK'
  <2>1. pending' \in [Worker -> Nat] /\ requests' \in [Worker -> SUBSET Request]
        /\ inbox' \in [Worker -> Seq(Request \cup {Close})]
    BY <1>1, <1>3, <1>4, <1>7 DEF TypeOK
  <2> QED
    BY <1>1, <1>4, <1>6, <2>1 DEF TypeOK, Answer
<1>9. /\ requests'[c] = requests[c] \cup {r} /\ inbox'[c] = Append(inbox[c], r)
      /\ pending'[c] = pending[c] + kind[r].count
      /\ \A w \in Worker : w # c => requests'[w] = requests[w] /\ inbox'[w] = inbox[w]
                                    /\ pending'[w] = pending[w]
  BY <1>1, <1>3, <1>4 DEF TypeOK
<1>10. SharedInv'
  <2>1. Waiting' = Waiting /\ Pool' = Pool /\ Waiting \subseteq Request
    BY <1>1, <1>4 DEF Waiting, Pool, TypeOK
  <2>2. \A w \in Worker : \A q \in requests'[w] : promise'[q] = "pending" /\ q \notin Waiting
    BY <1>1, <1>5, <1>6, <1>9, RequestsType DEF SharedInv
  <2>3. \A v, w \in Worker : v # w => requests'[v] \cap requests'[w] = {}
    BY <1>1, <1>5, <1>9 DEF SharedInv
  <2>4. \A q \in Waiting : promise'[q] = "pending"
    BY <1>1, <1>5, <1>6, <2>1 DEF SharedInv
  <2>5. \A q \in Request : promise'[q] = "pending" =>
          q \in Waiting \/ \E w \in Worker : q \in requests'[w]
    BY <1>1, <1>3, <1>6, <1>9 DEF SharedInv
  <2> QED
    BY <1>1, <1>4, <1>6, <2>1, <2>2, <2>3, <2>4, <2>5 DEF SharedInv
<1>11. ASSUME NEW w \in Worker PROVE WorkerInv(w)'
  <2>1. CASE w = c
    BY <1>1, <1>3, <1>4, <1>5, <1>9, <2>1, WorkerSent
  <2>2. CASE w # c
    <3>1. Pool' \subseteq Pool
      BY <1>4 DEF Pool
    <3> QED
      BY <1>1, <1>4, <1>9, <2>2, <3>1, WorkerKept
  <2> QED
    BY <2>1, <2>2
<1>12. Service!Call(r)
  BY <1>4, <1>5 DEF Service!Call, NewRequest
<1> QED
  BY <1>8, <1>10, <1>11, <1>12 DEF IInv

\* A worker that no message reaches or leaves, in a step that keeps the pool.
LEMMA OthersKept ==
  ASSUME TypeOK, NEW w \in Worker, WorkerInv(w), kind' = kind,
         workers' = workers, created' = created,
         inbox'[w] = inbox[w], outbox'[w] = outbox[w], requests'[w] = requests[w],
         pending'[w] = pending[w], status'[w] = status[w]
  PROVE  WorkerInv(w)'
<1>1. Pool' = Pool
  BY DEF Pool
<1> QED
  BY <1>1, WorkerKept

LEMMA DecodeOnMainInv ==
  ASSUME IInv, NEW r \in Request, DecodeOnMain(r)
  PROVE  IInv' /\ Service!Call(r)
<1>1. TypeOK /\ SharedInv /\ \A w \in Worker : WorkerInv(w)
  BY DEF IInv
<1>2. /\ NewRequest(r) /\ r = issued + 1 /\ waiting' = Append(waiting, r)
      /\ UNCHANGED <<kind, calls, workers, created, pending, requests, inbox, outbox, status, ready>>
  BY DEF DecodeOnMain, NewRequest, poolVars, workerVars
<1>3. promise[r] = "none" /\ r \notin Waiting /\ \A w \in Worker : r \notin requests[w]
  BY <1>1, <1>2, NewIsNowhere
<1>4. /\ issued' \in 0..MaxRequests
      /\ promise' \in [Request -> {"none", "pending", "resolved", "rejected"}]
      /\ promise'[r] = "pending" /\ \A q \in Request : q # r => promise'[q] = promise[q]
      /\ \A q \in Request : promise'[q] = "none" <=> q > issued'
  BY <1>1, <1>2, NewRequestType
<1>5. waiting \in Seq(Request)
  BY <1>1 DEF TypeOK
<1>6. /\ waiting' \in Seq(Request) /\ Len(waiting) \in Nat /\ Len(waiting') = Len(waiting) + 1
      /\ waiting'[Len(waiting) + 1] = r /\ \A i \in 1..Len(waiting) : waiting'[i] = waiting[i]
  BY <1>2, <1>5, Enqueue
<1>7. Waiting' = Waiting \cup {r} /\ Waiting \subseteq Request
  BY <1>5, <1>6 DEF Waiting
<1>8. TypeOK'
  BY <1>1, <1>2, <1>4, <1>6 DEF TypeOK, Answer
<1>9. \A i, j \in 1..Len(waiting') : waiting'[i] = waiting'[j] => i = j
  <2>1. \A i \in 1..Len(waiting) : waiting[i] # r
    BY <1>3 DEF Waiting
  <2>2. \A i, j \in 1..Len(waiting) : waiting[i] = waiting[j] => i = j
    BY <1>1 DEF SharedInv
  <2>3. \A i \in 1..Len(waiting') : i \in 1..Len(waiting) \/ i = Len(waiting) + 1
    BY <1>6
  <2> QED
    BY <1>6, <2>1, <2>2, <2>3
<1>10. SharedInv'
  <2>1. \A w \in Worker : \A q \in requests'[w] : promise'[q] = "pending" /\ q \notin Waiting'
    BY <1>1, <1>2, <1>3, <1>4, <1>7, RequestsType DEF SharedInv
  <2>2. \A q \in Waiting' : promise'[q] = "pending"
    BY <1>1, <1>3, <1>4, <1>7 DEF SharedInv
  <2>3. \A q \in Request : promise'[q] = "pending" =>
          q \in Waiting' \/ \E w \in Worker : q \in requests'[w]
    BY <1>1, <1>2, <1>4, <1>7 DEF SharedInv
  <2>4. Pool' = Pool
    BY <1>2 DEF Pool
  <2> QED
    BY <1>1, <1>2, <1>4, <1>9, <2>1, <2>2, <2>3, <2>4 DEF SharedInv
<1>11. ASSUME NEW w \in Worker PROVE WorkerInv(w)'
  BY <1>1, <1>2, OthersKept
<1>12. Service!Call(r)
  BY <1>2, <1>3 DEF Service!Call, NewRequest
<1> QED
  BY <1>8, <1>10, <1>11, <1>12 DEF IInv

\* The specification's verdict is the decoder's.
LEMMA Settles ==
  ASSUME TypeOK, NEW r \in Request, promise[r] = "pending", kind' = kind,
         promise' = [promise EXCEPT ![r] = Fate(r)]
  PROVE  /\ Service!Settle(r)
         /\ promise' \in [Request -> {"none", "pending", "resolved", "rejected"}]
         /\ promise'[r] \in {"resolved", "rejected"}
         /\ \A q \in Request : q # r => promise'[q] = promise[q]
<1>1. Fate(r) \in {"resolved", "rejected"}
  BY FateType
<1>2. Service!Settle(r)
  BY DEF Service!Settle, Fate
<1> QED
  BY <1>1, <1>2 DEF TypeOK

LEMMA MainDecodeInv ==
  ASSUME IInv, MainDecode
  PROVE  IInv' /\ \E r \in Request : Service!Settle(r)
<1> DEFINE r == Head(waiting)
<1>1. TypeOK /\ SharedInv /\ \A w \in Worker : WorkerInv(w)
  BY DEF IInv
<1>2. /\ waiting # <<>> /\ promise' = [promise EXCEPT ![r] = Fate(r)] /\ waiting' = Tail(waiting)
      /\ UNCHANGED <<kind, issued, calls, workers, created, pending, requests, inbox, outbox, status,
                     ready>>
  BY DEF MainDecode, poolVars, workerVars
<1>3. waiting \in Seq(Request)
  BY <1>1 DEF TypeOK
<1>4. /\ r = waiting[1] /\ r \in Request /\ waiting' \in Seq(Request)
      /\ Len(waiting) \in Nat /\ Len(waiting) >= 1 /\ Len(waiting') = Len(waiting) - 1
      /\ \A i \in 1..Len(waiting') : waiting'[i] = waiting[i + 1]
  BY <1>2, <1>3, Dequeue
<1> HIDE DEF r
<1>5. r \in Waiting /\ promise[r] = "pending"
  BY <1>1, <1>4 DEF SharedInv, Waiting
<1>6. /\ Service!Settle(r)
      /\ promise' \in [Request -> {"none", "pending", "resolved", "rejected"}]
      /\ promise'[r] \in {"resolved", "rejected"}
      /\ \A q \in Request : q # r => promise'[q] = promise[q]
  BY <1>1, <1>2, <1>4, <1>5, Settles
<1>7. \A i, j \in 1..Len(waiting) : waiting[i] = waiting[j] => i = j
  BY <1>1 DEF SharedInv
<1>8. \A i \in 1..Len(waiting') : i + 1 \in 1..Len(waiting) /\ i + 1 # 1
  BY <1>4
<1>9. Waiting' = Waiting \ {r} /\ Waiting \subseteq Request
  <2>1. ASSUME NEW i \in 1..Len(waiting') PROVE waiting'[i] \in Waiting \ {r}
    <3>1. waiting'[i] = waiting[i + 1] /\ i + 1 \in 1..Len(waiting) /\ i + 1 # 1
      BY <1>4, <1>8, <2>1
    <3>2. waiting[i + 1] # waiting[1]
      BY <1>4, <1>7, <3>1
    <3> QED
      BY <1>4, <3>1, <3>2 DEF Waiting
  <2>2. ASSUME NEW i \in 1..Len(waiting), waiting[i] # r PROVE waiting[i] \in Waiting'
    <3>1. i # 1
      BY <1>4, <2>2
    <3>2. i - 1 \in 1..Len(waiting') /\ (i - 1) + 1 = i
      BY <1>4, <3>1
    <3>3. waiting'[i - 1] = waiting[i]
      BY <1>4, <3>2
    <3> QED
      BY <3>2, <3>3 DEF Waiting
  <2>3. Waiting \subseteq Request
    BY <1>3 DEF Waiting
  <2>4. Waiting' = {waiting'[i] : i \in 1..Len(waiting')} /\ Waiting = {waiting[i] : i \in 1..Len(waiting)}
    BY DEF Waiting
  <2> QED
    BY <2>1, <2>2, <2>3, <2>4
<1>10. TypeOK'
  BY <1>1, <1>2, <1>4, <1>6 DEF TypeOK, Answer
<1>11. \A i, j \in 1..Len(waiting') : waiting'[i] = waiting'[j] => i = j
  <2> SUFFICES ASSUME NEW i \in 1..Len(waiting'), NEW j \in 1..Len(waiting'), waiting'[i] = waiting'[j]
               PROVE  i = j
    OBVIOUS
  <2>1. i + 1 = j + 1
    BY <1>4, <1>7, <1>8
  <2> QED
    BY <1>4, <2>1
<1>12. SharedInv'
  <2>1. \A w \in Worker : \A q \in requests'[w] : promise'[q] = "pending" /\ q \notin Waiting'
    BY <1>1, <1>2, <1>5, <1>6, <1>9, RequestsType DEF SharedInv
  <2>2. \A q \in Waiting' : promise'[q] = "pending"
    BY <1>1, <1>6, <1>9 DEF SharedInv
  <2>3. \A q \in Request : promise'[q] = "pending" =>
          q \in Waiting' \/ \E w \in Worker : q \in requests'[w]
    BY <1>1, <1>2, <1>6, <1>9 DEF SharedInv
  <2>4. Pool' = Pool
    BY <1>2 DEF Pool
  <2>5. \A q \in Request : promise'[q] = "none" <=> q > issued'
    <3>1. promise'[r] # "none" /\ promise[r] # "none"
      BY <1>5, <1>6
    <3> QED
      BY <1>1, <1>2, <1>6, <3>1 DEF SharedInv
  <2> QED
    BY <1>1, <1>2, <1>11, <2>1, <2>2, <2>3, <2>4, <2>5 DEF SharedInv
<1>13. ASSUME NEW w \in Worker PROVE WorkerInv(w)'
  BY <1>1, <1>2, OthersKept
<1> QED
  BY <1>4, <1>6, <1>10, <1>12, <1>13 DEF IInv

LEMMA ReceiveInv ==
  ASSUME IInv, NEW w \in Worker, Receive(w)
  PROVE  IInv' /\ \E r \in Request : Service!Settle(r)
<1> DEFINE r == Head(outbox[w]).id
<1>1. TypeOK /\ SharedInv /\ \A v \in Worker : WorkerInv(v)
  BY DEF IInv
<1>2. /\ outbox[w] # <<>> /\ outbox' = [outbox EXCEPT ![w] = Tail(@)]
      /\ pending' = [pending EXCEPT ![w] = @ - Head(outbox[w]).count]
      /\ promise' = [promise EXCEPT ![r] = Head(outbox[w]).action]
      /\ requests' = [requests EXCEPT ![w] = @ \ {r}]
      /\ UNCHANGED <<kind, issued, calls, workers, created, inbox, status, ready, waiting>>
  BY DEF Receive, poolVars, mainVars
<1>3. /\ WorkerInv(w)' /\ pending[w] - Head(outbox[w]).count \in Nat
      /\ r \in requests[w] /\ Head(outbox[w]).action = Fate(r)
  BY <1>1, WorkerReceived
<1>4. outbox[w] \in Seq(Answer) /\ Tail(outbox[w]) \in Seq(Answer)
  <2>1. outbox[w] \in Seq(Answer)
    BY <1>1 DEF TypeOK
  <2> QED
    BY <1>2, <2>1, Dequeue
<1> HIDE DEF r
<1>5. r \in Request /\ promise[r] = "pending" /\ r \notin Waiting
  BY <1>1, <1>3, RequestsType DEF SharedInv
<1>6. /\ Service!Settle(r)
      /\ promise' \in [Request -> {"none", "pending", "resolved", "rejected"}]
      /\ promise'[r] \in {"resolved", "rejected"}
      /\ \A q \in Request : q # r => promise'[q] = promise[q]
  BY <1>1, <1>2, <1>3, <1>5, Settles
<1>7. TypeOK'
  <2>1. /\ pending' \in [Worker -> Nat] /\ requests' \in [Worker -> SUBSET Request]
        /\ outbox' \in [Worker -> Seq(Answer)]
    BY <1>1, <1>2, <1>3, <1>4 DEF TypeOK
  <2> QED
    BY <1>1, <1>2, <1>6, <2>1 DEF TypeOK, Answer
<1>8. /\ requests'[w] = requests[w] \ {r}
      /\ \A v \in Worker : v # w => requests'[v] = requests[v] /\ outbox'[v] = outbox[v]
                                    /\ pending'[v] = pending[v]
  BY <1>1, <1>2 DEF TypeOK
<1>9. SharedInv'
  <2>1. Waiting' = Waiting /\ Pool' = Pool /\ Waiting \subseteq Request
    BY <1>1, <1>2 DEF Waiting, Pool, TypeOK
  <2>2. \A v \in Worker : \A q \in requests'[v] : q # r
    BY <1>1, <1>3, <1>8 DEF SharedInv
  <2>3. \A v \in Worker : \A q \in requests'[v] : promise'[q] = "pending" /\ q \notin Waiting
    BY <1>1, <1>6, <1>8, <2>2, RequestsType DEF SharedInv
  <2>4. \A q \in Waiting : promise'[q] = "pending"
    BY <1>1, <1>5, <1>6, <2>1 DEF SharedInv
  <2>5. \A q \in Request : promise'[q] = "pending" =>
          q \in Waiting \/ \E v \in Worker : q \in requests'[v]
    <3> SUFFICES ASSUME NEW q \in Request, promise'[q] = "pending", q \notin Waiting
                 PROVE  \E v \in Worker : q \in requests'[v]
      OBVIOUS
    <3>1. q # r /\ promise[q] = "pending"
      BY <1>6
    <3>2. PICK v \in Worker : q \in requests[v]
      BY <1>1, <3>1 DEF SharedInv
    <3> QED
      BY <1>8, <3>1, <3>2
  <2>6. \A q \in Request : promise'[q] = "none" <=> q > issued'
    <3>1. promise'[r] # "none" /\ promise[r] # "none"
      BY <1>5, <1>6
    <3> QED
      BY <1>1, <1>2, <1>6, <3>1 DEF SharedInv
  <2>7. \A u, v \in Worker : u # v => requests'[u] \cap requests'[v] = {}
    BY <1>1, <1>8 DEF SharedInv
  <2> QED
    BY <1>1, <1>2, <2>1, <2>3, <2>4, <2>5, <2>6, <2>7 DEF SharedInv
<1>10. ASSUME NEW v \in Worker PROVE WorkerInv(v)'
  <2>1. CASE v = w
    BY <1>3, <2>1
  <2>2. CASE v # w
    BY <1>1, <1>2, <1>8, <2>2, OthersKept
  <2> QED
    BY <2>1, <2>2
<1> QED
  BY <1>5, <1>6, <1>7, <1>9, <1>10 DEF IInv

\* What a worker does by itself changes neither a promise nor the main thread's records.
LEMMA WorkerStep ==
  ASSUME IInv, TypeOK', NEW w \in Worker, WorkerInv(w)',
         UNCHANGED <<kind, promise, issued, calls, workers, created, pending, requests, ready, waiting>>,
         \A v \in Worker : v # w => inbox'[v] = inbox[v] /\ outbox'[v] = outbox[v]
                                    /\ status'[v] = status[v]
  PROVE  IInv'
<1>1. TypeOK /\ SharedInv /\ \A v \in Worker : WorkerInv(v)
  BY DEF IInv
<1>2. Waiting' = Waiting /\ Pool' = Pool
  BY DEF Waiting, Pool
<1>3. SharedInv'
  BY <1>1, <1>2 DEF SharedInv
<1>4. ASSUME NEW v \in Worker PROVE WorkerInv(v)'
  <2>1. CASE v = w
    BY <2>1
  <2>2. CASE v # w
    BY <1>1, <2>2, OthersKept
  <2> QED
    BY <2>1, <2>2
<1> QED
  BY <1>3, <1>4 DEF IInv

LEMMA WorkerReadyInv ==
  ASSUME IInv, NEW w \in Worker, WorkerReady(w)
  PROVE  IInv'
<1>1. TypeOK /\ WorkerInv(w)
  BY DEF IInv
<1>2. /\ status[w] = "loading" /\ status' = [status EXCEPT ![w] = "ready"]
      /\ UNCHANGED <<kind, promise, issued, calls, workers, created, pending, requests, inbox, outbox,
                     ready, waiting>>
  BY DEF WorkerReady, poolVars, mainVars
<1>3. TypeOK' /\ status'[w] = "ready" /\ \A v \in Worker : v # w => status'[v] = status[v]
  BY <1>1, <1>2 DEF TypeOK, Answer
<1>4. Pool' = Pool
  BY <1>2 DEF Pool
<1>5. WorkerInv(w)'
  BY <1>1, <1>2, <1>3, <1>4, WorkerKept
<1> QED
  BY <1>2, <1>3, <1>5, WorkerStep

LEMMA WorkerDecodeInv ==
  ASSUME IInv, NEW w \in Worker, WorkerDecode(w)
  PROVE  IInv'
<1> DEFINE r == Head(inbox[w])
           answer == [id |-> r, count |-> kind[r].count, action |-> Fate(r)]
<1>1. TypeOK /\ WorkerInv(w)
  BY DEF IInv
<1>2. /\ inbox[w] # <<>> /\ r # Close
      /\ inbox' = [inbox EXCEPT ![w] = Tail(@)]
      /\ outbox' = [outbox EXCEPT ![w] = Append(@, answer)]
      /\ UNCHANGED <<kind, promise, issued, calls, workers, created, pending, requests, status,
                     ready, waiting>>
  BY DEF WorkerDecode, poolVars, mainVars
<1>3. /\ inbox \in [Worker -> Seq(Request \cup {Close})] /\ outbox \in [Worker -> Seq(Answer)]
      /\ inbox[w] \in Seq(Request \cup {Close}) /\ outbox[w] \in Seq(Answer)
  BY <1>1 DEF TypeOK
<1>4. r \in Request /\ Tail(inbox[w]) \in Seq(Request \cup {Close})
  BY <1>2, <1>3, Dequeue
<1>5. answer \in Answer
  BY <1>1, <1>4, FateType DEF Answer
<1> HIDE DEF answer
<1>6. inbox' \in [Worker -> Seq(Request \cup {Close})]
  BY <1>2, <1>3, <1>4
<1>7. outbox' \in [Worker -> Seq(Answer)]
  BY <1>2, <1>3, <1>5, Enqueue
<1>8. TypeOK'
  BY <1>1, <1>2, <1>6, <1>7 DEF TypeOK, Answer
<1>9. \A v \in Worker : v # w => inbox'[v] = inbox[v] /\ outbox'[v] = outbox[v]
  BY <1>2, <1>3
<1>10. WorkerInv(w)'
  BY <1>1, WorkerDecoded
<1> QED
  BY <1>2, <1>8, <1>9, <1>10, WorkerStep

LEMMA WorkerCloseInv ==
  ASSUME IInv, NEW w \in Worker, WorkerClose(w)
  PROVE  IInv'
<1>1. TypeOK /\ WorkerInv(w)
  BY DEF IInv
<1>2. /\ status' = [status EXCEPT ![w] = "closed"] /\ inbox' = [inbox EXCEPT ![w] = <<>>]
      /\ UNCHANGED <<kind, promise, issued, calls, workers, created, pending, requests, outbox,
                     ready, waiting>>
  BY DEF WorkerClose, poolVars, mainVars
<1>3. <<>> \in Seq(Request \cup {Close})
  BY EmptySeq
<1>4. /\ inbox' \in [Worker -> Seq(Request \cup {Close})]
      /\ status' \in [Worker -> {"none", "loading", "ready", "closed"}]
      /\ \A v \in Worker : v # w => inbox'[v] = inbox[v] /\ status'[v] = status[v]
  BY <1>1, <1>2, <1>3 DEF TypeOK
<1>5. TypeOK'
  BY <1>1, <1>2, <1>4 DEF TypeOK, Answer
<1>6. WorkerInv(w)'
  BY <1>1, WorkerClosed
<1> QED
  BY <1>2, <1>4, <1>5, <1>6, WorkerStep

\* Every step keeps the invariant and is a step of the service, or none of its steps.
LEMMA NextInv ==
  ASSUME IInv, [Next]_vars
  PROVE  IInv' /\ [Service!Next]_<<promise, {r \in Request : kind[r].malformed}>>
<1> USE DEF Service!Next
<1>1. ASSUME NEW size \in PoolSizes, UseWorkers(size) PROVE IInv' /\ UNCHANGED <<promise, kind>>
  BY <1>1, UseWorkersInv DEF UseWorkers
<1>2. ASSUME NEW r \in Request, DecodeOnWorker(r) PROVE IInv' /\ Service!Next
  BY <1>2, DecodeOnWorkerInv
<1>3. ASSUME NEW r \in Request, DecodeOnMain(r) PROVE IInv' /\ Service!Next
  BY <1>3, DecodeOnMainInv
<1>4. ASSUME \/ MainReady \/ UNCHANGED vars
      PROVE  IInv' /\ UNCHANGED <<promise, kind>>
  <2>1. /\ UNCHANGED <<kind, promise, issued, calls, workers, created, pending, requests, inbox, outbox,
                       status, waiting>>
        /\ ready' \in BOOLEAN
    BY <1>4 DEF MainReady, vars, poolVars, workerVars, mainVars, IInv, TypeOK
  <2>2. TypeOK /\ SharedInv /\ \A w \in Worker : WorkerInv(w)
    BY DEF IInv
  <2>3. TypeOK'
    BY <2>1, <2>2 DEF TypeOK, Answer
  <2>4. Waiting' = Waiting /\ Pool' = Pool
    BY <2>1 DEF Waiting, Pool
  <2>5. SharedInv'
    BY <2>1, <2>2, <2>4 DEF SharedInv
  <2>6. \A w \in Worker : WorkerInv(w)'
    BY <2>1, <2>2, OthersKept
  <2> QED
    BY <2>1, <2>3, <2>5, <2>6 DEF IInv
<1>5. ASSUME MainDecode PROVE IInv' /\ Service!Next
  BY <1>5, MainDecodeInv
<1>6. ASSUME NEW w \in Worker, Receive(w) PROVE IInv' /\ Service!Next
  BY <1>6, ReceiveInv
<1>7. ASSUME NEW w \in Worker, WorkerReady(w) \/ WorkerDecode(w) \/ WorkerClose(w)
      PROVE  IInv' /\ UNCHANGED <<promise, kind>>
  BY <1>7, WorkerReadyInv, WorkerDecodeInv, WorkerCloseInv DEF WorkerReady, WorkerDecode, WorkerClose
<1>8. UNCHANGED <<promise, kind>> => UNCHANGED <<promise, {r \in Request : kind[r].malformed}>>
  OBVIOUS
<1> QED
  BY <1>1, <1>2, <1>3, <1>4, <1>5, <1>6, <1>7, <1>8 DEF Next

LEMMA Invariance == Spec => []IInv
<1>1. IInv /\ [Next]_vars => IInv'
  BY NextInv
<1> QED
  BY <1>1, InitInv, PTL DEF Spec

-----------------------------------------------------------------------------
(* The results. *)

\* The variables keep their types: no queue of a worker holds anything but requests, the message
\* that closes it and answers, and no pending count becomes negative.
THEOREM TypeCorrect == Spec => []TypeOK
<1>1. IInv => TypeOK
  BY DEF IInv
<1> QED
  BY <1>1, Invariance, PTL

\* The main thread's record of a worker is exactly what is in the worker's queues, each request
\* is pending and in one place, the load that chooses a worker is the sum of what is outstanding,
\* and every pending promise is on its way, however often the pool is resized.
THEOREM AccountingExact == Spec => []Accounted
<1>1. ASSUME IInv PROVE Accounted
  <2>1. TypeOK /\ SharedInv /\ \A w \in Worker : WorkerInv(w)
    BY <1>1 DEF IInv
  <2>2. ASSUME NEW w \in Worker
        PROVE  Cardinality(requests[w]) = Cardinality(Inside(w)) + Len(outbox[w])
    <3> DEFINE id == [i \in 1..Len(outbox[w]) |-> outbox[w][i].id]
    <3>1. WorkerInv(w) /\ Len(inbox[w]) \in Nat /\ Len(outbox[w]) \in Nat
          /\ Inside(w) \subseteq 1..Len(inbox[w])
      BY <2>1, RequestsType
    <3>2. IsFiniteSet(1..Len(inbox[w])) /\ IsFiniteSet(1..Len(outbox[w]))
          /\ Cardinality(1..Len(outbox[w])) = Len(outbox[w])
      BY <3>1, Indices
    <3>3. IsFiniteSet(Inside(w))
      BY <3>1, <3>2, FS_Subset
    <3>4. IsFiniteSet(Queued(w)) /\ Cardinality(Queued(w)) = Cardinality(Inside(w))
      <4>1. \A i, j \in Inside(w) : inbox[w][i] = inbox[w][j] => i = j
        BY <3>1 DEF WorkerInv
      <4> QED
        BY <3>3, <4>1, DistinctValues DEF Queued
    <3>5. IsFiniteSet(Answered(w)) /\ Cardinality(Answered(w)) = Len(outbox[w])
      <4>1. \A i, j \in 1..Len(outbox[w]) : id[i] = id[j] => i = j
        BY <3>1 DEF WorkerInv
      <4>2. Answered(w) = {id[i] : i \in 1..Len(outbox[w])}
        BY DEF Answered
      <4> HIDE DEF id
      <4> QED
        BY <3>2, <4>1, <4>2, DistinctValues, SMTT(30)
    <3>6. requests[w] = Queued(w) \cup Answered(w) /\ Queued(w) \cap Answered(w) = {}
      BY <3>1 DEF WorkerInv, Requests
    <3> QED
      BY <3>4, <3>5, <3>6, DisjointUnion, SMTT(30)
  <2> QED
    BY <2>1, <2>2 DEF Accounted, SharedInv, WorkerInv
<1> QED
  BY <1>1, Invariance, PTL

\* Promises are settled once, each with its own verdict, whichever thread decodes.
THEOREM ImplementsAsyncDecoder == Spec => ServiceSpec
<1>1. Init => Service!Init
  BY DEF Init, Service!Init
<1>2. IInv /\ [Next]_vars => [Service!Next]_<<promise, {r \in Request : kind[r].malformed}>>
  BY NextInv
<1>3. Spec => Service!Spec
  BY <1>1, <1>2, Invariance, PTL DEF Spec, Service!Spec
<1> QED
  BY <1>3 DEF ServiceSpec
=============================================================================
