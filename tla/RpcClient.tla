------------------------------ MODULE RpcClient ------------------------------
(***************************************************************************)
(* The keeper's JSON-RPC client, keeper/src/rpc.ts: one call of            *)
(* RpcClient.batch, whose workers take chunks of calls from a shared       *)
(* cursor, meter themselves through one token bucket, retry what the       *)
(* endpoint refuses and put the answers back in the order of the calls.    *)
(*                                                                         *)
(* A step of a worker runs from one await to the next.  Time is relative:  *)
(* how many ticks ago the bucket was refilled, and how many are left of a  *)
(* penalty.  Retry-After, jitter and the exponent of the delay only say    *)
(* how long a worker sleeps, and here it sleeps for any time at all.       *)
(***************************************************************************)
EXTENDS Naturals, FiniteSets, SequencesExt

CONSTANTS
    Workers,      \* the workers of the batch (concurrency)
    NumAccounts,  \* accounts asked for
    GroupSize,    \* accounts in one getMultipleAccounts call
    MaxBatch,     \* MAX_BATCH: calls in one request
    MaxAttempts,  \* MAX_ATTEMPTS
    Unit,         \* units of the meter in one token
    ConfiguredRate, \* ratePerSecond, in units per tick
    MinRate,      \* MIN_RATE, in units per tick
    PenaltyTicks  \* PENALTY_COOLDOWN_MS, in ticks

ASSUME RpcAssumption ==
    /\ IsFiniteSet(Workers) /\ Workers # {}
    /\ {NumAccounts, GroupSize, MaxBatch, Unit, ConfiguredRate, MinRate}
          \subseteq Nat \ {0}
    /\ MaxAttempts \in Nat
    /\ PenaltyTicks \in Nat

VARIABLES
    tokens,   \* #tokens, in units
    rate,     \* #rate
    idle,     \* ticks since #last
    penalty,  \* ticks until a 429 is charged again
    queue,    \* #queue: workers inside acquire, first come first served
    nextId,   \* #nextId
    cursor,   \* the next chunk to hand out
    worker,   \* what each worker of the batch is doing
    results,  \* the answers, by call
    outcome,  \* the promise that batch returned
    \* history
    meter     \* units sent that the endpoint has not yet forgotten

bucketVars == <<tokens, rate, idle, penalty, queue, meter>>
batchVars  == <<nextId, cursor, worker, results, outcome>>
vars == <<bucketVars, batchVars>>

AtMost(a, b) == IF a <= b THEN a ELSE b
AtLeast(a, b) == IF a <= b THEN b ELSE a

-----------------------------------------------------------------------------
(* What is asked for.                                                      *)

\* getAccounts: the accounts in groups, one call per group.
NumCalls == (NumAccounts + GroupSize - 1) \div GroupSize

Group(c) == (c - 1) * GroupSize + 1 .. AtMost(c * GroupSize, NumAccounts)

\* batch: the calls in chunks, by the offset of the first.
NumChunks == (NumCalls + MaxBatch - 1) \div MaxBatch

Start(k) == (k - 1) * MaxBatch

Size(k) == AtMost(MaxBatch, NumCalls - Start(k))

\* Answers of the node.  An answer is named by the call it is about; a node
\* may answer null, which stands for a group of missing accounts too.
Unset   == 0
Null    == NumCalls + 1
Passing == NumCalls + 2
Fatal   == NumCalls + 3
Missing == NumCalls + 4

Value == 1 .. Null

Gone == [group |-> 0, place |-> 0]

\* Accounts in the order asked for: account a is the value's, or missing.
Accounts(answers) ==
    [a \in 1 .. NumAccounts |->
        LET value == answers[(a - 1) \div GroupSize + 1]
        IN  IF value = Null
            THEN Gone
            ELSE [group |-> value, place |-> ((a - 1) % GroupSize) + 1]]

-----------------------------------------------------------------------------
(* The token bucket.                                                       *)

Capacity == AtLeast(ConfiguredRate, MaxBatch * Unit)

\* The rates the bucket works at.  Nothing keeps the configured rate from
\* being below MIN_RATE, and then the first cut raises the rate.
LowRate == AtMost(ConfiguredRate, MinRate)
TopRate == AtLeast(ConfiguredRate, MinRate)

\* Time since #last after which the bucket is full whatever its rate.
FullAfter == Capacity \div LowRate + 1

\* Mutated refill: the bucket keeps filling past its capacity.
RefilledUncapped == tokens + idle * rate

\* #take's refill, at the rate in force when the waiter looks.
Refilled == AtMost(Capacity, tokens + idle * rate)

Want(k) == AtMost(Size(k) * Unit, Capacity)

\* The cut and the recovery of the rate, in whole units.
Cut(r) == AtLeast(MinRate, (r * 7) \div 10)

Raised(r) == AtMost(ConfiguredRate, (r * 108) \div 100 + 1)

\* penalise: once, and then not for a while.
Penalise ==
    IF penalty > 0
    THEN UNCHANGED <<rate, tokens, penalty>>
    ELSE /\ rate' = Cut(rate)
         /\ tokens' = 0
         /\ penalty' = PenaltyTicks

Reward ==
    /\ rate' = IF rate < ConfiguredRate THEN Raised(rate) ELSE rate
    /\ UNCHANGED <<tokens, penalty>>

Tick ==
    /\ idle' = AtMost(idle + 1, FullAfter)
    /\ penalty' = AtLeast(penalty, 1) - 1
    /\ meter' = AtLeast(meter, TopRate) - TopRate
    /\ UNCHANGED <<tokens, rate, queue, batchVars>>

-----------------------------------------------------------------------------
(* A worker.                                                               *)

Idle == [pc |-> "free", chunk |-> 0, attempt |-> 0, id |-> 0]

Goto(w, pc) == worker' = [worker EXCEPT ![w].pc = pc]

Init ==
    /\ tokens = Capacity
    /\ rate = ConfiguredRate
    /\ idle = 0
    /\ penalty = 0
    /\ queue = <<>>
    /\ nextId = 0
    /\ cursor = 1
    /\ worker = [w \in Workers |-> Idle]
    /\ results = [c \in 1 .. NumCalls |-> Unset]
    /\ outcome = "pending"
    /\ meter = 0

\* Promise.all: it rejects with the first worker that throws, and resolves
\* when every one has returned.
OtherReturned(w) == \A v \in Workers \ {w} : worker[v].pc = "returned"

\* The worker asks the cursor for a chunk and joins the line for its tokens,
\* or returns.
NextChunk(w) ==
    /\ worker[w].pc = "free"
    /\ cursor' = cursor + 1
    /\ \/ /\ cursor <= NumChunks
          /\ worker' = [worker EXCEPT ![w] =
                [pc |-> "acquire", chunk |-> cursor, attempt |-> 0, id |-> nextId]]
          /\ nextId' = nextId + Size(cursor)
          /\ queue' = Append(queue, w)
          /\ UNCHANGED outcome
       \/ /\ cursor > NumChunks
          /\ Goto(w, "returned")
          /\ outcome' = IF OtherReturned(w) THEN "resolved" ELSE outcome
          /\ UNCHANGED <<nextId, queue>>
    /\ UNCHANGED <<tokens, rate, idle, penalty, results, meter>>

\* The first in line looks at the bucket: it takes its tokens and sends, or
\* sleeps on.
Take(w) ==
    /\ queue # <<>> /\ Head(queue) = w
    /\ Refilled >= Want(worker[w].chunk)
    /\ tokens' = Refilled - Want(worker[w].chunk)
    /\ idle' = 0
    /\ queue' = Tail(queue)
    /\ meter' = meter + Size(worker[w].chunk) * Unit
    /\ Goto(w, "flight")
    /\ UNCHANGED <<rate, penalty, nextId, cursor, results, outcome>>

Look(w) ==
    /\ queue # <<>> /\ Head(queue) = w
    /\ Refilled < Want(worker[w].chunk)
    /\ idle > 0
    /\ tokens' = Refilled
    /\ idle' = 0
    /\ UNCHANGED <<rate, penalty, queue, meter, batchVars>>

Throw(w) ==
    /\ Goto(w, "threw")
    /\ outcome' = IF outcome = "pending" THEN "rejected" ELSE outcome
    /\ UNCHANGED results

\* Mutated retry: the attempts are not counted.
RetryForever(w) == Goto(w, "backoff") /\ UNCHANGED <<results, outcome>>

Retry(w) ==
    IF worker[w].attempt >= MaxAttempts
    THEN Throw(w)
    ELSE /\ worker' = [worker EXCEPT ![w].pc = "backoff", ![w].attempt = @ + 1]
         /\ UNCHANGED <<results, outcome>>

\* #backoff has slept long enough.
Wake(w) ==
    /\ worker[w].pc = "backoff"
    /\ Goto(w, "acquire")
    /\ queue' = Append(queue, w)
    /\ UNCHANGED <<tokens, rate, idle, penalty, meter, nextId, cursor, results, outcome>>

-----------------------------------------------------------------------------
(* What comes back for a request.                                          *)

Ids(w) == worker[w].id .. worker[w].id + Size(worker[w].chunk) - 1

CallOf(w, id) == Start(worker[w].chunk) + (id - worker[w].id) + 1

\* An entry of the answer: for one of the ids, the value of its call or null,
\* an error of the node that passes (-32004, -32005, -32014), or a fatal one.
Entries(w) ==
    UNION {{[id |-> i, body |-> b] :
              b \in {CallOf(w, i), Null, Passing, Fatal}} : i \in Ids(w)}

\* The node answers any of the ids, in any order.
Payloads(w) ==
    {p \in SeqOf(Entries(w), Size(worker[w].chunk)) :
        \A i, j \in DOMAIN p : i # j => p[i].id # p[j].id}

Entry(payload, id) ==
    IF \E i \in DOMAIN payload : payload[i].id = id
    THEN (CHOOSE e \in Range(payload) : e.id = id).body
    ELSE Missing

\* The ids are gone through in order: the first that cannot be used decides.
Unusable(w, payload) ==
    {i \in Ids(w) : Entry(payload, i) \in {Missing, Passing, Fatal}}

FirstUnusable(w, payload) ==
    Entry(payload, CHOOSE i \in Unusable(w, payload) :
                     \A j \in Unusable(w, payload) : i <= j)

\* Mutated reading: the entries are taken in the order they arrive in.
BodiesByArrival(w, payload) == [i \in DOMAIN payload |-> payload[i].body]

Bodies(w, payload) ==
    [i \in 1 .. Size(worker[w].chunk) |-> Entry(payload, worker[w].id + i - 1)]

Deliver(w, bodies) ==
    /\ results' = [c \in 1 .. NumCalls |->
            IF c - Start(worker[w].chunk) \in DOMAIN bodies
            THEN bodies[c - Start(worker[w].chunk)]
            ELSE results[c]]
    /\ Goto(w, "free")
    /\ UNCHANGED outcome

InFlight(w) ==
    /\ worker[w].pc = "flight"
    /\ UNCHANGED <<idle, queue, meter, nextId, cursor>>

NetworkError(w) ==
    /\ InFlight(w)
    /\ Retry(w)
    /\ UNCHANGED <<tokens, rate, penalty>>

TooManyRequests(w) == InFlight(w) /\ Penalise /\ Retry(w)

ServerError(w) ==
    /\ InFlight(w)
    /\ Retry(w)
    /\ UNCHANGED <<tokens, rate, penalty>>

\* Any other status that is not a success.
ClientError(w) == InFlight(w) /\ Reward /\ Throw(w)

\* One object for the whole batch.
SingleError(w) ==
    /\ Size(worker[w].chunk) > 1
    /\ InFlight(w)
    /\ Reward
    /\ Retry(w)

Answer(w) ==
    /\ InFlight(w)
    /\ Reward
    /\ \E payload \in Payloads(w) :
          \/ Unusable(w, payload) = {} /\ Deliver(w, Bodies(w, payload))
          \/ /\ Unusable(w, payload) # {}
             /\ FirstUnusable(w, payload) = Fatal
             /\ Throw(w)
          \/ /\ Unusable(w, payload) # {}
             /\ FirstUnusable(w, payload) # Fatal
             /\ Retry(w)

Respond(w) ==
    \/ NetworkError(w) \/ TooManyRequests(w) \/ ServerError(w)
    \/ ClientError(w) \/ SingleError(w) \/ Answer(w)

Step(w) == NextChunk(w) \/ Take(w) \/ Look(w) \/ Wake(w) \/ Respond(w)

Next == Tick \/ \E w \in Workers : Step(w)

\* Time passes, a timer fires, a runnable continuation runs, and fetch
\* settles: undici gives a request up when its headers do not come.
Fairness == WF_vars(Tick) /\ \A w \in Workers : WF_vars(Step(w))

Spec == Init /\ [][Next]_vars /\ Fairness

-----------------------------------------------------------------------------
(* Properties.                                                             *)

\* The types, that a worker waits in line exactly when it is inside acquire,
\* and that no two workers hold the same chunk.
TypeOK ==
    /\ tokens \in 0 .. Capacity
    /\ rate \in LowRate .. TopRate
    /\ idle \in 0 .. FullAfter
    /\ penalty \in 0 .. PenaltyTicks
    /\ cursor \in 1 .. NumChunks + Cardinality(Workers) + 1
    /\ nextId \in 0 .. NumCalls
    /\ outcome \in {"pending", "resolved", "rejected"}
    /\ results \in [1 .. NumCalls -> {Unset} \cup Value]
    /\ \A w \in Workers :
          /\ worker[w].pc \in
               {"free", "acquire", "flight", "backoff", "returned", "threw"}
          /\ worker[w].attempt <= MaxAttempts
    /\ IsInjective(queue)
    /\ Range(queue) = {w \in Workers : worker[w].pc = "acquire"}
    /\ \A v, w \in Workers :
          v # w /\ worker[v].chunk = worker[w].chunk => worker[v].chunk = 0

\* A batch that resolves has an answer for every call, each in its own place:
\* no hole is left by a worker that is still retrying, and no account of
\* getAccounts is reported under another's address.
ResolvedInOrder ==
    outcome = "resolved" =>
        /\ \A c \in 1 .. NumCalls : results[c] \in {c, Null}
        /\ \A a \in 1 .. NumAccounts :
              LET c == CHOOSE c \in 1 .. NumCalls : a \in Group(c)
              IN  Accounts(results)[a]
                    \in {Gone, [group |-> c, place |-> a - (c - 1) * GroupSize]}

\* Whatever the workers, the retries and the penalties do, the requests sent
\* never exceed what an endpoint takes that has the client's burst and the
\* configured rate, or MIN_RATE where that is the greater.
NeverOverTheRate == meter <= Capacity

\* Every batch settles, and every worker stops, the ones a rejected batch
\* leaves behind included, even against an endpoint that only refuses.
EveryWorkerStops ==
    <>[](/\ outcome # "pending"
         /\ \A w \in Workers : worker[w].pc \in {"returned", "threw"})
=============================================================================
