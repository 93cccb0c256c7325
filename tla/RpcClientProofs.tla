-------------------------- MODULE RpcClientProofs --------------------------
(***************************************************************************)
(* Theorems about the keeper's RPC client, for any number of workers and   *)
(* accounts, any sizes of groups and requests and any rates: the meter is  *)
(* kept, and a batch that resolves has every answer in its place.          *)
(***************************************************************************)
EXTENDS RpcClient, FiniteSetTheorems, SequenceTheorems, TLAPS

-----------------------------------------------------------------------------
(* Products and quotients.                                                 *)

\* A product of naturals is a natural.
LEMMA ProductNat ==
    ASSUME NEW a \in Nat, NEW b \in Nat
    PROVE  a * b \in Nat
    OBVIOUS

\* Multiplication by a natural preserves the order.
LEMMA ProductMonotone ==
    ASSUME NEW a \in Nat, NEW b \in Nat, NEW c \in Nat, a <= b
    PROVE  a * c <= b * c
    OBVIOUS

\* A strict inequality between multiples is one between their factors.
LEMMA ProductCancelStrict ==
    ASSUME NEW a \in Int, NEW b \in Int, NEW c \in Nat \ {0}, a * c < b * c
    PROVE  a < b
<1>1. SUFFICES ASSUME b <= a
               PROVE  FALSE
    OBVIOUS
<1>2. b * c <= a * c
    BY <1>1
<1>3. a * c \in Int /\ b * c \in Int
    OBVIOUS
<1>4. QED
    BY <1>2, <1>3

\* Integer division of a natural by a positive natural.
LEMMA DivisionBounds ==
    ASSUME NEW a \in Nat, NEW d \in Nat \ {0}
    PROVE  /\ a \div d \in Nat
           /\ (a \div d) * d <= a
           /\ a < (a \div d) * d + d
    OBVIOUS

USE RpcAssumption

-----------------------------------------------------------------------------
(* Accounts into calls, calls into requests.                               *)

\* How many pieces of one size something is cut into.
LEMMA Pieces ==
    ASSUME NEW n \in Nat \ {0}, NEW m \in Nat \ {0}
    PROVE  LET q == (n + m - 1) \div m
           IN  q \in Nat \ {0} /\ (q - 1) * m < n /\ n <= q * m
<1> DEFINE q == (n + m - 1) \div m
           p == q * m
<1>1. n + m - 1 \in Nat
    OBVIOUS
<1>2. q \in Nat /\ p <= n + m - 1 /\ n + m - 1 < p + m
    BY <1>1, DivisionBounds
<1>3. (q - 1) * m = p - m /\ p \in Nat
    BY <1>2
<1>4. q = 0 => p = 0
    BY <1>2
<1> HIDE DEF q, p
<1>5. q \in Nat \ {0} /\ (q - 1) * m < n /\ n <= p
    BY <1>2, <1>3, <1>4
<1>6. QED
    BY <1>5 DEF q, p

\* Which piece a place falls in.
LEMMA PieceOf ==
    ASSUME NEW i \in Nat \ {0}, NEW m \in Nat \ {0}
    PROVE  LET q == (i - 1) \div m
           IN  /\ q \in Nat
               /\ q * m < i /\ i <= (q + 1) * m
               /\ i - q * m = ((i - 1) % m) + 1
               /\ \A r \in Int : r * m < i /\ i <= (r + 1) * m => r = q
<1> DEFINE q == (i - 1) \div m
<1>1. q \in Nat /\ q * m <= i - 1 /\ i - 1 < q * m + m
    BY DivisionBounds
<1>2. i - 1 = q * m + ((i - 1) % m)
    OBVIOUS
<1>3. (q + 1) * m = q * m + m
    BY <1>1
<1>4. ASSUME NEW r \in Int, r * m < i, i <= (r + 1) * m
      PROVE  r = q
    <2>1. r * m < (q + 1) * m /\ q * m < (r + 1) * m
        <3>1. q * m \in Int /\ (q + 1) * m \in Int
              /\ r * m \in Int /\ (r + 1) * m \in Int
            BY <1>1
        <3> HIDE DEF q
        <3>2. QED
            BY <1>1, <1>3, <1>4, <3>1
    <2>2. r < q + 1 /\ q < r + 1
        <3>1. q \in Int /\ q + 1 \in Int /\ r + 1 \in Int
            BY <1>1
        <3> HIDE DEF q
        <3>2. QED
            BY <2>1, <3>1, ProductCancelStrict
    <2> HIDE DEF q
    <2>3. QED
        BY <1>1, <2>2
<1>5. q * m \in Nat /\ (i - 1) % m \in Nat
    BY <1>1
<1>6. q * m < i /\ i <= (q + 1) * m /\ i - q * m = ((i - 1) % m) + 1
    <2> DEFINE p == q * m
               s == (q + 1) * m
               t == (i - 1) % m
    <2>1. /\ p \in Nat /\ t \in Nat /\ s = p + m
          /\ p <= i - 1 /\ i - 1 < p + m /\ i - 1 = p + t
        BY <1>1, <1>2, <1>3, <1>5
    <2> HIDE DEF p, s, t, q
    <2>2. p < i /\ i <= s /\ i - p = t + 1
        BY <2>1
    <2>3. QED
        BY <2>2 DEF p, s, t
<1> HIDE DEF q
<1>7. QED
    BY <1>1, <1>4, <1>6 DEF q

\* There is a call, and a request; the last of each is not empty.
LEMMA Counts ==
    /\ NumCalls \in Nat \ {0}
    /\ (NumCalls - 1) * GroupSize < NumAccounts
    /\ NumAccounts <= NumCalls * GroupSize
    /\ NumChunks \in Nat \ {0}
    /\ (NumChunks - 1) * MaxBatch < NumCalls
    /\ NumCalls <= NumChunks * MaxBatch
<1>1. /\ NumCalls \in Nat \ {0}
      /\ (NumCalls - 1) * GroupSize < NumAccounts
      /\ NumAccounts <= NumCalls * GroupSize
    BY Pieces DEF NumCalls
<1>2. /\ NumChunks \in Nat \ {0}
      /\ (NumChunks - 1) * MaxBatch < NumCalls
      /\ NumCalls <= NumChunks * MaxBatch
    BY <1>1, Pieces DEF NumChunks
<1>3. QED
    BY <1>1, <1>2

\* A request asks for some calls, at most MAX_BATCH, and ends where the next
\* one starts or with the last call.
LEMMA ChunkSpan ==
    ASSUME NEW k \in 1 .. NumChunks
    PROVE  /\ Start(k) \in Nat /\ Start(k) < NumCalls
           /\ Size(k) \in 1 .. MaxBatch
           /\ Start(k) + Size(k) <= NumCalls
           /\ AtMost(NumCalls, Start(k)) = Start(k)
           /\ Start(k) + Size(k) = AtMost(NumCalls, Start(k + 1))
<1> DEFINE s == Start(k)
           last == (NumChunks - 1) * MaxBatch
<1>1. k - 1 \in Nat /\ NumChunks - 1 \in Nat /\ k - 1 <= NumChunks - 1
    BY Counts
<1>2. s \in Nat /\ last \in Nat /\ s <= last
    BY <1>1, ProductNat, ProductMonotone DEF Start
<1>3. Start(k + 1) = s + MaxBatch
    BY <1>1 DEF Start
<1>4. last < NumCalls /\ NumCalls \in Nat /\ MaxBatch \in Nat \ {0}
    BY Counts
<1> HIDE DEF s, last
<1>5. s < NumCalls
    BY <1>2, <1>4
<1>6. Size(k) = AtMost(MaxBatch, NumCalls - s)
    BY DEF Size, s
<1>7. /\ Size(k) \in 1 .. MaxBatch /\ s + Size(k) <= NumCalls
      /\ AtMost(NumCalls, s) = s
      /\ s + Size(k) = AtMost(NumCalls, s + MaxBatch)
    BY <1>2, <1>4, <1>5, <1>6 DEF AtMost
<1>8. QED
    BY <1>2, <1>3, <1>5, <1>7 DEF s

\* Every call is in a request.
LEMMA CallInChunk ==
    ASSUME NEW c \in 1 .. NumCalls
    PROVE  \E k \in 1 .. NumChunks : c \in Start(k) + 1 .. Start(k) + Size(k)
<1> DEFINE q == (c - 1) \div MaxBatch
           k == q + 1
<1>1. q \in Nat /\ q * MaxBatch < c /\ c <= (q + 1) * MaxBatch
    <2>1. c \in Nat \ {0}
        BY Counts
    <2>2. QED
        BY <2>1, PieceOf
<1>2. Start(k) = q * MaxBatch /\ Start(k + 1) = (q + 1) * MaxBatch
    BY <1>1 DEF Start
<1> HIDE DEF q
<1>3. k <= NumChunks
    <2>1. q * MaxBatch < NumChunks * MaxBatch
        <3>1. q * MaxBatch \in Nat /\ NumChunks * MaxBatch \in Nat
            BY <1>1, Counts, ProductNat
        <3>2. QED
            BY <1>1, <3>1, Counts
    <2>2. q < NumChunks
        BY <1>1, <2>1, Counts, ProductCancelStrict
    <2>3. QED
        BY <1>1, <2>2, Counts
<1>4. k \in 1 .. NumChunks
    BY <1>1, <1>3, Counts
<1>5. Start(k) + Size(k) = AtMost(NumCalls, Start(k + 1)) /\ Size(k) \in Nat
      /\ Start(k) \in Nat
    BY <1>4, ChunkSpan
<1>6. Start(k) < c /\ c <= Start(k + 1)
    BY <1>1, <1>2
<1> HIDE DEF k
<1>7. c \in Start(k) + 1 .. Start(k) + Size(k)
    BY <1>5, <1>6, Counts DEF AtMost
<1>8. QED
    BY <1>4, <1>7

\* Every account is in one group.
LEMMA AccountInGroup ==
    ASSUME NEW a \in 1 .. NumAccounts
    PROVE  LET g == (a - 1) \div GroupSize + 1
           IN  /\ g \in 1 .. NumCalls
               /\ (CHOOSE c \in 1 .. NumCalls : a \in Group(c)) = g
               /\ a - (g - 1) * GroupSize = ((a - 1) % GroupSize) + 1
<1> DEFINE q == (a - 1) \div GroupSize
           g == q + 1
<1>1. /\ q \in Nat /\ q * GroupSize < a /\ a <= (q + 1) * GroupSize
      /\ a - q * GroupSize = ((a - 1) % GroupSize) + 1
      /\ \A r \in Int : r * GroupSize < a /\ a <= (r + 1) * GroupSize => r = q
    <2>1. a \in Nat \ {0}
        OBVIOUS
    <2>2. QED
        BY <2>1, PieceOf
<1> HIDE DEF q
<1>2. g \in 1 .. NumCalls
    <2>1. q * GroupSize \in Nat /\ NumCalls * GroupSize \in Nat
        BY <1>1, Counts, ProductNat
    <2>2. q * GroupSize < NumCalls * GroupSize
        BY <1>1, <2>1, Counts
    <2>3. q < NumCalls
        <3>1. q \in Int /\ NumCalls \in Int
            BY <1>1, Counts
        <3>2. QED
            BY <2>2, <3>1, ProductCancelStrict
    <2>4. QED
        BY <1>1, <2>3, Counts
<1>3. ASSUME NEW c \in 1 .. NumCalls
      PROVE  a \in Group(c) <=> c = g
    <2>1. /\ (c - 1) * GroupSize \in Nat /\ c * GroupSize \in Nat
          /\ (c - 1) + 1 = c
        BY <1>3, Counts
    <2>2. a \in Group(c) <=> (c - 1) * GroupSize < a /\ a <= c * GroupSize
        BY <2>1 DEF Group, AtMost
    <2>3. a \in Group(c) => c - 1 = q
        BY <1>1, <2>1, <2>2
    <2>4. c - 1 = q => a \in Group(c)
        BY <1>1, <2>1, <2>2
    <2>5. QED
        BY <1>1, <2>3, <2>4
<1>4. (CHOOSE c \in 1 .. NumCalls : a \in Group(c)) = g
    BY <1>2, <1>3
<1>5. g - 1 = q
    BY <1>1
<1> HIDE DEF g
<1>6. QED
    BY <1>1, <1>2, <1>4, <1>5 DEF g, q

-----------------------------------------------------------------------------
(* What the batch and its bucket keep to.                                  *)

Busy == {"acquire", "flight", "backoff", "threw"}

\* A worker holds a request that the cursor has handed out, from the moment
\* it takes it; the line is of those inside acquire.
WorkersHold ==
    /\ worker \in [Workers -> [pc : Busy \cup {"free", "returned"},
                               chunk : 0 .. NumChunks,
                               attempt : 0 .. MaxAttempts,
                               id : Nat]]
    /\ \A w \in Workers : worker[w].chunk < cursor
    /\ \A w \in Workers : worker[w].pc \in Busy => worker[w].chunk > 0
    /\ \A v, w \in Workers :
          v # w /\ worker[v].chunk = worker[w].chunk => worker[v].chunk = 0
    /\ queue \in Seq(Workers)
    /\ IsInjective(queue)
    /\ Range(queue) = {w \in Workers : worker[w].pc = "acquire"}

\* The cursor has passed the end once for every worker that has returned, and
\* the ids given out are those of the requests handed out.
Returned == {w \in Workers : worker[w].pc = "returned"}

CursorCounts ==
    /\ cursor \in Nat \ {0}
    /\ cursor <= NumChunks + 1 + Cardinality(Returned)
    /\ Returned # {} => cursor > NumChunks
    /\ nextId = AtMost(NumCalls, Start(cursor))

\* A call has its own answer, or null, or none yet; the calls of a request
\* that was handed out are answered or somebody still has it.
AnswersKept ==
    /\ results \in [1 .. NumCalls -> {Unset} \cup Value]
    /\ \A c \in 1 .. NumCalls : results[c] \in {Unset, c, Null}
    /\ \A k \in 1 .. NumChunks :
          k < cursor =>
             \/ \E w \in Workers : worker[w].pc \in Busy /\ worker[w].chunk = k
             \/ \A c \in Start(k) + 1 .. Start(k) + Size(k) : results[c] # Unset
    /\ outcome \in {"pending", "resolved", "rejected"}
    /\ outcome = "resolved" => Returned = Workers

BatchInv == WorkersHold /\ CursorCounts /\ AnswersKept

\* What the bucket would hold now at the fastest of its rates.
Level == AtMost(Capacity, tokens + idle * TopRate)

\* The bucket never holds more than the endpoint has forgotten.
BucketInv ==
    /\ tokens \in 0 .. Capacity
    /\ rate \in LowRate .. TopRate
    /\ idle \in 0 .. FullAfter
    /\ penalty \in 0 .. PenaltyTicks
    /\ meter \in Nat
    /\ meter + Level <= Capacity

-----------------------------------------------------------------------------
(* The bucket.                                                             *)

\* The configured rate and MIN_RATE, in order.
LEMMA RateNumbers ==
    /\ LowRate \in Nat \ {0} /\ TopRate \in Nat
    /\ LowRate <= MinRate /\ MinRate <= TopRate
    /\ LowRate <= ConfiguredRate /\ ConfiguredRate <= TopRate
    /\ MinRate \in Nat /\ ConfiguredRate \in Nat
BY DEF LowRate, TopRate, AtMost, AtLeast

\* The largest request can always be paid for.
LEMMA BucketNumbers ==
    /\ Capacity \in Nat
    /\ MaxBatch * Unit \in Nat /\ MaxBatch * Unit <= Capacity
    /\ FullAfter \in Nat \ {0}
<1>1. MaxBatch * Unit \in Nat
    BY ProductNat
<1>2. Capacity \in Nat /\ MaxBatch * Unit <= Capacity
    BY <1>1 DEF Capacity, AtLeast
<1>3. Capacity \div LowRate \in Nat
    BY <1>2, RateNumbers, DivisionBounds
<1>4. QED
    BY <1>1, <1>2, <1>3 DEF FullAfter

\* So a request costs its calls, no less.
LEMMA WantIsCost ==
    ASSUME NEW k \in 1 .. NumChunks
    PROVE  Want(k) = Size(k) * Unit /\ Want(k) \in Nat
<1>1. Size(k) \in 1 .. MaxBatch
    BY ChunkSpan
<1>2. Size(k) * Unit \in Nat /\ Size(k) * Unit <= MaxBatch * Unit
    BY <1>1, ProductNat, ProductMonotone
<1> DEFINE cost == Size(k) * Unit
           most == MaxBatch * Unit
<1>3. cost \in Nat /\ cost <= most /\ most \in Nat /\ most <= Capacity
      /\ Capacity \in Nat
    BY <1>2, BucketNumbers
<1> HIDE DEF most
<1>4. Want(k) = AtMost(cost, Capacity)
    BY DEF Want
<1> HIDE DEF cost
<1>5. Want(k) = cost
    BY <1>3, <1>4 DEF AtMost
<1>6. QED
    BY <1>3, <1>5 DEF cost

\* The rate is cut no lower than MIN_RATE and recovers no further than to the
\* configured one, whichever of the two is the greater.
LEMMA RateKept ==
    ASSUME NEW r \in LowRate .. TopRate
    PROVE  /\ Cut(r) \in LowRate .. TopRate
           /\ Raised(r) \in LowRate .. TopRate
<1> DEFINE cut == (r * 7) \div 10
           raised == (r * 108) \div 100
<1>1. /\ r \in Nat /\ r * 7 \in Nat /\ r * 108 \in Nat
      /\ LowRate <= r /\ r <= TopRate
    BY RateNumbers
<1>2. /\ cut \in Nat /\ cut * 10 <= r * 7
      /\ raised \in Nat /\ r * 108 < raised * 100 + 100
    BY <1>1, DivisionBounds
<1> HIDE DEF cut, raised
<1>3. cut <= r /\ r <= raised + 1
    BY <1>1, <1>2
<1>4. Cut(r) = AtLeast(MinRate, cut) /\ Raised(r) = AtMost(ConfiguredRate, raised + 1)
    BY DEF Cut, Raised, cut, raised
<1>5. QED
    BY <1>1, <1>2, <1>3, <1>4, RateNumbers DEF AtLeast, AtMost

\* At whatever rate the bucket was refilled, it holds no more than at the
\* fastest one.
LEMMA RefilledBounds ==
    ASSUME BucketInv
    PROVE  /\ Level \in 0 .. Capacity /\ tokens <= Level
           /\ Refilled \in 0 .. Capacity /\ Refilled <= Level
<1> DEFINE slow == idle * rate
           fast == idle * TopRate
<1>1. /\ tokens \in Nat /\ tokens <= Capacity
      /\ rate \in Nat /\ rate <= TopRate /\ idle \in Nat /\ TopRate \in Nat
    BY RateNumbers DEF BucketInv
<1>2. slow \in Nat /\ fast \in Nat /\ slow <= fast
    <2>1. rate * idle <= TopRate * idle
        BY <1>1, ProductMonotone
    <2>2. rate * idle = idle * rate /\ TopRate * idle = idle * TopRate
        BY <1>1
    <2>3. slow \in Nat /\ fast \in Nat
        BY <1>1, ProductNat
    <2>4. QED
        BY <2>1, <2>2, <2>3
<1>3. /\ Level = AtMost(Capacity, tokens + fast)
      /\ Refilled = AtMost(Capacity, tokens + slow)
    BY DEF Level, Refilled
<1> HIDE DEF slow, fast
<1>4. QED
    BY <1>1, <1>2, <1>3, BucketNumbers DEF AtMost

\* A bucket that was just looked at, or emptied, holds its tokens.
LEMMA LevelWithoutTime ==
    ASSUME NEW t \in 0 .. Capacity
    PROVE  AtMost(Capacity, t + 0 * TopRate) = t
<1>1. 0 * TopRate = 0
    BY RateNumbers
<1>2. QED
    BY <1>1, BucketNumbers DEF AtMost

\* A tick gives the bucket what the endpoint forgets.
LEMMA TickFills ==
    ASSUME BucketInv, Tick
    PROVE  BucketInv'
<1> DEFINE fast == idle * TopRate
           faster == (idle + 1) * TopRate
<1>1. /\ tokens \in Nat /\ meter \in Nat /\ idle \in 0 .. FullAfter
      /\ penalty \in 0 .. PenaltyTicks
      /\ meter + AtMost(Capacity, tokens + fast) <= Capacity
    BY DEF BucketInv, Level
<1>2. /\ tokens' = tokens /\ rate' = rate
      /\ idle' = AtMost(idle + 1, FullAfter)
      /\ penalty' = AtLeast(penalty, 1) - 1
      /\ meter' = AtLeast(meter, TopRate) - TopRate
    BY DEF Tick
<1>3. idle' \in 0 .. FullAfter /\ (idle' = idle \/ idle' = idle + 1)
    BY <1>1, <1>2, BucketNumbers DEF AtMost
<1>4. penalty' \in 0 .. PenaltyTicks
    BY <1>1, <1>2 DEF AtLeast
<1>5. fast \in Nat /\ faster = fast + TopRate
    BY <1>1, RateNumbers, ProductNat
<1>6. Level' = AtMost(Capacity, tokens + fast)
      \/ Level' = AtMost(Capacity, tokens + faster)
    BY <1>2, <1>3 DEF Level
<1> DEFINE next == Level'
<1>7. next = AtMost(Capacity, tokens + fast)
      \/ next = AtMost(Capacity, tokens + faster)
    BY <1>6
<1> HIDE DEF fast, faster, next
<1>8. meter' \in Nat /\ meter' + next <= Capacity
    BY <1>1, <1>2, <1>5, <1>7, BucketNumbers, RateNumbers DEF AtMost, AtLeast
<1>9. meter' + Level' <= Capacity
    BY <1>8 DEF next
<1>10. QED
    BY <1>2, <1>3, <1>4, <1>8, <1>9 DEF BucketInv

\* What is sent is taken from what the endpoint has forgotten.
LEMMA TakePays ==
    ASSUME BucketInv, NEW w \in Workers, worker[w].chunk \in 1 .. NumChunks, Take(w)
    PROVE  BucketInv'
<1> DEFINE cost == Want(worker[w].chunk)
<1>1. cost \in Nat /\ cost = Size(worker[w].chunk) * Unit
    BY WantIsCost
<1>2. /\ Refilled >= cost /\ tokens' = Refilled - cost /\ idle' = 0
      /\ meter' = meter + cost /\ rate' = rate /\ penalty' = penalty
    BY <1>1 DEF Take
<1> HIDE DEF cost
<1>3. /\ Refilled \in 0 .. Capacity /\ Refilled <= Level /\ Level \in 0 .. Capacity
      /\ meter \in Nat /\ meter + Level <= Capacity
    BY RefilledBounds DEF BucketInv
<1>4. tokens' \in 0 .. Capacity
    BY <1>1, <1>2, <1>3, BucketNumbers
<1>5. Level' = AtMost(Capacity, tokens' + 0 * TopRate)
    BY <1>2 DEF Level
<1>6. Level' = tokens'
    BY <1>4, <1>5, LevelWithoutTime
<1>7. meter' + tokens' = meter + Refilled /\ meter' \in Nat
    BY <1>1, <1>2, <1>3, BucketNumbers
<1>8. meter' + Level' <= Capacity
    BY <1>3, <1>6, <1>7, BucketNumbers
<1>9. 0 \in 0 .. FullAfter
    BY BucketNumbers
<1>10. QED
    BY <1>2, <1>4, <1>7, <1>8, <1>9 DEF BucketInv

\* Looking in vain loses nothing and wins nothing.
LEMMA LookKeeps ==
    ASSUME BucketInv, NEW w \in Workers, Look(w)
    PROVE  BucketInv'
<1>1. /\ tokens' = Refilled /\ idle' = 0 /\ rate' = rate
      /\ penalty' = penalty /\ meter' = meter
    BY DEF Look
<1>2. /\ Refilled \in 0 .. Capacity /\ Refilled <= Level /\ Level \in 0 .. Capacity
      /\ meter \in Nat /\ meter + Level <= Capacity
    BY RefilledBounds DEF BucketInv
<1>3. Level' = AtMost(Capacity, tokens' + 0 * TopRate)
    BY <1>1 DEF Level
<1>4. Level' = tokens'
    BY <1>1, <1>2, <1>3, LevelWithoutTime
<1>5. meter' + Level' <= Capacity
    BY <1>1, <1>2, <1>4, BucketNumbers
<1>6. 0 \in 0 .. FullAfter
    BY BucketNumbers
<1>7. QED
    BY <1>1, <1>2, <1>5, <1>6 DEF BucketInv

\* An answer changes the rate inside its bounds and only ever empties the
\* bucket.
LEMMA AnswerKeepsBucket ==
    ASSUME BucketInv, UNCHANGED <<idle, meter>>,
           UNCHANGED <<tokens, rate, penalty>> \/ Penalise \/ Reward
    PROVE  BucketInv'
<1>1. rate' \in LowRate .. TopRate
    BY RateKept DEF BucketInv, Penalise, Reward
<1>2. penalty' \in 0 .. PenaltyTicks
    BY DEF BucketInv, Penalise, Reward
<1>3. tokens' = tokens \/ tokens' = 0
    BY DEF Penalise, Reward
<1>4. /\ tokens \in 0 .. Capacity /\ idle \in Nat /\ meter \in Nat
      /\ meter + Level <= Capacity
    BY BucketNumbers DEF BucketInv
<1> DEFINE fast == idle * TopRate
           next == Level'
<1>5. fast \in Nat
    BY <1>4, RateNumbers, ProductNat
<1>6. /\ Level = AtMost(Capacity, tokens + fast)
      /\ next = AtMost(Capacity, tokens' + fast)
    BY DEF Level
<1> HIDE DEF fast, next
<1>7. meter' + next <= Capacity /\ tokens' \in 0 .. Capacity
    BY <1>3, <1>4, <1>5, <1>6, BucketNumbers DEF AtMost
<1>8. meter' + Level' <= Capacity
    BY <1>7 DEF next
<1>9. QED
    BY <1>1, <1>2, <1>4, <1>7, <1>8 DEF BucketInv

-----------------------------------------------------------------------------
(* The line for the bucket.                                                *)

\* A newcomer goes to the end of the line.
LEMMA JoinLine ==
    ASSUME NEW q \in Seq(Workers), IsInjective(q), NEW w \in Workers \ Range(q)
    PROVE  /\ Append(q, w) \in Seq(Workers)
           /\ IsInjective(Append(q, w))
           /\ Range(Append(q, w)) = Range(q) \cup {w}
<1> DEFINE n == Len(q)
           r == Append(q, w)
<1>1. /\ r \in Seq(Workers) /\ Len(r) = n + 1 /\ n \in Nat
      /\ \A i \in 1 .. n : r[i] = q[i]
      /\ r[n + 1] = w
    BY AppendProperties
<1>2. DOMAIN q = 1 .. n /\ DOMAIN r = 1 .. n + 1
    BY <1>1
<1> HIDE DEF n, r
<1>3. \A i \in 1 .. n : q[i] \in Range(q)
    BY <1>2 DEF Range
<1>4. \A i \in 1 .. n + 1 : i \in 1 .. n \/ i = n + 1
    BY <1>1
<1>5. IsInjective(r)
    BY <1>1, <1>2, <1>3, <1>4 DEF IsInjective
<1>6. Range(r) = Range(q) \cup {w}
    BY <1>1, <1>2, <1>4 DEF Range
<1>7. QED
    BY <1>1, <1>5, <1>6 DEF r

\* The first leaves the line, and nobody else.
LEMMA LeaveLine ==
    ASSUME NEW q \in Seq(Workers), IsInjective(q), q # <<>>
    PROVE  /\ Head(q) \in Range(q)
           /\ Tail(q) \in Seq(Workers)
           /\ IsInjective(Tail(q))
           /\ Range(Tail(q)) = Range(q) \ {Head(q)}
<1> DEFINE n == Len(q)
           r == Tail(q)
           h == Head(q)
<1>1. /\ n \in Nat /\ n > 0 /\ h = q[1]
      /\ r \in Seq(Workers) /\ Len(r) = n - 1
      /\ \A i \in 1 .. n - 1 : r[i] = q[i + 1]
    BY HeadTailProperties
<1>2. DOMAIN q = 1 .. n /\ DOMAIN r = 1 .. n - 1
    BY <1>1
<1> HIDE DEF n, r, h
<1>3. h \in Range(q)
    <2>1. 1 \in DOMAIN q /\ h = q[1]
        BY <1>1, <1>2
    <2>2. QED
        BY <2>1, Zenon DEF Range
<1> DEFINE next(i) == i + 1
<1>a. \A i \in 1 .. n - 1 : /\ next(i) \in 1 .. n /\ next(i) # 1 /\ 1 \in 1 .. n
                            /\ \A j \in 1 .. n - 1 : next(i) = next(j) => i = j
                            /\ r[i] = q[next(i)]
    BY <1>1
<1> HIDE DEF next
<1>4. IsInjective(r)
    BY <1>2, <1>a DEF IsInjective
<1>5. Range(r) \subseteq Range(q) \ {h}
    <2> SUFFICES ASSUME NEW i \in 1 .. n - 1
                 PROVE  r[i] \in Range(q) /\ r[i] # h
        BY <1>2 DEF Range
    <2>1. next(i) \in 1 .. n /\ 1 \in 1 .. n /\ next(i) # 1 /\ r[i] = q[next(i)]
        BY <1>a
    <2>2. q[next(i)] # q[1]
        BY <1>2, <2>1 DEF IsInjective
    <2>3. q[next(i)] \in Range(q)
        BY <1>2, <2>1 DEF Range
    <2>4. QED
        BY <1>1, <2>1, <2>2, <2>3
<1>6. ASSUME NEW v \in Range(q), v # h
      PROVE  v \in Range(r)
    <2>1. PICK i \in 1 .. n : q[i] = v
        BY <1>2 DEF Range
    <2>2. i # 1 /\ i - 1 \in 1 .. n - 1 /\ (i - 1) + 1 = i
        BY <1>1, <1>6, <2>1
    <2>3. r[i - 1] = v
        BY <1>1, <2>1, <2>2
    <2>4. QED
        BY <1>2, <2>2, <2>3 DEF Range
<1>7. Range(r) = Range(q) \ {h}
    BY <1>5, <1>6
<1>8. QED
    BY <1>1, <1>3, <1>4, <1>7 DEF r, h

-----------------------------------------------------------------------------
(* The workers.                                                            *)

\* A worker's program counter moves and nothing else of it does.
LEMMA GotoMoves ==
    ASSUME WorkersHold, NEW w \in Workers,
           NEW pc \in Busy \cup {"free", "returned"}, Goto(w, pc)
    PROVE  /\ worker' \in [Workers -> [pc : Busy \cup {"free", "returned"},
                                       chunk : 0 .. NumChunks,
                                       attempt : 0 .. MaxAttempts,
                                       id : Nat]]
           /\ \A v \in Workers \ {w} : worker'[v] = worker[v]
           /\ worker'[w].pc = pc
           /\ \A v \in Workers : worker'[v].chunk = worker[v].chunk
    BY DEF WorkersHold, Goto

\* The same when it is sent back to try again.
LEMMA BackoffMoves ==
    ASSUME WorkersHold, NEW w \in Workers, worker[w].attempt < MaxAttempts,
           worker' = [worker EXCEPT ![w].pc = "backoff", ![w].attempt = @ + 1]
    PROVE  /\ worker' \in [Workers -> [pc : Busy \cup {"free", "returned"},
                                       chunk : 0 .. NumChunks,
                                       attempt : 0 .. MaxAttempts,
                                       id : Nat]]
           /\ \A v \in Workers \ {w} : worker'[v] = worker[v]
           /\ worker'[w].pc = "backoff"
           /\ \A v \in Workers : worker'[v].chunk = worker[v].chunk
<1> DEFINE old == worker[w]
           new == [pc |-> "backoff", chunk |-> old.chunk,
                   attempt |-> old.attempt + 1, id |-> old.id]
<1>1. old \in [pc : Busy \cup {"free", "returned"}, chunk : 0 .. NumChunks,
               attempt : 0 .. MaxAttempts, id : Nat]
    BY DEF WorkersHold
<1>2. old.attempt + 1 \in 0 .. MaxAttempts
    BY <1>1
<1>3. new \in [pc : Busy \cup {"free", "returned"}, chunk : 0 .. NumChunks,
               attempt : 0 .. MaxAttempts, id : Nat]
    BY <1>1, <1>2 DEF Busy
<1>4. /\ worker'[w] = [[old EXCEPT !.pc = "backoff"] EXCEPT !.attempt = old.attempt + 1]
      /\ DOMAIN worker' = Workers
      /\ \A v \in Workers \ {w} : worker'[v] = worker[v]
    BY DEF WorkersHold
<1>5. worker'[w] = new
    <2> DEFINE mid == [old EXCEPT !.pc = "backoff"]
    <2>1. mid = [pc |-> "backoff", chunk |-> old.chunk,
                 attempt |-> old.attempt, id |-> old.id]
        BY <1>1
    <2> HIDE DEF mid
    <2>2. [mid EXCEPT !.attempt = old.attempt + 1] = new
        BY <2>1
    <2>3. QED
        BY <1>4, <2>2 DEF mid
<1> HIDE DEF new, old
<1>6. new.pc = "backoff" /\ new.chunk = worker[w].chunk
    BY DEF new, old
<1>7. \A v \in Workers : worker'[v].chunk = worker[v].chunk
    BY <1>4, <1>5, <1>6
<1>8. worker' \in [Workers -> [pc : Busy \cup {"free", "returned"},
                               chunk : 0 .. NumChunks,
                               attempt : 0 .. MaxAttempts,
                               id : Nat]]
    <2> DEFINE R == [pc : Busy \cup {"free", "returned"}, chunk : 0 .. NumChunks,
                     attempt : 0 .. MaxAttempts, id : Nat]
    <2>1. worker \in [Workers -> R] /\ worker'[w] \in R
        BY <1>3, <1>5 DEF WorkersHold
    <2>2. worker' = [v \in Workers |-> worker'[v]]
        BY DEF WorkersHold
    <2> HIDE DEF R
    <2>3. \A v \in Workers : worker'[v] \in R
        BY <1>4, <2>1
    <2>4. worker' \in [Workers -> R]
        BY <2>2, <2>3
    <2>5. QED
        BY <2>4 DEF R
<1>9. QED
    BY <1>4, <1>5, <1>6, <1>7, <1>8

\* A worker that keeps its request changes nothing for the batch, wherever
\* it waits, as long as the line is kept.
LEMMA BusyMoves ==
    ASSUME BatchInv, NEW w \in Workers, worker[w].pc \in Busy,
           worker' \in [Workers -> [pc : Busy \cup {"free", "returned"},
                                    chunk : 0 .. NumChunks,
                                    attempt : 0 .. MaxAttempts,
                                    id : Nat]],
           \A v \in Workers \ {w} : worker'[v] = worker[v],
           worker'[w].pc \in Busy,
           \A v \in Workers : worker'[v].chunk = worker[v].chunk,
           queue' \in Seq(Workers), IsInjective(queue'),
           Range(queue') = {v \in Workers : worker'[v].pc = "acquire"},
           UNCHANGED <<cursor, nextId, results>>,
           outcome' \in {outcome, "rejected"}
    PROVE  BatchInv'
<1>1. \A v \in Workers : worker'[v].pc \in Busy <=> worker[v].pc \in Busy
    OBVIOUS
<1>2. "returned" \notin Busy
    BY DEF Busy
<1>3. Returned' = Returned /\ w \notin Returned
    BY <1>2 DEF Returned
<1>4. WorkersHold'
    BY <1>1 DEF BatchInv, WorkersHold
<1>5. CursorCounts'
    BY <1>3 DEF BatchInv, CursorCounts
<1>6. AnswersKept'
    <2>1. \A k \in 1 .. NumChunks :
              k < cursor' =>
                 \/ \E v \in Workers : worker'[v].pc \in Busy /\ worker'[v].chunk = k
                 \/ \A c \in Start(k) + 1 .. Start(k) + Size(k) : results'[c] # Unset
        BY <1>1 DEF BatchInv, AnswersKept
    <2>2. outcome' \in {"pending", "resolved", "rejected"}
          /\ outcome' # "resolved"
        BY <1>3 DEF BatchInv, AnswersKept
    <2>3. QED
        BY <2>1, <2>2 DEF BatchInv, AnswersKept
<1>7. QED
    BY <1>4, <1>5, <1>6 DEF BatchInv

-----------------------------------------------------------------------------
(* The steps of a batch.                                                   *)

\* Chunks are numbers below the cursor.
LEMMA ChunkNumbers ==
    ASSUME BatchInv
    PROVE  /\ cursor \in Nat \ {0}
           /\ \A v \in Workers : /\ worker[v].chunk \in Nat
                                 /\ worker[v].chunk < cursor
                                 /\ worker[v].pc \in Busy => worker[v].chunk > 0
<1>1. cursor \in Nat \ {0}
    BY DEF BatchInv, CursorCounts
<1>2. ASSUME NEW v \in Workers
      PROVE  worker[v].chunk \in Nat
    <2>1. worker[v].chunk \in 0 .. NumChunks
        BY DEF BatchInv, WorkersHold
    <2>2. QED
        BY <2>1
<1>3. QED
    BY <1>1, <1>2 DEF BatchInv, WorkersHold

\* A free worker that takes the next request.
LEMMA NextTakesChunk ==
    ASSUME BatchInv, NEW w \in Workers, NextChunk(w), cursor <= NumChunks
    PROVE  BatchInv'
<1> DEFINE new == [pc |-> "acquire", chunk |-> cursor, attempt |-> 0, id |-> nextId]
<1>1. /\ worker[w].pc = "free" /\ cursor' = cursor + 1
      /\ worker' = [worker EXCEPT ![w] = new]
      /\ nextId' = nextId + Size(cursor)
      /\ queue' = Append(queue, w)
      /\ results' = results /\ outcome' = outcome
    <2>1. cursor \in Nat
        BY DEF BatchInv, CursorCounts
    <2>2. ~(cursor > NumChunks)
        BY <2>1, Counts
    <2>3. QED
        BY <2>2 DEF NextChunk
<1>2. cursor \in 1 .. NumChunks /\ Returned = {}
    BY Counts DEF BatchInv, CursorCounts
<1>3. nextId = Start(cursor) /\ nextId \in Nat
    BY <1>2, ChunkSpan DEF BatchInv, CursorCounts
<1>4. /\ worker'[w] = new
      /\ \A v \in Workers \ {w} : worker'[v] = worker[v]
      /\ worker' \in [Workers -> [pc : Busy \cup {"free", "returned"},
                                  chunk : 0 .. NumChunks,
                                  attempt : 0 .. MaxAttempts,
                                  id : Nat]]
    <2>1. new \in [pc : Busy \cup {"free", "returned"}, chunk : 0 .. NumChunks,
                   attempt : 0 .. MaxAttempts, id : Nat]
        BY <1>2, <1>3 DEF Busy
    <2> HIDE DEF new
    <2>2. QED
        BY <1>1, <2>1 DEF BatchInv, WorkersHold
<1>5. new.pc = "acquire" /\ new.chunk = cursor
    OBVIOUS
<1> HIDE DEF new
<1>6. WorkersHold'
    <2>1. \A v \in Workers : worker'[v].chunk < cursor'
        BY <1>1, <1>4, <1>5, ChunkNumbers
    <2>2. \A v \in Workers : worker'[v].pc \in Busy => worker'[v].chunk > 0
        BY <1>2, <1>4, <1>5, ChunkNumbers
    <2>3. ASSUME NEW u \in Workers, NEW v \in Workers, u # v,
                 worker'[v].chunk = worker'[u].chunk
          PROVE  worker'[v].chunk = 0
        <3>1. \A x \in Workers : worker[x].chunk # cursor
            BY ChunkNumbers
        <3>2. u # w /\ v # w
            BY <1>4, <1>5, <2>3, <3>1
        <3>3. QED
            BY <1>4, <2>3, <3>2 DEF BatchInv, WorkersHold
    <2>4. w \in Workers \ Range(queue)
        BY <1>1 DEF BatchInv, WorkersHold
    <2>5. /\ queue' \in Seq(Workers) /\ IsInjective(queue')
          /\ Range(queue') = Range(queue) \cup {w}
        BY <1>1, <2>4, JoinLine DEF BatchInv, WorkersHold
    <2>6. Range(queue') = {v \in Workers : worker'[v].pc = "acquire"}
        BY <1>4, <1>5, <2>5 DEF BatchInv, WorkersHold
    <2>7. QED
        BY <1>4, <2>1, <2>2, <2>3, <2>5, <2>6 DEF WorkersHold
<1>7. Returned' = {}
    BY <1>2, <1>4, <1>5 DEF Returned
<1>8. CursorCounts'
    <2>1. Cardinality(Returned') = 0
        BY <1>7, FS_EmptySet
    <2>2. nextId' = AtMost(NumCalls, Start(cursor'))
        BY <1>1, <1>2, <1>3, ChunkSpan
    <2>3. QED
        <3>1. cursor' \in Nat \ {0} /\ cursor' <= NumChunks + 1 + 0
            BY <1>1, <1>2, Counts
        <3>2. QED
            BY <1>7, <2>1, <2>2, <3>1 DEF CursorCounts
<1>9. AnswersKept'
    <2>1. ASSUME NEW k \in 1 .. NumChunks, k < cursor'
          PROVE  \/ \E v \in Workers : worker'[v].pc \in Busy /\ worker'[v].chunk = k
                 \/ \A c \in Start(k) + 1 .. Start(k) + Size(k) : results'[c] # Unset
        <3>1. CASE k = cursor
            BY <1>4, <1>5, <3>1 DEF Busy
        <3>2. CASE k < cursor
            <4>1. worker[w].pc \notin Busy
                BY <1>1 DEF Busy
            <4>2. QED
                BY <1>1, <1>4, <3>2, <4>1 DEF BatchInv, AnswersKept
        <3>3. QED
            BY <1>1, <1>2, <2>1, <3>1, <3>2
    <2>2. outcome' # "resolved"
        BY <1>1, <1>2 DEF BatchInv, AnswersKept
    <2>3. QED
        BY <1>1, <2>1, <2>2 DEF BatchInv, AnswersKept
<1>10. QED
    BY <1>6, <1>8, <1>9 DEF BatchInv

\* A free worker that finds none and returns.
LEMMA NextReturns ==
    ASSUME BatchInv, NEW w \in Workers, NextChunk(w), cursor > NumChunks
    PROVE  BatchInv'
<1>1. /\ worker[w].pc = "free" /\ cursor' = cursor + 1
      /\ Goto(w, "returned")
      /\ outcome' = IF OtherReturned(w) THEN "resolved" ELSE outcome
      /\ nextId' = nextId /\ queue' = queue /\ results' = results
    <2>1. cursor \in Nat
        BY DEF BatchInv, CursorCounts
    <2>2. ~(cursor <= NumChunks)
        BY <2>1, Counts
    <2>3. QED
        BY <2>2 DEF NextChunk
<1>2. /\ worker' \in [Workers -> [pc : Busy \cup {"free", "returned"},
                                  chunk : 0 .. NumChunks,
                                  attempt : 0 .. MaxAttempts,
                                  id : Nat]]
      /\ \A v \in Workers \ {w} : worker'[v] = worker[v]
      /\ worker'[w].pc = "returned"
      /\ \A v \in Workers : worker'[v].chunk = worker[v].chunk
    BY <1>1, GotoMoves DEF BatchInv
<1>3. "returned" \notin Busy /\ "free" \notin Busy
    BY DEF Busy
<1>4. Returned' = Returned \cup {w} /\ w \notin Returned
    BY <1>1, <1>2 DEF Returned
<1>5. WorkersHold'
    <2>2. \A v \in Workers : worker'[v].chunk < cursor'
        BY <1>1, <1>2, ChunkNumbers
    <2>3. Range(queue') = {v \in Workers : worker'[v].pc = "acquire"}
        BY <1>1, <1>2 DEF BatchInv, WorkersHold
    <2>4. \A v \in Workers : worker'[v].pc \in Busy => worker'[v].chunk > 0
        BY <1>2, <1>3 DEF BatchInv, WorkersHold
    <2>5. QED
        BY <1>1, <1>2, <2>2, <2>3, <2>4 DEF BatchInv, WorkersHold
<1>6. CursorCounts'
    <2>1. Cardinality(Returned') = Cardinality(Returned) + 1
          /\ Cardinality(Returned) \in Nat
        <3>1. IsFiniteSet(Returned)
            BY FS_Subset DEF Returned
        <3>2. QED
            BY <1>4, <3>1, FS_AddElement, FS_CardinalityType
    <2>2. cursor \in Nat \ {0} /\ cursor <= NumChunks + 1 + Cardinality(Returned)
          /\ nextId = AtMost(NumCalls, Start(cursor))
        BY DEF BatchInv, CursorCounts
    <2>3. AtMost(NumCalls, Start(cursor)) = AtMost(NumCalls, Start(cursor + 1))
        <3>1. /\ cursor - 1 \in Nat /\ (cursor + 1) - 1 = cursor
              /\ NumChunks <= cursor - 1 /\ NumChunks \in Nat
            BY <2>2, Counts
        <3>2. NumChunks * MaxBatch <= (cursor - 1) * MaxBatch
              /\ NumChunks * MaxBatch <= cursor * MaxBatch
              /\ (cursor - 1) * MaxBatch \in Nat /\ cursor * MaxBatch \in Nat
              /\ NumChunks * MaxBatch \in Nat
            BY <2>2, <3>1, ProductMonotone, ProductNat
        <3> DEFINE all == NumChunks * MaxBatch
                   here == (cursor - 1) * MaxBatch
                   there == cursor * MaxBatch
        <3>3. Start(cursor) = here /\ Start(cursor + 1) = there
            BY <3>1 DEF Start
        <3>4. /\ all \in Nat /\ here \in Nat /\ there \in Nat
              /\ all <= here /\ all <= there /\ NumCalls <= all /\ NumCalls \in Nat
            BY <3>2, Counts
        <3> HIDE DEF all, here, there
        <3>5. QED
            BY <3>3, <3>4 DEF AtMost
    <2>4. QED
        BY <1>1, <2>1, <2>2, <2>3, Counts DEF CursorCounts
<1>7. AnswersKept'
    <2>1. ASSUME NEW k \in 1 .. NumChunks, k < cursor'
          PROVE  \/ \E v \in Workers : worker'[v].pc \in Busy /\ worker'[v].chunk = k
                 \/ \A c \in Start(k) + 1 .. Start(k) + Size(k) : results'[c] # Unset
        <3>1. k < cursor /\ worker[w].pc \notin Busy
            BY <1>1, <1>3, Counts DEF BatchInv, CursorCounts
        <3>2. QED
            BY <1>1, <1>2, <3>1 DEF BatchInv, AnswersKept
    <2>2. outcome' \in {"pending", "resolved", "rejected"}
        BY <1>1 DEF BatchInv, AnswersKept
    <2>3. outcome # "resolved"
        BY <1>4 DEF BatchInv, AnswersKept
    <2>4. OtherReturned(w) => Returned' = Workers
        BY <1>4 DEF OtherReturned, Returned
    <2>5. outcome' = "resolved" => Returned' = Workers
        BY <1>1, <2>3, <2>4
    <2>6. QED
        BY <1>1, <2>1, <2>2, <2>5 DEF BatchInv, AnswersKept
<1>8. QED
    BY <1>5, <1>6, <1>7 DEF BatchInv

-----------------------------------------------------------------------------
(* What comes back for a request.                                          *)

\* What is read out of a usable answer for a call is the value of that call,
\* in whatever order the entries came.
LEMMA EntryIsOwn ==
    ASSUME BatchInv, NEW w \in Workers, worker[w].pc = "flight",
           NEW payload \in Payloads(w), Unusable(w, payload) = {},
           NEW i \in 1 .. Size(worker[w].chunk)
    PROVE  Bodies(w, payload)[i] \in {Start(worker[w].chunk) + i, Null}
<1> DEFINE k == worker[w].chunk
           id == worker[w].id + i - 1
           Found == {e \in Range(payload) : e.id = id}
<1>1. k \in 1 .. NumChunks /\ worker[w].id \in Nat
    BY ChunkNumbers DEF Busy, BatchInv, WorkersHold
<1>2. Size(k) \in Nat /\ Start(k) \in Nat
    BY <1>1, ChunkSpan
<1>3. id \in Ids(w) /\ CallOf(w, id) = Start(k) + i
    BY <1>1, <1>2 DEF Ids, CallOf
<1>4. Bodies(w, payload)[i] = Entry(payload, id)
    BY DEF Bodies
<1>5. Entry(payload, id) \notin {Missing, Passing, Fatal}
    BY <1>3 DEF Unusable
<1> HIDE DEF id
<1>6. \E j \in DOMAIN payload : payload[j].id = id
    BY <1>5 DEF Entry
<1>7. Entry(payload, id) = (CHOOSE e \in Range(payload) : e.id = id).body
    BY <1>6 DEF Entry
<1>8. PICK e \in Range(payload) : e.id = id /\ Entry(payload, id) = e.body
    <2>1. \E e \in Range(payload) : e.id = id
        BY <1>6 DEF Range
    <2>2. QED
        BY <1>7, <2>1
<1>9. e \in Entries(w)
    BY <1>8 DEF Payloads, SeqOf, Range
<1>10. PICK j \in Ids(w) :
           \E b \in {CallOf(w, j), Null, Passing, Fatal} : e = [id |-> j, body |-> b]
    <2>1. PICK j \in Ids(w) :
              e \in {[id |-> j, body |-> b] : b \in {CallOf(w, j), Null, Passing, Fatal}}
        BY <1>9 DEF Entries
    <2>2. QED
        BY <2>1
<1>11. j = id /\ e.body \in {CallOf(w, j), Null, Passing, Fatal}
    BY <1>8, <1>10
<1>12. Entry(payload, id) \in {CallOf(w, id), Null}
    BY <1>5, <1>8, <1>11
<1>13. QED
    BY <1>3, <1>4, <1>12

\* The answers of a request are put where its calls are.
LEMMA DeliverAnswers ==
    ASSUME BatchInv, NEW w \in Workers, worker[w].pc = "flight",
           NEW payload \in Payloads(w), Unusable(w, payload) = {},
           Deliver(w, Bodies(w, payload)), UNCHANGED <<queue, nextId, cursor>>
    PROVE  BatchInv'
<1> DEFINE k == worker[w].chunk
           own == Start(k) + 1 .. Start(k) + Size(k)
<1>1. k \in 1 .. NumChunks
    BY ChunkNumbers DEF Busy, BatchInv, WorkersHold
<1>2. Size(k) \in Nat /\ Start(k) \in Nat /\ NumCalls \in Nat
    BY <1>1, ChunkSpan, Counts
<1>3. DOMAIN Bodies(w, payload) = 1 .. Size(k)
    BY DEF Bodies
<1>4. /\ worker' \in [Workers -> [pc : Busy \cup {"free", "returned"},
                                  chunk : 0 .. NumChunks,
                                  attempt : 0 .. MaxAttempts,
                                  id : Nat]]
      /\ \A v \in Workers \ {w} : worker'[v] = worker[v]
      /\ worker'[w].pc = "free"
      /\ \A v \in Workers : worker'[v].chunk = worker[v].chunk
    BY GotoMoves DEF BatchInv, Deliver
<1>5. "free" \notin Busy /\ "flight" \in Busy /\ "returned" \notin Busy
    BY DEF Busy
<1>6. Returned' = Returned /\ w \notin Returned
    BY <1>4 DEF Returned
<1>7. ASSUME NEW c \in 1 .. NumCalls
      PROVE  /\ c \in own => results'[c] \in {c, Null}
             /\ c \notin own => results'[c] = results[c]
    <2>1. results'[c] = IF c - Start(k) \in 1 .. Size(k)
                        THEN Bodies(w, payload)[c - Start(k)]
                        ELSE results[c]
        BY <1>3 DEF Deliver
    <2>2. c \in own <=> c - Start(k) \in 1 .. Size(k)
        BY <1>2
    <2>3. c - Start(k) \in 1 .. Size(k)
              => Bodies(w, payload)[c - Start(k)] \in {Start(k) + (c - Start(k)), Null}
        BY EntryIsOwn
    <2>4. Start(k) + (c - Start(k)) = c
        BY <1>2
    <2>5. QED
        BY <2>1, <2>2, <2>3, <2>4
<1>8. Null \in Value /\ Null # Unset /\ \A c \in 1 .. NumCalls : c \in Value /\ c # Unset
    BY <1>2 DEF Null, Unset, Value
<1> HIDE DEF own
<1>9. /\ results' \in [1 .. NumCalls -> {Unset} \cup Value]
      /\ \A c \in 1 .. NumCalls : results'[c] \in {Unset, c, Null}
      /\ \A c \in 1 .. NumCalls : results[c] # Unset => results'[c] # Unset
    <2>1. ASSUME NEW c \in 1 .. NumCalls
          PROVE  /\ results'[c] \in {Unset} \cup Value
                 /\ results'[c] \in {Unset, c, Null}
                 /\ results[c] # Unset => results'[c] # Unset
        BY <1>7, <1>8 DEF BatchInv, AnswersKept
    <2>2. results' = [c \in 1 .. NumCalls |-> results'[c]]
        BY DEF Deliver
    <2>3. QED
        BY <2>1, <2>2
<1>10. WorkersHold'
    <2>1. Range(queue') = {v \in Workers : worker'[v].pc = "acquire"}
        BY <1>4 DEF BatchInv, WorkersHold
    <2>2. /\ \A v \in Workers : worker'[v].chunk < cursor'
          /\ \A v \in Workers : worker'[v].pc \in Busy => worker'[v].chunk > 0
        BY <1>4, <1>5, ChunkNumbers
    <2>3. \A u, v \in Workers :
              u # v /\ worker'[u].chunk = worker'[v].chunk => worker'[u].chunk = 0
        BY <1>4 DEF BatchInv, WorkersHold
    <2>4. QED
        BY <1>4, <2>1, <2>2, <2>3 DEF BatchInv, WorkersHold
<1>11. CursorCounts'
    BY <1>6 DEF BatchInv, CursorCounts
<1>12. AnswersKept'
    <2>1. ASSUME NEW l \in 1 .. NumChunks, l < cursor'
          PROVE  \/ \E v \in Workers : worker'[v].pc \in Busy /\ worker'[v].chunk = l
                 \/ \A c \in Start(l) + 1 .. Start(l) + Size(l) : results'[c] # Unset
        <3>0. Start(l) + 1 .. Start(l) + Size(l) \subseteq 1 .. NumCalls
            BY ChunkSpan, Counts
        <3>1. CASE l = k
            <4>1. \A c \in 1 .. NumCalls : c \in own => results'[c] # Unset
                BY <1>7, <1>8
            <4>2. QED
                BY <3>0, <3>1, <4>1 DEF own
        <3>2. CASE l # k
            <4>1. CASE \E v \in Workers : worker[v].pc \in Busy /\ worker[v].chunk = l
                BY <1>4, <3>2, <4>1
            <4>2. CASE \A c \in Start(l) + 1 .. Start(l) + Size(l) : results[c] # Unset
                BY <1>9, <3>0, <4>2
            <4>3. QED
                BY <2>1, <4>1, <4>2 DEF BatchInv, AnswersKept
        <3>3. QED
            BY <3>1, <3>2
    <2>2. outcome' = outcome /\ outcome # "resolved"
        BY <1>6 DEF BatchInv, AnswersKept, Deliver
    <2>3. QED
        BY <1>9, <2>1, <2>2 DEF BatchInv, AnswersKept
<1>13. QED
    BY <1>10, <1>11, <1>12 DEF BatchInv

\* Whatever comes back, the worker throws, tries again or delivers.
LEMMA RespondEnds ==
    ASSUME NEW w \in Workers, Respond(w)
    PROVE  /\ worker[w].pc = "flight"
           /\ UNCHANGED <<idle, queue, meter, nextId, cursor>>
           /\ UNCHANGED <<tokens, rate, penalty>> \/ Penalise \/ Reward
           /\ \/ Throw(w)
              \/ Retry(w)
              \/ \E payload \in Payloads(w) :
                    Unusable(w, payload) = {} /\ Deliver(w, Bodies(w, payload))
    BY DEF Respond, NetworkError, TooManyRequests, ServerError, ClientError,
           SingleError, Answer, InFlight

\* A worker that throws or backs off still has its request.
LEMMA RetryKeepsBatch ==
    ASSUME BatchInv, NEW w \in Workers, worker[w].pc = "flight",
           UNCHANGED <<queue, nextId, cursor>>, Throw(w) \/ Retry(w)
    PROVE  BatchInv'
<1>1. {"flight", "threw", "backoff", "acquire"} = Busy
    BY DEF Busy
<1>2. worker[w].attempt \in 0 .. MaxAttempts
    BY DEF BatchInv, WorkersHold
<1>3. /\ worker' \in [Workers -> [pc : Busy \cup {"free", "returned"},
                                  chunk : 0 .. NumChunks,
                                  attempt : 0 .. MaxAttempts,
                                  id : Nat]]
      /\ \A v \in Workers \ {w} : worker'[v] = worker[v]
      /\ worker'[w].pc \in {"threw", "backoff"}
      /\ \A v \in Workers : worker'[v].chunk = worker[v].chunk
      /\ results' = results
      /\ outcome' \in {outcome, "rejected"}
    <2>1. CASE Throw(w)
        <3>1. Goto(w, "threw") /\ results' = results /\ outcome' \in {outcome, "rejected"}
            BY <2>1 DEF Throw
        <3>2. QED
            BY <1>1, <3>1, GotoMoves DEF BatchInv
    <2>2. CASE ~Throw(w)
        <3>1. /\ worker[w].attempt < MaxAttempts
              /\ worker' = [worker EXCEPT ![w].pc = "backoff", ![w].attempt = @ + 1]
              /\ results' = results /\ outcome' = outcome
            BY <1>2, <2>2 DEF Retry
        <3>2. QED
            BY <3>1, BackoffMoves DEF BatchInv
    <2>3. QED
        BY <2>1, <2>2
<1>4. /\ worker[w].pc \in Busy /\ worker'[w].pc \in Busy
      /\ queue' \in Seq(Workers) /\ IsInjective(queue')
      /\ Range(queue') = {v \in Workers : worker'[v].pc = "acquire"}
    BY <1>1, <1>3 DEF BatchInv, WorkersHold
<1>5. QED
    BY <1>3, <1>4, BusyMoves

-----------------------------------------------------------------------------
(* The invariant.                                                          *)

RpcInv == BatchInv /\ BucketInv

LEMMA InitInv == Init => RpcInv
<1> SUFFICES ASSUME Init
             PROVE  RpcInv
    OBVIOUS
<1>1. WorkersHold
    <2>1. Idle \in [pc : Busy \cup {"free", "returned"}, chunk : 0 .. NumChunks,
                    attempt : 0 .. MaxAttempts, id : Nat]
        BY Counts DEF Idle
    <2>2. Idle.pc = "free" /\ Idle.chunk = 0
        BY DEF Idle
    <2>3. <<>> \in Seq(Workers) /\ IsInjective(<<>>) /\ Range(<<>>) = {}
        BY DEF IsInjective, Range
    <2> DEFINE i == Idle
    <2>4. /\ worker = [w \in Workers |-> i] /\ queue = <<>> /\ cursor = 1
        BY DEF Init
    <2>5. "free" \notin Busy
        BY DEF Busy
    <2> HIDE DEF i
    <2>6. /\ i \in [pc : Busy \cup {"free", "returned"}, chunk : 0 .. NumChunks,
                    attempt : 0 .. MaxAttempts, id : Nat]
          /\ i.pc = "free" /\ i.chunk = 0
        BY <2>1, <2>2 DEF i
    <2>7. QED
        BY <2>3, <2>4, <2>5, <2>6 DEF WorkersHold
<1>2. CursorCounts
    <2>1. Returned = {}
        BY DEF Init, Returned, Idle
    <2>2. Cardinality({}) = 0
        BY FS_EmptySet
    <2>3. Start(1) = 0
        BY DEF Start
    <2>4. AtMost(NumCalls, 0) = 0
        BY Counts DEF AtMost
    <2>5. nextId = 0 /\ cursor = 1
        BY DEF Init
    <2>6. QED
        BY <2>1, <2>2, <2>3, <2>4, <2>5, Counts DEF CursorCounts
<1>3. AnswersKept
    <2>1. \A k \in 1 .. NumChunks : ~(k < cursor)
        BY Counts DEF Init
    <2>2. QED
        BY <2>1 DEF Init, AnswersKept
<1>4. BucketInv
    <2>1. /\ tokens = Capacity /\ rate = ConfiguredRate /\ idle = 0
          /\ penalty = 0 /\ meter = 0
        BY DEF Init
    <2>2. Level = AtMost(Capacity, tokens + 0 * TopRate)
        BY <2>1 DEF Level
    <2>3. Level = Capacity
        BY <2>1, <2>2, BucketNumbers, LevelWithoutTime
    <2>4. QED
        BY <2>1, <2>3, BucketNumbers, RateNumbers DEF BucketInv
<1>5. QED
    BY <1>1, <1>2, <1>3, <1>4 DEF RpcInv, BatchInv

\* A worker in line keeps its request when it takes its tokens, and one that
\* wakes joins the line.
LEMMA LineKeepsBatch ==
    ASSUME BatchInv, NEW w \in Workers, Take(w) \/ Wake(w)
    PROVE  BatchInv'
<1>1. {"flight", "threw", "backoff", "acquire"} = Busy
    BY DEF Busy
<1>2. CASE Take(w)
    <2>1. /\ queue # <<>> /\ Head(queue) = w /\ queue' = Tail(queue)
          /\ Goto(w, "flight")
          /\ UNCHANGED <<nextId, cursor, results, outcome>>
        BY <1>2 DEF Take
    <2>2. /\ w \in Range(queue) /\ queue' \in Seq(Workers) /\ IsInjective(queue')
          /\ Range(queue') = Range(queue) \ {w}
        BY <2>1, LeaveLine DEF BatchInv, WorkersHold
    <2>3. worker[w].pc = "acquire"
        BY <2>2 DEF BatchInv, WorkersHold
    <2>4. /\ worker' \in [Workers -> [pc : Busy \cup {"free", "returned"},
                                      chunk : 0 .. NumChunks,
                                      attempt : 0 .. MaxAttempts,
                                      id : Nat]]
          /\ \A v \in Workers \ {w} : worker'[v] = worker[v]
          /\ worker'[w].pc = "flight"
          /\ \A v \in Workers : worker'[v].chunk = worker[v].chunk
        BY <1>1, <2>1, GotoMoves DEF BatchInv
    <2>5. Range(queue') = {v \in Workers : worker'[v].pc = "acquire"}
        BY <2>2, <2>4 DEF BatchInv, WorkersHold
    <2>6. QED
        BY <1>1, <2>1, <2>2, <2>3, <2>4, <2>5, BusyMoves
<1>3. CASE Wake(w)
    <2>1. /\ worker[w].pc = "backoff" /\ queue' = Append(queue, w)
          /\ Goto(w, "acquire")
          /\ UNCHANGED <<nextId, cursor, results, outcome>>
        BY <1>3 DEF Wake
    <2>2. w \in Workers \ Range(queue)
        BY <2>1 DEF BatchInv, WorkersHold
    <2>3. /\ queue' \in Seq(Workers) /\ IsInjective(queue')
          /\ Range(queue') = Range(queue) \cup {w}
        BY <2>1, <2>2, JoinLine DEF BatchInv, WorkersHold
    <2>4. /\ worker' \in [Workers -> [pc : Busy \cup {"free", "returned"},
                                      chunk : 0 .. NumChunks,
                                      attempt : 0 .. MaxAttempts,
                                      id : Nat]]
          /\ \A v \in Workers \ {w} : worker'[v] = worker[v]
          /\ worker'[w].pc = "acquire"
          /\ \A v \in Workers : worker'[v].chunk = worker[v].chunk
        BY <1>1, <2>1, GotoMoves DEF BatchInv
    <2>5. Range(queue') = {v \in Workers : worker'[v].pc = "acquire"}
        BY <2>3, <2>4 DEF BatchInv, WorkersHold
    <2>6. QED
        BY <1>1, <2>1, <2>3, <2>4, <2>5, BusyMoves
<1>4. QED
    BY <1>2, <1>3

\* A batch that does not move.
LEMMA BatchStays ==
    ASSUME BatchInv, UNCHANGED <<queue, batchVars>>
    PROVE  BatchInv'
<1>1. /\ worker' = worker /\ cursor' = cursor /\ queue' = queue
      /\ nextId' = nextId /\ results' = results /\ outcome' = outcome
    BY DEF batchVars
<1>2. Returned' = Returned
    BY <1>1 DEF Returned
<1>3. WorkersHold'
    BY <1>1 DEF BatchInv, WorkersHold
<1>4. CursorCounts'
    BY <1>1, <1>2 DEF BatchInv, CursorCounts
<1>5. AnswersKept'
    BY <1>1, <1>2 DEF BatchInv, AnswersKept
<1>6. QED
    BY <1>3, <1>4, <1>5 DEF BatchInv

LEMMA NextInv == RpcInv /\ [Next]_vars => RpcInv'
<1> SUFFICES ASSUME BatchInv, BucketInv, [Next]_vars
             PROVE  BatchInv' /\ BucketInv'
    BY DEF RpcInv
<1>1. CASE Tick
    <2>1. UNCHANGED <<queue, batchVars>>
        BY <1>1 DEF Tick
    <2>2. QED
        BY <1>1, <2>1, BatchStays, TickFills
<1>2. ASSUME NEW w \in Workers, NextChunk(w)
      PROVE  BatchInv' /\ BucketInv'
    <2>1. BatchInv'
        BY <1>2, NextTakesChunk, NextReturns DEF NextChunk
    <2>2. UNCHANGED <<idle, meter>> /\ UNCHANGED <<tokens, rate, penalty>>
        BY <1>2 DEF NextChunk
    <2>3. QED
        BY <2>1, <2>2, AnswerKeepsBucket
<1>3. ASSUME NEW w \in Workers, Take(w)
      PROVE  BatchInv' /\ BucketInv'
    <2>1. w \in Range(queue)
        BY <1>3, LeaveLine DEF Take, BatchInv, WorkersHold
    <2>2. worker[w].pc = "acquire"
        BY <2>1 DEF BatchInv, WorkersHold
    <2>3. worker[w].chunk \in 1 .. NumChunks
        BY <2>2, ChunkNumbers DEF Busy, BatchInv, WorkersHold
    <2>4. QED
        BY <1>3, <2>3, LineKeepsBatch, TakePays
<1>4. ASSUME NEW w \in Workers, Look(w)
      PROVE  BatchInv' /\ BucketInv'
    <2>1. UNCHANGED <<queue, batchVars>>
        BY <1>4 DEF Look
    <2>2. QED
        BY <1>4, <2>1, BatchStays, LookKeeps
<1>5. ASSUME NEW w \in Workers, Wake(w)
      PROVE  BatchInv' /\ BucketInv'
    <2>1. UNCHANGED <<idle, meter>> /\ UNCHANGED <<tokens, rate, penalty>>
        BY <1>5 DEF Wake
    <2>2. QED
        BY <1>5, <2>1, LineKeepsBatch, AnswerKeepsBucket
<1>6. ASSUME NEW w \in Workers, Respond(w)
      PROVE  BatchInv' /\ BucketInv'
    <2>1. /\ worker[w].pc = "flight"
          /\ UNCHANGED <<queue, nextId, cursor>> /\ UNCHANGED <<idle, meter>>
          /\ UNCHANGED <<tokens, rate, penalty>> \/ Penalise \/ Reward
          /\ \/ Throw(w) \/ Retry(w)
             \/ \E payload \in Payloads(w) :
                   Unusable(w, payload) = {} /\ Deliver(w, Bodies(w, payload))
        BY <1>6, RespondEnds
    <2>2. BucketInv'
        BY <2>1, AnswerKeepsBucket
    <2>3. CASE Throw(w) \/ Retry(w)
        BY <2>1, <2>2, <2>3, RetryKeepsBatch
    <2>4. CASE \E payload \in Payloads(w) :
                  Unusable(w, payload) = {} /\ Deliver(w, Bodies(w, payload))
        BY <2>1, <2>2, <2>4, DeliverAnswers
    <2>5. QED
        BY <2>1, <2>3, <2>4
<1>7. CASE UNCHANGED vars
    <2>1. /\ UNCHANGED <<queue, batchVars>> /\ UNCHANGED <<idle, meter>>
          /\ UNCHANGED <<tokens, rate, penalty>>
        BY <1>7 DEF vars, bucketVars
    <2>2. QED
        BY <2>1, BatchStays, AnswerKeepsBucket
<1>8. QED
    BY <1>1, <1>2, <1>3, <1>4, <1>5, <1>6, <1>7 DEF Next, Step

\* Every state of a batch and its bucket is as the two invariants say.
THEOREM RpcKeepsCount == Spec => []RpcInv
<1>1. QED
    BY InitInv, NextInv, PTL DEF Spec

\* The counters keep their types, the cursor included, which runs past the
\* end; exactly the workers inside acquire stand in line, each once; and no
\* two workers hold one request.
THEOREM RpcTypeCorrect == Spec => []TypeOK
<1>1. RpcInv => TypeOK
    <2> SUFFICES ASSUME BatchInv, BucketInv
                 PROVE  TypeOK
        BY DEF RpcInv
    <2>1. cursor \in 1 .. NumChunks + Cardinality(Workers) + 1
        <3>1. Cardinality(Returned) \in Nat /\ Cardinality(Workers) \in Nat
              /\ Cardinality(Returned) <= Cardinality(Workers)
            <4>1. Returned \subseteq Workers
                BY DEF Returned
            <4>2. QED
                BY <4>1, FS_Subset, FS_CardinalityType
        <3>2. cursor \in Nat \ {0} /\ cursor <= NumChunks + 1 + Cardinality(Returned)
            BY DEF BatchInv, CursorCounts
        <3>3. QED
            BY <3>1, <3>2, Counts
    <2>2. nextId \in 0 .. NumCalls
        <3>1. cursor - 1 \in Nat
            BY DEF BatchInv, CursorCounts
        <3>2. Start(cursor) \in Nat
            BY <3>1, ProductNat DEF Start
        <3>3. QED
            BY <3>2, Counts DEF BatchInv, CursorCounts, AtMost
    <2>3. \A w \in Workers :
              /\ worker[w].pc \in {"free", "acquire", "flight", "backoff",
                                   "returned", "threw"}
              /\ worker[w].attempt <= MaxAttempts
        BY DEF BatchInv, WorkersHold, Busy
    <2>4. QED
        BY <2>1, <2>2, <2>3
        DEF TypeOK, BatchInv, BucketInv, WorkersHold, AnswersKept
<1>2. QED
    BY <1>1, RpcKeepsCount, PTL

\* TokenBucket: the client never has more calls on the endpoint's meter than
\* an endpoint of the fastest of its rates takes, whatever the rate was cut to and raised again, and
\* whoever waits, retries or gives up.
THEOREM RateIsKept == Spec => []NeverOverTheRate
<1>1. RpcInv => NeverOverTheRate
    <2> SUFFICES ASSUME BucketInv
                 PROVE  meter <= Capacity
        BY DEF RpcInv, NeverOverTheRate
    <2>1. Level \in 0 .. Capacity
        BY RefilledBounds
    <2>2. QED
        BY <2>1, BucketNumbers DEF BucketInv
<1>2. QED
    BY <1>1, RpcKeepsCount, PTL

\* batch and getAccounts: a batch that resolves has an answer for every call,
\* its own, and every account is reported under its own address, although the
\* requests are answered in any order and entries of one in any order too.
THEOREM AnswersInPlace == Spec => []ResolvedInOrder
<1>1. RpcInv => ResolvedInOrder
    <2> SUFFICES ASSUME BatchInv, outcome = "resolved"
                 PROVE  /\ \A c \in 1 .. NumCalls : results[c] \in {c, Null}
                        /\ \A a \in 1 .. NumAccounts :
                              LET c == CHOOSE c \in 1 .. NumCalls : a \in Group(c)
                              IN  Accounts(results)[a]
                                    \in {Gone, [group |-> c,
                                                place |-> a - (c - 1) * GroupSize]}
        BY DEF RpcInv, ResolvedInOrder
    <2>1. Returned = Workers /\ Returned # {}
        BY DEF BatchInv, AnswersKept
    <2>2. \A w \in Workers : worker[w].pc \notin Busy
        BY <2>1 DEF Returned, Busy
    <2>3. cursor > NumChunks /\ cursor \in Nat
        BY <2>1 DEF BatchInv, CursorCounts
    <2>4. ASSUME NEW c \in 1 .. NumCalls
          PROVE  results[c] \in {c, Null}
        <3>1. PICK k \in 1 .. NumChunks : c \in Start(k) + 1 .. Start(k) + Size(k)
            BY CallInChunk
        <3>2. k < cursor
            BY <2>3, Counts
        <3>3. results[c] # Unset
            BY <2>2, <3>1, <3>2 DEF BatchInv, AnswersKept
        <3>4. QED
            BY <3>3 DEF BatchInv, AnswersKept
    <2>5. ASSUME NEW a \in 1 .. NumAccounts
          PROVE  LET c == CHOOSE c \in 1 .. NumCalls : a \in Group(c)
                 IN  Accounts(results)[a]
                       \in {Gone, [group |-> c, place |-> a - (c - 1) * GroupSize]}
        <3> DEFINE g == (a - 1) \div GroupSize + 1
                   p == ((a - 1) % GroupSize) + 1
        <3>1. /\ g \in 1 .. NumCalls
              /\ (CHOOSE c \in 1 .. NumCalls : a \in Group(c)) = g
              /\ a - (g - 1) * GroupSize = p
            BY AccountInGroup
        <3>2. Accounts(results)[a] = IF results[g] = Null
                                     THEN Gone
                                     ELSE [group |-> results[g], place |-> p]
            BY DEF Accounts
        <3> HIDE DEF g, p
        <3>3. results[g] \in {g, Null}
            BY <2>4, <3>1
        <3>4. Accounts(results)[a] \in {Gone, [group |-> g, place |-> p]}
            BY <3>2, <3>3
        <3>5. QED
            BY <3>1, <3>4
    <2>6. QED
        BY <2>4, <2>5
<1>2. QED
    BY <1>1, RpcKeepsCount, PTL
=============================================================================
