------------------------ MODULE AttemptLedgerProofs ------------------------
(* Proofs about the attempt ledger, for any number of shards, operations,   *)
(* bindings and results and for every sequence of calls.                    *)
EXTENDS AttemptLedger, TLAPS

\* The four invariants hold together; each is preserved with the help of the
\* types and of GenerationsCovered only.
IInv == TypeOK /\ CompletionAgreement /\ AuditConsistent /\ GenerationsCovered

-----------------------------------------------------------------------------
(* Changing one record *)

\* An update of one live record's control fields.
LEMMA RecordUpdate ==
  ASSUME TypeOK, NEW i \in DOMAIN attempts, NEW a \in Attempt,
         attempts' = [attempts EXCEPT ![i] = a]
  PROVE  /\ DOMAIN attempts' = DOMAIN attempts
         /\ attempts' \in [DOMAIN attempts' -> Attempt]
         /\ attempts'[i] = a
         /\ \A j \in DOMAIN attempts : j # i => attempts'[j] = attempts[j]
BY DEF TypeOK

\* What transition() makes of a record.
LEMMA TransitionRecord ==
  ASSUME TypeOK, NEW i \in DOMAIN attempts, NEW state \in Terminal,
         NEW resolution \in Resolution, NEW failure \in Failure, NEW live \in BOOLEAN,
         transition(i, state, resolution, failure, live)
  PROVE  \E a \in Attempt :
            /\ attempts' = [attempts EXCEPT ![i] = a]
            /\ a.state = state
            /\ a.operation = attempts[i].operation /\ a.generation = attempts[i].generation
            /\ ~a.completion_committed
<1> DEFINE a == [attempts[i] EXCEPT !.state = state, !.resolution = resolution,
                    !.failure = IF failure = "None" THEN @ ELSE failure]
<1>1. attempts[i] \in Attempt
  BY DEF TypeOK
<1>2. a \in Attempt
  BY <1>1 DEF Attempt
<1>3. a.state = state /\ a.operation = attempts[i].operation /\ a.generation = attempts[i].generation
  BY <1>1 DEF Attempt
<1>4. a.completion_committed = attempts[i].completion_committed
  BY <1>1 DEF Attempt
<1>5. ~attempts[i].completion_committed
  BY DEF transition
<1>6. attempts' = [attempts EXCEPT ![i] = a]
  BY DEF transition
<1> QED
  BY <1>2, <1>3, <1>4, <1>5, <1>6

-----------------------------------------------------------------------------
(* Steps that change one record *)

\* A step that replaces one record by another of the same operation and
\* generation, and leaves the counters and the pending calls alone, preserves
\* the types and the generations.
LEMMA UpdateStep ==
  ASSUME IInv, NEW i \in DOMAIN attempts, NEW a \in Attempt,
         attempts' = [attempts EXCEPT ![i] = a],
         a.operation = attempts[i].operation, a.generation = attempts[i].generation,
         told' \in [DOMAIN attempts -> SUBSET {Key(r) : r \in Result}],
         UNCHANGED <<counter, highest_generation, ids, calls, prunes>>
  PROVE  TypeOK' /\ GenerationsCovered'
<1>0. TypeOK
  BY DEF IInv
<1>1. /\ DOMAIN attempts' = DOMAIN attempts
      /\ attempts' \in [DOMAIN attempts' -> Attempt]
      /\ attempts'[i] = a
      /\ \A j \in DOMAIN attempts : j # i => attempts'[j] = attempts[j]
  BY <1>0, RecordUpdate
<1>2. TypeOK'
  BY <1>0, <1>1 DEF TypeOK
<1>3. GenerationsCovered'
  <2>1. \A j \in DOMAIN attempts : attempts'[j].operation = attempts[j].operation
                                 /\ attempts'[j].generation = attempts[j].generation
    BY <1>1
  <2> QED
    BY <1>1, <2>1 DEF IInv, GenerationsCovered
<1> QED
  BY <1>2, <1>3

\* transition(), behind every mark_* method, preserves the invariant.
LEMMA TransitionStep ==
  ASSUME IInv, NEW i, NEW state \in Terminal,
         NEW resolution \in Resolution, NEW failure \in Failure, NEW live \in BOOLEAN,
         transition(i, state, resolution, failure, live)
  PROVE  IInv'
<1>0. TypeOK /\ i \in DOMAIN attempts
  BY DEF IInv, transition
<1>1. PICK a \in Attempt :
            /\ attempts' = [attempts EXCEPT ![i] = a]
            /\ a.state = state
            /\ a.operation = attempts[i].operation /\ a.generation = attempts[i].generation
            /\ ~a.completion_committed
  BY <1>0, TransitionRecord
<1>2. UNCHANGED <<counter, highest_generation, ids, calls, told, prunes>> /\ ~attempts[i].completion_committed
  BY DEF transition
<1>3. TypeOK' /\ GenerationsCovered'
  BY <1>0, <1>1, <1>2, UpdateStep DEF TypeOK
<1>4. /\ DOMAIN attempts' = DOMAIN attempts
      /\ attempts'[i] = a
      /\ \A j \in DOMAIN attempts : j # i => attempts'[j] = attempts[j]
  BY <1>0, <1>1, RecordUpdate
<1>5. ~attempts'[i].completion_committed
  BY <1>1, <1>4
<1>6. CompletionAgreement'
  BY <1>0, <1>2, <1>4, <1>5 DEF IInv, CompletionAgreement
<1>7. AuditConsistent'
  BY <1>0, <1>4, <1>5 DEF IInv, AuditConsistent
<1> QED
  BY <1>3, <1>6, <1>7 DEF IInv

\* mark_dispatched() preserves the invariant.
LEMMA DispatchedStep ==
  ASSUME IInv, NEW i, NEW d \in Dispatch, mark_dispatched(i, d)
  PROVE  IInv'
<1> DEFINE a == [attempts[i] EXCEPT !.dispatch = d, !.state = "Dispatched"]
<1>0. TypeOK /\ i \in DOMAIN attempts
  BY DEF IInv, mark_dispatched
<1>1. attempts[i] \in Attempt
  BY <1>0 DEF TypeOK
<1>2. a \in Attempt
  BY <1>1 DEF Attempt, Live
<1>3. /\ a.operation = attempts[i].operation /\ a.generation = attempts[i].generation
      /\ a.completion_committed = attempts[i].completion_committed
  BY <1>1 DEF Attempt
<1>4. attempts' = [attempts EXCEPT ![i] = a] /\ UNCHANGED <<counter, highest_generation, ids, calls, told, prunes>>
  BY DEF mark_dispatched
<1>5. ~attempts[i].completion_committed
  BY <1>0 DEF IInv, AuditConsistent, mark_dispatched
<1> HIDE DEF a
<1>6. TypeOK' /\ GenerationsCovered'
  BY <1>0, <1>2, <1>3, <1>4, UpdateStep DEF TypeOK
<1>7. /\ DOMAIN attempts' = DOMAIN attempts
      /\ attempts'[i] = a
      /\ \A j \in DOMAIN attempts : j # i => attempts'[j] = attempts[j]
  BY <1>0, <1>2, <1>4, RecordUpdate
<1>8. ~attempts'[i].completion_committed
  BY <1>3, <1>5, <1>7
<1>9. CompletionAgreement'
  <2>1. told' = told /\ told[i] = {}
    BY <1>0, <1>4, <1>5 DEF IInv, CompletionAgreement
  <2> QED
    BY <1>0, <1>7, <1>8, <2>1 DEF IInv, CompletionAgreement
<1>10. AuditConsistent'
  BY <1>0, <1>7, <1>8 DEF IInv, AuditConsistent
<1> QED
  BY <1>6, <1>9, <1>10 DEF IInv

\* The record an accepted completion leaves.
LEMMA CommitRecord ==
  ASSUME TypeOK, NEW i \in DOMAIN attempts, NEW r \in Result, CommitResult(i, r)
  PROVE  \E a \in Attempt :
            /\ attempts' = [attempts EXCEPT ![i] = a]
            /\ a.operation = attempts[i].operation /\ a.generation = attempts[i].generation
            /\ a.completion_committed = TRUE /\ a.result = r
            /\ a.state = IF r.success THEN "Completed" ELSE "Failed"
            /\ a.resolution # "None"
<1> DEFINE state == IF r.success THEN "Completed" ELSE "Failed"
           resolution == IF r.success THEN "AuthoritativeSuccess" ELSE "AuthoritativeFailure"
           failure == IF r.success THEN "None"
                      ELSE IF r.failure = "None" THEN "ExecutionFailure" ELSE r.failure
           a == [attempts[i] EXCEPT !.state = state, !.resolution = resolution, !.result = r,
                    !.completion_committed = TRUE, !.failure = failure]
<1>1. attempts[i] \in Attempt
  BY DEF TypeOK
<1>2. state \in Terminal /\ resolution \in Resolution /\ resolution # "None" /\ failure \in Failure
  <2>1. r.failure \in Failure
    BY ResultAssumption
  <2>2. state \in Terminal /\ resolution \in Resolution /\ resolution # "None"
    BY DEF Terminal, Resolution
  <2>3. failure \in Failure
    BY <2>1 DEF Failure
  <2> QED
    BY <2>2, <2>3
<1>3. attempts' = [attempts EXCEPT ![i] = a]
  BY DEF CommitResult
<1>4. state = IF r.success THEN "Completed" ELSE "Failed"
  OBVIOUS
<1> HIDE DEF state, resolution, failure
<1>5. a \in Attempt
  BY <1>1, <1>2 DEF Attempt
<1>6. /\ a.operation = attempts[i].operation /\ a.generation = attempts[i].generation
      /\ a.result = r /\ a.state = state /\ a.resolution = resolution
  BY <1>1 DEF Attempt
<1>7. a.completion_committed = TRUE
  BY <1>1 DEF Attempt
<1> QED
  BY <1>2, <1>3, <1>4, <1>5, <1>6, <1>7

\* commit_completion() preserves the invariant, whatever it answers.
LEMMA CompletionStep ==
  ASSUME IInv, NEW s, s.result \in Result, commit_completion(s)
  PROVE  IInv'
<1> DEFINE i == s.id
<1>0. TypeOK /\ i \in DOMAIN attempts
  BY DEF IInv, commit_completion, Addressed
<1>1. /\ told' = [told EXCEPT ![i] = @ \union {Key(s.result)}]
      /\ UNCHANGED <<counter, highest_generation, ids, calls, prunes>>
  BY DEF commit_completion
<1>2. told' \in [DOMAIN attempts -> SUBSET {Key(r) : r \in Result}]
  BY <1>0, <1>1 DEF TypeOK
<1>3. told'[i] = told[i] \union {Key(s.result)} /\ \A j \in DOMAIN attempts : j # i => told'[j] = told[j]
  BY <1>0, <1>1 DEF TypeOK
<1>4. CASE attempts[i].completion_committed /\ Key(attempts[i].result) = Key(s.result) /\ UNCHANGED attempts
  <2>1. TypeOK' /\ GenerationsCovered' /\ AuditConsistent'
    BY <1>0, <1>1, <1>2, <1>4 DEF IInv, TypeOK, GenerationsCovered, AuditConsistent
  <2>2. CompletionAgreement'
    BY <1>3, <1>4 DEF IInv, CompletionAgreement
  <2> QED
    BY <2>1, <2>2 DEF IInv
<1>5. CASE ~attempts[i].completion_committed /\ CommitResult(i, s.result)
  <2>1. PICK a \in Attempt :
            /\ attempts' = [attempts EXCEPT ![i] = a]
            /\ a.operation = attempts[i].operation /\ a.generation = attempts[i].generation
            /\ a.completion_committed = TRUE /\ a.result = s.result
            /\ a.state = IF s.result.success THEN "Completed" ELSE "Failed"
            /\ a.resolution # "None"
    BY <1>0, <1>5, CommitRecord
  <2> HIDE DEF i
  <2>2. TypeOK' /\ GenerationsCovered'
    BY <1>0, <1>1, <1>2, <2>1, UpdateStep
  <2>3. /\ DOMAIN attempts' = DOMAIN attempts
        /\ attempts'[i] = a
        /\ \A j \in DOMAIN attempts : j # i => attempts'[j] = attempts[j]
    BY <1>0, <2>1, RecordUpdate
  <2>4. told[i] = {}
    BY <1>0, <1>5 DEF IInv, CompletionAgreement
  <2>5. attempts'[i].completion_committed /\ attempts'[i].result = s.result
    BY <2>1, <2>3
  <2>6. CompletionAgreement'
    BY <1>3, <2>3, <2>4, <2>5 DEF IInv, CompletionAgreement
  <2>7. AuditConsistent'
    BY <2>1, <2>3 DEF IInv, AuditConsistent
  <2> QED
    BY <2>2, <2>6, <2>7 DEF IInv
<1> QED
  BY <1>4, <1>5 DEF commit_completion

-----------------------------------------------------------------------------
(* Steps that add or drop records, and steps of the counters *)

\* Adding a record that is new, of a handed out identity, keeps the types.
LEMMA InsertTypes ==
  ASSUME TypeOK, NEW i \in Shard \X Nat, NEW a \in Attempt, i \notin DOMAIN attempts,
         NEW t \in SUBSET {Key(r) : r \in Result},
         attempts' = Insert(attempts, i, a), told' = Insert(told, i, t)
  PROVE  /\ DOMAIN attempts' = DOMAIN attempts \union {i}
         /\ attempts' \in [DOMAIN attempts' -> Attempt]
         /\ told' \in [DOMAIN attempts' -> SUBSET {Key(r) : r \in Result}]
         /\ attempts'[i] = a /\ told'[i] = t
         /\ \A j \in DOMAIN attempts : attempts'[j] = attempts[j] /\ told'[j] = told[j]
BY DEF TypeOK, Insert

\* allocate_id() and allocate_generation() preserve the invariant.
LEMMA AllocateStep ==
  ASSUME IInv, (\E s \in Shard : allocate_id(s)) \/ (\E o \in Operation : allocate_generation(o))
  PROVE  IInv'
<1>0. TypeOK
  BY DEF IInv
<1>1. ASSUME NEW s \in Shard, allocate_id(s) PROVE IInv'
  <2> DEFINE n == (counter[s] + 1) % IdSpace
  <2>1. counter[s] \in Nat
    BY <1>0 DEF TypeOK
  <2>2. n \in Nat /\ n <= counter[s] + 1
    BY <2>1, BoundAssumption
  <2>3. counter' = [counter EXCEPT ![s] = @ + 1] /\ ids' = ids \union {<<s, n>>}
    BY <1>1 DEF allocate_id
  <2> HIDE DEF n
  <2>4. UNCHANGED <<attempts, highest_generation, calls, told, prunes>>
    BY <1>1 DEF allocate_id
  <2>5. ids' \subseteq Shard \X Nat /\ counter' \in [Shard -> Nat]
    BY <1>0, <2>2, <2>3 DEF TypeOK
  <2>6. \A i \in ids' : i[2] <= counter'[i[1]]
    BY <1>0, <2>1, <2>2, <2>3 DEF TypeOK
  <2>7. TypeOK'
    BY <1>0, <2>3, <2>4, <2>5, <2>6 DEF TypeOK
  <2> QED
    BY <2>4, <2>7 DEF IInv, CompletionAgreement, AuditConsistent, GenerationsCovered
<1>2. ASSUME NEW o \in Operation, allocate_generation(o) PROVE IInv'
  <2>1. /\ highest_generation' = [highest_generation EXCEPT ![o] = @ + 1]
        /\ UNCHANGED <<attempts, counter, ids, calls, told, prunes>>
    BY <1>2 DEF allocate_generation
  <2>2. TypeOK'
    BY <1>0, <2>1 DEF TypeOK
  <2>3. \A q \in Operation : highest_generation[q] \in Nat /\ highest_generation'[q] >= highest_generation[q]
    BY <1>0, <2>1 DEF TypeOK
  <2>4. GenerationsCovered'
    <3>1. \A i \in DOMAIN attempts : attempts[i].operation \in Operation /\ attempts[i].generation \in Nat
      BY <1>0 DEF TypeOK, Attempt
    <3>2. \A c \in calls : c.op = "register" => c.reg.operation \in Operation /\ c.reg.generation \in Nat
      BY <1>0 DEF TypeOK, Registration
    <3> QED
      BY <2>1, <2>3, <3>1, <3>2 DEF IInv, GenerationsCovered
  <2> QED
    BY <2>1, <2>2, <2>4 DEF IInv, CompletionAgreement, AuditConsistent
<1> QED
  BY <1>1, <1>2

\* register_attempt()'s generation test preserves the invariant.
LEMMA CheckStep ==
  ASSUME IInv, NEW r \in Registration, r.id \in ids,
         r.generation <= highest_generation[r.operation], register_check(r)
  PROVE  IInv'
<1>1. /\ calls' = calls \union {[op |-> "register", reg |-> r]}
      /\ UNCHANGED <<attempts, counter, highest_generation, ids, told, prunes>>
  BY DEF register_check
<1>2. TypeOK'
  BY <1>1 DEF IInv, TypeOK
<1>3. GenerationsCovered'
  BY <1>1 DEF IInv, GenerationsCovered
<1> QED
  BY <1>1, <1>2, <1>3 DEF IInv, CompletionAgreement, AuditConsistent

\* register_attempt()'s insertion preserves the invariant.
LEMMA InsertStep ==
  ASSUME IInv, NEW r, register_insert(r)
  PROVE  IInv'
<1>0. TypeOK /\ [op |-> "register", reg |-> r] \in calls
  BY DEF IInv, register_insert
<1>1. r \in Registration /\ r.id \in ids /\ r.generation <= highest_generation[r.operation]
  BY <1>0 DEF IInv, TypeOK, GenerationsCovered
<1>2. /\ calls' = calls \ {[op |-> "register", reg |-> r]}
      /\ UNCHANGED <<counter, highest_generation, ids, prunes>>
  BY DEF register_insert
<1>3. \A c : c.op = "restore" /\ c \in calls => c \in calls'
  BY <1>2
<1>4. CASE UNCHANGED <<attempts, told>>
  <2>1. TypeOK'
    BY <1>0, <1>2, <1>4 DEF TypeOK
  <2>2. GenerationsCovered'
    BY <1>2, <1>3, <1>4 DEF IInv, GenerationsCovered
  <2> QED
    BY <1>4, <2>1, <2>2 DEF IInv, CompletionAgreement, AuditConsistent
<1>5. CASE /\ r.id \notin DOMAIN attempts
           /\ attempts' = Insert(attempts, r.id, NewAttempt(r))
           /\ told' = Insert(told, r.id, {})
  <2> DEFINE i == r.id
             a == NewAttempt(r)
  <2>1. a \in Attempt
    BY <1>1 DEF NewAttempt, Attempt, Registration, Live, Resolution, Failure
  <2>2. ~a.completion_committed /\ a.generation = r.generation /\ a.operation = r.operation
    BY DEF NewAttempt
  <2>3. i \in Shard \X Nat
    BY <1>1 DEF Registration
  <2>3a. i \notin DOMAIN attempts /\ attempts' = Insert(attempts, i, a) /\ told' = Insert(told, i, {})
    BY <1>5
  <2> HIDE DEF i, a
  <2>4. /\ DOMAIN attempts' = DOMAIN attempts \union {i}
        /\ attempts' \in [DOMAIN attempts' -> Attempt]
        /\ told' \in [DOMAIN attempts' -> SUBSET {Key(q) : q \in Result}]
        /\ attempts'[i] = a /\ told'[i] = {}
        /\ \A j \in DOMAIN attempts : attempts'[j] = attempts[j] /\ told'[j] = told[j]
    BY <1>0, <2>1, <2>3, <2>3a, InsertTypes
  <2>5. TypeOK'
    BY <1>0, <1>1, <1>2, <2>4 DEF TypeOK, i
  <2>6. GenerationsCovered'
    BY <1>1, <1>2, <1>3, <2>2, <2>4 DEF IInv, GenerationsCovered
  <2>7. CompletionAgreement'
    BY <2>4 DEF IInv, CompletionAgreement
  <2>8. AuditConsistent'
    BY <2>2, <2>4 DEF IInv, AuditConsistent
  <2> QED
    BY <2>5, <2>6, <2>7, <2>8 DEF IInv
<1> QED
  BY <1>4, <1>5 DEF register_insert

\* Raising a shard's counter to identity i keeps the identities covered.
LEMMA AdoptTypes ==
  ASSUME TypeOK, NEW i \in Shard \X Nat,
         counter' = [counter EXCEPT ![i[1]] = IF i[2] > @ THEN i[2] ELSE @],
         ids' = ids \union {i}
  PROVE  /\ ids' \subseteq Shard \X Nat
         /\ counter' \in [Shard -> Nat]
         /\ \A j \in ids' : j[2] <= counter'[j[1]]
<1>1. i[1] \in Shard /\ i[2] \in Nat
  OBVIOUS
<1>2. counter \in [Shard -> Nat]
  BY DEF TypeOK
<1>3. counter'[i[1]] >= i[2] /\ \A s \in Shard : counter'[s] >= counter[s] /\ counter'[s] \in Nat
  BY <1>1, <1>2
<1>4. counter' \in [Shard -> Nat]
  BY <1>1, <1>2
<1>5. ids' \subseteq Shard \X Nat
  BY DEF TypeOK
<1>6. \A j \in ids : j[2] <= counter'[j[1]]
  <2> SUFFICES ASSUME NEW j \in ids PROVE j[2] <= counter'[j[1]]
    OBVIOUS
  <2>1. j[1] \in Shard /\ j[2] \in Nat /\ j[2] <= counter[j[1]]
    BY DEF TypeOK
  <2> QED
    BY <1>2, <1>3, <2>1
<1> QED
  BY <1>1, <1>3, <1>4, <1>5, <1>6

\* restore_attempt()'s insertion preserves the invariant.
LEMMA RestoreStep ==
  ASSUME IInv, NEW p \in Recovered, restore_insert(p[1], p[2])
  PROVE  IInv'
<1> DEFINE i == p[1]
           a == p[2]
           t == IF a.completion_committed THEN {Key(a.result)} ELSE {}
           c == [op |-> "restore", reg |-> [operation |-> a.operation, generation |-> a.generation]]
<1>0. TypeOK
  BY DEF IInv
<1>1. i \in Shard \X Nat /\ a \in Attempt /\ Saved(a)
  BY RecoveredAssumption
<1>2. t \in SUBSET {Key(r) : r \in Result}
  BY <1>1 DEF Saved
<1>3. /\ i \notin DOMAIN attempts
      /\ attempts' = Insert(attempts, i, a)
      /\ told' = Insert(told, i, t)
      /\ counter' = [counter EXCEPT ![i[1]] = IF i[2] > @ THEN i[2] ELSE @]
      /\ ids' = ids \union {i}
      /\ calls' = calls \union {c}
      /\ UNCHANGED <<highest_generation, prunes>>
  BY DEF restore_insert
<1>4. c.op = "restore" /\ c \in [op: {"restore"}, reg: [operation: Operation, generation: Nat]]
  BY <1>1 DEF Attempt
<1>5. c = [op |-> "restore", reg |-> [operation |-> a.operation, generation |-> a.generation]]
  OBVIOUS
<1>6. t = IF a.completion_committed THEN {Key(a.result)} ELSE {}
  OBVIOUS
<1> HIDE DEF i, a, t, c
<1>7. /\ DOMAIN attempts' = DOMAIN attempts \union {i}
      /\ attempts' \in [DOMAIN attempts' -> Attempt]
      /\ told' \in [DOMAIN attempts' -> SUBSET {Key(r) : r \in Result}]
      /\ attempts'[i] = a /\ told'[i] = t
      /\ \A j \in DOMAIN attempts : attempts'[j] = attempts[j] /\ told'[j] = told[j]
  BY <1>0, <1>1, <1>2, <1>3, InsertTypes
<1>8. TypeOK'
  <2>1. /\ ids' \subseteq Shard \X Nat
        /\ counter' \in [Shard -> Nat]
        /\ \A j \in ids' : j[2] <= counter'[j[1]]
    BY <1>0, <1>1, <1>3, AdoptTypes
  <2>2. /\ calls' \subseteq [op: {"register"}, reg: Registration] \union
                            [op: {"restore"}, reg: [operation: Operation, generation: Nat]]
        /\ \A e \in calls' : e.op = "register" => e.reg.id \in ids'
    BY <1>0, <1>3, <1>4 DEF TypeOK
  <2> QED
    BY <1>0, <1>3, <1>7, <2>1, <2>2 DEF TypeOK
<1>9. GenerationsCovered'
  BY <1>3, <1>4, <1>5, <1>7 DEF IInv, GenerationsCovered
<1>10. CompletionAgreement'
  BY <1>6, <1>7 DEF IInv, CompletionAgreement
<1>11. AuditConsistent'
  BY <1>1, <1>7 DEF IInv, AuditConsistent, Saved
<1> QED
  BY <1>8, <1>9, <1>10, <1>11 DEF IInv

\* restore_attempt() then covers the generation of what it inserted.
LEMMA RestoreGenerationStep ==
  ASSUME IInv, NEW r, restore_generation(r)
  PROVE  IInv'
<1>0. TypeOK /\ [op |-> "restore", reg |-> r] \in calls
  BY DEF IInv, restore_generation
<1>1. r \in [operation: Operation, generation: Nat]
  BY <1>0 DEF TypeOK
<1>2. /\ calls' = calls \ {[op |-> "restore", reg |-> r]}
      /\ highest_generation' = [highest_generation EXCEPT ![r.operation] =
                                   IF r.generation > @ THEN r.generation ELSE @]
      /\ UNCHANGED <<attempts, counter, ids, told, prunes>>
  BY DEF restore_generation
<1>3. highest_generation \in [Operation -> Nat]
  BY <1>0 DEF TypeOK
<1>4. /\ highest_generation' \in [Operation -> Nat]
      /\ highest_generation'[r.operation] >= r.generation
      /\ \A o \in Operation : highest_generation'[o] >= highest_generation[o]
  BY <1>1, <1>2, <1>3
<1>5. TypeOK'
  BY <1>0, <1>2, <1>4 DEF TypeOK
<1>6. GenerationsCovered'
  <2>1. ASSUME NEW j \in DOMAIN attempts
        PROVE  LET a == attempts[j] IN
               \/ a.generation <= highest_generation'[a.operation]
               \/ [op |-> "restore", reg |-> [operation |-> a.operation, generation |-> a.generation]] \in calls'
    <3> DEFINE a == attempts[j]
               c == [op |-> "restore", reg |-> [operation |-> a.operation, generation |-> a.generation]]
    <3>1. a.operation \in Operation /\ a.generation \in Nat
      BY <1>0 DEF TypeOK, Attempt
    <3>2. a.generation <= highest_generation[a.operation] \/ c \in calls
      BY DEF IInv, GenerationsCovered
    <3>3. CASE c = [op |-> "restore", reg |-> r]
      <4>1. r.operation = a.operation /\ r.generation = a.generation
        BY <3>3
      <4> QED
        BY <1>1, <1>4, <4>1
    <3> QED
      BY <1>2, <1>3, <1>4, <3>1, <3>2, <3>3
  <2>2. ASSUME NEW c \in calls', c.op = "register"
        PROVE  c.reg.generation <= highest_generation'[c.reg.operation]
    <3>1. c \in calls /\ c.reg.operation \in Operation /\ c.reg.generation \in Nat
      BY <1>0, <1>2, <2>2 DEF TypeOK, Registration
    <3>2. c.reg.generation <= highest_generation[c.reg.operation]
      BY <2>2, <3>1 DEF IInv, GenerationsCovered
    <3> QED
      BY <1>3, <1>4, <3>1, <3>2
  <2> QED
    BY <1>2, <2>1, <2>2 DEF GenerationsCovered
<1> QED
  BY <1>2, <1>5, <1>6 DEF IInv, CompletionAgreement, AuditConsistent

\* adopt_ids() only raises the counters.
LEMMA AdoptStep ==
  ASSUME IInv, NEW p \in Recovered, adopt_ids(p[1])
  PROVE  IInv'
<1> DEFINE i == p[1]
<1>0. TypeOK
  BY DEF IInv
<1>1. i \in Shard \X Nat
  BY RecoveredAssumption
<1>2. /\ counter' = [counter EXCEPT ![i[1]] = IF i[2] > @ THEN i[2] ELSE @]
      /\ ids' = ids \union {i}
      /\ UNCHANGED <<attempts, highest_generation, calls, told, prunes>>
  BY DEF adopt_ids
<1> HIDE DEF i
<1>3. /\ ids' \subseteq Shard \X Nat
      /\ counter' \in [Shard -> Nat]
      /\ \A j \in ids' : j[2] <= counter'[j[1]]
  BY <1>0, <1>1, <1>2, AdoptTypes
<1>4. TypeOK'
  BY <1>0, <1>2, <1>3 DEF TypeOK
<1> QED
  BY <1>2, <1>4 DEF IInv, CompletionAgreement, AuditConsistent, GenerationsCovered

\* A prune_history() call that moves on keeps to the identities it had listed
\* and to those of the step.
LEMMA PruneMoves ==
  ASSUME TypeOK, NEW p \in Pruner, NEW S \in SUBSET ids,
         NEW q \in [keep: Nat, unlisted: SUBSET Shard, listed: SUBSET ids],
         q.listed \subseteq prunes[p].listed \union S,
         prunes' = [prunes EXCEPT ![p] = Rest(q)]
  PROVE  /\ prunes' \in [Pruner -> [keep: Nat, unlisted: SUBSET Shard, listed: SUBSET ids]]
         /\ Listed' \subseteq Listed \union S
<1> DEFINE T == [keep: Nat, unlisted: SUBSET Shard, listed: SUBSET ids]
<1>1. prunes \in [Pruner -> T]
  BY DEF TypeOK
<1>2. Rest(q) \in T
  BY DEF Rest, NoPrune
<1>3. Rest(q).listed \subseteq q.listed
  BY DEF Rest, NoPrune
<1> DEFINE n == Rest(q)
<1> HIDE DEF T, n
<1>4. prunes' = [prunes EXCEPT ![p] = n] /\ n \in T /\ n.listed \subseteq prunes[p].listed \union S
  BY <1>2, <1>3 DEF n
<1>5. prunes' \in [Pruner -> T]
  BY <1>1, <1>4
<1>6. prunes'[p] = n /\ \A u \in Pruner : u # p => prunes'[u] = prunes[u]
  BY <1>1, <1>4
<1>7. ASSUME NEW u \in Pruner PROVE prunes'[u].listed \subseteq Listed \union S
  <2>1. prunes[u].listed \subseteq Listed /\ prunes[p].listed \subseteq Listed
    BY DEF Listed
  <2> QED
    BY <1>4, <1>6, <2>1
<1>8. Listed' \subseteq Listed \union S
  BY <1>7 DEF Listed
<1> QED
  BY <1>5, <1>8 DEF T

\* What the terminal records of the ledger are when prune_history() lists them.
TerminalIds == {i \in DOMAIN attempts : attempts[i].state \in Terminal}

\* Beginning a call and listing a shard touch no record, and list only terminal
\* ones.
LEMMA ListStep ==
  ASSUME TypeOK, NEW p \in Pruner, (\E keep \in Keep : prune_history(p, keep)) \/ prune_list(p)
  PROVE  /\ prunes' \in [Pruner -> [keep: Nat, unlisted: SUBSET Shard, listed: SUBSET ids]]
         /\ Listed' \subseteq Listed \union TerminalIds
         /\ UNCHANGED <<attempts, counter, highest_generation, ids, calls, told>>
<1> DEFINE T == [keep: Nat, unlisted: SUBSET Shard, listed: SUBSET ids]
<1>0. prunes \in [Pruner -> T] /\ TerminalIds \subseteq ids
  BY DEF TypeOK, TerminalIds
<1>1. ASSUME NEW keep \in Keep, prune_history(p, keep)
      PROVE  prunes' \in [Pruner -> T] /\ Listed' \subseteq Listed \union TerminalIds
  <2> DEFINE q == [keep |-> keep, unlisted |-> Shard, listed |-> {}]
  <2>1. q \in T
    BY KeepAssumption
  <2>2. prunes' = [prunes EXCEPT ![p] = q] /\ q.listed = {}
    BY <1>1 DEF prune_history
  <2> HIDE DEF q, T
  <2>3. prunes' \in [Pruner -> T]
    BY <1>0, <2>1, <2>2
  <2>4. \A u \in Pruner : prunes'[u].listed \subseteq Listed
    <3>1. prunes'[p] = q /\ \A u \in Pruner : u # p => prunes'[u] = prunes[u]
      BY <1>0, <2>2
    <3> QED
      BY <2>2, <3>1 DEF Listed
  <2> QED
    BY <2>3, <2>4 DEF Listed
<1>2. ASSUME prune_list(p)
      PROVE  prunes' \in [Pruner -> T] /\ Listed' \subseteq Listed \union TerminalIds
  <2>1. PICK s \in prunes[p].unlisted :
           prunes' = [prunes EXCEPT ![p] = Rest([prunes[p] EXCEPT !.unlisted = @ \ {s},
                 !.listed = @ \union {i \in InShard(s) : attempts[i].state \in Terminal}])]
    BY <1>2 DEF prune_list
  <2> DEFINE L == {i \in InShard(s) : attempts[i].state \in Terminal}
             q == [prunes[p] EXCEPT !.unlisted = @ \ {s}, !.listed = @ \union L]
  <2>2. L \subseteq TerminalIds
    BY DEF InShard, TerminalIds
  <2>3. prunes' = [prunes EXCEPT ![p] = Rest(q)]
    BY <2>1
  <2> HIDE DEF L
  <2>4. q \in T /\ q.listed \subseteq prunes[p].listed \union TerminalIds
    BY <1>0, <2>2
  <2> HIDE DEF q
  <2> QED
    BY <1>0, <2>3, <2>4, PruneMoves
<1>3. UNCHANGED <<attempts, counter, highest_generation, ids, calls, told>>
  BY DEF prune_history, prune_list
<1> QED
  BY <1>1, <1>2, <1>3

\* Erasing removes at most one record, and it is one that was listed.
LEMMA EraseStep ==
  ASSUME TypeOK, NEW p \in Pruner, prune_erase(p)
  PROVE  /\ prunes' \in [Pruner -> [keep: Nat, unlisted: SUBSET Shard, listed: SUBSET ids]]
         /\ Listed' \subseteq Listed
         /\ \E i \in Listed : attempts' = Remove(attempts, {i}) /\ told' = Remove(told, {i})
         /\ UNCHANGED <<counter, highest_generation, ids, calls>>
<1>1. PICK i \in prunes[p].listed :
         /\ attempts' = Remove(attempts, {i}) /\ told' = Remove(told, {i})
         /\ prunes' = [prunes EXCEPT ![p] = Rest([prunes[p] EXCEPT !.listed = @ \ {i}])]
  BY DEF prune_erase
<1> DEFINE q == [prunes[p] EXCEPT !.listed = @ \ {i}]
<1>2. prunes[p] \in [keep: Nat, unlisted: SUBSET Shard, listed: SUBSET ids]
  BY DEF TypeOK
<1>3. /\ q \in [keep: Nat, unlisted: SUBSET Shard, listed: SUBSET ids]
      /\ q.listed \subseteq prunes[p].listed \union {}
  BY <1>2
<1>4. prunes' = [prunes EXCEPT ![p] = Rest(q)]
  BY <1>1
<1> HIDE DEF q
<1>5. /\ prunes' \in [Pruner -> [keep: Nat, unlisted: SUBSET Shard, listed: SUBSET ids]]
      /\ Listed' \subseteq Listed \union {}
  BY <1>3, <1>4, PruneMoves
<1>6. i \in Listed
  BY <1>1 DEF Listed
<1>7. UNCHANGED <<counter, highest_generation, ids, calls>>
  BY DEF prune_erase
<1> QED
  BY <1>1, <1>5, <1>6, <1>7

\* The steps of prune_history() preserve the invariant.
LEMMA PruneStep ==
  ASSUME IInv, NEW p \in Pruner,
         (\E keep \in Keep : prune_history(p, keep)) \/ prune_list(p) \/ prune_erase(p)
  PROVE  IInv'
<1>0. TypeOK
  BY DEF IInv
<1>1. CASE (\E keep \in Keep : prune_history(p, keep)) \/ prune_list(p)
  <2>1. /\ prunes' \in [Pruner -> [keep: Nat, unlisted: SUBSET Shard, listed: SUBSET ids]]
        /\ UNCHANGED <<attempts, counter, highest_generation, ids, calls, told>>
    BY <1>0, <1>1, ListStep
  <2>2. TypeOK'
    BY <1>0, <2>1 DEF TypeOK
  <2> QED
    BY <2>1, <2>2 DEF IInv, CompletionAgreement, AuditConsistent, GenerationsCovered
<1>2. CASE prune_erase(p)
  <2>1. /\ prunes' \in [Pruner -> [keep: Nat, unlisted: SUBSET Shard, listed: SUBSET ids]]
        /\ UNCHANGED <<counter, highest_generation, ids, calls>>
    BY <1>0, <1>2, EraseStep
  <2>2. PICK i : attempts' = Remove(attempts, {i}) /\ told' = Remove(told, {i})
    BY <1>0, <1>2, EraseStep
  <2>3. /\ DOMAIN attempts' = DOMAIN attempts \ {i}
        /\ \A j \in DOMAIN attempts' : attempts'[j] = attempts[j] /\ told'[j] = told[j]
        /\ attempts' \in [DOMAIN attempts' -> Attempt]
        /\ told' \in [DOMAIN attempts' -> SUBSET {Key(r) : r \in Result}]
    BY <1>0, <2>2 DEF TypeOK, Remove
  <2>4. TypeOK'
    BY <1>0, <2>1, <2>3 DEF TypeOK
  <2> QED
    BY <2>1, <2>3, <2>4 DEF IInv, CompletionAgreement, AuditConsistent, GenerationsCovered
<1> QED
  BY <1>1, <1>2

-----------------------------------------------------------------------------
(* The invariant *)

\* An empty ledger satisfies the invariant.
LEMMA InitInv == Init => IInv
<1> SUFFICES ASSUME Init PROVE IInv
  OBVIOUS
<1>1. prunes \in [Pruner -> [keep: Nat, unlisted: SUBSET Shard, listed: SUBSET ids]]
  <2>1. NoPrune \in [keep: Nat, unlisted: SUBSET Shard, listed: SUBSET ids]
    BY DEF NoPrune
  <2> QED
    BY <2>1 DEF Init
<1>2. TypeOK
  BY <1>1 DEF Init, TypeOK
<1> QED
  BY <1>2 DEF Init, IInv, CompletionAgreement, AuditConsistent, GenerationsCovered

\* The five markings are transitions with fixed arguments.
LEMMA MarkStep ==
  ASSUME IInv, NEW i,
         \/ \E k \in FailureKind : mark_failed(i, k)
         \/ mark_ambiguous(i)
         \/ \E crossed \in BOOLEAN : mark_cancelled(i, crossed)
         \/ \E may_have_effect \in BOOLEAN : mark_fenced(i, may_have_effect)
         \/ mark_rejected_stale(i)
  PROVE  \E state \in Terminal, resolution \in Resolution, failure \in Failure, live \in BOOLEAN :
            transition(i, state, resolution, failure, live)
<1>1. ASSUME NEW k \in FailureKind, mark_failed(i, k)
      PROVE  \E state \in Terminal, resolution \in Resolution, failure \in Failure, live \in BOOLEAN :
                transition(i, state, resolution, failure, live)
  BY <1>1, Zenon DEF mark_failed, Terminal, Resolution, Failure
<1>2. CASE mark_ambiguous(i)
  BY <1>2, Zenon DEF mark_ambiguous, Terminal, Resolution, Failure
<1>3. ASSUME NEW b \in BOOLEAN, mark_cancelled(i, b)
      PROVE  \E state \in Terminal, resolution \in Resolution, failure \in Failure, live \in BOOLEAN :
                transition(i, state, resolution, failure, live)
  <2> DEFINE res == IF b THEN "CancelledAmbiguous" ELSE "CancelledBeforeDispatch"
  <2>1. res \in Resolution
    BY DEF Resolution
  <2>2. transition(i, "Cancelled", res, "Cancelled", TRUE)
    BY <1>3 DEF mark_cancelled
  <2> HIDE DEF res
  <2> QED
    BY <2>1, <2>2, Zenon DEF Terminal, Failure
<1>4. ASSUME NEW b \in BOOLEAN, mark_fenced(i, b)
      PROVE  \E state \in Terminal, resolution \in Resolution, failure \in Failure, live \in BOOLEAN :
                transition(i, state, resolution, failure, live)
  <2> DEFINE res == IF b THEN "FencedMayHaveEffect" ELSE "FencedNoEffect"
             fail == IF b THEN "AmbiguousOutcome" ELSE "WorkerDeath"
  <2>1. res \in Resolution /\ fail \in Failure
    BY DEF Resolution, Failure
  <2>2. transition(i, "Fenced", res, fail, TRUE)
    BY <1>4 DEF mark_fenced
  <2> HIDE DEF res, fail
  <2> QED
    BY <2>1, <2>2, Zenon DEF Terminal
<1>5. CASE mark_rejected_stale(i)
  BY <1>5, Zenon DEF mark_rejected_stale, Terminal, Resolution, Failure
<1> QED
  BY <1>1, <1>2, <1>3, <1>4, <1>5

\* IInv is inductive.
LEMMA StepInv == IInv /\ [Next]_vars => IInv'
<1> SUFFICES ASSUME IInv, [Next]_vars PROVE IInv'
  OBVIOUS
<1>0. TypeOK
  BY DEF IInv
<1>1. CASE \E s \in Shard : counter[s] < CounterBound /\ allocate_id(s)
  BY <1>1, AllocateStep
<1>2. CASE \E o \in Operation : highest_generation[o] < GenerationBound /\ allocate_generation(o)
  BY <1>2, AllocateStep
<1>3. ASSUME NEW i \in ids, NEW o \in Operation, NEW b \in Binding, NEW d \in Dispatch,
             NEW g \in 1 .. highest_generation[o],
             register_check([id |-> i, operation |-> o, generation |-> g,
                             binding |-> b, dispatch |-> d])
      PROVE  IInv'
  <2> DEFINE r == [id |-> i, operation |-> o, generation |-> g, binding |-> b, dispatch |-> d]
  <2>1. r \in Registration /\ r.id \in ids /\ r.generation <= highest_generation[r.operation]
    BY <1>0 DEF Registration, TypeOK
  <2>2. register_check(r)
    BY <1>3
  <2> HIDE DEF r
  <2> QED
    BY <2>1, <2>2, CheckStep
<1>4. CASE \E c \in calls : register_insert(c.reg)
  BY <1>4, InsertStep
<1>5. CASE \E p \in Recovered : restore_insert(p[1], p[2])
  BY <1>5, RestoreStep
<1>6. CASE \E c \in calls : restore_generation(c.reg)
  BY <1>6, RestoreGenerationStep
<1>7. CASE \E p \in Recovered : adopt_ids(p[1])
  BY <1>7, AdoptStep
<1>8. ASSUME NEW i \in DOMAIN attempts, NEW d \in Dispatch \ {0}, mark_dispatched(i, d)
      PROVE  IInv'
  BY <1>8, DispatchedStep
<1>9. ASSUME NEW i \in DOMAIN attempts,
             \/ \E k \in FailureKind : mark_failed(i, k)
             \/ mark_ambiguous(i)
             \/ \E crossed \in BOOLEAN : mark_cancelled(i, crossed)
             \/ \E may_have_effect \in BOOLEAN : mark_fenced(i, may_have_effect)
             \/ mark_rejected_stale(i)
      PROVE  IInv'
  <2>1. PICK state \in Terminal, resolution \in Resolution, failure \in Failure, live \in BOOLEAN :
           transition(i, state, resolution, failure, live)
    BY <1>9, MarkStep
  <2> QED
    BY <2>1, TransitionStep
<1>10. ASSUME NEW i \in ids, NEW g \in 1 .. GenerationBound, NEW d \in Dispatch, NEW b \in Binding,
              NEW o \in Operation, NEW r \in Result,
              commit_completion([id |-> i, generation |-> g, dispatch |-> d, binding |-> b,
                                 operation |-> o, result |-> r])
       PROVE  IInv'
  <2> DEFINE s == [id |-> i, generation |-> g, dispatch |-> d, binding |-> b,
                   operation |-> o, result |-> r]
  <2>1. s.result \in Result
    OBVIOUS
  <2>2. commit_completion(s)
    BY <1>10
  <2> HIDE DEF s
  <2> QED
    BY <2>1, <2>2, CompletionStep
<1>11. ASSUME NEW p \in Pruner,
              (\E keep \in Keep : prune_history(p, keep)) \/ prune_list(p) \/ prune_erase(p)
       PROVE  IInv'
  BY <1>11, PruneStep
<1>12. CASE UNCHANGED vars
  <2>1. TypeOK'
    BY <1>0, <1>12 DEF vars, TypeOK
  <2> QED
    BY <1>12, <2>1 DEF vars, IInv, CompletionAgreement, AuditConsistent, GenerationsCovered
<1> QED
  BY <1>1, <1>2, <1>3, <1>4, <1>5, <1>6, <1>7, <1>8, <1>9, <1>10, <1>11, <1>12, Zenon DEF Next

\* However registration, recovery, markings, completions and pruning interleave:
\* submitters agree on the committed result, audit() finds nothing, recovered
\* identities stay covered and so do the generations.
THEOREM LedgerInvariant ==
  Spec => [](TypeOK /\ CompletionAgreement /\ AuditConsistent /\ GenerationsCovered)
<1>1. IInv => TypeOK /\ CompletionAgreement /\ AuditConsistent /\ GenerationsCovered
  BY DEF IInv
<1> QED
  BY <1>1, InitInv, StepInv, PTL DEF Spec

-----------------------------------------------------------------------------
(* What a step may do to the records *)

Added(i, a) ==
  /\ i \notin DOMAIN attempts
  /\ attempts' = Insert(attempts, i, a)
  /\ (a.state \in Live /\ ~a.completion_committed) \/ Saved(a)
  /\ UNCHANGED prunes

Changed(i, a) ==
  /\ i \in DOMAIN attempts
  /\ attempts' = [attempts EXCEPT ![i] = a]
  /\ ~attempts[i].completion_committed
  /\ \/ attempts[i].state \in Live /\ ~a.completion_committed
     \/ /\ attempts[i].state \in Live /\ a.completion_committed
        /\ a.state \in Terminal /\ a.result \in Result
     \/ /\ attempts[i].state \in Terminal /\ ~a.completion_committed
        /\ a.state = "RejectedStale"
  /\ UNCHANGED prunes

Kept ==
  /\ UNCHANGED attempts
  /\ Listed' \subseteq Listed \union TerminalIds

Dropped(i) ==
  /\ i \in Listed
  /\ Listed' \subseteq Listed
  /\ attempts' = Remove(attempts, {i})

\* Every step leaves the records alone and lists only terminal ones, adds one,
\* changes one, or drops one that was listed.
StepOfRecords ==
  \/ Kept
  \/ \E a \in Attempt : \E i : Added(i, a) \/ Changed(i, a)
  \/ \E i : Dropped(i)

\* A step that neither touches a record nor a prune_history() call.
LEMMA NothingKept == ASSUME UNCHANGED <<attempts, prunes>> PROVE StepOfRecords
BY DEF StepOfRecords, Kept, Listed

\* No state is both live and terminal.
LEMMA StatesDiffer == Live \intersect Terminal = {}
BY DEF Live, Terminal

\* A marking with require_live set finds its attempt live; only
\* mark_rejected_stale() clears the flag.
LEMMA TransitionChanges ==
  ASSUME IInv, NEW i, NEW state \in Terminal,
         NEW resolution \in Resolution, NEW failure \in Failure, NEW live \in BOOLEAN,
         transition(i, state, resolution, failure, live),
         live \/ state = "RejectedStale"
  PROVE  StepOfRecords
<1>0. TypeOK /\ i \in DOMAIN attempts
  BY DEF IInv, transition
<1>1. PICK a \in Attempt :
            /\ attempts' = [attempts EXCEPT ![i] = a]
            /\ a.state = state
            /\ a.operation = attempts[i].operation /\ a.generation = attempts[i].generation
            /\ ~a.completion_committed
  BY <1>0, TransitionRecord
<1>2. ~attempts[i].completion_committed /\ (live => attempts[i].state \notin Terminal) /\ UNCHANGED prunes
  BY DEF transition
<1>3. attempts[i].state \in Live \union Terminal
  BY <1>0 DEF TypeOK, Attempt
<1>4. Changed(i, a)
  BY <1>0, <1>1, <1>2, <1>3 DEF Changed
<1> QED
  BY <1>4 DEF StepOfRecords

\* The markings again, with what TransitionChanges needs.
LEMMA MarkChanges ==
  ASSUME IInv, NEW i,
         \/ \E k \in FailureKind : mark_failed(i, k)
         \/ mark_ambiguous(i)
         \/ \E crossed \in BOOLEAN : mark_cancelled(i, crossed)
         \/ \E may_have_effect \in BOOLEAN : mark_fenced(i, may_have_effect)
         \/ mark_rejected_stale(i)
  PROVE  StepOfRecords
<1>0. ASSUME NEW state \in Terminal, NEW resolution \in Resolution, NEW failure \in Failure,
             transition(i, state, resolution, failure, TRUE)
      PROVE  StepOfRecords
  BY <1>0, TransitionChanges
<1>1. ASSUME NEW k \in FailureKind, mark_failed(i, k) PROVE StepOfRecords
  BY <1>0, <1>1, Zenon DEF mark_failed, Terminal, Resolution, Failure
<1>2. CASE mark_ambiguous(i)
  BY <1>0, <1>2, Zenon DEF mark_ambiguous, Terminal, Resolution, Failure
<1>3. ASSUME NEW b \in BOOLEAN, mark_cancelled(i, b) PROVE StepOfRecords
  <2> DEFINE res == IF b THEN "CancelledAmbiguous" ELSE "CancelledBeforeDispatch"
  <2>1. res \in Resolution
    BY DEF Resolution
  <2>2. transition(i, "Cancelled", res, "Cancelled", TRUE)
    BY <1>3 DEF mark_cancelled
  <2> HIDE DEF res
  <2> QED
    BY <1>0, <2>1, <2>2, Zenon DEF Terminal, Failure
<1>4. ASSUME NEW b \in BOOLEAN, mark_fenced(i, b) PROVE StepOfRecords
  <2> DEFINE res == IF b THEN "FencedMayHaveEffect" ELSE "FencedNoEffect"
             fail == IF b THEN "AmbiguousOutcome" ELSE "WorkerDeath"
  <2>1. res \in Resolution /\ fail \in Failure
    BY DEF Resolution, Failure
  <2>2. transition(i, "Fenced", res, fail, TRUE)
    BY <1>4 DEF mark_fenced
  <2> HIDE DEF res, fail
  <2> QED
    BY <1>0, <2>1, <2>2, Zenon DEF Terminal
<1>5. CASE mark_rejected_stale(i)
  <2>1. "RejectedStale" \in Terminal /\ "None" \in Resolution /\ "PreDispatchRejection" \in Failure
    BY DEF Terminal, Resolution, Failure
  <2>2. transition(i, "RejectedStale", "None", "PreDispatchRejection", FALSE)
    BY <1>5 DEF mark_rejected_stale
  <2> QED
    BY <2>1, <2>2, TransitionChanges
<1> QED
  BY <1>1, <1>2, <1>3, <1>4, <1>5

\* commit_completion() changes at most the record it addresses, and closes it.
LEMMA CompletionChanges ==
  ASSUME IInv, NEW s, s.result \in Result, commit_completion(s)
  PROVE  StepOfRecords
<1>0. TypeOK /\ s.id \in DOMAIN attempts
  BY DEF IInv, commit_completion, Addressed
<1>0a. UNCHANGED prunes
  BY DEF commit_completion
<1>1. CASE UNCHANGED attempts
  BY <1>0a, <1>1, NothingKept
<1>2. CASE /\ ~attempts[s.id].completion_committed
           /\ attempts[s.id].state \notin Terminal
           /\ CommitResult(s.id, s.result)
  <2> DEFINE i == s.id
  <2>1. PICK a \in Attempt :
            /\ attempts' = [attempts EXCEPT ![i] = a]
            /\ a.operation = attempts[i].operation /\ a.generation = attempts[i].generation
            /\ a.completion_committed = TRUE /\ a.result = s.result
            /\ a.state = IF s.result.success THEN "Completed" ELSE "Failed"
            /\ a.resolution # "None"
    BY <1>0, <1>2, CommitRecord
  <2>2. a.state \in Terminal /\ a.completion_committed
    BY <2>1 DEF Terminal
  <2>3. attempts[i].state \in Live
    BY <1>0, <1>2 DEF TypeOK, Attempt
  <2>4. Changed(i, a)
    BY <1>0, <1>0a, <1>2, <2>1, <2>2, <2>3 DEF Changed
  <2> QED
    BY <2>4 DEF StepOfRecords
<1> QED
  BY <1>1, <1>2 DEF commit_completion

\* What any step of the ledger may do to the records.
LEMMA StepRecords == IInv /\ [Next]_vars => StepOfRecords
<1> SUFFICES ASSUME IInv, [Next]_vars PROVE StepOfRecords
  OBVIOUS
<1>1. CASE UNCHANGED <<attempts, prunes>>
  BY <1>1, NothingKept
<1>2. ASSUME NEW c \in calls, register_insert(c.reg) PROVE StepOfRecords
  <2> DEFINE r == c.reg
  <2>1. [op |-> "register", reg |-> r] \in calls
    BY <1>2 DEF register_insert
  <2>2. r \in Registration
    BY <2>1 DEF IInv, TypeOK
  <2>3. NewAttempt(r) \in Attempt
    BY <2>2 DEF NewAttempt, Attempt, Registration, Live, Resolution, Failure
  <2>4. NewAttempt(r).state \in Live /\ ~NewAttempt(r).completion_committed
    BY DEF NewAttempt, Live
  <2>5. /\ UNCHANGED attempts \/ (r.id \notin DOMAIN attempts /\ attempts' = Insert(attempts, r.id, NewAttempt(r)))
        /\ UNCHANGED prunes
    BY <1>2 DEF register_insert
  <2>6. UNCHANGED <<attempts, prunes>> \/ Added(r.id, NewAttempt(r))
    BY <2>4, <2>5 DEF Added
  <2> QED
    BY <1>1, <2>3, <2>6 DEF StepOfRecords
<1>3. ASSUME NEW p \in Recovered, restore_insert(p[1], p[2]) PROVE StepOfRecords
  <2>1. p[2] \in Attempt /\ Saved(p[2])
    BY RecoveredAssumption
  <2>2. Added(p[1], p[2])
    BY <1>3, <2>1 DEF restore_insert, Added
  <2> QED
    BY <2>1, <2>2 DEF StepOfRecords
<1>4. ASSUME NEW i \in DOMAIN attempts, NEW d \in Dispatch, mark_dispatched(i, d) PROVE StepOfRecords
  <2> DEFINE a == [attempts[i] EXCEPT !.dispatch = d, !.state = "Dispatched"]
  <2>1. attempts[i] \in Attempt
    BY DEF IInv, TypeOK
  <2>2. a \in Attempt
    BY <2>1 DEF Attempt, Live
  <2>3. a.completion_committed = attempts[i].completion_committed
    BY <2>1 DEF Attempt
  <2>4. attempts' = [attempts EXCEPT ![i] = a] /\ attempts[i].state = "Dispatching" /\ UNCHANGED prunes
    BY <1>4 DEF mark_dispatched
  <2>5. ~attempts[i].completion_committed
    BY <2>4 DEF IInv, AuditConsistent
  <2> HIDE DEF a
  <2>6. Changed(i, a)
    BY <2>3, <2>4, <2>5 DEF Changed, Live
  <2> QED
    BY <2>2, <2>6 DEF StepOfRecords
<1>5. ASSUME NEW i \in DOMAIN attempts,
             \/ \E k \in FailureKind : mark_failed(i, k)
             \/ mark_ambiguous(i)
             \/ \E crossed \in BOOLEAN : mark_cancelled(i, crossed)
             \/ \E may_have_effect \in BOOLEAN : mark_fenced(i, may_have_effect)
             \/ mark_rejected_stale(i)
      PROVE  StepOfRecords
  BY <1>5, MarkChanges
<1>6. ASSUME NEW i \in ids, NEW g \in 1 .. GenerationBound, NEW d \in Dispatch, NEW b \in Binding,
             NEW o \in Operation, NEW r \in Result,
             commit_completion([id |-> i, generation |-> g, dispatch |-> d, binding |-> b,
                                operation |-> o, result |-> r])
      PROVE  StepOfRecords
  <2> DEFINE s == [id |-> i, generation |-> g, dispatch |-> d, binding |-> b,
                   operation |-> o, result |-> r]
  <2>1. s.result \in Result /\ commit_completion(s)
    BY <1>6
  <2> HIDE DEF s
  <2> QED
    BY <2>1, CompletionChanges
<1>7. ASSUME NEW p \in Pruner,
             (\E keep \in Keep : prune_history(p, keep)) \/ prune_list(p) \/ prune_erase(p)
      PROVE  StepOfRecords
  <2>0. TypeOK
    BY DEF IInv
  <2>1. CASE (\E keep \in Keep : prune_history(p, keep)) \/ prune_list(p)
    BY <2>0, <2>1, ListStep DEF StepOfRecords, Kept
  <2>2. CASE prune_erase(p)
    BY <2>0, <2>2, EraseStep DEF StepOfRecords, Dropped
  <2> QED
    BY <1>7, <2>1, <2>2
<1>8. ASSUME \/ \E s \in Shard : allocate_id(s)
             \/ \E o \in Operation : allocate_generation(o)
             \/ \E r : register_check(r)
             \/ \E r : restore_generation(r)
             \/ \E i : adopt_ids(i)
             \/ UNCHANGED vars
      PROVE  UNCHANGED <<attempts, prunes>>
  BY <1>8 DEF allocate_id, allocate_generation, register_check, restore_generation, adopt_ids, vars
<1> QED
  BY <1>1, <1>2, <1>3, <1>4, <1>5, <1>6, <1>7, <1>8, Zenon DEF Next

\* A terminal record is never altered while it is retained, except that one
\* without a committed completion may be relabelled kRejectedStale.
THEOREM TerminalStaysTerminal == Spec => TerminalForever
<1> DEFINE P == \A i \in DOMAIN attempts :
                  attempts[i].state \in Terminal =>
                    \/ i \notin DOMAIN attempts'
                    \/ attempts'[i] = attempts[i]
                    \/ ~attempts[i].completion_committed /\ attempts'[i].state = "RejectedStale"
<1>1. IInv /\ [Next]_vars => [P]_vars
  <2> SUFFICES ASSUME IInv, [Next]_vars PROVE P
    OBVIOUS
  <2>1. StepOfRecords
    BY StepRecords
  <2>2. attempts \in [DOMAIN attempts -> Attempt]
    BY DEF IInv, TypeOK
  <2>3. CASE Kept
    BY <2>3 DEF Kept
  <2>4. ASSUME NEW i, NEW a \in Attempt, Added(i, a) PROVE P
    <3>1. \A j \in DOMAIN attempts : attempts'[j] = attempts[j]
      BY <2>4 DEF Added, Insert
    <3> QED
      BY <3>1
  <2>5. ASSUME NEW i, NEW a \in Attempt, Changed(i, a) PROVE P
    BY <2>2, <2>5, StatesDiffer DEF Changed
  <2>6. ASSUME NEW i, Dropped(i) PROVE P
    BY <2>6 DEF Dropped, Remove
  <2> QED
    BY <2>1, <2>3, <2>4, <2>5, <2>6 DEF StepOfRecords
<1> QED
  BY <1>1, InitInv, StepInv, PTL DEF Spec, TerminalForever

-----------------------------------------------------------------------------
(* The refinement *)

\* A step of the records is a step of the completion authority, or invisible.
LEMMA StepAuthority == IInv /\ StepOfRecords => [Authority!Next]_(Authority!vars)
<1> SUFFICES ASSUME IInv, StepOfRecords
             PROVE  Authority!Next \/ UNCHANGED <<OutcomeView, Listed>>
  BY Zenon DEF Authority!vars
<1> DEFINE V(a) == [open |-> a.state \in Live,
                    result |-> IF a.completion_committed THEN {a.result} ELSE {}]
<1>0. /\ DOMAIN OutcomeView = DOMAIN attempts
      /\ DOMAIN OutcomeView' = DOMAIN attempts'
      /\ \A i \in DOMAIN attempts : OutcomeView[i] = V(attempts[i])
      /\ \A i \in DOMAIN attempts' : OutcomeView'[i] = V(attempts'[i])
      /\ OutcomeView = [i \in DOMAIN OutcomeView |-> OutcomeView[i]]
      /\ OutcomeView' = [i \in DOMAIN OutcomeView' |-> OutcomeView'[i]]
  BY DEF OutcomeView
<1>0a. attempts \in [DOMAIN attempts -> Attempt]
  BY DEF IInv, TypeOK
<1>1. CASE Kept
  <2>1. UNCHANGED OutcomeView
    BY <1>1 DEF Kept, OutcomeView
  <2>2. TerminalIds \subseteq Authority!Settled
    <3>1. \A j \in TerminalIds : j \in DOMAIN OutcomeView /\ OutcomeView[j] = V(attempts[j]) /\ attempts[j].state \notin Live
      BY <1>0, StatesDiffer DEF TerminalIds
    <3>2. \A j \in TerminalIds : ~V(attempts[j]).open
      BY <3>1, Zenon
    <3> QED
      BY <3>1, <3>2, Zenon DEF Authority!Settled
  <2>3. Authority!Pick
    BY <1>1, <2>1, <2>2 DEF Kept, Authority!Pick
  <2> QED
    BY <2>3 DEF Authority!Next
<1>2. ASSUME NEW i, NEW a \in Attempt, Added(i, a) PROVE Authority!Next
  <2>1. /\ i \notin DOMAIN OutcomeView /\ i \in DOMAIN OutcomeView'
        /\ OutcomeView' = [j \in DOMAIN OutcomeView \union {i} |-> IF j = i THEN V(a) ELSE OutcomeView[j]]
    <3>1. /\ DOMAIN attempts' = DOMAIN attempts \union {i}
          /\ attempts'[i] = a
          /\ \A j \in DOMAIN attempts : attempts'[j] = attempts[j]
          /\ i \notin DOMAIN attempts
      BY <1>2 DEF Added, Insert
    <3>2. OutcomeView'[i] = V(a) /\ \A j \in DOMAIN attempts : OutcomeView'[j] = OutcomeView[j]
      BY <1>0, <3>1
    <3> HIDE DEF V
    <3> QED
      BY <1>0, <3>1, <3>2
  <2>2. Authority!Enter(i, V(a))
    <3>1. Listed' = Listed
      BY <1>2 DEF Added, Listed
    <3> QED
      BY <2>1, <3>1 DEF Authority!Enter
  <2>3. CASE a.state \in Live /\ ~a.completion_committed
    <3>1. V(a) = [open |-> TRUE, result |-> {}]
      BY <2>3, Zenon
    <3>2. Authority!Begin(i)
      BY <2>2, <3>1, Zenon DEF Authority!Begin
    <3> QED
      BY <2>1, <3>2 DEF Authority!Next
  <2>4. CASE Saved(a)
    <3>1. (a.state \in Live) = FALSE
      BY <2>4, StatesDiffer DEF Saved
    <3>2. CASE ~a.completion_committed
      <4>1. V(a) = [open |-> FALSE, result |-> {}]
        BY <3>1, <3>2, Zenon
      <4> QED
        BY <2>1, <2>2, <4>1, Zenon DEF Authority!Recover, Authority!Next
    <3>3. CASE a.completion_committed
      <4>1. V(a) = [open |-> FALSE, result |-> {a.result}]
        BY <3>1, <3>3, Zenon
      <4>2. a.result \in Result
        BY <2>4, <3>3 DEF Saved
      <4> QED
        BY <2>1, <2>2, <4>1, <4>2, Zenon DEF Authority!Recover, Authority!Next
    <3> QED
      BY <3>2, <3>3
  <2> QED
    BY <1>2, <2>3, <2>4 DEF Added
<1>3. ASSUME NEW i, NEW a \in Attempt, Changed(i, a)
      PROVE  Authority!Next \/ UNCHANGED <<OutcomeView, Listed>>
  <2>1. i \in DOMAIN OutcomeView /\ OutcomeView' = [OutcomeView EXCEPT ![i] = V(a)]
    <3>1. /\ i \in DOMAIN attempts /\ DOMAIN attempts' = DOMAIN attempts
          /\ attempts'[i] = a
          /\ \A j \in DOMAIN attempts : j # i => attempts'[j] = attempts[j]
      BY <1>0a, <1>3 DEF Changed
    <3>2. OutcomeView'[i] = V(a) /\ \A j \in DOMAIN attempts : j # i => OutcomeView'[j] = OutcomeView[j]
      BY <1>0, <3>1
    <3> HIDE DEF V
    <3> QED
      BY <1>0, <3>1, <3>2
  <2>2. OutcomeView[i] = V(attempts[i])
    BY <1>0, <2>1
  <2>3. ~attempts[i].completion_committed
    BY <1>3 DEF Changed
  <2>3a. Listed' = Listed
    BY <1>3 DEF Changed, Listed
  <2>4. CASE attempts[i].state \in Live /\ a.state \in Live /\ ~a.completion_committed
    <3>1. V(a) = V(attempts[i])
      BY <2>3, <2>4, Zenon
    <3> HIDE DEF V
    <3> QED
      BY <1>0, <2>1, <2>2, <2>3a, <3>1
  <2>5. CASE attempts[i].state \in Live /\ a.state \notin Live
    <3>0. (a.state \in Live) = FALSE
      BY <2>5
    <3>1. OutcomeView[i].open
      <4>1. V(attempts[i]).open
        BY <2>5, Zenon
      <4> HIDE DEF V
      <4> QED
        BY <2>2, <4>1, Zenon
    <3>2. CASE ~a.completion_committed
      <4>1. V(a) = [open |-> FALSE, result |-> {}]
        BY <3>0, <3>2, Zenon
      <4>2. Authority!Close(i)
        BY <2>1, <2>3a, <3>1, <4>1, Zenon DEF Authority!Close, Authority!Settle
      <4> QED
        BY <2>1, <4>2 DEF Authority!Next
    <3>3. CASE a.completion_committed
      <4>1. V(a) = [open |-> FALSE, result |-> {a.result}]
        BY <3>0, <3>3, Zenon
      <4>2. a.result \in Result
        BY <1>3, <3>3 DEF Changed
      <4>3. Authority!Decide(i)
        BY <2>1, <2>3a, <3>1, <4>1, <4>2, Zenon DEF Authority!Decide, Authority!Settle
      <4> QED
        BY <2>1, <4>3 DEF Authority!Next
    <3> QED
      BY <3>2, <3>3
  <2>6. CASE attempts[i].state \in Terminal /\ ~a.completion_committed /\ a.state = "RejectedStale"
    <3>1. (attempts[i].state \in Live) = (a.state \in Live)
      BY <2>6, StatesDiffer DEF Live
    <3>2. V(a) = V(attempts[i])
      BY <2>3, <2>6, <3>1, Zenon
    <3> HIDE DEF V
    <3> QED
      BY <1>0, <2>1, <2>2, <2>3a, <3>2
  <2> QED
    BY <1>3, <2>4, <2>5, <2>6, StatesDiffer DEF Changed
<1>4. ASSUME NEW i, Dropped(i) PROVE Authority!Next
  <2>1. OutcomeView' = [j \in DOMAIN OutcomeView \ {i} |-> OutcomeView[j]]
    <3>1. DOMAIN attempts' = DOMAIN attempts \ {i} /\ \A j \in DOMAIN attempts' : attempts'[j] = attempts[j]
      BY <1>4 DEF Dropped, Remove
    <3>2. \A j \in DOMAIN attempts' : OutcomeView'[j] = OutcomeView[j]
      BY <1>0, <3>1
    <3> QED
      BY <1>0, <3>1, <3>2
  <2>2. i \in Listed /\ Listed' \subseteq Listed
    BY <1>4 DEF Dropped
  <2>3. Authority!Forget(i)
    BY <2>1, <2>2 DEF Authority!Forget
  <2> QED
    BY <2>2, <2>3 DEF Authority!Next
<1> QED
  BY <1>1, <1>2, <1>3, <1>4 DEF StepOfRecords

\* The ledger implements the completion authority for any number of concurrent
\* prune_history() calls, each of them listing and erasing shard by shard: an
\* attempt is decided or closed at most once, and whatever is forgotten was
\* found terminal by the call that erases it.
THEOREM LedgerImplementsAuthority == Spec => ImplementsAuthority
<1>1. Init => Authority!Init
  BY DEF Init, Authority!Init, OutcomeView, Listed, NoPrune
<1> QED
  BY <1>1, InitInv, StepInv, StepRecords, StepAuthority, PTL
  DEF Spec, ImplementsAuthority, Authority!Spec
=============================================================================
