--------------------------- MODULE ConnLockProofs ---------------------------
(***************************************************************************)
(* Proofs about ConnLock: for any set of requests, what the mutex          *)
(* guarantees and what the handlers make of it.                            *)
(***************************************************************************)
EXTENDS ConnLock, SequenceTheorems, TLAPS

(***************************************************************************)
(* Sequences without one of their elements.                                *)
(***************************************************************************)
LEMMA RemoveAtFacts ==
  ASSUME NEW S, NEW w \in Seq(S), NEW i \in 1..Len(w)
  PROVE  /\ RemoveAt(w, i) \in Seq(S)
         /\ Len(RemoveAt(w, i)) = Len(w) - 1
         /\ \A j \in 1..(Len(w) - 1) :
              RemoveAt(w, i)[j] = IF j < i THEN w[j] ELSE w[j + 1]
<1>1. PICK a : a = SubSeq(w, 1, i - 1)
  OBVIOUS
<1>2. PICK b : b = SubSeq(w, i + 1, Len(w))
  OBVIOUS
<1>3. Len(w) \in Nat /\ \A j \in 1..Len(w) : w[j] \in S
  BY ElementOfSeq, LenProperties
<1>4. /\ a \in Seq(S) /\ Len(a) = i - 1
      /\ \A j \in 1..(i - 1) : a[j] = w[j]
  <2>1. \A j \in 1..(i - 1) : w[j] \in S
    BY <1>3
  <2>2. QED
    BY <1>1, <1>3, <2>1, SubSeqProperties
<1>5. /\ b \in Seq(S) /\ Len(b) = Len(w) - i
      /\ \A j \in 1..(Len(w) - i) : b[j] = w[i + j]
  <2>1. \A j \in (i + 1)..Len(w) : w[j] \in S
    BY <1>3
  <2>2. /\ b \in Seq(S)
        /\ Len(b) = IF i + 1 <= Len(w) THEN Len(w) - (i + 1) + 1 ELSE 0
        /\ \A j \in 1..(Len(w) - (i + 1) + 1) : b[j] = w[(i + 1) + j - 1]
    BY <1>2, <1>3, <2>1, SubSeqProperties
  <2>3. Len(b) = Len(w) - i
    BY <1>3, <2>2
  <2>4. \A j \in 1..(Len(w) - i) : b[j] = w[i + j]
    BY <1>3, <2>2
  <2>5. QED
    BY <2>2, <2>3, <2>4
<1>6. RemoveAt(w, i) = a \o b
  BY <1>1, <1>2 DEF RemoveAt
<1>7. /\ a \o b \in Seq(S) /\ Len(a \o b) = (i - 1) + (Len(w) - i)
      /\ \A j \in 1..((i - 1) + (Len(w) - i)) :
           (a \o b)[j] = IF j <= i - 1 THEN a[j] ELSE b[j - (i - 1)]
  <2>1. /\ a \o b \in Seq(S) /\ Len(a \o b) = Len(a) + Len(b)
        /\ \A j \in 1..(Len(a) + Len(b)) :
             (a \o b)[j] = IF j <= Len(a) THEN a[j] ELSE b[j - Len(a)]
    BY <1>4, <1>5, ConcatProperties
  <2>2. Len(a) = i - 1 /\ Len(b) = Len(w) - i
    BY <1>4, <1>5
  <2>3. QED
    BY <2>1, <2>2
<1>8. Len(a \o b) = Len(w) - 1
  BY <1>3, <1>7
<1>9. ASSUME NEW j \in 1..(Len(w) - 1)
      PROVE  (a \o b)[j] = IF j < i THEN w[j] ELSE w[j + 1]
  <2>1. (a \o b)[j] = IF j <= i - 1 THEN a[j] ELSE b[j - (i - 1)]
    BY <1>3, <1>7
  <2>2. j < i => a[j] = w[j]
    BY <1>3, <1>4
  <2>3. ~(j < i) => b[j - (i - 1)] = w[j + 1]
    <3>1. ~(j < i) => j - (i - 1) \in 1..(Len(w) - i) /\ i + (j - (i - 1)) = j + 1
      BY <1>3
    <3>2. QED
      BY <1>5, <3>1
  <2>4. QED
    BY <1>3, <2>1, <2>2, <2>3
<1>10. QED
  BY <1>6, <1>7, <1>8, <1>9

-----------------------------------------------------------------------------
(* The types.                                                              *)

LEMMA SuccessorsAreSections == \A s \in Section : Successors(s) \subseteq Section
  BY DEF Successors

LEMMA QueueFacts ==
  ASSUME NEW S, NEW w \in Seq(S)
  PROVE  /\ Len(w) \in Nat /\ DOMAIN w = 1..Len(w)
         /\ \A i \in DOMAIN w : w[i] \in S
         /\ w = <<>> <=> Len(w) = 0
         /\ w # <<>> => /\ Head(w) \in S /\ Head(w) = w[1]
                        /\ Tail(w) \in Seq(S) /\ DOMAIN Tail(w) = 1..(Len(w) - 1)
                        /\ \A i \in 1..(Len(w) - 1) : Tail(w)[i] = w[i + 1]
<1>1. Len(w) \in Nat /\ DOMAIN w = 1..Len(w)
  BY LenProperties
<1>2. \A i \in DOMAIN w : w[i] \in S
  BY <1>1, ElementOfSeq
<1>3. w = <<>> <=> Len(w) = 0
  BY EmptySeq
<1>4. ASSUME w # <<>>
      PROVE  /\ Head(w) \in S /\ Head(w) = w[1]
             /\ Tail(w) \in Seq(S) /\ DOMAIN Tail(w) = 1..(Len(w) - 1)
             /\ \A i \in 1..(Len(w) - 1) : Tail(w)[i] = w[i + 1]
  <2>1. /\ Head(w) \in S /\ Tail(w) \in Seq(S) /\ Len(Tail(w)) = Len(w) - 1
        /\ \A i \in 1..Len(Tail(w)) : Tail(w)[i] = w[i + 1]
    BY <1>4, HeadTailProperties
  <2>2. Head(w) = w[1]
    BY <1>4
  <2>3. DOMAIN Tail(w) = 1..Len(Tail(w))
    BY <2>1, LenProperties
  <2>4. QED
    BY <2>1, <2>2, <2>3
<1>5. QED
  BY <1>1, <1>2, <1>3, <1>4
-----------------------------------------------------------------------------
(* The mutex.                                                              *)

\* The permit is with one request, which is woken or holds it.
PermitOK ==
  /\ \A r \in Requests : r \in guards <=> task[r] \in {"woken", "holding"}
  /\ \A r, s \in guards : r = s

\* The queue has each waiting request once, and is empty while the permit is free.
QueueOK ==
  /\ \A i, j \in DOMAIN waiters : waiters[i] = waiters[j] => i = j
  /\ \A r \in Requests : task[r] = "queued" <=> \E i \in DOMAIN waiters : waiters[i] = r
  /\ guards = {} => waiters = <<>>

LockInv == TypeOK /\ PermitOK /\ QueueOK

LEMMA InitLocked == Init => LockInv
<1> SUFFICES ASSUME Init PROVE LockInv
  OBVIOUS
<1>1. <<>> \in Seq(Requests) /\ DOMAIN waiters = {}
  BY EmptySeq, LenProperties DEF Init
<1>2. TypeOK
  BY <1>1 DEF Init, TypeOK, Section, Holds
<1>3. PermitOK /\ QueueOK
  BY <1>1 DEF Init, PermitOK, QueueOK
<1>4. QED
  BY <1>2, <1>3 DEF LockInv

(***************************************************************************)
(* Giving up the permit keeps the mutex in order.                          *)
(***************************************************************************)
LEMMA HandOnKeepsOrder ==
  ASSUME LockInv, NEW r \in Requests, r \in guards,
         NEW state \in {"ready", "gone"}, HandOn(r, state)
  PROVE  PermitOK' /\ QueueOK'
<1>1. guards = {r} /\ task[r] # "queued"
  BY DEF LockInv, PermitOK, QueueOK
<1>2. CASE waiters = <<>>
  <2>1. /\ guards' = {} /\ waiters' = waiters
        /\ task' = [task EXCEPT ![r] = state]
    BY <1>1, <1>2 DEF HandOn
  <2>2. task'[r] = state /\ \A s \in Requests : s # r => task'[s] = task[s]
    BY <2>1 DEF LockInv, TypeOK
  <2>3. PermitOK'
    BY <1>1, <2>1, <2>2 DEF LockInv, PermitOK
  <2>4. QueueOK'
    BY <1>1, <1>2, <2>1, <2>2 DEF LockInv, QueueOK
  <2>5. QED
    BY <2>3, <2>4
<1>3. CASE waiters # <<>>
  <2>1. PICK h : h = Head(waiters)
    OBVIOUS
  <2>2. /\ Len(waiters) \in Nat /\ Len(waiters) # 0 /\ DOMAIN waiters = 1..Len(waiters)
        /\ h \in Requests /\ h = waiters[1]
        /\ DOMAIN Tail(waiters) = 1..(Len(waiters) - 1)
        /\ \A i \in 1..(Len(waiters) - 1) : Tail(waiters)[i] = waiters[i + 1]
    BY <1>3, <2>1, QueueFacts DEF LockInv, TypeOK
  <2>3. task[h] = "queued" /\ h # r
    BY <1>1, <2>2 DEF LockInv, QueueOK
  <2>4. /\ guards' = {h} /\ waiters' = Tail(waiters)
        /\ task' = [task EXCEPT ![r] = state, ![h] = "woken"]
    BY <1>1, <1>3, <2>1 DEF HandOn
  <2>5. /\ task'[r] = state /\ task'[h] = "woken"
        /\ \A s \in Requests : s # r /\ s # h => task'[s] = task[s]
    BY <2>2, <2>3, <2>4 DEF LockInv, TypeOK
  <2>6. PermitOK'
    BY <1>1, <2>3, <2>4, <2>5 DEF LockInv, PermitOK
  <2>7. \A i, j \in DOMAIN waiters' : waiters'[i] = waiters'[j] => i = j
    BY <2>2, <2>4 DEF LockInv, QueueOK
  <2>8. ASSUME NEW s \in Requests
        PROVE  task'[s] = "queued" <=> \E i \in DOMAIN waiters' : waiters'[i] = s
    <3>1. CASE s = h
      <4>1. \A i \in 1..(Len(waiters) - 1) : waiters[i + 1] # h
        BY <2>2 DEF LockInv, QueueOK
      <4>2. QED
        BY <2>2, <2>4, <2>5, <3>1, <4>1
    <3>2. CASE s # h
      <4>1. task'[s] = "queued" <=> task[s] = "queued"
        BY <1>1, <2>3, <2>5, <3>2
      <4>2. task[s] = "queued" <=> \E i \in 1..Len(waiters) : waiters[i] = s
        BY <2>2 DEF LockInv, QueueOK
      <4>3. (\E i \in 1..Len(waiters) : waiters[i] = s)
              <=> \E i \in 1..(Len(waiters) - 1) : waiters[i + 1] = s
        <5>1. ASSUME NEW i \in 1..Len(waiters), waiters[i] = s
              PROVE  \E j \in 1..(Len(waiters) - 1) : waiters[j + 1] = s
          <6>1. i - 1 \in 1..(Len(waiters) - 1) /\ (i - 1) + 1 = i
            BY <2>2, <3>2, <5>1
          <6>2. QED
            BY <5>1, <6>1
        <5>2. \A i \in 1..(Len(waiters) - 1) : i + 1 \in 1..Len(waiters)
          BY <2>2
        <5>3. QED
          BY <5>1, <5>2
      <4>4. QED
        BY <2>2, <2>4, <4>1, <4>2, <4>3
    <3>3. QED
      BY <3>1, <3>2
  <2>9. QED
    BY <2>4, <2>6, <2>7, <2>8 DEF QueueOK
<1>4. QED
  BY <1>2, <1>3

\* and the types, whatever section r goes on to.
LEMMA HandOnKeepsTypes ==
  ASSUME LockInv, NEW r \in Requests, r \in guards,
         NEW state \in {"ready", "gone"}, HandOn(r, state),
         section' \in [Requests -> Section],
         \A s \in Requests : s # r => section'[s] = section[s]
  PROVE  TypeOK'
<1>1. task[r] # "queued"
  BY DEF LockInv, PermitOK
<1>2. CASE waiters = <<>>
  BY <1>2 DEF LockInv, TypeOK, HandOn
<1>3. CASE waiters # <<>>
  <2>1. PICK h : h = Head(waiters)
    OBVIOUS
  <2>2. h \in Requests /\ Tail(waiters) \in Seq(Requests) /\ \E i \in DOMAIN waiters : waiters[i] = h
    <3>1. h = waiters[1] /\ 1 \in DOMAIN waiters
      BY <1>3, <2>1, QueueFacts DEF LockInv, TypeOK
    <3>2. QED
      BY <1>3, <2>1, <3>1, QueueFacts DEF LockInv, TypeOK
  <2>3. task[h] = "queued" /\ section[h] \in Holds
    BY <2>2 DEF LockInv, TypeOK, QueueOK
  <2>4. /\ guards' = (guards \ {r}) \union {h} /\ waiters' = Tail(waiters)
        /\ task' = [task EXCEPT ![r] = state, ![h] = "woken"]
    BY <1>3, <2>1 DEF HandOn
  <2>5. QED
    BY <1>1, <2>2, <2>3, <2>4 DEF LockInv, TypeOK
<1>4. QED
  BY <1>2, <1>3

-----------------------------------------------------------------------------
(* The steps.                                                              *)

LEMMA LockStep ==
  ASSUME LockInv, NEW r \in Requests, Lock(r)
  PROVE  LockInv'
<1>1. /\ r \notin guards /\ \A i \in DOMAIN waiters : waiters[i] # r
      /\ section[r] \in Holds
  BY DEF LockInv, PermitOK, QueueOK, Lock
<1>2. CASE guards = {}
  <2>1. /\ guards' = {r} /\ waiters' = <<>> /\ waiters = <<>> /\ section' = section
        /\ task' = [task EXCEPT ![r] = "holding"]
    BY <1>2 DEF Lock, Take, LockInv, QueueOK
  <2>2. TypeOK'
    BY <1>1, <2>1 DEF LockInv, TypeOK
  <2>3. PermitOK'
    BY <1>2, <2>1 DEF LockInv, TypeOK, PermitOK
  <2>4. QueueOK'
    BY <1>1, <2>1 DEF LockInv, TypeOK, QueueOK
  <2>5. QED
    BY <2>2, <2>3, <2>4 DEF LockInv
<1>3. CASE guards # {}
  <2>1. /\ guards' = guards /\ waiters' = Append(waiters, r) /\ section' = section
        /\ task' = [task EXCEPT ![r] = "queued"]
    BY <1>3 DEF Lock, Queue
  <2>2. /\ Append(waiters, r) \in Seq(Requests) /\ Len(waiters) \in Nat
        /\ DOMAIN Append(waiters, r) = 1..(Len(waiters) + 1)
        /\ DOMAIN waiters = 1..Len(waiters)
        /\ Append(waiters, r)[Len(waiters) + 1] = r
        /\ \A i \in 1..Len(waiters) : Append(waiters, r)[i] = waiters[i]
    BY LenProperties DEF LockInv, TypeOK
  <2>3. TypeOK'
    BY <1>1, <2>1, <2>2 DEF LockInv, TypeOK
  <2>4. PermitOK'
    BY <1>1, <2>1 DEF LockInv, TypeOK, PermitOK
  <2>5. \A i, j \in DOMAIN waiters' : waiters'[i] = waiters'[j] => i = j
    BY <1>1, <2>1, <2>2 DEF LockInv, QueueOK
  <2>6. ASSUME NEW s \in Requests
        PROVE  task'[s] = "queued" <=> \E i \in DOMAIN waiters' : waiters'[i] = s
    <3>1. CASE s = r
      BY <2>1, <2>2, <3>1 DEF LockInv, TypeOK
    <3>2. CASE s # r
      <4>1. task'[s] = "queued" <=> \E i \in 1..Len(waiters) : waiters[i] = s
        BY <2>1, <2>2, <3>2 DEF LockInv, TypeOK, QueueOK
      <4>2. QED
        BY <2>1, <2>2, <3>2, <4>1
    <3>3. QED
      BY <3>1, <3>2
  <2>7. QED
    BY <1>3, <2>1, <2>3, <2>4, <2>5, <2>6 DEF LockInv, QueueOK
<1>4. QED
  BY <1>2, <1>3

LEMMA StatementStep ==
  ASSUME LockInv, NEW r \in Requests, Statement(r)
  PROVE  LockInv'
<1>1. r \in guards /\ HandOn(r, "ready")
  BY DEF Statement, LockInv, PermitOK
<1>2. /\ section' \in [Requests -> Section]
      /\ \A s \in Requests : s # r => section'[s] = section[s]
  BY SuccessorsAreSections DEF Statement, LockInv, TypeOK
<1>3. PermitOK' /\ QueueOK'
  BY <1>1, HandOnKeepsOrder
<1>4. TypeOK'
  BY <1>1, <1>2, HandOnKeepsTypes
<1>5. QED
  BY <1>3, <1>4 DEF LockInv

\* A place in the queue is given up: the others keep theirs.
LEMMA LeaveQueue ==
  ASSUME LockInv, NEW r \in Requests, task[r] = "queued",
         NEW i \in DOMAIN waiters, waiters[i] = r, waiters' = RemoveAt(waiters, i),
         task' = [task EXCEPT ![r] = "gone"], guards' = guards, section' = section
  PROVE  LockInv'
<1>1. /\ waiters \in Seq(Requests) /\ Len(waiters) \in Nat
      /\ DOMAIN waiters = 1..Len(waiters)
  BY LenProperties DEF LockInv, TypeOK
<1>2. /\ waiters' \in Seq(Requests) /\ Len(waiters') = Len(waiters) - 1
      /\ \A j \in 1..(Len(waiters) - 1) :
           waiters'[j] = IF j < i THEN waiters[j] ELSE waiters[j + 1]
  BY <1>1, RemoveAtFacts
<1>3. DOMAIN waiters' = 1..(Len(waiters) - 1)
  BY <1>2, LenProperties
<1>4. TypeOK'
  BY <1>2 DEF LockInv, TypeOK
<1>5. PermitOK'
  BY DEF LockInv, TypeOK, PermitOK
<1>6. ASSUME NEW j \in DOMAIN waiters', NEW k \in DOMAIN waiters', waiters'[j] = waiters'[k]
      PROVE  j = k
  <2>1. PICK a \in 1..Len(waiters) : a = IF j < i THEN j ELSE j + 1
    BY <1>1, <1>3
  <2>2. PICK b \in 1..Len(waiters) : b = IF k < i THEN k ELSE k + 1
    BY <1>1, <1>3
  <2>3. waiters[a] = waiters[b]
    BY <1>2, <1>3, <1>6, <2>1, <2>2
  <2>4. a = b
    BY <1>1, <2>3 DEF LockInv, QueueOK
  <2>5. j \in 1..(Len(waiters) - 1) /\ k \in 1..(Len(waiters) - 1)
    BY <1>3
  <2>6. QED
    BY <1>1, <2>1, <2>2, <2>4, <2>5
<1>7. ASSUME NEW s \in Requests
      PROVE  task'[s] = "queued" <=> \E j \in DOMAIN waiters' : waiters'[j] = s
  <2>1. CASE s = r
    <3>1. \A j \in DOMAIN waiters : waiters[j] = r => j = i
      BY DEF LockInv, QueueOK
    <3>2. \A j \in DOMAIN waiters' : waiters'[j] # r
      BY <1>1, <1>2, <1>3, <3>1
    <3>3. QED
      BY <2>1, <3>2 DEF LockInv, TypeOK
  <2>2. CASE s # r
    <3>1. task'[s] = "queued" <=> \E j \in 1..Len(waiters) : waiters[j] = s
      BY <1>1, <2>2 DEF LockInv, TypeOK, QueueOK
    <3>2. ASSUME NEW j \in 1..Len(waiters), waiters[j] = s
          PROVE  \E k \in 1..(Len(waiters) - 1) : waiters'[k] = s
      <4>1. CASE j < i
        <5>1. j \in 1..(Len(waiters) - 1)
          BY <1>1, <4>1
        <5>2. QED
          BY <1>2, <3>2, <4>1, <5>1
      <4>2. CASE ~(j < i)
        <5>1. j - 1 \in 1..(Len(waiters) - 1) /\ ~(j - 1 < i) /\ (j - 1) + 1 = j
          BY <1>1, <2>2, <3>2, <4>2
        <5>2. QED
          BY <1>2, <3>2, <5>1
      <4>3. QED
        BY <4>1, <4>2
    <3>3. ASSUME NEW k \in 1..(Len(waiters) - 1), waiters'[k] = s
          PROVE  \E j \in 1..Len(waiters) : waiters[j] = s
      BY <1>1, <1>2, <3>3
    <3>4. QED
      BY <1>3, <3>1, <3>2, <3>3
  <2>3. QED
    BY <2>1, <2>2
<1>8. guards' = {} => waiters' = <<>>
  <2>1. waiters # <<>>
    BY <1>1, EmptySeq
  <2>2. QED
    BY <2>1 DEF LockInv, QueueOK
<1>9. QED
  BY <1>4, <1>5, <1>6, <1>7, <1>8 DEF LockInv, QueueOK

LEMMA AbandonStep ==
  ASSUME LockInv, NEW r \in Requests, Abandon(r)
  PROVE  LockInv'
<1>1. CASE task[r] = "reading"
  <2>1. /\ guards' = guards /\ waiters' = waiters /\ section' = section
        /\ task' = [task EXCEPT ![r] = "gone"]
    BY <1>1 DEF Abandon
  <2>2. QED
    BY <1>1, <2>1 DEF LockInv, TypeOK, PermitOK, QueueOK
<1>2. CASE task[r] = "queued"
  <2>1. /\ guards' = guards /\ section' = section
        /\ task' = [task EXCEPT ![r] = "gone"]
        /\ \E i \in DOMAIN waiters : waiters[i] = r /\ waiters' = RemoveAt(waiters, i)
    BY <1>2 DEF Abandon
  <2>2. QED
    BY <1>2, <2>1, LeaveQueue
<1>3. CASE task[r] = "woken"
  <2>1. r \in guards /\ HandOn(r, "gone") /\ section' = section
    BY <1>3 DEF Abandon, LockInv, PermitOK
  <2>2. PermitOK' /\ QueueOK'
    BY <2>1, HandOnKeepsOrder
  <2>3. section' \in [Requests -> Section]
    BY <2>1 DEF LockInv, TypeOK
  <2>4. TypeOK'
    BY <2>1, <2>3, HandOnKeepsTypes
  <2>5. QED
    BY <2>2, <2>4 DEF LockInv
<1>4. QED
  BY <1>1, <1>2, <1>3 DEF Abandon

\* The steps that leave the mutex alone.
LEMMA OtherStep ==
  ASSUME LockInv, NEW r \in Requests,
         Resume(r) \/ AwaitBody(r) \/ Reply(r) \/ Receive(r) \/ BodyArrives(r)
  PROVE  LockInv'
<1>1. CASE Resume(r)
  BY <1>1 DEF Resume, LockInv, TypeOK, PermitOK, QueueOK
<1>2. CASE AwaitBody(r)
  BY <1>2 DEF AwaitBody, LockInv, TypeOK, PermitOK, QueueOK
<1>3. CASE Reply(r)
  BY <1>3 DEF Reply, LockInv, TypeOK, PermitOK, QueueOK
<1>4. CASE Receive(r)
  BY <1>4 DEF Receive, LockInv, TypeOK, PermitOK, QueueOK
<1>5. CASE BodyArrives(r)
  <2>1. /\ section' \in [Requests -> Section]
        /\ \A s \in Requests : s # r => section'[s] = section[s]
    BY <1>5, SuccessorsAreSections DEF BodyArrives, LockInv, TypeOK, Section
  <2>2. QED
    BY <1>5, <2>1 DEF BodyArrives, LockInv, TypeOK, PermitOK, QueueOK
<1>6. QED
  BY <1>1, <1>2, <1>3, <1>4, <1>5

LEMMA NextKeepsLock == LockInv /\ [Next]_vars => LockInv'
<1> SUFFICES ASSUME LockInv, [Next]_vars PROVE LockInv'
  OBVIOUS
<1>1. CASE UNCHANGED vars
  BY <1>1 DEF vars, LockInv, TypeOK, PermitOK, QueueOK
<1>2. ASSUME NEW r \in Requests, Poll(r) PROVE LockInv'
  BY <1>2, LockStep, StatementStep, OtherStep DEF Poll
<1>3. ASSUME NEW r \in Requests, Receive(r) \/ BodyArrives(r) PROVE LockInv'
  BY <1>3, OtherStep
<1>4. ASSUME NEW r \in Requests, Abandon(r) PROVE LockInv'
  BY <1>4, AbandonStep
<1>5. QED
  BY <1>1, <1>2, <1>3, <1>4 DEF Next, Finished

LEMMA LockInvariant == Spec => []LockInv
<1>1. QED
  BY InitLocked, NextKeepsLock, PTL DEF Spec

-----------------------------------------------------------------------------
(* The theorems.                                                           *)

(***************************************************************************)
(* The state keeps to its types, and every request that waits for the      *)
(* mutex or holds it is in a section that needs it.                        *)
(***************************************************************************)
THEOREM LockTypesCorrect == Spec => []TypeOK
<1>1. LockInv => TypeOK
  BY DEF LockInv
<1>2. QED
  BY <1>1, LockInvariant, PTL

(***************************************************************************)
(* Holds exclude each other, for any number of requests: what the other    *)
(* components' atomic actions rest on.                                     *)
(***************************************************************************)
THEOREM HoldsNeverOverlap == Spec => []HoldsExclude
<1>1. LockInv => HoldsExclude
  BY DEF LockInv, PermitOK, HoldsExclude
<1>2. QED
  BY <1>1, LockInvariant, PTL

(***************************************************************************)
(* Whenever requests are queued, the permit is with a handler that will    *)
(* give it up without waiting for a client or for the mutex.               *)
(***************************************************************************)
THEOREM QueueIsAlwaysServed == Spec => []NobodyWaitsInVain
<1>1. LockInv => NobodyWaitsInVain
  BY DEF LockInv, TypeOK, PermitOK, QueueOK, NobodyWaitsInVain
<1>2. QED
  BY <1>1, LockInvariant, PTL

-----------------------------------------------------------------------------
(* The queue.                                                              *)

\* What NoOvertaking asks of one step.
KeepsPlaces ==
  \A r \in Range(waiters) : r \in Range(waiters') =>
    Ahead(waiters', r) \union (guards' \ guards) \subseteq Ahead(waiters, r)

LEMMA HandOnKeepsPlaces ==
  ASSUME LockInv, NEW r \in Requests, r \in guards,
         NEW state \in {"ready", "gone"}, HandOn(r, state)
  PROVE  KeepsPlaces
<1>1. /\ Len(waiters) \in Nat /\ DOMAIN waiters = 1..Len(waiters)
      /\ guards = {r}
      /\ \A i, j \in DOMAIN waiters : waiters[i] = waiters[j] => i = j
  BY LenProperties DEF LockInv, TypeOK, PermitOK, QueueOK
<1>2. CASE waiters = <<>>
  BY <1>1, <1>2, EmptySeq DEF HandOn, KeepsPlaces, Range
<1>3. CASE waiters # <<>>
  <2>1. /\ guards' = {waiters[1]} /\ waiters' = Tail(waiters)
        /\ Len(waiters) # 0
        /\ DOMAIN waiters' = 1..(Len(waiters) - 1)
        /\ \A i \in 1..(Len(waiters) - 1) : waiters'[i] = waiters[i + 1]
    BY <1>1, <1>3, QueueFacts DEF HandOn, LockInv, TypeOK
  <2>2. SUFFICES ASSUME NEW k \in 1..(Len(waiters) - 1)
                 PROVE  Ahead(waiters', waiters'[k]) \union {waiters[1]}
                          \subseteq Ahead(waiters, waiters'[k])
    BY <2>1, <1>1 DEF KeepsPlaces, Range
  <2>3. waiters'[k] = waiters[k + 1] /\ k + 1 \in 1..Len(waiters) /\ 1 \in 1..Len(waiters) /\ 1 < k + 1
    BY <1>1, <2>1
  <2>4. waiters[1] \in Ahead(waiters, waiters'[k])
    BY <1>1, <2>3 DEF Ahead
  <2>5. ASSUME NEW j \in 1..(Len(waiters) - 1), NEW m \in 1..(Len(waiters) - 1),
               j < m, waiters'[m] = waiters'[k]
        PROVE  waiters'[j] \in Ahead(waiters, waiters'[k])
    <3>1. /\ waiters'[j] = waiters[j + 1] /\ waiters'[k] = waiters[m + 1]
          /\ j + 1 \in 1..Len(waiters) /\ m + 1 \in 1..Len(waiters) /\ j + 1 < m + 1
      BY <1>1, <2>1, <2>5
    <3>2. QED
      BY <1>1, <3>1 DEF Ahead
  <2>6. QED
    BY <2>1, <2>4, <2>5 DEF Ahead
<1>4. QED
  BY <1>2, <1>3

LEMMA StepKeepsPlaces == LockInv /\ [Next]_vars => KeepsPlaces
<1> SUFFICES ASSUME LockInv, [Next]_vars PROVE KeepsPlaces
  OBVIOUS
<1>0. /\ Len(waiters) \in Nat /\ DOMAIN waiters = 1..Len(waiters)
      /\ waiters \in Seq(Requests)
  BY LenProperties DEF LockInv, TypeOK
<1>1. ASSUME waiters' = waiters, guards' = guards PROVE KeepsPlaces
  BY <1>1 DEF KeepsPlaces
<1>2. ASSUME NEW r \in Requests, Lock(r) PROVE KeepsPlaces
  <2>1. CASE guards = {}
    BY <1>2, <2>1, EmptySeq, <1>0 DEF LockInv, QueueOK, KeepsPlaces, Range
  <2>2. CASE guards # {}
    <3>1. guards' = guards /\ waiters' = Append(waiters, r)
      BY <1>2, <2>2 DEF Lock, Queue
    <3>2. /\ DOMAIN waiters' = 1..(Len(waiters) + 1)
          /\ waiters'[Len(waiters) + 1] = r
          /\ \A i \in 1..Len(waiters) : waiters'[i] = waiters[i]
      BY <1>0, <3>1
    <3>3. \A i \in DOMAIN waiters : waiters[i] # r
      BY <1>2 DEF Lock, LockInv, QueueOK
    <3>4. ASSUME NEW s \in Range(waiters),
                 NEW j \in DOMAIN waiters', NEW k \in DOMAIN waiters',
                 j < k, waiters'[k] = s
          PROVE  waiters'[j] \in Ahead(waiters, s)
      <4>1. s # r
        BY <3>3, <3>4 DEF Range
      <4>2. j \in 1..Len(waiters) /\ k \in 1..Len(waiters)
        BY <1>0, <3>2, <3>4, <4>1
      <4>3. QED
        BY <1>0, <3>2, <3>4, <4>2 DEF Ahead
    <3>5. QED
      BY <3>1, <3>4 DEF KeepsPlaces, Ahead
  <2>3. QED
    BY <2>1, <2>2
<1>3. ASSUME NEW r \in Requests, Statement(r) PROVE KeepsPlaces
  <2>1. r \in guards /\ HandOn(r, "ready")
    BY <1>3 DEF Statement, LockInv, PermitOK
  <2>2. QED
    BY <2>1, HandOnKeepsPlaces
<1>4. ASSUME NEW r \in Requests, Abandon(r) PROVE KeepsPlaces
  <2>1. CASE task[r] = "reading"
    BY <1>1, <1>4, <2>1 DEF Abandon
  <2>2. CASE task[r] = "woken"
    <3>1. r \in guards /\ HandOn(r, "gone")
      BY <1>4, <2>2 DEF Abandon, LockInv, PermitOK
    <3>2. QED
      BY <3>1, HandOnKeepsPlaces
  <2>3. CASE task[r] = "queued"
    <3>1. PICK i \in 1..Len(waiters) : waiters' = RemoveAt(waiters, i)
      BY <1>0, <1>4, <2>3 DEF Abandon
    <3>2. guards' = guards
      BY <1>4, <2>3 DEF Abandon
    <3>3. /\ waiters' \in Seq(Requests) /\ Len(waiters') = Len(waiters) - 1
          /\ \A j \in 1..(Len(waiters) - 1) :
               waiters'[j] = IF j < i THEN waiters[j] ELSE waiters[j + 1]
      BY <1>0, <3>1, RemoveAtFacts
    <3>4. DOMAIN waiters' = 1..(Len(waiters) - 1)
      BY <3>3, LenProperties
    <3>5. ASSUME NEW s, NEW j \in DOMAIN waiters', NEW k \in DOMAIN waiters',
                 j < k, waiters'[k] = s
          PROVE  waiters'[j] \in Ahead(waiters, s)
      <4>1. PICK a \in 1..Len(waiters) : a = IF j < i THEN j ELSE j + 1
        BY <1>0, <3>4
      <4>2. PICK b \in 1..Len(waiters) : b = IF k < i THEN k ELSE k + 1
        BY <1>0, <3>4
      <4>3. waiters'[j] = waiters[a] /\ waiters[b] = s
        BY <3>3, <3>4, <3>5, <4>1, <4>2
      <4>4. a < b
        BY <1>0, <3>4, <3>5, <4>1, <4>2
      <4>5. QED
        BY <1>0, <4>3, <4>4 DEF Ahead
    <3>6. QED
      BY <3>2, <3>5 DEF KeepsPlaces, Ahead
  <2>4. QED
    BY <1>4, <2>1, <2>2, <2>3 DEF Abandon
<1>5. ASSUME NEW r \in Requests,
             Resume(r) \/ AwaitBody(r) \/ Reply(r) \/ Receive(r) \/ BodyArrives(r)
      PROVE  KeepsPlaces
  BY <1>1, <1>5 DEF Resume, AwaitBody, Reply, Receive, BodyArrives
<1>6. CASE UNCHANGED vars
  BY <1>1, <1>6 DEF vars
<1>7. QED
  BY <1>2, <1>3, <1>4, <1>5, <1>6 DEF Next, Poll, Finished

(***************************************************************************)
(* The queue is first come, first served, whoever leaves it early.         *)
(***************************************************************************)
THEOREM NobodyOvertakes == Spec => NoOvertaking
<1>1. Spec => [][Next]_vars
  BY DEF Spec
<1>2. LockInv /\ [Next]_vars => [KeepsPlaces]_vars
  BY StepKeepsPlaces
<1>3. QED
  BY <1>1, <1>2, LockInvariant, PTL DEF NoOvertaking, KeepsPlaces
=============================================================================
