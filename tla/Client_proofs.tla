---------------------------- MODULE Client_proofs ----------------------------
(***************************************************************************)
(* For any number of addresses and tasks, any limit, window and number of  *)
(* clients remembered, and any intervals of the application: the limiter   *)
(* keeps its limit although it forgets addresses, and wait() raises        *)
(* TimeoutError in time although the limiter and the errors of the server  *)
(* hide the answers from it.                                               *)
(*                                                                         *)
(* The limit has to be shown of every part of the window, because the part *)
(* that is a unit old is the whole of it a unit later: what passed in the  *)
(* last a units is still remembered, or the limiter forgot the address in  *)
(* these a units, once for every max_requests of them (RateInv).           *)
(*                                                                         *)
(* A wait() is refused only because of the requests that passed in the     *)
(* last window.  If they did not all pass before wait() began, one of them *)
(* was a poll, answered with 500 or when the task was not finished: else   *)
(* wait() would have ended with it (WaitInv).                              *)
(***************************************************************************)
EXTENDS Client, FiniteSetTheorems, TLAPS

Stamp == [age : 0 .. WindowSeconds, no : Nat]

StampSets == {S \in SUBSET Stamp : IsFiniteSet(S)}

\* The stamps of the last a + 1 units.
Upto(stamps, a) == {x \in stamps : x.age <= a}

\* What is known of the stamps R, A and D of one address in requests, admitted
\* and drops.
Limited(R, A, D) ==
  /\ A = InWindow(A) /\ D = InWindow(D)
  /\ Cardinality(InWindow(R)) <= MaxRequests
  /\ \A a \in 0 .. WindowSeconds - 1 :
       Cardinality(Upto(A, a))
         <= Cardinality(Upto(R, a)) + MaxRequests * Cardinality(Upto(D, a))

RateInv ==
  /\ requests \in [Ips -> StampSets]
  /\ admitted \in [Ips -> StampSets]
  /\ drops \in [Ips -> StampSets]
  /\ \A ip \in Ips : Limited(requests[ip], admitted[ip], drops[ip])

Statuses == Finished \cup {"new", "pending", "running", "deleted"}

Thread ==
  [pc : {"idle", "posting", "ready", "loop", "fetching", "sleeping"},
   id : TaskIds \cup {NULL}, timer : Nat, left : Nat, answer : Statuses \cup {NULL},
   crowded : BOOLEAN]

\* The longest sleep.
Pause == PollInterval + Lateness

\* The thread is in wait() and has not got an answer that ends it.
Asking(x) ==
  /\ x.pc \in {"loop", "fetching", "sleeping"} /\ x.id # NULL
  /\ x.pc = "fetching" => x.answer \notin Finished

\* How long ago the last poll was, at most.
SincePoll(x) ==
  IF x.pc = "fetching" THEN HttpTimeout - x.timer
  ELSE IF x.pc = "sleeping" THEN HttpTimeout + Pause - x.timer
  ELSE HttpTimeout + Pause

\* Of the stamps R the limit allows one more than there are younger than s.
Few(s, R) == \A a \in 0 .. WindowSeconds - 1 : a < s => Cardinality(Upto(R, a)) < MaxRequests

\* The task has been finished for s units.  The stamps R in the window are older
\* than this wait(), or than the end of the task, these being too few to refuse a
\* poll if the address was not at the limit; and one was so at the last poll.
Patient(x, s, R) ==
  /\ x.pc = "fetching" => x.timer <= HttpTimeout
  /\ x.pc = "sleeping" => x.timer <= Pause
  /\ Asking(x) =>
       /\ \A y \in InWindow(R) : y.age + x.left >= Timeout \/ s <= y.age
       /\ ~x.crowded => Few(s, R)
       /\ \/ s <= WindowSeconds + SincePoll(x)
          \/ x.pc = "loop" /\ x.left = Timeout
          \/ x.crowded /\ x.left + SincePoll(x) + WindowSeconds > Timeout

\* For how long the task of the TaskRef has been finished.
Since == IF app.id = NULL THEN 0 ELSE settled[app.id]

WaitInv ==
  /\ app \in Thread
  /\ status \in [TaskIds -> Statuses]
  /\ settled \in [TaskIds -> Nat]
  /\ \A t \in TaskIds : status[t] \notin Finished => settled[t] = 0
  /\ Patient(app, Since, requests[App])


-----------------------------------------------------------------------------
(* Stamps                                                                  *)

\* The minimum and the maximum of two numbers.
LEMMA OfTwo ==
  ASSUME NEW a \in Int, NEW b \in Int
  PROVE  /\ Min({a, b}) = IF a <= b THEN a ELSE b
         /\ Max({a, b}) = IF a >= b THEN a ELSE b
<1>1. \E m \in {a, b} : \A y \in {a, b} : m <= y
  BY a <= b \/ b <= a
<1>2. \E m \in {a, b} : \A y \in {a, b} : m >= y
  BY a <= b \/ b <= a
<1>3. ASSUME NEW m \in {a, b}, \A y \in {a, b} : m <= y PROVE m = IF a <= b THEN a ELSE b
  BY <1>3
<1>4. ASSUME NEW m \in {a, b}, \A y \in {a, b} : m >= y PROVE m = IF a >= b THEN a ELSE b
  BY <1>4
<1> QED  BY <1>1, <1>2, <1>3, <1>4 DEF Min, Max

\* Parts of a finite set of stamps are finite and have no more stamps.
LEMMA PartOfStamps ==
  ASSUME NEW S \in StampSets, NEW T \in SUBSET S
  PROVE  /\ T \in StampSets /\ Cardinality(T) \in Nat /\ Cardinality(S) \in Nat
         /\ Cardinality(T) <= Cardinality(S)
<1>1. IsFiniteSet(S) /\ S \in SUBSET Stamp
  BY DEF StampSets
<1>2. IsFiniteSet(T) /\ Cardinality(T) <= Cardinality(S)
  BY <1>1, FS_Subset
<1>3. Cardinality(T) \in Nat /\ Cardinality(S) \in Nat
  BY <1>1, <1>2, FS_CardinalityType
<1> QED  BY <1>1, <1>2, <1>3 DEF StampSets

\* The stamps in the window are the youngest ones.
LEMMA WindowIsUpto ==
  ASSUME NEW S \in StampSets
  PROVE  /\ InWindow(S) = Upto(S, WindowSeconds - 1)
         /\ InWindow(S) \in SUBSET S /\ \A a : Upto(S, a) \in SUBSET S
         /\ InWindow(InWindow(S)) = InWindow(S)
         /\ \A a \in 0 .. WindowSeconds - 1 : Upto(InWindow(S), a) = Upto(S, a)
BY RateLimitAssumption DEF InWindow, Upto, StampSets, Stamp

\* Among Cardinality(S) + 1 numbers one is free.
LEMMA NumberIsFree ==
  ASSUME NEW S \in StampSets
  PROVE  \E n \in 0 .. Cardinality(S) : StampOf(n) \notin S
<1> SUFFICES ASSUME \A n \in 0 .. Cardinality(S) : StampOf(n) \in S PROVE FALSE
  OBVIOUS
<1>1. IsFiniteSet(S) /\ Cardinality(S) \in Nat
  BY FS_CardinalityType DEF StampSets
<1> DEFINE N == 0 .. Cardinality(S)
           f == [n \in N |-> StampOf(n)]
<1>2. IsFiniteSet(N) /\ Cardinality(N) = Cardinality(S) + 1
  BY <1>1, FS_Interval, 0 \in Int
<1>3. f \in [N -> S]
  OBVIOUS
<1>4. Cardinality(S) < Cardinality(N)
  BY <1>1, <1>2
<1> HIDE DEF N, f
<1>5. PICK m, n \in N : m # n /\ f[m] = f[n]
  BY <1>1, <1>2, <1>3, <1>4, FS_PigeonHole
<1>6. StampOf(m).no = StampOf(n).no
  BY <1>5 DEF f
<1> QED  BY <1>5, <1>6 DEF StampOf

\* timestamps.append(now) adds one stamp of now.
LEMMA StampedAdds ==
  ASSUME NEW S \in StampSets
  PROVE  /\ Stamped(S) \in StampSets
         /\ \E y \in Stamp : y.age = 0 /\ y \notin S /\ Stamped(S) = S \cup {y}
<1>1. PICK n \in 0 .. Cardinality(S) :
        StampOf(n) \notin S /\ Stamped(S) = S \cup {StampOf(n)}
  BY NumberIsFree DEF Stamped
<1>2. IsFiniteSet(S) /\ Cardinality(S) \in Nat /\ S \in SUBSET Stamp
  BY FS_CardinalityType DEF StampSets
<1>3. StampOf(n) \in Stamp /\ StampOf(n).age = 0
  BY <1>1, <1>2, RateLimitAssumption DEF StampOf, Stamp
<1>4. IsFiniteSet(S \cup {StampOf(n)})
  BY <1>2, FS_AddElement
<1> QED  BY <1>1, <1>2, <1>3, <1>4 DEF StampSets

\* It makes every part of the window that begins now larger by one.
LEMMA StampedCounts ==
  ASSUME NEW S \in StampSets, NEW a \in 0 .. WindowSeconds - 1
  PROVE  /\ Cardinality(Upto(Stamped(S), a)) = Cardinality(Upto(S, a)) + 1
         /\ InWindow(S) = S => InWindow(Stamped(S)) = Stamped(S)
<1>1. PICK y \in Stamp : y.age = 0 /\ y \notin S /\ Stamped(S) = S \cup {y}
  BY StampedAdds
<1>2. Upto(Stamped(S), a) = Upto(S, a) \cup {y} /\ y \notin Upto(S, a)
  BY <1>1 DEF Upto
<1>3. IsFiniteSet(Upto(S, a))
  BY PartOfStamps, WindowIsUpto DEF StampSets
<1>4. Cardinality(Upto(S, a) \cup {y}) = Cardinality(Upto(S, a)) + 1
  BY <1>2, <1>3, FS_AddElement
<1>5. InWindow(S) = S => InWindow(Stamped(S)) = Stamped(S)
  BY <1>1, RateLimitAssumption DEF InWindow
<1> QED  BY <1>2, <1>4, <1>5


\* A unit later every stamp is a unit older, if it still counts.
LEMMA OlderStamp ==
  ASSUME NEW x \in Stamp
  PROVE  /\ [x EXCEPT !.age = Min({@ + 1, WindowSeconds})]
              = [age |-> IF x.age < WindowSeconds THEN x.age + 1 ELSE WindowSeconds, no |-> x.no]
         /\ [x EXCEPT !.age = Min({@ + 1, WindowSeconds})] \in Stamp
<1>1. x.age \in 0 .. WindowSeconds /\ x.age + 1 \in Int /\ WindowSeconds \in Int
  BY RateLimitAssumption DEF Stamp
<1>2. Min({x.age + 1, WindowSeconds}) = IF x.age < WindowSeconds THEN x.age + 1 ELSE WindowSeconds
  BY <1>1, OfTwo
<1>3. (IF x.age < WindowSeconds THEN x.age + 1 ELSE WindowSeconds) \in 0 .. WindowSeconds
  BY <1>1
<1> QED  BY <1>2, <1>3 DEF Stamp

\* What the stamps of a unit ago were in the youngest part of the window they are
\* in the next larger part now, and nothing is in the youngest.
LEMMA OlderCounts ==
  ASSUME NEW S \in StampSets
  PROVE  /\ Older(S) \in StampSets
         /\ Upto(Older(S), 0) = {}
         /\ \A a \in 1 .. WindowSeconds - 1 :
              Cardinality(Upto(Older(S), a)) = Cardinality(Upto(S, a - 1))
         /\ \A y \in InWindow(Older(S)) : \E x \in InWindow(S) : y.age = x.age + 1
<1> DEFINE o(x) == [x EXCEPT !.age = Min({@ + 1, WindowSeconds})]
<1>0. WindowSeconds \in Nat \ {0} /\ S \in SUBSET Stamp /\ IsFiniteSet(S)
  BY RateLimitAssumption DEF StampSets
<1>1. ASSUME NEW x \in Stamp
      PROVE  /\ x.age \in 0 .. WindowSeconds /\ o(x) \in Stamp
             /\ o(x).age = (IF x.age < WindowSeconds THEN x.age + 1 ELSE WindowSeconds)
             /\ o(x).no = x.no
  BY OlderStamp DEF Stamp
<1>2. Older(S) = {o(x) : x \in S}
  BY DEF Older
<1> HIDE DEF o
<1>3. Older(S) \in SUBSET Stamp
  BY <1>0, <1>1, <1>2
<1>4. ASSUME NEW T \in SUBSET S, NEW U, U = {o(x) : x \in T}
      PROVE  IsFiniteSet(T) /\ IsFiniteSet(U) /\ [x \in T |-> o(x)] \in Surjection(T, U)
  <2>1. IsFiniteSet(T)
    BY <1>0, FS_Subset
  <2>2. [x \in T |-> o(x)] \in Surjection(T, U)
    BY <1>4 DEF Surjection
  <2> QED  BY <2>1, <2>2, FS_Surjection
<1>5. Older(S) \in StampSets
  BY <1>2, <1>3, <1>4 DEF StampSets
<1>6. ASSUME NEW a \in 1 .. WindowSeconds - 1
      PROVE  Cardinality(Upto(Older(S), a)) = Cardinality(Upto(S, a - 1))
  <2> DEFINE T == Upto(S, a - 1)
             U == Upto(Older(S), a)
             f == [x \in T |-> o(x)]
  <2>1. T \in SUBSET S /\ \A x \in T : x.age < WindowSeconds
    BY <1>0, <1>1, <1>6 DEF Upto
  <2>2. ASSUME NEW x \in S PROVE x \in T <=> o(x).age <= a
    BY <1>0, <1>1, <1>6 DEF Upto
  <2>3. U = {o(x) : x \in T}
    BY <1>2, <2>1, <2>2 DEF Upto
  <2>4. ASSUME NEW x \in T, NEW y \in T, o(x) = o(y) PROVE x = y
    <3>1. x \in Stamp /\ y \in Stamp /\ x.age + 1 = y.age + 1 /\ x.no = y.no
      BY <1>0, <1>1, <2>1, <2>4
    <3> QED  BY <3>1 DEF Stamp
  <2> HIDE DEF T, U
  <2>5. IsFiniteSet(T) /\ f \in Surjection(T, U)
    BY <1>4, <2>1, <2>3
  <2>6. f \in Injection(T, U)
    BY <2>4, <2>5 DEF Injection, Surjection, IsInjective
  <2>7. Cardinality(U) = Cardinality(T)
    BY <2>5, <2>6, FS_Surjection
  <2> QED  BY <2>7 DEF T, U
<1>7. Upto(Older(S), 0) = {}
  <2>1. ASSUME NEW x \in S PROVE ~(o(x).age <= 0)
    BY <1>0, <1>1
  <2> QED  BY <1>2, <2>1 DEF Upto
<1>8. ASSUME NEW y \in InWindow(Older(S)) PROVE \E x \in InWindow(S) : y.age = x.age + 1
  <2>1. PICK x \in S : y = o(x)
    BY <1>2, <1>8 DEF InWindow
  <2>2. x.age < WindowSeconds /\ y.age = x.age + 1
    BY <1>0, <1>1, <1>8, <2>1 DEF InWindow
  <2> QED  BY <2>2 DEF InWindow
<1> QED  BY <1>5, <1>6, <1>7, <1>8


-----------------------------------------------------------------------------
(* The limit of one address                                                *)

\* The numbers of stamps in parts of the window are natural numbers.
LEMMA CountType ==
  ASSUME NEW S \in StampSets
  PROVE  /\ Cardinality(S) \in Nat /\ Cardinality(InWindow(S)) \in Nat
         /\ \A a : Cardinality(Upto(S, a)) \in Nat
         /\ \A a \in 0 .. WindowSeconds - 1 : Cardinality(Upto(S, a)) <= Cardinality(InWindow(S))
<1>1. InWindow(S) \in StampSets /\ Cardinality(InWindow(S)) \in Nat
  BY PartOfStamps, WindowIsUpto
<1>2. Cardinality(S) \in Nat /\ \A a : Cardinality(Upto(S, a)) \in Nat
  BY PartOfStamps, WindowIsUpto
<1>3. ASSUME NEW a \in 0 .. WindowSeconds - 1
      PROVE  Cardinality(Upto(S, a)) <= Cardinality(InWindow(S))
  <2>1. Upto(S, a) \in SUBSET InWindow(S)
    BY WindowIsUpto DEF Upto
  <2> QED  BY <1>1, <2>1, PartOfStamps
<1> QED  BY <1>1, <1>2, <1>3

\* No stamps.
LEMMA NoStamps ==
  /\ {} \in StampSets /\ Cardinality({}) = 0
  /\ InWindow({}) = {} /\ \A a : Upto({}, a) = {}
BY FS_EmptySet DEF StampSets, InWindow, Upto

\* One more product.
LEMMA OneMoreTime ==
  ASSUME NEW m \in Nat, NEW d \in Nat
  PROVE  m * (d + 1) = m * d + m /\ m * d \in Nat
OBVIOUS

\* The limiter filters an entry, or deletes a stale one.
LEMMA FilterKeepsLimit ==
  ASSUME NEW R \in StampSets, NEW A \in StampSets, NEW D \in StampSets, Limited(R, A, D)
  PROVE  Limited(InWindow(R), A, D)
BY WindowIsUpto DEF Limited

\* It forgets an entry that counts: at most max_requests of what has passed.
LEMMA ForgetKeepsLimit ==
  ASSUME NEW R \in StampSets, NEW A \in StampSets, NEW D \in StampSets, Limited(R, A, D)
  PROVE  Limited({}, A, Stamped(D))
<1>1. A = InWindow(A) /\ Stamped(D) = InWindow(Stamped(D))
  BY StampedCounts, RateLimitAssumption, 0 \in 0 .. WindowSeconds - 1 DEF Limited
<1>2. ASSUME NEW a \in 0 .. WindowSeconds - 1
      PROVE  Cardinality(Upto(A, a))
               <= Cardinality(Upto({}, a)) + MaxRequests * Cardinality(Upto(Stamped(D), a))
  <2> DEFINE r == Cardinality(Upto(R, a))
             d == Cardinality(Upto(D, a))
             n == Cardinality(Upto(A, a))
  <2>1. r \in Nat /\ d \in Nat /\ n \in Nat /\ r <= Cardinality(InWindow(R))
    BY <1>2, CountType
  <2>2. n <= r + MaxRequests * d /\ r <= MaxRequests
    BY <1>2, <2>1, RateLimitAssumption, CountType DEF Limited
  <2>3. Cardinality(Upto(Stamped(D), a)) = d + 1 /\ Cardinality(Upto({}, a)) = 0
    BY <1>2, StampedCounts, NoStamps
  <2> HIDE DEF r, d, n
  <2>4. n <= MaxRequests * (d + 1)
    BY <2>1, <2>2, OneMoreTime, RateLimitAssumption
  <2> QED  BY <2>1, <2>3, <2>4, RateLimitAssumption DEF n
<1>3. Cardinality(InWindow({})) <= MaxRequests
  BY NoStamps, RateLimitAssumption
<1> QED  BY <1>1, <1>2, <1>3 DEF Limited

\* A request passes if fewer than max_requests are remembered.
LEMMA PassKeepsLimit ==
  ASSUME NEW R \in StampSets, NEW A \in StampSets, NEW D \in StampSets, Limited(R, A, D),
         InWindow(R) = R, Cardinality(R) < MaxRequests
  PROVE  Limited(Stamped(R), Stamped(A), D)
<1>0. WindowSeconds \in Nat \ {0} /\ MaxRequests \in Nat /\ WindowSeconds - 1 \in 0 .. WindowSeconds - 1
      /\ 0 \in 0 .. WindowSeconds - 1
  BY RateLimitAssumption
<1>1. Stamped(A) = InWindow(Stamped(A)) /\ D = InWindow(D)
  BY <1>0, StampedCounts DEF Limited
<1>2. Cardinality(InWindow(Stamped(R))) <= MaxRequests
  <2>1. Stamped(R) \in StampSets
    BY StampedAdds
  <2>2. InWindow(Stamped(R)) = Upto(Stamped(R), WindowSeconds - 1)
    BY <2>1, WindowIsUpto
  <2>3. R = Upto(R, WindowSeconds - 1)
    BY WindowIsUpto
  <2>4. Cardinality(Upto(Stamped(R), WindowSeconds - 1)) = Cardinality(R) + 1
    BY <1>0, <2>3, StampedCounts
  <2>5. Cardinality(R) \in Nat
    BY CountType
  <2> QED  BY <1>0, <2>2, <2>4, <2>5
<1>3. ASSUME NEW a \in 0 .. WindowSeconds - 1
      PROVE  Cardinality(Upto(Stamped(A), a))
               <= Cardinality(Upto(Stamped(R), a)) + MaxRequests * Cardinality(Upto(D, a))
  <2> DEFINE r == Cardinality(Upto(R, a))
             k == MaxRequests * Cardinality(Upto(D, a))
             n == Cardinality(Upto(A, a))
  <2>1. r \in Nat /\ k \in Nat /\ n \in Nat
    BY <1>0, CountType, OneMoreTime
  <2>2. n <= r + k
    BY <1>3 DEF Limited
  <2>3. Cardinality(Upto(Stamped(A), a)) = n + 1 /\ Cardinality(Upto(Stamped(R), a)) = r + 1
    BY <1>3, StampedCounts
  <2> HIDE DEF r, k, n
  <2>4. n + 1 <= (r + 1) + k
    BY <2>1, <2>2
  <2> QED  BY <2>3, <2>4 DEF k
<1> QED  BY <1>1, <1>2, <1>3 DEF Limited

\* Time passes: every part of the window is what the next smaller one was.
LEMMA TimeKeepsLimit ==
  ASSUME NEW R \in StampSets, NEW A \in StampSets, NEW D \in StampSets, Limited(R, A, D)
  PROVE  Limited(Older(R), InWindow(Older(A)), InWindow(Older(D)))
<1>0. WindowSeconds \in Nat \ {0} /\ MaxRequests \in Nat
  BY RateLimitAssumption
<1>1. Older(R) \in StampSets /\ Older(A) \in StampSets /\ Older(D) \in StampSets
  BY OlderCounts
<1>2. Cardinality(InWindow(Older(R))) <= MaxRequests
  <2>1. InWindow(Older(R)) = Upto(Older(R), WindowSeconds - 1)
    BY <1>1, WindowIsUpto
  <2>2. CASE WindowSeconds = 1
    <3>1. WindowSeconds - 1 = 0
      BY <2>2
    <3>2. InWindow(Older(R)) = {}
      BY <2>1, <3>1, OlderCounts
    <3> QED  BY <1>0, <3>2, FS_EmptySet
  <2>3. CASE WindowSeconds # 1
    <3>1. /\ WindowSeconds - 1 \in 1 .. WindowSeconds - 1
          /\ (WindowSeconds - 1) - 1 \in 0 .. WindowSeconds - 1
      BY <1>0, <2>3
    <3>2. Cardinality(Upto(Older(R), WindowSeconds - 1)) = Cardinality(Upto(R, (WindowSeconds - 1) - 1))
      BY <3>1, OlderCounts
    <3>3. /\ Cardinality(Upto(R, (WindowSeconds - 1) - 1)) <= Cardinality(InWindow(R))
          /\ Cardinality(Upto(R, (WindowSeconds - 1) - 1)) \in Nat
          /\ Cardinality(InWindow(R)) \in Nat
      BY <3>1, CountType
    <3> QED  BY <1>0, <2>1, <3>2, <3>3 DEF Limited
  <2> QED  BY <2>2, <2>3
<1>3. ASSUME NEW a \in 0 .. WindowSeconds - 1
      PROVE  Cardinality(Upto(InWindow(Older(A)), a))
               <= Cardinality(Upto(Older(R), a)) + MaxRequests * Cardinality(Upto(InWindow(Older(D)), a))
  <2>1. Upto(InWindow(Older(A)), a) = Upto(Older(A), a) /\ Upto(InWindow(Older(D)), a) = Upto(Older(D), a)
    BY <1>1, WindowIsUpto
  <2>2. CASE a = 0
    <3>1. /\ Cardinality(Upto(Older(A), a)) = 0 /\ Cardinality(Upto(Older(R), a)) = 0
          /\ Cardinality(Upto(Older(D), a)) = 0
      BY <2>2, OlderCounts, FS_EmptySet
    <3> QED  BY <1>0, <2>1, <3>1
  <2>3. CASE a # 0
    <3>1. a \in 1 .. WindowSeconds - 1 /\ a - 1 \in 0 .. WindowSeconds - 1
      BY <1>0, <2>3
    <3>2. /\ Cardinality(Upto(Older(A), a)) = Cardinality(Upto(A, a - 1))
          /\ Cardinality(Upto(Older(R), a)) = Cardinality(Upto(R, a - 1))
          /\ Cardinality(Upto(Older(D), a)) = Cardinality(Upto(D, a - 1))
      BY <3>1, OlderCounts
    <3> QED  BY <2>1, <3>1, <3>2 DEF Limited
  <2> QED  BY <2>2, <2>3
<1>4. /\ InWindow(InWindow(Older(A))) = InWindow(Older(A))
      /\ InWindow(InWindow(Older(D))) = InWindow(Older(D))
  BY <1>1, WindowIsUpto
<1> QED  BY <1>2, <1>3, <1>4 DEF Limited


-----------------------------------------------------------------------------
(* dispatch                                                                *)

\* What dispatch of a request from ip does to its own entry.
Served(ip, passes) ==
  IF passes
  THEN \E T \in SUBSET InWindow(requests[ip]) :
         Cardinality(T) < MaxRequests /\ requests'[ip] = Stamped(T)
  ELSE Cardinality(InWindow(requests[ip])) >= MaxRequests /\ requests'[ip] = requests[ip]

\* It keeps the limit of every address; the entries of the others stay or go.
LEMMA DispatchKeepsRate ==
  ASSUME RateInv, NEW ip \in Ips, NEW passes \in BOOLEAN, Dispatch(ip, passes)
  PROVE  /\ RateInv'
         /\ Served(ip, passes)
         /\ \A i \in Ips : i # ip => requests'[i] = requests[i] \/ requests'[i] = {}
<1>0. /\ \A i \in Ips : /\ requests[i] \in StampSets /\ admitted[i] \in StampSets
                        /\ drops[i] \in StampSets
                        /\ Limited(requests[i], admitted[i], drops[i])
                        /\ InWindow(requests[i]) \in StampSets
  BY WindowIsUpto, PartOfStamps DEF RateInv
<1>1. PICK K \in SUBSET Live :
        LET times == IF ip \in K THEN InWindow(requests[ip]) ELSE {}
        IN /\ passes = (Cardinality(times) < MaxRequests)
           /\ requests' = Entries(K, ip, times, passes)
           /\ admitted' = IF passes THEN [admitted EXCEPT ![ip] = Stamped(@)] ELSE admitted
           /\ drops' = [i \in Ips |-> IF i \in Live \ K THEN Stamped(drops[i]) ELSE drops[i]]
  BY DEF Dispatch, Survivors
<1> DEFINE times == IF ip \in K THEN InWindow(requests[ip]) ELSE {}
<1>2. /\ passes = (Cardinality(times) < MaxRequests)
      /\ requests' = [i \in Ips |-> IF i = ip /\ passes THEN Stamped(times)
                                    ELSE IF i \in K THEN requests[i] ELSE {}]
      /\ admitted' = IF passes THEN [admitted EXCEPT ![ip] = Stamped(@)] ELSE admitted
      /\ drops' = [i \in Ips |-> IF i \in Live \ K THEN Stamped(drops[i]) ELSE drops[i]]
  BY <1>1 DEF Entries
<1>3. times \in StampSets /\ InWindow(times) = times /\ times \in SUBSET InWindow(requests[ip])
  BY <1>0, WindowIsUpto, NoStamps
<1> HIDE DEF times
<1>4. \A S \in StampSets : Stamped(S) \in StampSets
  BY StampedAdds
<1>5. /\ requests' \in [Ips -> StampSets] /\ admitted' \in [Ips -> StampSets]
      /\ drops' \in [Ips -> StampSets]
  BY <1>0, <1>2, <1>3, <1>4, NoStamps DEF RateInv
<1>6. ASSUME NEW i \in Ips
      PROVE  Limited(IF i \in K THEN requests[i] ELSE {}, admitted[i], drops'[i])
  <2>1. CASE i \in K
    BY <1>0, <1>2, <2>1
  <2>2. CASE i \in Live \ K
    <3>1. drops'[i] = Stamped(drops[i])
      BY <1>2, <2>2
    <3> QED  BY <1>0, <2>2, <3>1, ForgetKeepsLimit
  <2>3. CASE i \notin Live
    <3>1. InWindow(requests[i]) = {} /\ drops'[i] = drops[i] /\ i \notin K
      BY <1>1, <1>2, <2>3 DEF Live
    <3>2. Limited(InWindow(requests[i]), admitted[i], drops[i])
      BY <1>0, FilterKeepsLimit
    <3> QED  BY <3>1, <3>2
  <2> QED  BY <2>1, <2>2, <2>3
<1>7. Limited(times, admitted[ip], drops'[ip])
  <2>1. CASE ip \in K
    <3>1. drops'[ip] \in StampSets /\ Limited(requests[ip], admitted[ip], drops'[ip])
      BY <1>5, <1>6, <2>1
    <3> QED  BY <1>0, <2>1, <3>1, FilterKeepsLimit DEF times
  <2>2. CASE ip \notin K
    BY <1>6, <2>2 DEF times
  <2> QED  BY <2>1, <2>2
<1>8. ASSUME NEW i \in Ips PROVE Limited(requests'[i], admitted'[i], drops'[i])
  <2>1. CASE i = ip /\ passes
    <3>1. requests'[i] = Stamped(times) /\ admitted'[i] = Stamped(admitted[ip])
      BY <1>2, <2>1 DEF RateInv
    <3>2. Cardinality(times) < MaxRequests
      BY <1>2, <2>1
    <3> QED  BY <1>0, <1>3, <1>5, <1>7, <2>1, <3>1, <3>2, PassKeepsLimit
  <2>2. CASE ~(i = ip /\ passes)
    <3>1. admitted'[i] = admitted[i] /\ requests'[i] = (IF i \in K THEN requests[i] ELSE {})
      BY <1>2, <2>2 DEF RateInv
    <3> QED  BY <1>6, <3>1
  <2> QED  BY <2>1, <2>2
<1>9. Served(ip, passes)
  <2>1. CASE passes
    BY <1>2, <1>3, <2>1 DEF Served
  <2>2. CASE ~passes
    <3>1. ~(Cardinality(times) < MaxRequests)
      BY <1>2, <2>2
    <3>2. ip \in K
      BY <3>1, NoStamps, RateLimitAssumption DEF times
    <3>3. times = InWindow(requests[ip]) /\ Cardinality(times) \in Nat
      BY <1>3, <3>2, CountType DEF times
    <3>4. Cardinality(InWindow(requests[ip])) >= MaxRequests
      BY <3>1, <3>3, RateLimitAssumption
    <3> QED  BY <1>2, <2>2, <3>2, <3>4 DEF Served
  <2> QED  BY <2>1, <2>2
<1>10. \A i \in Ips : i # ip => requests'[i] = requests[i] \/ requests'[i] = {}
  BY <1>2
<1> QED  BY <1>5, <1>8, <1>9, <1>10 DEF RateInv

\* Time keeps the limit of every address.
LEMMA TickKeepsRate ==
  ASSUME RateInv, RateLimitTick
  PROVE  RateInv'
<1>1. ASSUME NEW ip \in Ips
      PROVE  /\ Older(requests[ip]) \in StampSets
             /\ InWindow(Older(admitted[ip])) \in StampSets
             /\ InWindow(Older(drops[ip])) \in StampSets
             /\ Limited(Older(requests[ip]), InWindow(Older(admitted[ip])), InWindow(Older(drops[ip])))
  <2>1. /\ requests[ip] \in StampSets /\ admitted[ip] \in StampSets /\ drops[ip] \in StampSets
        /\ Limited(requests[ip], admitted[ip], drops[ip])
    BY DEF RateInv
  <2>2. /\ Older(requests[ip]) \in StampSets /\ Older(admitted[ip]) \in StampSets
        /\ Older(drops[ip]) \in StampSets
    BY <2>1, OlderCounts
  <2> QED  BY <2>1, <2>2, TimeKeepsLimit, WindowIsUpto, PartOfStamps
<1>2. /\ requests' = [ip \in Ips |-> Older(requests[ip])]
      /\ admitted' = [ip \in Ips |-> InWindow(Older(admitted[ip]))]
      /\ drops' = [ip \in Ips |-> InWindow(Older(drops[ip]))]
  BY DEF RateLimitTick
<1> QED  BY <1>1, <1>2 DEF RateInv

\* RateInv is inductive.
LEMMA RateInductive ==
  /\ Init => RateInv
  /\ RateInv /\ [Next]_vars => RateInv'
<1>1. ASSUME Init PROVE RateInv
  <2>1. Limited({}, {}, {})
    <3>1. MaxRequests \in Nat /\ 0 <= 0 + MaxRequests * 0
      BY RateLimitAssumption
    <3> QED  BY <3>1, NoStamps DEF Limited
  <2> QED  BY <1>1, <2>1, NoStamps DEF Init, RateLimitInit, RateInv
<1>2. ASSUME RateInv, [Next]_vars PROVE RateInv'
  <2>1. CASE UNCHANGED limiter
    BY <1>2, <2>1 DEF limiter, RateInv
  <2>2. CASE \E ip \in Ips, passes \in BOOLEAN : Dispatch(ip, passes)
    BY <1>2, <2>2, DispatchKeepsRate
  <2>3. CASE RateLimitTick
    BY <1>2, <2>3, TickKeepsRate
  <2>4. App \in Ips
    BY ClientAssumption
  <2>5. \/ UNCHANGED limiter \/ RateLimitTick
        \/ \E ip \in Ips, passes \in BOOLEAN : Dispatch(ip, passes)
    BY <1>2, <2>4
       DEF Next, AppStep, vars, QueueNothing, PostReturns, Forget, Wait, FetchNothing, Fetch,
           FetchReturns, FetchRaises, Awake, GiveUp, Queue, Proceed, OtherRequest, Tick
  <2> QED  BY <2>1, <2>2, <2>3, <2>5
<1> QED  BY <1>1, <1>2

\* The rate limit holds: an address gets more than max_requests through in a
\* window only if _evict dropped its entry in that window, and no more than
\* max_requests for each time it did.
THEOREM RateIsHeld == Spec => []RateHeld
<1>1. RateInv => RateHeld
  <2> SUFFICES ASSUME RateInv, NEW ip \in Ips
               PROVE  Cardinality(admitted[ip]) <= MaxRequests * (1 + Cardinality(drops[ip]))
    BY DEF RateHeld
  <2>1. /\ requests[ip] \in StampSets /\ admitted[ip] \in StampSets /\ drops[ip] \in StampSets
        /\ Limited(requests[ip], admitted[ip], drops[ip])
    BY DEF RateInv
  <2> DEFINE r == Cardinality(InWindow(requests[ip]))
             d == Cardinality(drops[ip])
             n == Cardinality(admitted[ip])
  <2>2. r \in Nat /\ d \in Nat /\ n \in Nat /\ r <= MaxRequests
    BY <2>1, CountType DEF Limited
  <2>3. WindowSeconds - 1 \in 0 .. WindowSeconds - 1
    BY RateLimitAssumption
  <2>4. /\ InWindow(requests[ip]) = Upto(requests[ip], WindowSeconds - 1)
        /\ drops[ip] = Upto(drops[ip], WindowSeconds - 1)
        /\ admitted[ip] = Upto(admitted[ip], WindowSeconds - 1)
    BY <2>1, WindowIsUpto DEF Limited
  <2>5. n <= r + MaxRequests * d
    BY <2>1, <2>3, <2>4 DEF Limited
  <2> HIDE DEF r, d, n
  <2>6. n <= MaxRequests * (d + 1)
    BY <2>2, <2>5, OneMoreTime, RateLimitAssumption
  <2> QED  BY <2>2, <2>6 DEF n, d
<1>2. Init => RateInv
  BY RateInductive
<1>3. RateInv /\ [Next]_vars => RateInv'
  BY RateInductive
<1> QED  BY <1>1, <1>2, <1>3, PTL DEF Spec


-----------------------------------------------------------------------------
(* The thread in wait()                                                    *)

\* A thread outside wait() is patient.
LEMMA IdleIsPatient ==
  ASSUME NEW x, x.pc \in {"idle", "posting", "ready"}, NEW s, NEW R
  PROVE  Patient(x, s, R)
BY DEF Patient, Asking

\* What the intervals and the times of a thread are.
LEMMA WaitNumbers ==
  ASSUME NEW x \in Thread
  PROVE  /\ WindowSeconds \in Nat \ {0} /\ MaxRequests \in Nat \ {0}
         /\ HttpTimeout \in Nat \ {0} /\ Timeout \in Nat \ {0} /\ Pause \in Nat \ {0}
         /\ x.left \in Nat /\ x.timer \in Nat
<1>1. PollInterval \in Nat \ {0} /\ Lateness \in Nat
  BY ClientAssumption
<1>2. Pause \in Nat \ {0}
  BY <1>1 DEF Pause
<1>3. x.left \in Nat /\ x.timer \in Nat
  BY DEF Thread
<1> QED  BY <1>2, <1>3, RateLimitAssumption, ClientAssumption

\* It stays so when the entry is dropped and when the task is not finished any more.
LEMMA PatientLess ==
  ASSUME NEW x \in Thread, NEW s \in Nat, NEW R \in StampSets, Patient(x, s, R),
         NEW t \in {0, s}, NEW Q \in {R, {}}
  PROVE  Patient(x, t, Q)
<1>1. \A y \in InWindow(R) : y.age \in Nat
  BY RateLimitAssumption DEF StampSets, Stamp, InWindow
<1>2. WindowSeconds \in Nat /\ HttpTimeout \in Nat /\ Pause \in Nat /\ x.timer \in Nat
  BY WaitNumbers
<1>3. t <= s /\ t \in Nat
  OBVIOUS
<1>4. SincePoll(x) \in Int
  BY <1>2 DEF SincePoll
<1>5. InWindow(Q) \in SUBSET InWindow(R)
  BY NoStamps
<1>6. ASSUME Few(s, R) PROVE Few(t, Q)
  <2>1. \A a \in 0 .. WindowSeconds - 1 : a < t => a < s
    BY <1>2, <1>3
  <2>2. CASE Q = R
    BY <1>6, <2>1, <2>2 DEF Few
  <2>3. CASE Q = {}
    <3>1. \A a : Cardinality(Upto(Q, a)) = 0
      BY <2>3, NoStamps
    <3>2. 0 < MaxRequests
      BY RateLimitAssumption
    <3> QED  BY <3>1, <3>2 DEF Few
  <2> QED  BY <2>2, <2>3
<1>7. ASSUME Asking(x)
      PROVE  /\ \A y \in InWindow(Q) : y.age + x.left >= Timeout \/ t <= y.age
             /\ ~x.crowded => Few(t, Q)
             /\ \/ t <= WindowSeconds + SincePoll(x)
                \/ x.pc = "loop" /\ x.left = Timeout
                \/ x.crowded /\ x.left + SincePoll(x) + WindowSeconds > Timeout
  <2>1. \A y \in InWindow(R) : y.age + x.left >= Timeout \/ s <= y.age
    BY <1>7 DEF Patient
  <2>2. \/ s <= WindowSeconds + SincePoll(x)
        \/ x.pc = "loop" /\ x.left = Timeout
        \/ x.crowded /\ x.left + SincePoll(x) + WindowSeconds > Timeout
    BY <1>7 DEF Patient
  <2>3. ~x.crowded => Few(t, Q)
    BY <1>6, <1>7 DEF Patient
  <2>4. \A y \in InWindow(Q) : y.age + x.left >= Timeout \/ t <= y.age
    BY <1>1, <1>3, <1>5, <2>1
  <2> QED  BY <1>2, <1>3, <1>4, <2>2, <2>3, <2>4
<1> QED  BY <1>7 DEF Patient

\* A wait() that begins has all its time before it.
LEMMA BeginsPatient ==
  ASSUME NEW x, x.pc = "loop", x.left = Timeout, NEW s, NEW R \in StampSets,
         ~x.crowded => Cardinality(InWindow(R)) < MaxRequests
  PROVE  Patient(x, s, R)
<1>1. \A y \in InWindow(R) : y.age \in Nat
  BY RateLimitAssumption DEF StampSets, Stamp, InWindow
<1>2. \A y \in InWindow(R) : y.age + x.left >= Timeout
  BY <1>1, ClientAssumption
<1>3. ASSUME ~x.crowded, NEW a \in 0 .. WindowSeconds - 1
      PROVE  Cardinality(Upto(R, a)) < MaxRequests
  <2>1. Cardinality(Upto(R, a)) \in Nat /\ Cardinality(InWindow(R)) \in Nat
    BY CountType
  <2>2. Cardinality(Upto(R, a)) <= Cardinality(InWindow(R))
    BY CountType
  <2> QED  BY <1>3, <2>1, <2>2, RateLimitAssumption
<1> QED  BY <1>2, <1>3 DEF Patient, Few

\* A poll that is refused: all the stamps that are to blame are older than wait(),
\* or one is older than the end of the task.
LEMMA RefusedIsPatient ==
  ASSUME NEW x \in Thread, x.pc = "loop", x.id # NULL, NEW s \in Nat, NEW R \in StampSets,
         Patient(x, s, R), Cardinality(InWindow(R)) >= MaxRequests,
         NEW z \in Thread, z.pc = "fetching", z.left = x.left, z.timer = HttpTimeout,
         z.crowded = x.crowded
  PROVE  Patient(z, s, R)
<1>1. \A y \in InWindow(R) : y.age \in Nat /\ y.age < WindowSeconds
  BY RateLimitAssumption DEF StampSets, Stamp, InWindow
<1>2. /\ WindowSeconds \in Nat \ {0} /\ MaxRequests \in Nat \ {0}
      /\ HttpTimeout \in Nat /\ Timeout \in Nat /\ x.left \in Nat
  BY WaitNumbers
<1>3. Asking(x) /\ SincePoll(z) = 0
  BY <1>2 DEF Asking, SincePoll
<1>4. \A y \in InWindow(R) : y.age + x.left >= Timeout \/ s <= y.age
  BY <1>3 DEF Patient
<1>5. ~x.crowded => Few(s, R)
  BY <1>3 DEF Patient
<1>6. CASE x.crowded
  <2>1. InWindow(R) # {}
    BY <1>2, NoStamps
  <2>2. s <= WindowSeconds \/ x.left + WindowSeconds > Timeout
    BY <1>1, <1>2, <1>4, <2>1
  <2> QED  BY <1>2, <1>3, <1>4, <1>6, <2>2 DEF Patient
<1>7. CASE ~x.crowded
  <2>1. WindowSeconds - 1 \in 0 .. WindowSeconds - 1
    BY <1>2
  <2>2. Upto(R, WindowSeconds - 1) = InWindow(R) /\ Cardinality(InWindow(R)) \in Nat
    BY WindowIsUpto, CountType
  <2>3. ~(WindowSeconds - 1 < s)
    BY <1>2, <1>5, <1>7, <2>1, <2>2 DEF Few
  <2>4. s <= WindowSeconds
    BY <1>2, <2>3
  <2> QED  BY <1>2, <1>3, <1>4, <1>5, <2>4 DEF Patient
<1> QED  BY <1>6, <1>7

\* A poll that passes finds the task finished, and wait() ends with its answer;
\* or it finds that the task is not finished.
LEMMA PassedIsPatient ==
  ASSUME NEW x \in Thread, x.pc = "loop", x.id # NULL, NEW s \in Nat, NEW R,
         Patient(x, s, R),
         NEW T \in SUBSET InWindow(R), NEW y \in Stamp, NEW Q, Q = T \cup {y},
         InWindow(R) \in SUBSET Stamp,
         NEW z \in Thread, z.pc = "fetching", z.left = x.left, z.timer = HttpTimeout,
         z.answer \in Finished \/ s = 0
  PROVE  Patient(z, s, Q)
<1>1. \A u \in InWindow(Q) : u.age \in Nat /\ (u \in InWindow(R) \/ u = y)
  BY RateLimitAssumption DEF Stamp, InWindow
<1>2. /\ WindowSeconds \in Nat \ {0} /\ HttpTimeout \in Nat /\ Timeout \in Nat /\ x.left \in Nat
  BY RateLimitAssumption, ClientAssumption DEF Thread
<1>3. SincePoll(z) = 0
  BY <1>2 DEF SincePoll
<1>4. CASE z.answer \in Finished
  BY <1>2, <1>4 DEF Patient, Asking
<1>5. CASE s = 0
  <2>1. \A u \in InWindow(Q) : s <= u.age
    BY <1>1, <1>5
  <2>2. s <= WindowSeconds + SincePoll(z) /\ z.timer <= HttpTimeout
    BY <1>2, <1>3, <1>5
  <2>3. Few(s, Q)
    BY <1>2, <1>5 DEF Few
  <2> QED  BY <2>1, <2>2, <2>3 DEF Patient
<1> QED  BY <1>4, <1>5

\* The answer arrives and does not end wait(), which sleeps and goes on.
LEMMA GoesOnPatient ==
  ASSUME NEW x \in Thread, NEW s \in Nat, NEW R, Patient(x, s, R), NEW z \in Thread,
         z.left = x.left, z.id = x.id, z.crowded = x.crowded,
         \/ /\ x.pc = "fetching" /\ x.answer \notin Finished
            /\ z.pc = "sleeping" /\ z.timer = Pause
         \/ x.pc = "sleeping" /\ z.pc = "loop"
  PROVE  Patient(z, s, R)
<1>1. /\ WindowSeconds \in Nat /\ HttpTimeout \in Nat /\ Pause \in Nat /\ Timeout \in Nat
      /\ x.left \in Nat /\ x.timer \in Nat
  BY WaitNumbers
<1>2. SincePoll(x) \in Int /\ SincePoll(z) \in Int /\ SincePoll(x) <= SincePoll(z)
  BY <1>1 DEF SincePoll, Patient
<1>3. Asking(z) => Asking(x)
  BY DEF Asking
<1>4. z.pc = "sleeping" => z.timer <= Pause
  BY <1>1
<1>5. ASSUME Asking(z)
      PROVE  /\ \A y \in InWindow(R) : y.age + z.left >= Timeout \/ s <= y.age
             /\ ~z.crowded => Few(s, R)
             /\ \/ s <= WindowSeconds + SincePoll(z)
                \/ z.crowded /\ z.left + SincePoll(z) + WindowSeconds > Timeout
  <2>1. /\ \A y \in InWindow(R) : y.age + x.left >= Timeout \/ s <= y.age
        /\ ~x.crowded => Few(s, R)
        /\ \/ s <= WindowSeconds + SincePoll(x)
           \/ x.crowded /\ x.left + SincePoll(x) + WindowSeconds > Timeout
    BY <1>3, <1>5 DEF Patient
  <2> QED  BY <1>1, <1>2, <2>1
<1> QED  BY <1>4, <1>5 DEF Patient

\* Time passes: the deadline comes nearer by no more than the stamps and the end
\* of the task go further away.
LEMMA TimeIsPatient ==
  ASSUME NEW x \in Thread, NEW s \in Nat, NEW R \in StampSets, Patient(x, s, R),
         x.pc # "loop", x.pc \in {"sleeping", "fetching"} => x.timer > 0,
         NEW z \in Thread, z.pc = x.pc, z.id = x.id, z.answer = x.answer,
         z.crowded = x.crowded,
         z.timer = (IF x.timer > 0 THEN x.timer - 1 ELSE 0),
         z.left = (IF x.left > 0 THEN x.left - 1 ELSE 0),
         NEW t \in Nat, t <= s + 1
  PROVE  Patient(z, t, Older(R))
<1>1. /\ WindowSeconds \in Nat /\ HttpTimeout \in Nat /\ Pause \in Nat /\ Timeout \in Nat
      /\ x.left \in Nat /\ x.timer \in Nat
  BY WaitNumbers
<1>2. \A y \in InWindow(R) : y.age \in Nat
  BY RateLimitAssumption DEF StampSets, Stamp, InWindow
<1>3. ASSUME Asking(z) PROVE SincePoll(z) = SincePoll(x) + 1 /\ SincePoll(x) \in Int /\ Asking(x)
  BY <1>1, <1>3 DEF Asking, SincePoll
<1>4. ASSUME Asking(z), NEW y \in InWindow(Older(R))
      PROVE  y.age + z.left >= Timeout \/ t <= y.age
  <2>1. PICK u \in InWindow(R) : y.age = u.age + 1
    BY OlderCounts
  <2>2. u.age + x.left >= Timeout \/ s <= u.age
    BY <1>3, <1>4 DEF Patient
  <2> QED  BY <1>1, <1>2, <2>1, <2>2
<1>5. ASSUME Asking(z)
      PROVE  \/ t <= WindowSeconds + SincePoll(z)
             \/ z.crowded /\ z.left + SincePoll(z) + WindowSeconds > Timeout
  <2>1. \/ s <= WindowSeconds + SincePoll(x)
        \/ x.crowded /\ x.left + SincePoll(x) + WindowSeconds > Timeout
    BY <1>3, <1>5 DEF Patient
  <2>2. SincePoll(z) = SincePoll(x) + 1 /\ SincePoll(x) \in Int
    BY <1>3, <1>5
  <2> QED  BY <1>1, <2>1, <2>2
<1>6. /\ z.pc = "fetching" => z.timer <= HttpTimeout
      /\ z.pc = "sleeping" => z.timer <= Pause
  BY <1>1 DEF Patient
<1>7. ASSUME Few(s, R), NEW a \in 0 .. WindowSeconds - 1, a < t
      PROVE  Cardinality(Upto(Older(R), a)) < MaxRequests
  <2>1. CASE a = 0
    <3>1. Cardinality(Upto(Older(R), a)) = 0
      BY <2>1, OlderCounts, NoStamps
    <3> QED  BY <3>1, RateLimitAssumption
  <2>2. CASE a # 0
    <3>1. a \in 1 .. WindowSeconds - 1 /\ a - 1 \in 0 .. WindowSeconds - 1 /\ a - 1 < s
      BY <1>1, <1>7, <2>2
    <3>2. Cardinality(Upto(Older(R), a)) = Cardinality(Upto(R, a - 1))
      BY <3>1, OlderCounts
    <3>3. Cardinality(Upto(R, a - 1)) < MaxRequests
      BY <1>7, <3>1 DEF Few
    <3> QED  BY <3>2, <3>3
  <2> QED  BY <2>1, <2>2
<1>8. Few(s, R) => Few(t, Older(R))
  BY <1>7 DEF Few
<1>9. ASSUME Asking(z) PROVE ~z.crowded => Few(t, Older(R))
  BY <1>3, <1>8, <1>9 DEF Patient
<1> QED  BY <1>4, <1>5, <1>6, <1>9 DEF Patient


-----------------------------------------------------------------------------
(* The steps                                                               *)

\* What the steps of WaitInv have at hand.
LEMMA WaitFacts ==
  ASSUME RateInv, WaitInv
  PROVE  /\ App \in Ips /\ requests[App] \in StampSets
         /\ InWindow(requests[App]) \in SUBSET Stamp
         /\ Since \in Nat /\ (app.id # NULL => app.id \in TaskIds)
         /\ NULL \notin TaskIds
<1>1. App \in Ips /\ NULL \notin TaskIds \cup STRING
  BY ClientAssumption
<1>2. requests[App] \in StampSets
  BY <1>1 DEF RateInv
<1>3. InWindow(requests[App]) \in SUBSET Stamp
  BY <1>2 DEF StampSets, InWindow
<1>4. app.id \in TaskIds \cup {NULL}
  BY DEF WaitInv, Thread
<1>5. Since \in Nat
  BY <1>4 DEF Since, WaitInv
<1> QED  BY <1>1, <1>2, <1>3, <1>4, <1>5

\* Threads that queue() and wait() make.
LEMMA ThreadType ==
  ASSUME NEW x \in Thread
  PROVE  /\ Idle \in Thread /\ Ref(x.id) \in Thread /\ Ref(NULL) \in Thread
         /\ Idle.pc = "idle" /\ Ref(x.id).pc = "ready" /\ Ref(NULL).pc = "ready"
         /\ Sleep(x) \in Thread /\ Sleep(x).pc = "sleeping" /\ Sleep(x).timer = Pause
         /\ Sleep(x).left = x.left /\ Sleep(x).id = x.id /\ Sleep(x).crowded = x.crowded
<1>1. PollInterval + Lateness \in Nat
  BY ClientAssumption
<1> QED  BY <1>1 DEF Thread, Idle, Ref, Sleep, Pause

\* A step after which the thread is outside wait().
LEMMA OutsideKeepsWait ==
  ASSUME WaitInv, app' \in Thread, app'.pc \in {"idle", "posting", "ready"},
         status' \in [TaskIds -> Statuses], settled' \in [TaskIds -> Nat],
         \A t \in TaskIds : status'[t] \notin Finished => settled'[t] = 0
  PROVE  WaitInv'
<1>1. PICK x, s, R : x = app' /\ s = Since' /\ R = requests'[App]
  OBVIOUS
<1>2. Patient(x, s, R)
  BY <1>1, IdleIsPatient
<1> QED  BY <1>1, <1>2 DEF WaitInv

\* Any step that leaves the tasks alone and the thread patient.
LEMMA PatientKeepsWait ==
  ASSUME WaitInv, UNCHANGED tables, app' \in Thread, Patient(app', Since', requests'[App])
  PROVE  WaitInv'
BY DEF WaitInv, tables

\* queue(), and the steps that end wait().
LEMMA CallsKeepWait ==
  ASSUME RateInv, WaitInv,
         \/ QueueNothing \/ PostReturns \/ Forget \/ FetchRaises \/ GiveUp
         \/ \E t \in TaskIds : Queue(t)
  PROVE  WaitInv'
<1>0. app \in Thread /\ status \in [TaskIds -> Statuses] /\ settled \in [TaskIds -> Nat]
  BY DEF WaitInv
<1>1. CASE QueueNothing \/ PostReturns \/ Forget \/ FetchRaises \/ GiveUp
  <2>1. app' \in {Idle, Ref(app.id), Ref(NULL)} /\ UNCHANGED tables
    BY <1>1 DEF QueueNothing, PostReturns, Forget, FetchRaises, GiveUp
  <2>2. app' \in Thread /\ app'.pc \in {"idle", "posting", "ready"}
    BY <1>0, <2>1, ThreadType
  <2> QED  BY <2>1, <2>2, OutsideKeepsWait DEF WaitInv, tables
<1>2. ASSUME NEW t \in TaskIds, Queue(t) PROVE WaitInv'
  <2>1. /\ status[t] = "new" /\ status' = [status EXCEPT ![t] = "pending"]
        /\ app' = [Idle EXCEPT !.pc = "posting", !.id = t, !.timer = HttpTimeout]
        /\ UNCHANGED settled
    BY <1>2 DEF Queue
  <2>2. app' \in Thread /\ app'.pc = "posting"
    BY <2>1, ClientAssumption DEF Idle, Thread
  <2>3. "pending" \in Statuses /\ "new" \notin Finished
    BY DEF Statuses, Finished
  <2>4. status' \in [TaskIds -> Statuses] /\ settled' \in [TaskIds -> Nat]
    BY <1>0, <2>1, <2>3
  <2>5. settled[t] = 0
    BY <2>1, <2>3 DEF WaitInv
  <2>6. \A u \in TaskIds : status'[u] \notin Finished => settled'[u] = 0
    BY <1>0, <2>1, <2>5 DEF WaitInv
  <2> QED  BY <2>2, <2>4, <2>6, OutsideKeepsWait
<1> QED  BY <1>1, <1>2

\* wait() begins, sleeps and wakes.
LEMMA LoopKeepsWait ==
  ASSUME RateInv, WaitInv, Wait \/ FetchNothing \/ FetchReturns \/ Awake
  PROVE  WaitInv'
<1>0. app \in Thread /\ Patient(app, Since, requests[App])
  BY DEF WaitInv
<1>1. UNCHANGED tables /\ UNCHANGED requests
  BY DEF Wait, FetchNothing, FetchReturns, Awake, limiter
<1>2. PICK s, R : s = Since /\ R = requests[App]
  OBVIOUS
<1>3. requests'[App] = R /\ (app'.id = app.id => Since' = s)
  BY <1>1, <1>2 DEF Since, tables
<1>4. s \in Nat /\ R \in StampSets /\ Patient(app, s, R)
  BY <1>0, <1>2, WaitFacts
<1>5. CASE Wait
  <2>1. app' = [app EXCEPT !.pc = "loop", !.left = Timeout,
                           !.crowded = Cardinality(InWindow(R)) >= MaxRequests]
    BY <1>2, <1>5 DEF Wait
  <2>2. /\ app' \in Thread /\ app'.pc = "loop" /\ app'.left = Timeout /\ app'.id = app.id
        /\ app'.crowded = (Cardinality(InWindow(R)) >= MaxRequests)
    <3>1. (Cardinality(InWindow(R)) >= MaxRequests) \in BOOLEAN
      OBVIOUS
    <3> QED  BY <1>0, <2>1, <3>1, ClientAssumption DEF Thread
  <2>3. ~app'.crowded => Cardinality(InWindow(R)) < MaxRequests
    <3>1. PICK n \in Nat : n = Cardinality(InWindow(R))
      BY <1>4, CountType
    <3>2. ~(n >= MaxRequests) => n < MaxRequests
      BY <3>1, RateLimitAssumption
    <3> QED  BY <2>2, <3>1, <3>2
  <2>4. PICK z : z = app'
    OBVIOUS
  <2>5. Patient(z, s, R)
    BY <1>4, <2>2, <2>3, <2>4, BeginsPatient
  <2> QED  BY <1>1, <1>3, <2>2, <2>4, <2>5, PatientKeepsWait
<1>6. CASE FetchNothing
  <2>1. app' = Sleep(app) /\ app.id = NULL
    BY <1>6 DEF FetchNothing
  <2>2. /\ app' \in Thread /\ app'.pc = "sleeping" /\ app'.id = app.id /\ app'.id = NULL
        /\ app'.timer = Pause
    BY <1>0, <2>1, ThreadType
  <2>3. Patient(app', s, R)
    BY <1>0, <2>2, WaitNumbers DEF Patient, Asking
  <2> QED  BY <1>1, <1>3, <2>2, <2>3, PatientKeepsWait
<1>7. CASE FetchReturns /\ app.answer \notin Finished
  <2>1. app' = Sleep(app) /\ app.pc = "fetching"
    BY <1>7 DEF FetchReturns
  <2>2. /\ app' \in Thread /\ app'.pc = "sleeping" /\ app'.id = app.id /\ app'.left = app.left
        /\ app'.crowded = app.crowded /\ app'.timer = Pause
    BY <1>0, <2>1, ThreadType
  <2>3. Patient(app', s, R)
    BY <1>0, <1>4, <1>7, <2>1, <2>2, GoesOnPatient
  <2> QED  BY <1>1, <1>3, <2>2, <2>3, PatientKeepsWait
<1>8. CASE FetchReturns /\ app.answer \in Finished
  <2>1. app' = Ref(app.id)
    BY <1>8 DEF FetchReturns
  <2>2. app' \in Thread /\ app'.pc = "ready"
    BY <1>0, <2>1, ThreadType
  <2> QED  BY <1>1, <2>2, OutsideKeepsWait DEF WaitInv, tables
<1>9. CASE Awake
  <2>1. app' = [app EXCEPT !.pc = "loop"] /\ app.pc = "sleeping"
    BY <1>9 DEF Awake
  <2>2. /\ app' \in Thread /\ app'.pc = "loop" /\ app'.id = app.id /\ app'.left = app.left
        /\ app'.crowded = app.crowded
    BY <1>0, <2>1 DEF Thread
  <2>3. Patient(app', s, R)
    BY <1>0, <1>4, <2>1, <2>2, GoesOnPatient
  <2> QED  BY <1>1, <1>3, <2>2, <2>3, PatientKeepsWait
<1> QED  BY <1>5, <1>6, <1>7, <1>8, <1>9

\* A poll.
LEMMA FetchKeepsWait ==
  ASSUME RateInv, WaitInv, Fetch
  PROVE  WaitInv'
<1>0. /\ app \in Thread /\ Patient(app, Since, requests[App]) /\ status' = status
      /\ status \in [TaskIds -> Statuses] /\ settled \in [TaskIds -> Nat]
  BY DEF WaitInv, Fetch
<1>1. PICK passes \in BOOLEAN, fails \in BOOLEAN :
        /\ fails => passes
        /\ Dispatch(App, passes)
        /\ app' = [app EXCEPT !.pc = "fetching", !.timer = HttpTimeout,
                              !.answer = IF fails THEN NULL ELSE Result(app.id, passes)]
        /\ settled' = IF fails THEN [settled EXCEPT ![app.id] = 0] ELSE settled
  BY DEF Fetch
<1>2. app.pc = "loop" /\ app.id # NULL /\ app.id \in TaskIds
  BY WaitFacts DEF Fetch
<1> DEFINE answer == IF fails THEN NULL ELSE Result(app.id, passes)
<1>3. answer \in Statuses \cup {NULL}
  BY <1>0, <1>2 DEF Result
<1>4. /\ app' \in Thread /\ app'.pc = "fetching" /\ app'.left = app.left /\ app'.id = app.id
      /\ app'.timer = HttpTimeout /\ app'.crowded = app.crowded /\ app'.answer = answer
  <2>1. HttpTimeout \in Nat
    BY ClientAssumption
  <2>2. app' = [app EXCEPT !.pc = "fetching", !.timer = HttpTimeout, !.answer = answer]
    BY <1>1
  <2> HIDE DEF answer
  <2> QED  BY <1>0, <1>3, <2>1, <2>2 DEF Thread
<1>5. /\ settled' \in [TaskIds -> Nat]
      /\ \A t \in TaskIds : status'[t] \notin Finished => settled'[t] = 0
      /\ settled'[app.id] = IF fails THEN 0 ELSE settled[app.id]
  BY <1>0, <1>1, <1>2 DEF WaitInv
<1>6. PICK s, r, R, z, Q : /\ s = Since /\ r = Since' /\ R = requests[App] /\ z = app'
                           /\ Q = requests'[App]
  OBVIOUS
<1>7. /\ s \in Nat /\ R \in StampSets /\ InWindow(R) \in SUBSET Stamp /\ Patient(app, s, R)
      /\ App \in Ips
  BY <1>0, <1>6, WaitFacts
<1>8. r = IF fails THEN 0 ELSE s
  BY <1>2, <1>4, <1>5, <1>6 DEF Since
<1>9. r \in Nat /\ Patient(app, r, R)
  BY <1>0, <1>7, <1>8, PatientLess
<1>10. Served(App, passes)
  BY <1>1, <1>7, DispatchKeepsRate
<1>11. Patient(z, r, Q)
  <2>1. CASE ~passes
    <3>1. Cardinality(InWindow(R)) >= MaxRequests /\ Q = R
      BY <1>6, <1>10, <2>1 DEF Served
    <3>2. Patient(z, r, R)
      BY <1>0, <1>2, <1>4, <1>6, <1>7, <1>9, <3>1, RefusedIsPatient
    <3> QED  BY <3>1, <3>2
  <2>2. CASE passes
    <3>1. PICK T \in SUBSET InWindow(R) : Q = Stamped(T)
      BY <1>6, <1>10, <2>2 DEF Served
    <3>2. T \in StampSets
      BY <1>7, <3>1, PartOfStamps, WindowIsUpto
    <3>3. PICK y \in Stamp : Q = T \cup {y}
      BY <3>1, <3>2, StampedAdds
    <3>4. z.answer \in Finished \/ r = 0
      <4>1. CASE fails
        BY <1>8, <4>1
      <4>2. CASE ~fails /\ status[app.id] \in Finished
        <5>1. status[app.id] # "deleted"
          BY <4>2 DEF Finished
        <5> QED  BY <1>4, <1>6, <2>2, <4>2, <5>1 DEF Result
      <4>3. CASE ~fails /\ status[app.id] \notin Finished
        BY <1>2, <1>6, <1>8, <4>3 DEF WaitInv, Since
      <4> QED  BY <4>1, <4>2, <4>3
    <3> QED  BY <1>0, <1>2, <1>4, <1>6, <1>7, <1>9, <3>1, <3>3, <3>4, PassedIsPatient
  <2> QED  BY <2>1, <2>2
<1> QED  BY <1>0, <1>4, <1>5, <1>6, <1>11 DEF WaitInv

\* A request of another address, after which the entry of this one is there or not.
LEMMA OtherKeepsWait ==
  ASSUME RateInv, WaitInv, NEW ip \in Ips, OtherRequest(ip)
  PROVE  WaitInv'
<1>0. app \in Thread /\ Patient(app, Since, requests[App]) /\ UNCHANGED tables /\ app' = app
  BY DEF WaitInv, OtherRequest
<1>1. requests'[App] = requests[App] \/ requests'[App] = {}
  BY WaitFacts, DispatchKeepsRate DEF OtherRequest
<1>2. PICK s, R, Q : s = Since /\ R = requests[App] /\ Q = requests'[App]
  OBVIOUS
<1>3. Since' = s /\ s \in Nat /\ R \in StampSets
  BY <1>0, <1>2, WaitFacts DEF Since, tables
<1>4. Patient(app, s, Q)
  BY <1>0, <1>1, <1>2, <1>3, PatientLess
<1> QED  BY <1>0, <1>2, <1>3, <1>4, PatientKeepsWait

\* Where a task may go is a status.
LEMMA WaysType ==
  ASSUME NEW t \in TaskIds, NEW way \in Life!Ways(t) \cup LateWays(t)
  PROVE  way[1] \in Statuses
<1> DEFINE a == attempts[t]
<1>1. Life!Ways(t) \in
        {{<<"pending", 0>>},
         {<<"running", a>>, <<"cancelled", a>>, <<"expired", a>>, <<"deleted", 0>>},
         {<<"completed", a>>, <<"failed", a + 1>>, <<"pending", a + 1>>, <<"expired", a>>,
          <<"deleted", 0>>},
         {<<"pending", 0>>, <<"deleted", 0>>}, {<<"deleted", 0>>}}
  BY DEF Life!Ways
<1>2. LateWays(t) \in {{}, {<<"completed", a>>, <<"failed", a + 1>>, <<"pending", a + 1>>}}
  BY DEF LateWays
<1>3. way \in {<<"pending", 0>>, <<"running", a>>, <<"cancelled", a>>, <<"expired", a>>,
               <<"deleted", 0>>, <<"completed", a>>, <<"failed", a + 1>>, <<"pending", a + 1>>}
  BY <1>1, <1>2
<1> QED  BY <1>3 DEF Statuses, Finished

\* A worker's step: the task of the TaskRef is finished now, or not any more, or
\* the step was of another task.
LEMMA ProceedKeepsWait ==
  ASSUME RateInv, WaitInv, NEW t \in TaskIds, Proceed(t)
  PROVE  WaitInv'
<1>0. /\ app \in Thread /\ Patient(app, Since, requests[App]) /\ app' = app
      /\ requests' = requests /\ status \in [TaskIds -> Statuses] /\ settled \in [TaskIds -> Nat]
  BY DEF WaitInv, Proceed, limiter
<1>1. PICK way \in Life!Ways(t) \cup LateWays(t) :
        /\ status' = [status EXCEPT ![t] = way[1]]
        /\ settled' = IF way[1] \in Finished THEN settled ELSE [settled EXCEPT ![t] = 0]
  BY DEF Proceed
<1>2. way[1] \in Statuses
  BY <1>1, WaysType
<1>3. /\ status' \in [TaskIds -> Statuses] /\ settled' \in [TaskIds -> Nat]
      /\ \A u \in TaskIds : settled'[u] \in {0, settled[u]}
  BY <1>0, <1>1, <1>2
<1>4. \A u \in TaskIds : status'[u] \notin Finished => settled'[u] = 0
  BY <1>0, <1>1 DEF WaitInv
<1>5. PICK s, r, R : s = Since /\ r = Since' /\ R = requests[App]
  OBVIOUS
<1>6. s \in Nat /\ R \in StampSets /\ r \in {0, s}
  BY <1>0, <1>3, <1>5, WaitFacts DEF Since
<1>7. Patient(app, r, R)
  BY <1>0, <1>5, <1>6, PatientLess
<1> QED  BY <1>0, <1>3, <1>4, <1>5, <1>7 DEF WaitInv

\* Time passes.
LEMMA TickKeepsWait ==
  ASSUME RateInv, WaitInv, Tick
  PROVE  WaitInv'
<1>0. /\ app \in Thread /\ Patient(app, Since, requests[App]) /\ status' = status
      /\ status \in [TaskIds -> Statuses] /\ settled \in [TaskIds -> Nat]
      /\ app.pc # "loop" /\ (app.pc \in {"sleeping", "fetching"} => app.timer > 0)
  BY DEF WaitInv, Tick
<1>1. /\ app' = [app EXCEPT !.timer = Max({@ - 1, 0}), !.left = Max({@ - 1, 0})]
      /\ settled' = [t \in TaskIds |-> IF status[t] \in Finished
                                       THEN Min({settled[t] + 1, Notice + 1}) ELSE 0]
  BY DEF Tick
<1>2. Notice \in Nat
  BY RateLimitAssumption, ClientAssumption DEF Notice
<1>3. ASSUME NEW n \in Nat PROVE Max({n - 1, 0}) = IF n > 0 THEN n - 1 ELSE 0
  <2>1. n - 1 \in Int /\ 0 \in Int
    OBVIOUS
  <2>2. Max({n - 1, 0}) = IF n - 1 >= 0 THEN n - 1 ELSE 0
    BY <2>1, OfTwo
  <2> QED  BY <2>2
<1>4. ASSUME NEW n \in Nat PROVE Min({n + 1, Notice + 1}) \in Nat /\ Min({n + 1, Notice + 1}) <= n + 1
  <2>1. n + 1 \in Int /\ Notice + 1 \in Int
    BY <1>2
  <2>2. Min({n + 1, Notice + 1}) = IF n + 1 <= Notice + 1 THEN n + 1 ELSE Notice + 1
    BY <2>1, OfTwo
  <2> QED  BY <1>2, <2>2
<1>5. app.timer \in Nat /\ app.left \in Nat
  BY <1>0 DEF Thread
<1>6. /\ app'.pc = app.pc /\ app'.id = app.id /\ app'.answer = app.answer
      /\ app'.crowded = app.crowded
      /\ app'.timer = (IF app.timer > 0 THEN app.timer - 1 ELSE 0)
      /\ app'.left = (IF app.left > 0 THEN app.left - 1 ELSE 0)
      /\ app' \in Thread
  <2>1. app' = [app EXCEPT !.timer = (IF app.timer > 0 THEN app.timer - 1 ELSE 0),
                           !.left = (IF app.left > 0 THEN app.left - 1 ELSE 0)]
    BY <1>1, <1>3, <1>5
  <2>2. /\ (IF app.timer > 0 THEN app.timer - 1 ELSE 0) \in Nat
        /\ (IF app.left > 0 THEN app.left - 1 ELSE 0) \in Nat
    BY <1>5
  <2> QED  BY <1>0, <2>1, <2>2 DEF Thread
<1>7. /\ settled' \in [TaskIds -> Nat]
      /\ \A t \in TaskIds : settled'[t] <= settled[t] + 1
      /\ \A t \in TaskIds : status'[t] \notin Finished => settled'[t] = 0
  <2>1. ASSUME NEW t \in TaskIds
        PROVE  /\ settled'[t] \in Nat /\ settled'[t] <= settled[t] + 1
               /\ status'[t] \notin Finished => settled'[t] = 0
    <3>1. settled[t] \in Nat
      BY <1>0
    <3>2. CASE status[t] \in Finished
      <4>1. settled'[t] = Min({settled[t] + 1, Notice + 1})
        BY <1>1, <3>2
      <4> QED  BY <1>0, <1>4, <3>1, <3>2, <4>1
    <3>3. CASE status[t] \notin Finished
      <4>1. settled'[t] = 0
        BY <1>1, <3>3
      <4> QED  BY <3>1, <4>1
    <3> QED  BY <3>2, <3>3
  <2> QED  BY <1>1, <2>1
<1>8. PICK s, r, R, z : s = Since /\ r = Since' /\ R = requests[App] /\ z = app'
  OBVIOUS
<1>9. s \in Nat /\ R \in StampSets /\ requests'[App] = Older(R)
  BY <1>8, WaitFacts DEF Tick, RateLimitTick
<1>10. r \in Nat /\ r <= s + 1
  BY <1>6, <1>7, <1>8, <1>9, WaitFacts DEF Since
<1>11. Patient(z, r, Older(R))
  BY <1>0, <1>6, <1>8, <1>9, <1>10, TimeIsPatient
<1> QED  BY <1>0, <1>6, <1>7, <1>8, <1>9, <1>11 DEF WaitInv

\* WaitInv is inductive.
LEMMA WaitInductive ==
  /\ Init => WaitInv
  /\ RateInv /\ WaitInv /\ [Next]_vars => WaitInv'
<1>1. ASSUME Init PROVE WaitInv
  <2>1. /\ status = [t \in TaskIds |-> "new"] /\ settled = [t \in TaskIds |-> 0] /\ app = Idle
    BY <1>1 DEF Init, Life!Init
  <2>2. Idle \in Thread /\ Idle.pc = "idle"
    BY DEF Idle, Thread
  <2>3. "new" \in Statuses
    BY DEF Statuses
  <2> QED  BY <2>1, <2>2, <2>3, IdleIsPatient DEF WaitInv
<1>2. ASSUME RateInv, WaitInv, [Next]_vars PROVE WaitInv'
  <2>1. CASE QueueNothing \/ PostReturns \/ Forget \/ FetchRaises \/ GiveUp
    BY <1>2, <2>1, CallsKeepWait
  <2>2. CASE Wait \/ FetchNothing \/ FetchReturns \/ Awake
    BY <1>2, <2>2, LoopKeepsWait
  <2>3. CASE Fetch
    BY <1>2, <2>3, FetchKeepsWait
  <2>4. ASSUME NEW t \in TaskIds, Queue(t) PROVE WaitInv'
    BY <1>2, <2>4, CallsKeepWait
  <2>5. ASSUME NEW t \in TaskIds, Proceed(t) PROVE WaitInv'
    BY <1>2, <2>5, ProceedKeepsWait
  <2>6. ASSUME NEW ip \in Ips, OtherRequest(ip) PROVE WaitInv'
    BY <1>2, <2>6, OtherKeepsWait
  <2>7. CASE Tick
    BY <1>2, <2>7, TickKeepsWait
  <2>8. CASE UNCHANGED vars
    BY <1>2, <2>8 DEF vars, limiter, tables, WaitInv, Since
  <2> QED  BY <1>2, <2>1, <2>2, <2>3, <2>4, <2>5, <2>6, <2>7, <2>8 DEF Next, AppStep
<1> QED  BY <1>1, <1>2

-----------------------------------------------------------------------------
(* TimeoutError                                                            *)

\* When wait() gives up, its last poll was no more than a sleep and a request ago.
LEMMA GivesUpInTime ==
  ASSUME WaitInv, RateInv, app.pc = "loop", app.left = 0, app.id # NULL
  PROVE  settled[app.id] <= Notice \/ (app.crowded /\ Timeout < Notice)
<1>1. /\ WindowSeconds \in Nat /\ HttpTimeout \in Nat /\ Pause \in Nat /\ Timeout \in Nat \ {0}
      /\ app \in Thread
  BY WaitNumbers DEF WaitInv
<1>2. Asking(app) /\ SincePoll(app) = HttpTimeout + Pause
  BY DEF Asking, SincePoll
<1>3. Since = settled[app.id] /\ Since \in Nat
  BY WaitFacts DEF Since
<1>4. Notice = WindowSeconds + HttpTimeout + Pause
  BY RateLimitAssumption, ClientAssumption DEF Notice, Pause
<1>5. \/ Since <= WindowSeconds + SincePoll(app)
      \/ app.left = Timeout
      \/ app.crowded /\ app.left + SincePoll(app) + WindowSeconds > Timeout
  BY <1>2 DEF WaitInv, Patient
<1> QED  BY <1>1, <1>2, <1>3, <1>4, <1>5

\* wait() notices that its task is finished, whatever its timeout: when it raises
\* TimeoutError, the task has not been finished, since its end or the last poll
\* answered with 500, for longer than a window of the limiter, a sleep and a
\* request; unless the timeout is shorter than these and the address was at the
\* limit when wait() began.
THEOREM TimeoutsAreTimely == Spec => []TimeoutIsTimely
<1>1. Init => TimeoutIsTimely
  BY DEF Init, TimeoutIsTimely
<1>2. ASSUME RateInv, WaitInv, TimeoutIsTimely, [Next]_vars PROVE TimeoutIsTimely'
  <2>1. CASE GiveUp
    <3> DEFINE late == IF app.id = NULL THEN 0 ELSE settled[app.id]
    <3>1. app.pc = "loop" /\ app.left = 0 /\ outcome' = Ended("timeout", late)
      BY <2>1 DEF GiveUp
    <3>2. outcome'.late = late /\ outcome'.crowded = app.crowded
      BY <3>1 DEF Ended
    <3>3. 0 <= Notice
      BY RateLimitAssumption, ClientAssumption DEF Notice
    <3>4. late <= Notice \/ (app.crowded /\ Timeout < Notice)
      BY <1>2, <3>1, <3>3, GivesUpInTime
    <3> QED  BY <3>2, <3>4 DEF TimeoutIsTimely
  <2>2. CASE outcome' = NULL \/ outcome'.kind \in {"result", "error"}
    BY <2>2 DEF TimeoutIsTimely
  <2>3. CASE outcome' = outcome
    BY <1>2, <2>3 DEF TimeoutIsTimely
  <2>4. CASE FetchReturns \/ FetchRaises
    <3>1. outcome' \in {outcome, Ended("result", 0), Ended("error", 0)}
      BY <2>4 DEF FetchReturns, FetchRaises
    <3>2. Ended("result", 0).kind = "result" /\ Ended("error", 0).kind = "error"
      BY DEF Ended
    <3> QED  BY <2>2, <2>3, <3>1, <3>2
  <2>5. \/ GiveUp \/ FetchReturns \/ FetchRaises \/ outcome' = outcome \/ outcome' = NULL
    BY <1>2
       DEF Next, AppStep, vars, QueueNothing, PostReturns, Forget, Wait, FetchNothing, Fetch,
           Awake, Queue, Proceed, OtherRequest, Tick
  <2> QED  BY <2>1, <2>2, <2>3, <2>4, <2>5
<1>3. Init => RateInv /\ WaitInv
  BY RateInductive, WaitInductive
<1>4. RateInv /\ WaitInv /\ [Next]_vars => RateInv' /\ WaitInv'
  BY RateInductive, WaitInductive
<1>5. RateInv /\ WaitInv /\ TimeoutIsTimely /\ [Next]_vars => TimeoutIsTimely'
  BY <1>2
<1> QED  BY <1>1, <1>3, <1>4, <1>5, PTL DEF Spec
=============================================================================
