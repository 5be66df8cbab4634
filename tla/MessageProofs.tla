---------------------------- MODULE MessageProofs ----------------------------
(***************************************************************************)
(* Theorems about messages from other chains: those of the relay chain are *)
(* handled once each and in order (DownwardMessages), and whatever a       *)
(* message does with its origin, it acts as its sender (XcmOrigins).       *)
(***************************************************************************)
EXTENDS DownwardMessages, XcmOrigins, SequenceTheorems, DataInduction, TLAPS

-----------------------------------------------------------------------------
(* The queue of downward messages.                                         *)

\* What is known of a message sent, and of the state that Service works on.
Sent == [required : Nat, used : Nat]
Results == [weight : Int, queue : Seq(Nat), executed : Seq(Nat), overweight : SUBSET Nat]

\* Messages in the order of sending; all of A sent before all of B; too heavy.
Increasing(s) == \A j, k \in DOMAIN s : j < k => s[j] < s[k]
AllBelow(A, B) == \A a \in A, b \in B : a < b
Heavy(A) == \A i \in A : sent[i].required > MaxIndividual

\* The messages P are divided among those executed, those that wait, and those put
\* aside; the first two are in order, also across the two.
Parts(done, waiting, aside, P) ==
    /\ done \in Seq(Nat) /\ waiting \in Seq(Nat) /\ aside \in SUBSET Nat
    /\ Increasing(done) /\ Increasing(waiting) /\ AllBelow(Ids(done), Ids(waiting))
    /\ Ids(done) \cap aside = {} /\ Ids(waiting) \cap aside = {}
    /\ Ids(done) \cup Ids(waiting) \cup aside = P
    /\ Heavy(aside)

Handles(acc, P) == acc \in Results /\ Parts(acc.executed, acc.queue, acc.overweight, P)

\* What appending does to the ids of a sequence and to their order.
LEMMA AppendIds ==
    ASSUME NEW s \in Seq(Nat), NEW i \in Nat
    PROVE  /\ Append(s, i) \in Seq(Nat)
           /\ Ids(Append(s, i)) = Ids(s) \cup {i}
           /\ Increasing(s) /\ AllBelow(Ids(s), {i}) => Increasing(Append(s, i))
<1> DEFINE t == Append(s, i)
           n == Len(s)
<1>1. /\ t \in Seq(Nat) /\ Len(t) = n + 1 /\ n \in Nat
      /\ (\A k \in 1..n : t[k] = s[k]) /\ t[n + 1] = i
      /\ DOMAIN s = 1..n
  BY AppendProperties, LenProperties
<1> HIDE DEF t
<1>2. DOMAIN t = 1..(n + 1)
  BY <1>1, LenProperties
<1> HIDE DEF n
<1>3. Ids(t) = Ids(s) \cup {i}
  <2>1. \A k \in DOMAIN t : t[k] \in Ids(s) \cup {i}
    <3> SUFFICES ASSUME NEW k \in DOMAIN t PROVE t[k] \in Ids(s) \cup {i}
      OBVIOUS
    <3>1. CASE k = n + 1
      BY <1>1, <3>1
    <3>2. CASE k # n + 1
      <4>1. k \in 1..n /\ k \in DOMAIN s /\ t[k] = s[k]
        BY <1>1, <1>2, <3>2
      <4> QED BY <4>1 DEF Ids
    <3> QED BY <3>1, <3>2
  <2>2. \A k \in DOMAIN s : s[k] \in Ids(t)
    <3> SUFFICES ASSUME NEW k \in DOMAIN s PROVE s[k] \in Ids(t)
      OBVIOUS
    <3>1. k \in DOMAIN t /\ t[k] = s[k]
      BY <1>1, <1>2
    <3> QED BY <3>1 DEF Ids
  <2>3. i \in Ids(t)
    <3>1. n + 1 \in DOMAIN t /\ t[n + 1] = i
      BY <1>1, <1>2
    <3> QED BY <3>1 DEF Ids
  <2> QED BY <2>1, <2>2, <2>3 DEF Ids
<1>4. ASSUME Increasing(s), AllBelow(Ids(s), {i}) PROVE Increasing(t)
  <2> SUFFICES ASSUME NEW j \in DOMAIN t, NEW k \in DOMAIN t, j < k PROVE t[j] < t[k]
    BY DEF Increasing
  <2>1. j \in 1..n /\ j \in DOMAIN s /\ t[j] = s[j]
    BY <1>1, <1>2
  <2>2. CASE k = n + 1
    <3>1. s[j] \in Ids(s) /\ t[k] = i
      BY <1>1, <2>1, <2>2 DEF Ids
    <3> QED BY <1>4, <2>1, <3>1 DEF AllBelow
  <2>3. CASE k # n + 1
    <3>1. k \in DOMAIN s /\ t[k] = s[k]
      BY <1>1, <1>2, <2>3
    <3> QED BY <1>4, <2>1, <3>1 DEF Increasing
  <2> QED BY <2>2, <2>3
<1> QED
  BY <1>1, <1>3, <1>4 DEF t

\* The same of two sequences, one after the other.
LEMMA ConcatIds ==
    ASSUME NEW s \in Seq(Nat), NEW t \in Seq(Nat), Increasing(s), Increasing(t), AllBelow(Ids(s), Ids(t))
    PROVE  s \o t \in Seq(Nat) /\ Increasing(s \o t) /\ Ids(s \o t) = Ids(s) \cup Ids(t)
<1> DEFINE u == s \o t
           m == Len(s)
           n == Len(t)
<1>1. /\ u \in Seq(Nat) /\ Len(u) = m + n /\ m \in Nat /\ n \in Nat
      /\ \A i \in 1..(m + n) : u[i] = IF i <= m THEN s[i] ELSE t[i - m]
      /\ DOMAIN s = 1..m /\ DOMAIN t = 1..n
  BY ConcatProperties, LenProperties
<1> HIDE DEF u
<1>2. DOMAIN u = 1..(m + n)
  BY <1>1, LenProperties
<1> HIDE DEF m, n
<1>3. ASSUME NEW i \in DOMAIN u
      PROVE  \/ i <= m /\ i \in DOMAIN s /\ u[i] = s[i]
             \/ i > m /\ i - m \in DOMAIN t /\ u[i] = t[i - m]
  BY <1>1, <1>2
<1>4. ASSUME NEW i \in DOMAIN s PROVE i \in DOMAIN u /\ u[i] = s[i]
  BY <1>1, <1>2
<1>5. ASSUME NEW i \in DOMAIN t PROVE i + m \in DOMAIN u /\ u[i + m] = t[i]
  <2>1. i + m \in 1..(m + n) /\ ~(i + m <= m) /\ (i + m) - m = i
    BY <1>1
  <2> QED BY <1>1, <1>2, <2>1
<1>6. Ids(u) = Ids(s) \cup Ids(t)
  <2>1. \A i \in DOMAIN u : u[i] \in Ids(s) \cup Ids(t)
    BY <1>3 DEF Ids
  <2>2. \A i \in DOMAIN s : s[i] \in Ids(u)
    BY <1>4 DEF Ids
  <2>3. \A i \in DOMAIN t : t[i] \in Ids(u)
    BY <1>5 DEF Ids
  <2> QED BY <2>1, <2>2, <2>3 DEF Ids
<1>7. Increasing(u)
  <2> SUFFICES ASSUME NEW j \in DOMAIN u, NEW k \in DOMAIN u, j < k PROVE u[j] < u[k]
    BY DEF Increasing
  <2>1. CASE j <= m /\ k <= m
    BY <1>1, <1>2, <1>3, <2>1 DEF Increasing
  <2>2. CASE j <= m /\ k > m
    <3>1. j \in DOMAIN s /\ u[j] = s[j] /\ k - m \in DOMAIN t /\ u[k] = t[k - m]
      BY <1>1, <1>2, <1>3, <2>2
    <3>2. u[j] \in Ids(s) /\ u[k] \in Ids(t)
      BY <3>1 DEF Ids
    <3> QED BY <3>2 DEF AllBelow
  <2>3. CASE j > m
    <3>1. j - m \in DOMAIN t /\ u[j] = t[j - m] /\ k - m \in DOMAIN t /\ u[k] = t[k - m] /\ j - m < k - m
      BY <1>1, <1>2, <1>3, <2>3
    <3> QED BY <3>1 DEF Increasing
  <2> QED BY <1>1, <1>2, <2>1, <2>2, <2>3
<1> QED
  BY <1>1, <1>6, <1>7 DEF u

\* A message that comes after all that were handled finds one place: executed,
\* put aside, or at the end of the queue.
LEMMA MessageHandled ==
    ASSUME sent \in Seq(Sent), MessageAssumption, NEW P, NEW acc, Handles(acc, P),
           NEW arriving, NEW i \in DOMAIN sent, i \notin P,
           AllBelow(Ids(acc.executed) \cup Ids(acc.queue), {i})
    PROVE  LET next == ServiceMessage(acc, i, arriving)
           IN  /\ Handles(next, P \cup {i})
               /\ Ids(next.executed) \cup Ids(next.queue) \subseteq Ids(acc.executed) \cup Ids(acc.queue) \cup {i}
<1> DEFINE w == acc.weight
           q == acc.queue
           e == acc.executed
           o == acc.overweight
           next == ServiceMessage(acc, i, arriving)
           w2 == w - sent[i].used
<1>1. i \in Nat /\ sent[i].required \in Nat /\ sent[i].used \in Nat
  <2>1. DOMAIN sent = 1..Len(sent) /\ Len(sent) \in Nat /\ sent[i] \in Sent
    BY LenProperties
  <2> QED BY <2>1 DEF Sent
<1>2. acc \in Results /\ Parts(e, q, o, P)
  BY DEF Handles
<1>3. w \in Int /\ q \in Seq(Nat) /\ e \in Seq(Nat) /\ o \in SUBSET Nat /\ w2 \in Int
  BY <1>1, <1>2 DEF Results
<1>4. AllBelow(Ids(e), {i}) /\ AllBelow(Ids(q), {i}) /\ i \notin Ids(e) /\ i \notin Ids(q)
  BY <1>2 DEF AllBelow, Parts
<1>5. acc = [weight |-> w, queue |-> q, executed |-> e, overweight |-> o]
  BY <1>2 DEF Results
<1>6. Ids(<< >>) = {}
  BY DEF Ids
<1> HIDE DEF w, q, e, o, w2
<1>7. CASE q # << >>
  <2> DEFINE t == Append(q, i)
  <2>1. next = [acc EXCEPT !.queue = t]
    BY <1>7 DEF ServiceMessage, q
  <2>2. t \in Seq(Nat) /\ Ids(t) = Ids(q) \cup {i} /\ Increasing(t)
    BY <1>1, <1>2, <1>3, <1>4, AppendIds DEF Parts
  <2> HIDE DEF t, next
  <2>3. next = [weight |-> w, queue |-> t, executed |-> e, overweight |-> o]
    BY <1>5, <2>1
  <2>4. next \in Results /\ next.queue = t /\ next.executed = e /\ next.overweight = o
    BY <1>3, <2>2, <2>3 DEF Results
  <2>5. AllBelow(Ids(e), Ids(t))
    BY <1>2, <1>4, <2>2 DEF AllBelow, Parts
  <2>6. Parts(e, t, o, P \cup {i})
    BY <1>2, <2>2, <2>5 DEF Parts
  <2>7. Handles(next, P \cup {i}) /\ Ids(next.executed) \cup Ids(next.queue) \subseteq Ids(e) \cup Ids(q) \cup {i}
    BY <2>2, <2>4, <2>6 DEF Handles
  <2> QED BY <2>7 DEF next, e, q
<1>8. CASE q = << >> /\ sent[i].required <= w
  <2> DEFINE t == Append(e, i)
  <2>1. next = [acc EXCEPT !.weight = w2, !.executed = t]
    BY <1>8 DEF ServiceMessage, q, w, w2, e
  <2>2. t \in Seq(Nat) /\ Ids(t) = Ids(e) \cup {i} /\ Increasing(t)
    BY <1>1, <1>2, <1>3, <1>4, AppendIds DEF Parts
  <2> HIDE DEF t, next
  <2>3. next = [weight |-> w2, queue |-> q, executed |-> t, overweight |-> o]
    BY <1>5, <2>1
  <2>4. next \in Results /\ next.queue = q /\ next.executed = t /\ next.overweight = o
    BY <1>3, <2>2, <2>3 DEF Results
  <2>5. AllBelow(Ids(t), Ids(q))
    BY <1>6, <1>8 DEF AllBelow
  <2>6. Parts(t, q, o, P \cup {i})
    BY <1>2, <2>2, <2>5 DEF Parts
  <2>7. Handles(next, P \cup {i}) /\ Ids(next.executed) \cup Ids(next.queue) \subseteq Ids(e) \cup Ids(q) \cup {i}
    BY <2>2, <2>4, <2>6 DEF Handles
  <2> QED BY <2>7 DEF next, e, q
<1>9. CASE q = << >> /\ ~(sent[i].required <= w) /\ (i \in arriving /\ sent[i].required > MaxIndividual)
  <2> DEFINE t == o \cup {i}
  <2>1. next = [acc EXCEPT !.overweight = t]
    BY <1>9 DEF ServiceMessage, q, w, o
  <2>2. t \in SUBSET Nat /\ Heavy(t)
    BY <1>1, <1>2, <1>3, <1>9 DEF Parts, Heavy
  <2> HIDE DEF next
  <2>3. next = [weight |-> w, queue |-> q, executed |-> e, overweight |-> t]
    BY <1>5, <2>1
  <2>4. next \in Results /\ next.queue = q /\ next.executed = e /\ next.overweight = t
    BY <1>3, <2>2, <2>3 DEF Results
  <2>5. Parts(e, q, t, P \cup {i})
    BY <1>2, <1>4, <2>2 DEF Parts
  <2>6. Handles(next, P \cup {i}) /\ Ids(next.executed) \cup Ids(next.queue) \subseteq Ids(e) \cup Ids(q) \cup {i}
    BY <2>4, <2>5 DEF Handles
  <2> QED BY <2>6 DEF next, e, q
<1>10. CASE q = << >> /\ ~(sent[i].required <= w) /\ ~(i \in arriving /\ sent[i].required > MaxIndividual)
  <2> DEFINE t == << i >>
  <2>1. next = [acc EXCEPT !.queue = t]
    BY <1>10 DEF ServiceMessage, q, w
  <2>2. t \in Seq(Nat) /\ Ids(t) = {i} /\ Increasing(t)
    BY <1>1 DEF Ids, Increasing
  <2> HIDE DEF t, next
  <2>3. next = [weight |-> w, queue |-> t, executed |-> e, overweight |-> o]
    BY <1>5, <2>1
  <2>4. next \in Results /\ next.queue = t /\ next.executed = e /\ next.overweight = o
    BY <1>3, <2>2, <2>3 DEF Results
  <2>5. AllBelow(Ids(e), Ids(t)) /\ Ids(q) = {}
    BY <1>4, <1>6, <1>10, <2>2
  <2>6. Parts(e, t, o, P \cup {i})
    BY <1>2, <2>2, <2>5 DEF Parts
  <2>7. Handles(next, P \cup {i}) /\ Ids(next.executed) \cup Ids(next.queue) \subseteq Ids(e) \cup Ids(q) \cup {i}
    BY <2>2, <2>4, <2>6 DEF Handles
  <2> QED BY <2>7 DEF next, e, q
<1> QED
  BY <1>7, <1>8, <1>9, <1>10

\* f goes through the messages one by one, as Service does.
Services(f, messages, arriving, weight, done, aside) ==
    /\ f[0] = [weight |-> weight, queue |-> << >>, executed |-> done, overweight |-> aside]
    /\ \A k \in 1..Len(messages) : f[k] = ServiceMessage(f[k - 1], messages[k], arriving)

\* ServiceMessage gives results whatever results it is given.
LEMMA ResultsStay ==
    ASSUME sent \in Seq(Sent), NEW acc \in Results, NEW arriving, NEW i \in DOMAIN sent
    PROVE  ServiceMessage(acc, i, arriving) \in Results
<1>1. i \in Nat /\ sent[i].used \in Nat
  <2>1. DOMAIN sent = 1..Len(sent) /\ Len(sent) \in Nat /\ sent[i] \in Sent
    BY LenProperties
  <2> QED BY <2>1 DEF Sent
<1>2. acc.weight - sent[i].used \in Int /\ acc.overweight \cup {i} \in SUBSET Nat
  BY <1>1 DEF Results
<1>3. Append(acc.executed, i) \in Seq(Nat) /\ Append(acc.queue, i) \in Seq(Nat) /\ << i >> \in Seq(Nat)
  <2>1. acc.executed \in Seq(Nat) /\ acc.queue \in Seq(Nat)
    BY DEF Results
  <2> QED BY <1>1, <2>1, AppendProperties
<1> QED
  BY <1>2, <1>3 DEF ServiceMessage, Results

\* The recursion in Service is well defined.
LEMMA ServiceIterates ==
    ASSUME sent \in Seq(Sent), NEW messages \in Seq(DOMAIN sent), NEW arriving, NEW weight \in Int,
           NEW done \in Seq(Nat), NEW aside \in SUBSET Nat
    PROVE  \E f : /\ Services(f, messages, arriving, weight, done, aside)
                  /\ Service(messages, arriving, weight, done, aside) = f[Len(messages)]
<1> DEFINE n == Len(messages)
           b == [weight |-> weight, queue |-> << >>, executed |-> done, overweight |-> aside]
           D == [p \in (1..n) \X Results |-> ServiceMessage(p[2], messages[p[1]], arriving)]
           Solves(f) == f = [k \in 0..n |-> IF k = 0 THEN b ELSE ServiceMessage(f[k - 1], messages[k], arriving)]
           after == CHOOSE f : Solves(f)
<1>1. n \in Nat /\ \A k \in 1..n : messages[k] \in DOMAIN sent
  BY LenProperties
<1>2. b \in Results
  BY EmptySeq DEF Results
<1>3. ASSUME NEW k \in 1..n, NEW v \in Results
      PROVE  ServiceMessage(v, messages[k], arriving) \in Results /\ D[<<k, v>>] = ServiceMessage(v, messages[k], arriving)
  BY <1>1, ResultsStay
<1>4. StaysIn(D, 1..n, Results)
  <2> HIDE DEF D
  <2> QED BY <1>3 DEF StaysIn
<1>5. PICK f \in [0..n -> Results] : Iterates(f, n, b, D)
  <2> HIDE DEF D, b, n
  <2> QED BY <1>1, <1>2, <1>4, BoundedRecursion
<1>6. f[0] = b /\ \A k \in 1..n : f[k] = ServiceMessage(f[k - 1], messages[k], arriving)
  <2>1. \A k \in 1..n : k - 1 \in 0..n
    BY <1>1
  <2>2. \A k \in 1..n : f[k - 1] \in Results
    BY <2>1
  <2> HIDE DEF D, b
  <2> QED BY <1>3, <1>5, <2>2 DEF Iterates
<1>7. Solves(f)
  <2> HIDE DEF b, D
  <2>1. ASSUME NEW k \in 0..n
        PROVE  f[k] = IF k = 0 THEN b ELSE ServiceMessage(f[k - 1], messages[k], arriving)
    <3>1. k = 0 \/ k \in 1..n
      BY <1>1
    <3>2. CASE k = 0
      BY <1>6, <3>2
    <3>3. CASE k \in 1..n
      <4>1. k # 0
        BY <1>1, <3>3
      <4> QED BY <1>6, <3>3, <4>1
    <3> QED BY <3>1, <3>2, <3>3
  <2> QED BY <2>1
<1>8. Solves(after)
  <2> HIDE DEF Solves
  <2> QED BY <1>7
<1>9. Service(messages, arriving, weight, done, aside) = after[n]
  BY DEF Service
<1> HIDE DEF after, b
<1>10. \A k \in 0..n : after[k] = IF k = 0 THEN b ELSE ServiceMessage(after[k - 1], messages[k], arriving)
  BY <1>8
<1> HIDE DEF Solves
<1>11. after[0] = b
  <2>1. 0 \in 0..n
    BY <1>1
  <2> QED BY <1>10, <2>1
<1>12. \A k \in 1..n : after[k] = ServiceMessage(after[k - 1], messages[k], arriving)
  <2>1. \A k \in 1..n : k \in 0..n /\ k # 0
    BY <1>1
  <2> QED BY <1>10, <2>1
<1>13. Services(after, messages, arriving, weight, done, aside)
  BY <1>11, <1>12 DEF Services, b
<1> QED
  BY <1>9, <1>13

\* A pass over messages that come after all that was executed handles each once.
LEMMA PassHandles ==
    ASSUME sent \in Seq(Sent), MessageAssumption, NEW messages \in Seq(DOMAIN sent), NEW arriving,
           NEW weight \in Int, NEW done, NEW aside, NEW P, Parts(done, messages, aside, P)
    PROVE  Handles(Service(messages, arriving, weight, done, aside), P)
<1> DEFINE n == Len(messages)
           First(k) == {messages[j] : j \in 1..k}
           Seen(k) == Ids(done) \cup aside \cup First(k)
<1>0. /\ n \in Nat /\ DOMAIN messages = 1..n
      /\ \A k \in 1..n : messages[k] \in DOMAIN sent
  BY LenProperties
<1>1. /\ done \in Seq(Nat) /\ messages \in Seq(Nat) /\ aside \in SUBSET Nat
      /\ Increasing(done) /\ Increasing(messages) /\ AllBelow(Ids(done), Ids(messages))
      /\ Ids(done) \cap aside = {} /\ Ids(messages) \cap aside = {}
      /\ Ids(done) \cup Ids(messages) \cup aside = P
      /\ Heavy(aside)
  BY DEF Parts
<1>2. PICK f : /\ Services(f, messages, arriving, weight, done, aside)
               /\ Service(messages, arriving, weight, done, aside) = f[n]
  BY <1>1, ServiceIterates
<1>3. f[0] = [weight |-> weight, queue |-> << >>, executed |-> done, overweight |-> aside]
  BY <1>2 DEF Services
<1>4. \A k \in 1..n : f[k] = ServiceMessage(f[k - 1], messages[k], arriving)
  BY <1>2 DEF Services
<1> DEFINE Good(k) == /\ Handles(f[k], Seen(k))
                      /\ Ids(f[k].executed) \cup Ids(f[k].queue) \subseteq Ids(done) \cup First(k)
           T == {k \in 0..n : Good(k)}
<1>5. 0 \in T
  <2>1. First(0) = {} /\ Ids(<< >>) = {}
    BY DEF Ids
  <2>2. /\ f[0].queue = << >> /\ f[0].executed = done /\ f[0].overweight = aside /\ f[0] \in Results
    BY <1>1, <1>3, EmptySeq DEF Results
  <2>3. Seen(0) = Ids(done) \cup aside
    BY <2>1
  <2>4. Increasing(<< >>) /\ << >> \in Seq(Nat) /\ AllBelow(Ids(done), {})
    BY EmptySeq DEF Increasing, AllBelow
  <2> HIDE DEF First, Seen
  <2>5. Parts(done, << >>, aside, Seen(0))
    BY <1>1, <2>1, <2>3, <2>4 DEF Parts
  <2>6. Good(0)
    <3>1. Handles(f[0], Seen(0))
      BY <2>2, <2>5 DEF Handles
    <3>2. Ids(f[0].executed) = Ids(done) /\ Ids(f[0].queue) = {}
      BY <2>1, <2>2
    <3> QED BY <3>1, <3>2
  <2> HIDE DEF Good
  <2> QED BY <1>0, <2>6
<1>6. ASSUME NEW k \in 1..n, k - 1 \in T PROVE k \in T
  <2> DEFINE i == messages[k]
             acc == f[k - 1]
             next == ServiceMessage(acc, i, arriving)
  <2>1. k - 1 \in Nat /\ k \in 0..n /\ i \in DOMAIN sent /\ i \in Ids(messages) /\ f[k] = next
    <3>1. k - 1 \in Nat /\ k \in 0..n /\ k \in DOMAIN messages
      BY <1>0
    <3>2. f[k] = next
      BY <1>4
    <3> QED BY <1>0, <3>1, <3>2 DEF Ids
  <2>2. Handles(acc, Seen(k - 1)) /\ Ids(acc.executed) \cup Ids(acc.queue) \subseteq Ids(done) \cup First(k - 1)
    BY <1>6
  <2>3. First(k) = First(k - 1) \cup {i}
    <3>1. 1..k = (1..(k - 1)) \cup {k}
      BY <1>0
    <3> QED BY <3>1
  <2>4. AllBelow(First(k - 1), {i})
    <3> SUFFICES ASSUME NEW j \in 1..(k - 1) PROVE messages[j] < i
      BY DEF AllBelow
    <3>1. j \in DOMAIN messages /\ k \in DOMAIN messages /\ j < k
      BY <1>0
    <3> QED BY <1>1, <3>1 DEF Increasing
  <2>5. AllBelow(Ids(done), {i}) /\ i \notin aside
    BY <1>1, <2>1 DEF AllBelow
  <2>6. i \in Nat
    <3>1. DOMAIN sent = 1..Len(sent) /\ Len(sent) \in Nat
      BY LenProperties
    <3> QED BY <2>1, <3>1
  <2>7. Seen(k) = Seen(k - 1) \cup {i}
    BY <2>3
  <2> HIDE DEF First, i, acc
  <2>8. i \notin Seen(k - 1)
    BY <2>4, <2>5, <2>6 DEF AllBelow
  <2> HIDE DEF Seen
  <2>9. AllBelow(Ids(acc.executed) \cup Ids(acc.queue), {i})
    BY <2>2, <2>4, <2>5 DEF AllBelow
  <2>10. /\ Handles(next, Seen(k - 1) \cup {i})
         /\ Ids(next.executed) \cup Ids(next.queue) \subseteq Ids(acc.executed) \cup Ids(acc.queue) \cup {i}
    <3> HIDE DEF next
    <3> DEFINE Q == Seen(k - 1)
    <3>1. Handles(acc, Q) /\ i \notin Q
      BY <2>2, <2>8
    <3> HIDE DEF Q
    <3>2. /\ Handles(next, Q \cup {i})
          /\ Ids(next.executed) \cup Ids(next.queue) \subseteq Ids(acc.executed) \cup Ids(acc.queue) \cup {i}
      BY <2>1, <2>9, <3>1, MessageHandled DEF next
    <3> QED BY <3>2 DEF Q
  <2> HIDE DEF next
  <2>11. Handles(next, Seen(k)) /\ Ids(next.executed) \cup Ids(next.queue) \subseteq Ids(done) \cup First(k)
    BY <2>2, <2>3, <2>7, <2>10
  <2>12. Good(k)
    BY <2>1, <2>11
  <2> HIDE DEF Good
  <2> QED BY <2>1, <2>12
<1>7. n \in T
  <2> HIDE DEF T, n
  <2>1. \A k \in 0..n : k \in T
    BY <1>0, <1>5, <1>6, UpTo
  <2>2. n \in 0..n
    BY <1>0
  <2> QED BY <2>1, <2>2
<1>8. First(n) = Ids(messages)
  BY <1>0 DEF Ids
<1>9. Seen(n) = P
  <2> HIDE DEF First, n
  <2> QED BY <1>1, <1>8
<1> QED
  BY <1>2, <1>7, <1>9

-----------------------------------------------------------------------------

\* The inductive invariant: what has arrived is divided among the three.
DmpInv ==
    /\ sent \in Seq(Sent) /\ arrived \in 0..Len(sent)
    /\ Parts(executed, queue, overweight, 1..arrived)

\* A block keeps it: what arrives was sent later than all that waits, and each of
\* the two passes of the block divides what the one before left waiting.
LEMMA BlockKeeps ==
    ASSUME MessageAssumption, DmpInv, NEW r \in arrived..Len(sent), NEW idle \in IdleWeights, Block(r, idle)
    PROVE  DmpInv'
<1> DEFINE n == r - arrived
           incoming == [k \in 1..n |-> arrived + k]
           all == queue \o incoming
           inherent == Service(all, (arrived + 1)..r, ReservedDmpWeight, executed, overweight)
           idleEnd == Service(inherent.queue, {}, idle, inherent.executed, inherent.overweight)
<1>1. /\ sent \in Seq(Sent) /\ arrived \in 0..Len(sent) /\ Len(sent) \in Nat /\ DOMAIN sent = 1..Len(sent)
      /\ Parts(executed, queue, overweight, 1..arrived)
  BY LenProperties DEF DmpInv
<1>2. /\ arrived' = r /\ queue' = idleEnd.queue /\ overweight' = idleEnd.overweight
      /\ executed' = idleEnd.executed /\ sent' = sent
  BY DEF Block
<1>3. n \in Nat /\ arrived \in Nat /\ r \in Nat /\ r <= Len(sent) /\ arrived <= r
  BY <1>1
<1>4. incoming \in Seq(Nat) /\ DOMAIN incoming = 1..n
  <2>1. incoming \in [1..n -> Nat]
    BY <1>3
  <2> HIDE DEF incoming, n
  <2> QED BY <1>3, <2>1, SeqDef
<1>5. Ids(incoming) = (arrived + 1)..r
  <2>1. \A k \in 1..n : arrived + k \in (arrived + 1)..r
    BY <1>3
  <2>2. \A i \in (arrived + 1)..r : i - arrived \in 1..n /\ arrived + (i - arrived) = i
    BY <1>3
  <2> HIDE DEF n
  <2> QED BY <2>1, <2>2 DEF Ids
<1>6. Increasing(incoming)
  BY <1>3 DEF Increasing
<1>7. /\ executed \in Seq(Nat) /\ queue \in Seq(Nat) /\ overweight \in SUBSET Nat
      /\ Increasing(executed) /\ Increasing(queue) /\ AllBelow(Ids(executed), Ids(queue))
      /\ Ids(executed) \cap overweight = {} /\ Ids(queue) \cap overweight = {}
      /\ Ids(executed) \cup Ids(queue) \cup overweight = 1..arrived
      /\ Heavy(overweight)
  BY <1>1 DEF Parts
<1> HIDE DEF incoming, n
<1>8. \A i \in 1..arrived : \A j \in (arrived + 1)..r : i < j
  BY <1>3
<1>9. /\ AllBelow(Ids(queue), Ids(incoming)) /\ AllBelow(Ids(executed), Ids(incoming))
      /\ Ids(incoming) \cap overweight = {}
  <2>1. Ids(queue) \subseteq 1..arrived /\ Ids(executed) \subseteq 1..arrived /\ overweight \subseteq 1..arrived
    BY <1>7
  <2>2. \A i \in 1..arrived : i \notin (arrived + 1)..r
    BY <1>3
  <2> QED BY <1>5, <1>8, <2>1, <2>2 DEF AllBelow
<1>10. all \in Seq(Nat) /\ Increasing(all) /\ Ids(all) = Ids(queue) \cup Ids(incoming)
  BY <1>4, <1>6, <1>7, <1>9, ConcatIds
<1> HIDE DEF all
<1>11. (1..arrived) \cup ((arrived + 1)..r) = 1..r
  BY <1>3
<1>12. Parts(executed, all, overweight, 1..r)
  <2>1. AllBelow(Ids(executed), Ids(all))
    BY <1>7, <1>9, <1>10 DEF AllBelow
  <2>2. Ids(executed) \cup Ids(all) \cup overweight = 1..r
    BY <1>5, <1>7, <1>10, <1>11
  <2>3. Ids(all) \cap overweight = {}
    BY <1>7, <1>9, <1>10
  <2> QED BY <1>7, <1>10, <2>1, <2>2, <2>3 DEF Parts
<1>13. ASSUME NEW s \in Seq(Nat), NEW d, NEW a, Parts(d, s, a, 1..r) PROVE s \in Seq(DOMAIN sent)
  <2>1. \A k \in DOMAIN s : s[k] \in 1..r
    BY <1>13 DEF Parts, Ids
  <2>2. \A i \in 1..r : i \in DOMAIN sent
    BY <1>1, <1>3
  <2>3. DOMAIN s = 1..Len(s) /\ Len(s) \in Nat /\ s \in [1..Len(s) -> Nat]
    BY LenProperties
  <2>4. s \in [1..Len(s) -> DOMAIN sent]
    BY <2>1, <2>2, <2>3
  <2> QED BY <2>3, <2>4, SeqDef
<1>14. ReservedDmpWeight \in Int /\ idle \in Int
  BY DEF MessageAssumption, ReservedDmpWeight
<1>15. Handles(inherent, 1..r)
  <2>1. all \in Seq(DOMAIN sent)
    BY <1>10, <1>12, <1>13
  <2> QED BY <1>1, <1>12, <1>14, <2>1, PassHandles
<1> HIDE DEF inherent
<1>16. Parts(inherent.executed, inherent.queue, inherent.overweight, 1..r)
  BY <1>15 DEF Handles
<1>17. Handles(idleEnd, 1..r)
  <2>1. inherent.queue \in Seq(DOMAIN sent)
    <3>1. inherent.queue \in Seq(Nat)
      BY <1>16 DEF Parts
    <3> QED BY <1>13, <1>16, <3>1
  <2> QED BY <1>1, <1>14, <1>16, <2>1, PassHandles
<1> HIDE DEF idleEnd
<1>18. Parts(idleEnd.executed, idleEnd.queue, idleEnd.overweight, 1..r)
  BY <1>17 DEF Handles
<1>19. Parts(executed, queue, overweight, 1..arrived)'
  BY <1>2, <1>18 DEF Parts, Heavy
<1> QED
  BY <1>1, <1>2, <1>3, <1>19 DEF DmpInv

\* So does sending: what was put aside stays heavy.
LEMMA SendKeeps ==
    ASSUME MessageAssumption, DmpInv, NEW m \in Messages, SendDownward(m)
    PROVE  DmpInv'
<1> DEFINE w == MessageWeight(m)
           x == [required |-> w, used |-> IF m.refused THEN 0 ELSE w]
<1>1. /\ sent \in Seq(Sent) /\ arrived \in 0..Len(sent) /\ Parts(executed, queue, overweight, 1..arrived)
  BY DEF DmpInv
<1>2. sent' = Append(sent, x) /\ UNCHANGED <<arrived, queue, overweight, executed>>
  BY DEF SendDownward
<1>3. w \in Nat
  <2>1. m.instructions \in Nat /\ m.transact \in Nat /\ UnitWeightCost \in Nat
    BY DEF MessageAssumption
  <2> QED BY <2>1 DEF MessageWeight
<1> HIDE DEF w
<1>4. x \in Sent
  BY <1>3 DEF Sent
<1> HIDE DEF x
<1>5. /\ sent' \in Seq(Sent) /\ Len(sent') = Len(sent) + 1 /\ Len(sent) \in Nat
      /\ \A i \in 1..Len(sent) : sent'[i] = sent[i]
  BY <1>1, <1>2, <1>4, AppendProperties, LenProperties
<1>6. overweight \subseteq 1..Len(sent)
  <2>1. overweight \subseteq 1..arrived
    BY <1>1 DEF Parts
  <2> QED BY <1>1, <1>5, <2>1
<1>7. Parts(executed, queue, overweight, 1..arrived)'
  <2>1. Heavy(overweight)'
    BY <1>1, <1>2, <1>5, <1>6 DEF Parts, Heavy
  <2> QED BY <1>1, <1>2, <2>1 DEF Parts
<1> QED
  BY <1>1, <1>2, <1>5, <1>7 DEF DmpInv

\* No message of the relay chain is lost, executed twice or overtaken.
THEOREM RelayMessagesInOrder == Spec => []MessagesInOrder
<1>0. MessageAssumption
  BY MessageAssumption
<1>1. Init => DmpInv
  <2> SUFFICES ASSUME Init PROVE DmpInv
    OBVIOUS
  <2>1. sent = << >> /\ arrived = 0 /\ queue = << >> /\ overweight = {} /\ executed = << >>
    BY DEF Init
  <2>2. Ids(<< >>) = {} /\ 1..0 = {}
    BY DEF Ids
  <2>3. Parts(executed, queue, overweight, 1..arrived)
    BY <2>1, <2>2, EmptySeq DEF Parts, Increasing, AllBelow, Heavy
  <2> QED BY <2>1, <2>3, EmptySeq DEF DmpInv
<1>2. DmpInv /\ [Next]_vars => DmpInv'
  <2> SUFFICES ASSUME DmpInv, [Next]_vars PROVE DmpInv'
    OBVIOUS
  <2>1. ASSUME NEW m \in Messages, SendDownward(m) PROVE DmpInv'
    BY <1>0, <2>1, SendKeeps
  <2>2. ASSUME NEW r \in arrived..Len(sent), NEW idle \in IdleWeights, Block(r, idle) PROVE DmpInv'
    BY <1>0, <2>2, BlockKeeps
  <2>3. CASE UNCHANGED vars
    BY <2>3 DEF vars, DmpInv, Parts, Heavy
  <2> QED BY <2>1, <2>2, <2>3 DEF Next
<1>3. DmpInv => MessagesInOrder
  <2> SUFFICES ASSUME DmpInv PROVE MessagesInOrder
    OBVIOUS
  <2> DEFINE handled == executed \o queue
  <2>1. /\ executed \in Seq(Nat) /\ queue \in Seq(Nat)
        /\ Increasing(executed) /\ Increasing(queue) /\ AllBelow(Ids(executed), Ids(queue))
        /\ Ids(executed) \cap overweight = {} /\ Ids(queue) \cap overweight = {}
        /\ Ids(executed) \cup Ids(queue) \cup overweight = 1..arrived
        /\ Heavy(overweight)
    BY DEF DmpInv, Parts
  <2>2. Increasing(handled) /\ Ids(handled) = Ids(executed) \cup Ids(queue)
    BY <2>1, ConcatIds
  <2> HIDE DEF handled
  <2>3. /\ \A j, k \in DOMAIN handled : j < k => handled[j] < handled[k]
        /\ Ids(handled) \cap overweight = {}
        /\ Ids(handled) \cup overweight = 1..arrived
        /\ \A i \in overweight : sent[i].required > MaxIndividual
    BY <2>1, <2>2 DEF Increasing, Heavy
  <2> QED BY <2>3 DEF MessagesInOrder, handled
<1> QED
  BY <1>1, <1>2, <1>3, PTL DEF Spec

-----------------------------------------------------------------------------
(* The origin register.  What a call is dispatched as depends on the register *)
(* at that moment, so the invariant says how it relates to the sender: it is  *)
(* the sender's location, or the relay chain sent the message, or it is too   *)
(* far below for any converter.                                               *)

\* The origin register is a location at or below the sender's.
OriginBelowSender ==
    sender # Idle /\ origin # NoOrigin =>
        /\ origin \in [parents : {1}, interior : Seq(Junctions)]
        /\ \/ sender = origin
           \/ sender = RelayLocation
           \/ Len(origin.interior) >= 2

OriginsInv ==
    /\ sender \in {Idle} \cup Chains
    /\ OriginBelowSender
    /\ ActsAsItself

-----------------------------------------------------------------------------

\* A chain's location is one level below the relay chain at most.
LEMMA ChainLocations ==
    ASSUME NEW c \in Chains
    PROVE  /\ c \in [parents : {1}, interior : Seq(Junctions)]
           /\ c # RelayLocation => Len(c.interior) = 1
<1>1. CASE c = RelayLocation
  <2>1. << >> \in Seq(Junctions)
    OBVIOUS
  <2> QED
    BY <1>1, <2>1 DEF RelayLocation
<1>2. CASE \E id \in Siblings : c = Sibling(id)
  <2>1. PICK id \in Siblings : c = Sibling(id)
    BY <1>2
  <2>2. << id >> \in Seq(Junctions) /\ Len(<< id >>) = 1
    BY DEF Junctions
  <2> QED
    BY <2>1, <2>2 DEF Sibling
<1> QED
  BY <1>1, <1>2 DEF Chains

\* Converters answer for chains only, once locations of this chain are excluded.
LEMMA ConvertsChainsOnly ==
    ASSUME NEW l \in [parents : {1}, interior : Seq(Junctions)], NEW kind,
           NEW as \in XcmOriginToTransactDispatchOrigin(l, kind)
    PROVE  as.kind # "Xcm" =>
            /\ l \in Chains
            /\ as.kind = "Signed" =>
                as.who = IF l = RelayLocation THEN "ParentAccount" ELSE l.interior[1]
            /\ as.kind = "Relay" => l = RelayLocation
            /\ as.kind = "SiblingPara" => l = Sibling(as.who)
<1>1. \A u : l # LocalAccount(u)
  BY DEF LocalAccount
<1>2. \A id : Sibling(id).interior[1] = id /\ Sibling(id) # RelayLocation
  BY DEF Sibling, RelayLocation
<1>3. CASE kind = "SovereignAccount"
  <2>1. PICK a \in LocationToAccountId(l) : as = Signed(a)
    BY <1>3 DEF XcmOriginToTransactDispatchOrigin
  <2>2. \/ l = RelayLocation /\ a = "ParentAccount"
        \/ a \in Siblings /\ l = Sibling(a)
    <3>1. \/ a \in IF l = RelayLocation THEN {"ParentAccount"} ELSE {}
          \/ a \in {id \in Siblings : l = Sibling(id)}
          \/ a \in {u \in Users : l = LocalAccount(u)}
      BY <2>1 DEF LocationToAccountId
    <3>2. ~(a \in {u \in Users : l = LocalAccount(u)})
      BY <1>1
    <3> QED
      BY <3>1, <3>2
  <2>3. as.kind = "Signed" /\ as.who = a
    BY <2>1 DEF Signed
  <2> QED
    BY <2>2, <2>3, <1>2 DEF Chains
<1>4. CASE kind = "Native"
  <2>1. \/ l = RelayLocation /\ as = [kind |-> "Relay", who |-> "Relay"]
        \/ \E id \in Siblings : l = Sibling(id) /\ as = [kind |-> "SiblingPara", who |-> id]
    BY <1>4, <1>1 DEF XcmOriginToTransactDispatchOrigin
  <2>2. CASE l = RelayLocation /\ as = [kind |-> "Relay", who |-> "Relay"]
    <3>1. as.kind = "Relay"
      BY <2>2
    <3> QED
      BY <2>2, <3>1 DEF Chains
  <2>3. ASSUME NEW id \in Siblings, l = Sibling(id), as = [kind |-> "SiblingPara", who |-> id]
        PROVE  as.kind = "SiblingPara" /\ as.who = id /\ l \in Chains
    BY <2>3 DEF Chains
  <2> QED
    BY <2>1, <2>2, <2>3
<1>5. CASE kind = "Xcm"
  <2>1. as = [kind |-> "Xcm", who |-> l]
    BY <1>5 DEF XcmOriginToTransactDispatchOrigin
  <2>2. as.kind = "Xcm"
    BY <2>1
  <2> QED
    BY <2>2
<1> QED
  BY <1>3, <1>4, <1>5 DEF XcmOriginToTransactDispatchOrigin

\* No step breaks the relation of origin register and sender, and each dispatch is
\* by the chain whose location was converted, or by the relay chain above it.
LEMMA OriginsInvStep == OriginsInv /\ [OriginsNext]_originsVars => OriginsInv'
<1> SUFFICES ASSUME OriginsInv, [OriginsNext]_originsVars PROVE OriginsInv'
  OBVIOUS
<1> USE DEF OriginsInv
<1>1. ASSUME NEW c \in Chains, Receive(c) PROVE OriginsInv'
  <2>1. OriginBelowSender'
    BY <1>1, ChainLocations DEF Receive, OriginBelowSender
  <2> QED
    BY <1>1, <2>1 DEF Receive, ActsAsItself
<1>2. ASSUME NEW j \in Junctions, DescendOrigin(j) PROVE OriginsInv'
  <2>1. /\ sender # Idle /\ origin # NoOrigin
        /\ origin \in [parents : {1}, interior : Seq(Junctions)]
        /\ origin' = [origin EXCEPT !.interior = Append(@, j)]
        /\ sender' = sender
    BY <1>2 DEF DescendOrigin, OriginBelowSender
  <2>2. /\ origin'.interior = Append(origin.interior, j)
        /\ origin' \in [parents : {1}, interior : Seq(Junctions)]
        /\ Len(origin.interior) \in Nat
        /\ Len(origin'.interior) = Len(origin.interior) + 1
    BY <2>1
  <2>3. sender = RelayLocation \/ Len(origin.interior) >= 1
    BY <2>1, <2>2, ChainLocations DEF OriginBelowSender
  <2>4. OriginBelowSender'
    BY <2>1, <2>2, <2>3 DEF OriginBelowSender
  <2> QED
    BY <1>2, <2>4 DEF DescendOrigin, ActsAsItself
<1>3. ASSUME ClearOrigin PROVE OriginsInv'
  BY <1>3 DEF ClearOrigin, OriginBelowSender, ActsAsItself,
          NoOrigin, Here
<1>4. ASSUME NEW k \in OriginKinds, Transact(k) PROVE OriginsInv'
  <2>1. PICK as \in XcmOriginToTransactDispatchOrigin(origin, k) :
            acts' = acts \cup {[by |-> sender, from |-> origin, as |-> as]}
    BY <1>4 DEF Transact
  <2>2. /\ sender # Idle /\ origin # NoOrigin
        /\ origin \in [parents : {1}, interior : Seq(Junctions)]
        /\ UNCHANGED <<sender, origin>>
    BY <1>4 DEF Transact, OriginBelowSender
  <2>3. OriginBelowSender'
    BY <2>2 DEF OriginBelowSender
  <2>4. origin \in Chains => sender \in {origin, RelayLocation}
    <3>1. Len(RelayLocation.interior) = 0
      BY DEF RelayLocation
    <3>2. ASSUME origin \in Chains PROVE ~(Len(origin.interior) >= 2)
      <4>1. CASE origin = RelayLocation
        BY <3>1, <4>1
      <4>2. CASE origin # RelayLocation
        <5>1. Len(origin.interior) = 1
          BY <3>2, <4>2, ChainLocations
        <5> QED BY <5>1
      <4> QED BY <4>1, <4>2
    <3> QED
      BY <3>2, <2>2 DEF OriginBelowSender
  <2> DEFINE new == [by |-> sender, from |-> origin, as |-> as]
  <2>5. new.as.kind # "Xcm" =>
            /\ new.from \in Chains
            /\ new.by \in {new.from, RelayLocation}
            /\ new.as.kind = "Signed" =>
                new.as.who = IF new.from = RelayLocation THEN "ParentAccount" ELSE new.from.interior[1]
            /\ new.as.kind = "Relay" => new.from = RelayLocation
            /\ new.as.kind = "SiblingPara" => new.from = Sibling(new.as.who)
    BY <2>2, <2>4, ConvertsChainsOnly
  <2> HIDE DEF new
  <2>6. acts' = acts \cup {new}
    BY <2>1 DEF new
  <2>7. ActsAsItself'
    BY <2>5, <2>6 DEF ActsAsItself
  <2> QED
    BY <2>2, <2>3, <2>7
<1>5. ASSUME Finish PROVE OriginsInv'
  BY <1>5 DEF Finish, OriginBelowSender, ActsAsItself
<1>6. CASE UNCHANGED originsVars
  BY <1>6 DEF originsVars, OriginBelowSender, ActsAsItself
<1> QED
  BY <1>1, <1>2, <1>3, <1>4, <1>5, <1>6 DEF OriginsNext

\* The invariant holds in every reachable state.
LEMMA OriginsInvHolds == OriginsSpec => []OriginsInv
<1>1. OriginsInit => OriginsInv
  BY DEF OriginsInit, OriginsInv, OriginBelowSender, ActsAsItself
<1> QED
  BY <1>1, OriginsInvStep, PTL DEF OriginsSpec

\* Whatever a message does with its origin, its calls are dispatched as the chain
\* that sent it, or, for the relay chain, as one of its parachains.
THEOREM ChainActsAsItself == OriginsSpec => []ActsAsItself
  BY OriginsInvHolds, PTL DEF OriginsInv

=============================================================================
