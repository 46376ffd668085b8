--------------------------- MODULE AioElevatorProofs --------------------------
(***************************************************************************)
(* Proofs about AioElevator: the queue, its hash lists and the chain of    *)
(* the worker, for any number of requests, disks and sectors.              *)
(***************************************************************************)
EXTENDS AioElevator, TLAPS

-----------------------------------------------------------------------------
(* Lists *)

Lists == [head : Requests \union {Null}, tail : Requests \union {Null},
          next : [Requests -> Requests \union {Null}],
          prior : [Requests -> Requests \union {Null}]]

\* The requests S are a doubly linked list: neighbours point to each other, and S has
\* no part that its ends do not lead to.
Sound(l, S) ==
  /\ S \subseteq Requests
  /\ IF S = {} THEN l.head = Null /\ l.tail = Null ELSE l.head \in S /\ l.tail \in S
  /\ \A q \in S : IF q = l.head THEN l.prior[q] = Null
                  ELSE l.prior[q] \in S /\ l.next[l.prior[q]] = q
  /\ \A q \in S : IF q = l.tail THEN l.next[q] = Null
                  ELSE l.next[q] \in S /\ l.prior[l.next[q]] = q
  /\ \A X \in SUBSET S :
       /\ l.head \in X /\ (\A q \in X : l.next[q] \in X \union {Null}) => X = S
       /\ l.tail \in X /\ (\A q \in X : l.prior[q] \in X \union {Null}) => X = S

\* The requests W are a chain that begins with first.
Chained(next, first, W) ==
  /\ W \subseteq Requests
  /\ IF W = {} THEN first = Null ELSE first \in W
  /\ \A q \in W : next[q] \in W \union {Null} /\ next[q] # first
  /\ \A q, p \in W : next[q] = next[p] /\ next[q] # Null => q = p
  /\ \A X \in SUBSET W : first \in X /\ (\A q \in X : next[q] \in X \union {Null}) => X = W

LEMMA AlongStep ==
  ASSUME NEW link, NEW r, NEW through
  PROVE  /\ Along(link, r, through) \subseteq Requests
         /\ r \in Requests => r \in Along(link, r, through)
         /\ \A q \in Along(link, r, through) \intersect through :
              link[q] \in Requests => link[q] \in Along(link, r, through)
  BY DEF Along

LEMMA AlongLeast ==
  ASSUME NEW link, NEW r, NEW through, NEW S \in SUBSET Requests, r \in Requests => r \in S,
         \A q \in S \intersect through : link[q] \in Requests => link[q] \in S
  PROVE  Along(link, r, through) \subseteq S
  BY DEF Along

\* All of a chain is reached from its first request.
LEMMA ReachAll ==
  ASSUME NEW link, NEW r, NEW S \in SUBSET Requests,
         IF S = {} THEN r = Null ELSE r \in S,
         \A q \in S : link[q] \in S \union {Null},
         \A X \in SUBSET S : r \in X /\ (\A q \in X : link[q] \in X \union {Null}) => X = S
  PROVE  Reach(link, r) = S
<1> DEFINE R == Reach(link, r)
<1>1. Null \notin Requests
  BY NullAssumption
<1>2. R \subseteq S
  BY <1>1, AlongLeast DEF Reach
<1>3. r \in Requests => r \in R
  BY AlongStep DEF Reach
<1>4. \A q \in R : link[q] \in R \union {Null}
  BY <1>2, AlongStep DEF Reach
<1>5. CASE S = {}
  BY <1>2, <1>5
<1>6. CASE S # {}
  <2>1. r \in R /\ R \in SUBSET S
    BY <1>2, <1>3, <1>6
  <2> HIDE DEF R
  <2>2. R = S
    BY <1>4, <2>1
  <2>3. QED
    BY <2>2 DEF R
<1>7. QED
  BY <1>5, <1>6

LEMMA SoundReach ==
  ASSUME NEW l, NEW S, Sound(l, S)
  PROVE  /\ Reach(l.next, l.head) = S /\ Reach(l.prior, l.tail) = S
         /\ Linked(l)
<1>1. S \in SUBSET Requests /\ Null \notin Requests
  BY NullAssumption DEF Sound
<1>2. Reach(l.next, l.head) = S
  <2>1. \A q \in S : l.next[q] \in S \union {Null}
    BY DEF Sound
  <2>2. QED
    BY <1>1, <2>1, ReachAll DEF Sound
<1>3. Reach(l.prior, l.tail) = S
  <2>1. \A q \in S : l.prior[q] \in S \union {Null}
    BY DEF Sound
  <2>2. QED
    BY <1>1, <2>1, ReachAll DEF Sound
<1>4. (l.head = Null) = (l.tail = Null)
  BY <1>1 DEF Sound
<1>5. QED
  BY <1>2, <1>3, <1>4 DEF Linked, Sound

\* A list is the same where its links are.
LEMMA SoundSame ==
  ASSUME NEW l, NEW m, NEW S, Sound(l, S), m.head = l.head, m.tail = l.tail,
         \A q \in S : m.next[q] = l.next[q] /\ m.prior[q] = l.prior[q]
  PROVE  Sound(m, S)
<1>1. \A X \in SUBSET S :
        /\ (\A q \in X : l.next[q] \in X \union {Null}) <=> \A q \in X : m.next[q] \in X \union {Null}
        /\ (\A q \in X : l.prior[q] \in X \union {Null}) <=> \A q \in X : m.prior[q] \in X \union {Null}
  OBVIOUS
<1>2. \A X \in SUBSET S :
        /\ m.head \in X /\ (\A q \in X : m.next[q] \in X \union {Null}) => X = S
        /\ m.tail \in X /\ (\A q \in X : m.prior[q] \in X \union {Null}) => X = S
  BY <1>1 DEF Sound
<1>3. QED
  BY <1>2 DEF Sound

\* What linking a request in must do.
Joined(l, m, S, r) ==
  /\ m \in Lists /\ Sound(m, S \union {r})
  /\ \A q \in Requests \ (S \union {r}) : m.next[q] = l.next[q] /\ m.prior[q] = l.prior[q]

LEMMA OnlyJoins ==
  ASSUME NEW l \in Lists, NEW r \in Requests
  PROVE  Joined(l, LinkOnly(l, r), {}, r) /\ LinkOnly(l, r).head = r
<1>1. PICK m : m = LinkOnly(l, r)
  OBVIOUS
<1>2. /\ m \in Lists /\ m.head = r /\ m.tail = r
      /\ m.next = [l.next EXCEPT ![r] = Null] /\ m.prior = [l.prior EXCEPT ![r] = Null]
  BY <1>1 DEF LinkOnly, Lists
<1>3. /\ m.next[r] = Null /\ m.prior[r] = Null
      /\ \A q \in Requests \ {r} : m.next[q] = l.next[q] /\ m.prior[q] = l.prior[q]
  BY <1>2 DEF Lists
<1>4. Sound(m, {r})
  BY <1>2, <1>3 DEF Sound
<1>5. QED
  BY <1>1, <1>2, <1>3, <1>4 DEF Joined

LEMMA LastJoins ==
  ASSUME NEW l \in Lists, NEW S, Sound(l, S), NEW r \in Requests \ S, S # {},
         NEW old, old = l.tail
  PROVE  Joined(l, LinkLast(l, r, old), S, r) /\ LinkLast(l, r, old).head = l.head
<1>1. PICK m : m = LinkLast(l, r, old)
  OBVIOUS
<1>2. old \in S /\ S \subseteq Requests /\ Null \notin Requests /\ r # old
  BY NullAssumption DEF Sound
<1>3. /\ m \in Lists /\ m.head = l.head /\ m.tail = r
      /\ m.next = [l.next EXCEPT ![old] = r, ![r] = Null] /\ m.prior = [l.prior EXCEPT ![r] = old]
  BY <1>1, <1>2 DEF LinkLast, Lists
<1>4. /\ m.next[r] = Null /\ m.prior[r] = old /\ m.next[old] = r
      /\ \A q \in Requests \ {r} : m.prior[q] = l.prior[q]
      /\ \A q \in Requests \ {r, old} : m.next[q] = l.next[q]
  BY <1>2, <1>3 DEF Lists
<1> DEFINE V == S \union {r}
<1>5. \A q \in V : IF q = m.head THEN m.prior[q] = Null
                   ELSE m.prior[q] \in V /\ m.next[m.prior[q]] = q
  <2>1. m.prior[r] \in V /\ m.next[m.prior[r]] = r
    BY <1>2, <1>4
  <2>2. ASSUME NEW q \in S
        PROVE  IF q = m.head THEN m.prior[q] = Null
               ELSE m.prior[q] \in S /\ m.next[m.prior[q]] = q
    <3>1. m.prior[q] = l.prior[q] /\ m.head = l.head
      BY <1>2, <1>3, <1>4
    <3>2. CASE q = l.head
      BY <3>1, <3>2 DEF Sound
    <3>3. CASE q # l.head
      <4>1. l.prior[q] \in S /\ l.next[l.prior[q]] = q
        BY <3>3 DEF Sound
      <4>2. l.next[old] = Null
        BY <1>2 DEF Sound
      <4>3. l.prior[q] \in Requests \ {r, old}
        BY <1>2, <4>1, <4>2
      <4>4. QED
        BY <1>4, <3>1, <3>3, <4>1, <4>3
    <3>4. QED
      BY <3>2, <3>3
  <2>3. m.head # r
    BY <1>2, <1>3 DEF Sound
  <2>4. QED
    BY <2>1, <2>2, <2>3
<1>6. \A q \in V : IF q = m.tail THEN m.next[q] = Null
                   ELSE m.next[q] \in V /\ m.prior[m.next[q]] = q
  <2>1. ASSUME NEW q \in S, q # old
        PROVE  q # m.tail /\ m.next[q] \in V /\ m.prior[m.next[q]] = q
    <3>1. l.next[q] \in S /\ l.prior[l.next[q]] = q
      BY <2>1 DEF Sound
    <3>2. m.next[q] = l.next[q] /\ m.prior[l.next[q]] = l.prior[l.next[q]] /\ q # r
      BY <1>2, <1>4, <2>1, <3>1
    <3>3. QED
      BY <1>3, <3>1, <3>2
  <2>2. old # m.tail /\ m.next[old] \in V /\ m.prior[m.next[old]] = old
    BY <1>2, <1>3, <1>4
  <2>3. r = m.tail /\ m.next[r] = Null
    BY <1>3, <1>4
  <2>4. QED
    BY <2>1, <2>2, <2>3
<1>7. ASSUME NEW X \in SUBSET V, m.head \in X, \A q \in X : m.next[q] \in X \union {Null}
      PROVE  X = V
  <2> DEFINE Y == X \ {r}
  <2>1. Y \in SUBSET S /\ l.head \in Y
    BY <1>2, <1>3, <1>7 DEF Sound
  <2>2. \A q \in Y : l.next[q] \in Y \union {Null}
    <3>1. SUFFICES ASSUME NEW q \in Y PROVE l.next[q] \in Y \union {Null}
      OBVIOUS
    <3>2. CASE q = old
      BY <1>2, <3>2 DEF Sound
    <3>3. CASE q # old
      <4>1. l.next[q] \in S
        BY <2>1, <3>3 DEF Sound
      <4>2. m.next[q] = l.next[q]
        BY <1>2, <1>4, <2>1, <3>3
      <4>3. QED
        BY <1>2, <1>7, <4>1, <4>2
    <3>4. QED
      BY <3>2, <3>3
  <2> HIDE DEF Y
  <2>3. Y = S
    BY <2>1, <2>2 DEF Sound
  <2>4. r \in X
    BY <1>2, <1>4, <1>7, <2>3 DEF Y
  <2>5. QED
    BY <2>3, <2>4 DEF Y
<1>8. ASSUME NEW X \in SUBSET V, m.tail \in X, \A q \in X : m.prior[q] \in X \union {Null}
      PROVE  X = V
  <2> DEFINE Y == X \ {r}
  <2>1. r \in X /\ old \in X
    BY <1>2, <1>3, <1>4, <1>8
  <2>2. Y \in SUBSET S /\ l.tail \in Y
    BY <1>2, <2>1
  <2>3. \A q \in Y : l.prior[q] \in Y \union {Null}
    BY <1>2, <1>4, <1>8, <2>2 DEF Sound
  <2> HIDE DEF Y
  <2>4. Y = S
    BY <2>2, <2>3 DEF Sound
  <2>5. QED
    BY <2>1, <2>4 DEF Y
<1>9. Sound(m, V)
  <2>1. V \subseteq Requests /\ V # {} /\ m.head \in V /\ m.tail \in V
    BY <1>2, <1>3 DEF Sound
  <2> HIDE DEF V
  <2>2. QED
    BY <1>5, <1>6, <1>7, <1>8, <2>1 DEF Sound
<1>10. QED
  BY <1>1, <1>2, <1>3, <1>4, <1>9 DEF Joined

LEMMA BeforeJoins ==
  ASSUME NEW l \in Lists, NEW S, Sound(l, S), NEW r \in Requests \ S, NEW p \in S
  PROVE  /\ Joined(l, LinkBefore(l, r, p), S, r)
         /\ LinkBefore(l, r, p).head = IF p = l.head THEN r ELSE l.head
<1>1. PICK m, o : m = LinkBefore(l, r, p) /\ o = l.prior[p]
  OBVIOUS
<1>2. /\ S \subseteq Requests /\ Null \notin Requests /\ r # p
      /\ IF p = l.head THEN o = Null ELSE o \in S /\ l.next[o] = p /\ o # r
  BY <1>1, NullAssumption DEF Sound
<1>3. /\ m \in Lists /\ m.tail = l.tail
      /\ m.prior = [l.prior EXCEPT ![r] = o, ![p] = r]
      /\ IF p = l.head THEN m.head = r /\ m.next = [l.next EXCEPT ![r] = p]
         ELSE m.head = l.head /\ m.next = [l.next EXCEPT ![o] = r, ![r] = p]
  <2>1. CASE o = Null
    <3>1. m = [l EXCEPT !.next[r] = p, !.prior[r] = Null, !.prior[p] = r, !.head = r]
      BY <1>1, <2>1 DEF LinkBefore
    <3>2. QED
      BY <1>2, <2>1, <3>1 DEF Lists
  <2>2. CASE o # Null
    <3>1. m = [l EXCEPT !.next[o] = r, !.next[r] = p, !.prior[r] = o, !.prior[p] = r]
      BY <1>1, <2>2 DEF LinkBefore
    <3>2. QED
      BY <1>2, <2>2, <3>1 DEF Lists
  <2>3. QED
    BY <2>1, <2>2
<1>4. /\ m.next[r] = p /\ m.prior[r] = o /\ m.prior[p] = r
      /\ p # l.head => m.next[o] = r
      /\ \A q \in Requests \ {r, p} : m.prior[q] = l.prior[q]
      /\ \A q \in Requests \ {r, o} : m.next[q] = l.next[q]
  BY <1>2, <1>3 DEF Lists
<1> DEFINE V == S \union {r}
<1>5. \A q \in V : IF q = m.head THEN m.prior[q] = Null
                   ELSE m.prior[q] \in V /\ m.next[m.prior[q]] = q
  <2>1. r = m.head => m.prior[r] = Null
    BY <1>2, <1>3, <1>4 DEF Sound
  <2>2. r # m.head => m.prior[r] \in V /\ m.next[m.prior[r]] = r
    BY <1>2, <1>3, <1>4
  <2>3. p # m.head /\ m.prior[p] \in V /\ m.next[m.prior[p]] = p
    BY <1>2, <1>3, <1>4
  <2>4. ASSUME NEW q \in S \ {p}
        PROVE  IF q = m.head THEN m.prior[q] = Null
               ELSE m.prior[q] \in V /\ m.next[m.prior[q]] = q
    <3>1. m.prior[q] = l.prior[q]
      BY <1>2, <1>4
    <3>2. CASE q = l.head
      BY <1>2, <1>3, <3>1, <3>2 DEF Sound
    <3>3. CASE q # l.head
      <4>1. l.prior[q] \in S /\ l.next[l.prior[q]] = q
        BY <3>3 DEF Sound
      <4>2. l.prior[q] \notin {r, o}
        BY <1>2, <4>1
      <4>3. q # m.head
        BY <1>2, <1>3, <3>3
      <4>4. QED
        BY <1>2, <1>4, <3>1, <4>1, <4>2, <4>3
    <3>4. QED
      BY <3>2, <3>3
  <2>5. QED
    BY <2>1, <2>2, <2>3, <2>4
<1>6. \A q \in V : IF q = m.tail THEN m.next[q] = Null
                   ELSE m.next[q] \in V /\ m.prior[m.next[q]] = q
  <2>1. r # m.tail /\ m.next[r] \in V /\ m.prior[m.next[r]] = r
    BY <1>2, <1>3, <1>4 DEF Sound
  <2>2. p # l.head => o # m.tail /\ m.next[o] \in V /\ m.prior[m.next[o]] = o
    BY <1>2, <1>3, <1>4 DEF Sound
  <2>3. ASSUME NEW q \in S, q # o
        PROVE  IF q = m.tail THEN m.next[q] = Null
               ELSE m.next[q] \in V /\ m.prior[m.next[q]] = q
    <3>1. m.next[q] = l.next[q]
      BY <1>2, <1>4, <2>3
    <3>2. CASE q = l.tail
      BY <1>3, <3>1, <3>2 DEF Sound
    <3>3. CASE q # l.tail
      <4>1. l.next[q] \in S /\ l.prior[l.next[q]] = q
        BY <3>3 DEF Sound
      <4>2. l.next[q] \notin {r, p}
        BY <1>1, <2>3, <4>1
      <4>3. QED
        BY <1>2, <1>3, <1>4, <3>1, <3>3, <4>1, <4>2
    <3>4. QED
      BY <3>2, <3>3
  <2>4. QED
    BY <1>2, <2>1, <2>2, <2>3
<1>7. ASSUME NEW X \in SUBSET V, m.head \in X, \A q \in X : m.next[q] \in X \union {Null}
      PROVE  X = V
  <2> DEFINE Y == X \ {r}
  <2>1. Y \in SUBSET S /\ l.head \in Y
    <3>1. l.head \in S
      BY DEF Sound
    <3>2. p = l.head => p \in X
      BY <1>2, <1>3, <1>4, <1>7
    <3>3. QED
      BY <1>3, <1>7, <3>1, <3>2
  <2>2. \A q \in Y : l.next[q] \in Y \union {Null}
    <3>1. SUFFICES ASSUME NEW q \in Y PROVE l.next[q] \in Y \union {Null}
      OBVIOUS
    <3>2. CASE q = o
      <4>1. p # l.head
        BY <1>2, <2>1, <3>2
      <4>2. r \in X
        BY <1>2, <1>4, <1>7, <3>2, <4>1
      <4>3. p \in X
        BY <1>2, <1>4, <1>7, <4>2
      <4>4. QED
        BY <1>2, <3>2, <4>1, <4>3
    <3>3. CASE q # o
      <4>1. l.next[q] \in S \union {Null} /\ m.next[q] = l.next[q]
        BY <1>2, <1>4, <2>1, <3>3 DEF Sound
      <4>2. QED
        BY <1>2, <1>7, <4>1
    <3>4. QED
      BY <3>2, <3>3
  <2> HIDE DEF Y
  <2>3. Y = S
    BY <2>1, <2>2 DEF Sound
  <2>4. r \in X
    BY <1>2, <1>3, <1>4, <1>7, <2>3 DEF Y
  <2>5. QED
    BY <2>3, <2>4 DEF Y
<1>8. ASSUME NEW X \in SUBSET V, m.tail \in X, \A q \in X : m.prior[q] \in X \union {Null}
      PROVE  X = V
  <2> DEFINE Y == X \ {r}
  <2>1. Y \in SUBSET S /\ l.tail \in Y
    BY <1>3, <1>8 DEF Sound
  <2>2. \A q \in Y : l.prior[q] \in Y \union {Null}
    <3>1. SUFFICES ASSUME NEW q \in Y PROVE l.prior[q] \in Y \union {Null}
      OBVIOUS
    <3>2. CASE q = p
      <4>1. r \in X
        BY <1>2, <1>4, <1>8, <3>2
      <4>2. QED
        BY <1>1, <1>2, <1>4, <1>8, <3>2, <4>1
    <3>3. CASE q # p
      <4>1. l.prior[q] \in S \union {Null} /\ m.prior[q] = l.prior[q]
        BY <1>2, <1>4, <2>1, <3>3 DEF Sound
      <4>2. QED
        BY <1>2, <1>8, <4>1
    <3>4. QED
      BY <3>2, <3>3
  <2> HIDE DEF Y
  <2>3. Y = S
    BY <2>1, <2>2 DEF Sound
  <2>4. r \in X
    BY <1>2, <1>4, <1>8, <2>3 DEF Y
  <2>5. QED
    BY <2>3, <2>4 DEF Y
<1>9. Sound(m, V)
  <2>1. V \subseteq Requests /\ V # {} /\ m.head \in V /\ m.tail \in V
    BY <1>2, <1>3 DEF Sound
  <2> HIDE DEF V
  <2>2. QED
    BY <1>5, <1>6, <1>7, <1>8, <2>1 DEF Sound
<1>10. QED
  BY <1>1, <1>2, <1>3, <1>4, <1>9 DEF Joined

\* What a search passes is in the list, has a place to stop at, and is the first
\* request only when that one is not among the lesser ones.
Stops(next, passed, S, start, lesser) ==
  /\ passed \subseteq S
  /\ \E q \in passed : q \notin lesser \/ next[q] = Null
  /\ start \notin lesser => passed = {start}

\* A search from a request of a list finds a place in it.
LEMMA SearchStops ==
  ASSUME NEW l \in Lists, NEW S \in SUBSET Requests, Sound(l, S), NEW start \in S,
         NEW lesser \in SUBSET Requests
  PROVE  Stops(l.next, Along(l.next, start, lesser), S, start, lesser)
<1>0. PICK passed : passed = Along(l.next, start, lesser)
  OBVIOUS
<1>1. S \subseteq Requests /\ Null \notin Requests
  BY NullAssumption DEF Sound
<1>2. \A q \in S : l.next[q] \in S \union {Null} /\ l.prior[q] \in S \union {Null}
  BY DEF Sound
<1>3. passed \subseteq S
  BY <1>0, <1>1, <1>2, AlongLeast
<1>4. start \in passed
  BY <1>0, <1>1, AlongStep
<1>5. ASSUME \A q \in passed : q \in lesser /\ l.next[q] # Null
      PROVE  FALSE
  <2> DEFINE Y == S \ passed
  <2>1. l.tail \in Y
    BY <1>3, <1>4, <1>5 DEF Sound
  <2>2. \A q \in Y : l.prior[q] \in Y \union {Null}
    <3>1. SUFFICES ASSUME NEW q \in Y, l.prior[q] \in passed PROVE FALSE
      BY <1>2
    <3>2. l.next[l.prior[q]] = q
      BY <1>1, <1>3, <3>1 DEF Sound
    <3>3. q \in passed
      BY <1>0, <1>1, <1>5, <3>1, <3>2, AlongStep
    <3>4. QED
      BY <3>3
  <2>3. Y \in SUBSET S
    OBVIOUS
  <2> HIDE DEF Y
  <2>4. Y = S
    BY <2>1, <2>2, <2>3 DEF Sound
  <2>5. QED
    BY <1>4, <2>4 DEF Y
<1>6. ASSUME start \notin lesser PROVE passed = {start}
  <2>1. {start} \in SUBSET Requests /\ {start} \intersect lesser = {}
    BY <1>1, <1>6
  <2>2. passed \subseteq {start}
    BY <1>0, <2>1, AlongLeast
  <2>3. QED
    BY <1>4, <2>2
<1>7. QED
  BY <1>0, <1>3, <1>5, <1>6 DEF Stops

LEMMA LinkJoins ==
  ASSUME NEW l \in Lists, NEW S \in SUBSET Requests, Sound(l, S), NEW r \in Requests \ S,
         NEW start \in S, NEW lesser \in SUBSET Requests
  PROVE  /\ Joined(l, Link(l, r, start, lesser), S, r)
         /\ start = l.head => Link(l, r, start, lesser).head = IF start \in lesser THEN l.head ELSE r
<1>1. PICK passed : passed = Along(l.next, start, lesser)
  OBVIOUS
<1>2. PICK p : p = CHOOSE q \in passed : q \notin lesser \/ l.next[q] = Null
  OBVIOUS
<1>3. /\ p \in passed /\ (p \notin lesser \/ l.next[p] = Null)
      /\ passed \subseteq S /\ (start \notin lesser => passed = {start})
  <2>1. Stops(l.next, passed, S, start, lesser)
    BY <1>1, SearchStops
  <2>2. QED
    BY <1>2, <2>1 DEF Stops
<1>4. Link(l, r, start, lesser) = IF p \notin lesser THEN LinkBefore(l, r, p) ELSE LinkLast(l, r, p)
  BY <1>1, <1>2 DEF Link
<1>5. CASE p \notin lesser
  <2>1. p \in S
    BY <1>3
  <2>2. /\ Joined(l, LinkBefore(l, r, p), S, r)
        /\ LinkBefore(l, r, p).head = IF p = l.head THEN r ELSE l.head
    BY <2>1, BeforeJoins
  <2>3. start = l.head => (p = l.head <=> start \notin lesser)
    BY <1>3, <1>5
  <2>4. QED
    BY <1>4, <1>5, <2>2, <2>3
<1>6. CASE p \in lesser
  <2>1. p = l.tail /\ S # {}
    BY <1>3, <1>6, NullAssumption DEF Sound
  <2>2. Joined(l, LinkLast(l, r, p), S, r) /\ LinkLast(l, r, p).head = l.head
    BY <2>1, LastJoins
  <2>3. start \in lesser
    BY <1>3, <1>6
  <2>4. QED
    BY <1>4, <1>6, <2>2, <2>3
<1>7. QED
  BY <1>5, <1>6

-----------------------------------------------------------------------------
(* The invariant: S are on the queue, W on the worker's chain, H[k] on hash list k. *)

Typed ==
  /\ queue \in Lists
  /\ hash \in [head : [Buckets -> Requests \union {Null}], tail : [Buckets -> Requests \union {Null}],
               next : [Requests -> Requests \union {Null}],
               prior : [Requests -> Requests \union {Null}]]
  /\ DOMAIN io = Requests
  /\ \A q \in pending : io[q] \in Address

Placed(S, W, H) ==
  /\ Sound(queue, S)
  /\ Chained(queue.next, list, W)
  /\ S \intersect W = {} /\ pending = S \union W
  /\ \A k \in Buckets : Sound(HashList(k), H[k])
  /\ \A k, j \in Buckets : k # j => H[k] \intersect H[j] = {}
  /\ S = UNION {H[k] : k \in Buckets}
  /\ \A k \in Buckets : \A q \in H[k] : io[hash.head[k]].sector <= io[q].sector

Inv ==
  /\ Typed
  /\ \E S, W \in SUBSET Requests : \E H \in [Buckets -> SUBSET Requests] : Placed(S, W, H)

LEMMA HashTyped ==
  ASSUME Typed, NEW k \in Buckets
  PROVE  HashList(k) \in Lists /\ HashList(k).head = hash.head[k]
  BY DEF Typed, HashList, Lists

LEMMA AddressNumbers ==
  ASSUME NEW a \in Address
  PROVE  a.disk \in Nat /\ a.sector \in Nat /\ Bucket(a) \in Buckets
  BY AddressAssumption DEF Address, Buckets

\* index_io finds a place for the request in the queue.
LEMMA QueueJoins ==
  ASSUME Typed, NEW S, NEW W, NEW H, Placed(S, W, H), NEW r \in Requests \ pending, NEW a \in Address
  PROVE  Joined(queue, IndexIo(r, a), S, r)
<1>1. queue \in Lists /\ Sound(queue, S) /\ r \notin S
  BY DEF Typed, Placed
<1>2. CASE queue.tail = Null
  <2>1. S = {}
    BY <1>1, <1>2, NullAssumption DEF Sound
  <2>2. QED
    BY <1>1, <1>2, <2>1, OnlyJoins DEF IndexIo
<1>3. CASE queue.tail # Null
  <2>1. queue.head \in S
    BY <1>1, <1>3 DEF Sound
  <2>2. Start(a) \in S
    <3>1. CASE hash.head[Bucket(a)] = Null
      BY <2>1, <3>1 DEF Start
    <3>2. CASE hash.head[Bucket(a)] # Null
      <4>1. PICK k \in Buckets : k = Bucket(a)
        BY AddressNumbers
      <4>2. Sound(HashList(k), H[k]) /\ HashList(k).head = hash.head[k] /\ H[k] \subseteq S
        BY HashTyped DEF Placed
      <4>3. hash.head[k] \in H[k]
        BY <3>2, <4>1, <4>2 DEF Sound
      <4>4. QED
        BY <3>2, <4>1, <4>2, <4>3 DEF Start
    <3>3. QED
      BY <3>1, <3>2
  <2>3. PICK lesser : lesser = {p \in Requests : io[p].disk < a.disk \/ io[p].sector < a.sector}
    OBVIOUS
  <2>4. IndexIo(r, a) = Link(queue, r, Start(a), lesser)
    BY <1>3, <2>3 DEF IndexIo
  <2>5. S \in SUBSET Requests /\ lesser \in SUBSET Requests /\ r \in Requests \ S
    BY <1>1, <2>3 DEF Sound
  <2>6. QED
    BY <1>1, <2>2, <2>4, <2>5, LinkJoins
<1>4. QED
  BY <1>2, <1>3

\* And hash_disk_io in the hash list, whose first request stays the lowest.
LEMMA HashJoins ==
  ASSUME Typed, NEW S, NEW W, NEW H, Placed(S, W, H), NEW r \in Requests \ pending, NEW a \in Address,
         NEW k, k = Bucket(a)
  PROVE  /\ Joined(HashList(k), HashDiskIo(r, a), H[k], r)
         /\ \/ HashDiskIo(r, a).head = r /\ \A q \in H[k] : a.sector <= io[q].sector
            \/ HashDiskIo(r, a).head = hash.head[k] /\ H[k] # {} /\ io[hash.head[k]].sector <= a.sector
<1>1. k \in Buckets
  BY AddressNumbers
<1>2. /\ HashList(k) \in Lists /\ HashList(k).head = hash.head[k] /\ Sound(HashList(k), H[k])
      /\ H[k] \subseteq pending /\ \A q \in H[k] : io[hash.head[k]].sector <= io[q].sector
  BY <1>1, HashTyped DEF Placed
<1>3. r \in Requests \ H[k]
  BY <1>2
<1>4. CASE hash.head[k] = Null
  <2>1. H[k] = {}
    BY <1>2, <1>4, NullAssumption DEF Sound
  <2>2. HashDiskIo(r, a) = LinkOnly(HashList(k), r)
    BY <1>2, <1>4 DEF HashDiskIo
  <2>3. QED
    BY <1>2, <2>1, <2>2, OnlyJoins
<1>5. CASE hash.head[k] # Null
  <2>1. PICK lesser, h : lesser = {p \in Requests : io[p].sector < a.sector} /\ h = hash.head[k]
    OBVIOUS
  <2>2. HashDiskIo(r, a) = Link(HashList(k), r, h, lesser)
    BY <1>2, <1>5, <2>1 DEF HashDiskIo
  <2>3. h \in H[k] /\ H[k] \subseteq Requests
    BY <1>2, <1>5, <2>1 DEF Sound
  <2>4. /\ Joined(HashList(k), HashDiskIo(r, a), H[k], r)
        /\ HashDiskIo(r, a).head = IF h \in lesser THEN h ELSE r
    BY <1>2, <1>3, <2>1, <2>2, <2>3, LinkJoins
  <2>5. a.sector \in Nat /\ \A q \in H[k] : io[q].sector \in Nat
    BY <1>2, AddressNumbers DEF Typed
  <2>6. CASE h \in lesser
    <3>1. io[h].sector <= a.sector
      BY <2>1, <2>3, <2>5, <2>6
    <3>2. QED
      BY <2>1, <2>3, <2>4, <2>6, <3>1
  <2>7. CASE h \notin lesser
    <3>1. a.sector <= io[h].sector
      BY <2>1, <2>3, <2>5, <2>7
    <3>2. \A q \in H[k] : a.sector <= io[q].sector
      BY <1>2, <2>1, <2>3, <2>5, <3>1
    <3>3. QED
      BY <2>4, <2>7, <3>2
  <2>8. QED
    BY <2>6, <2>7
<1>6. QED
  BY <1>4, <1>5

-----------------------------------------------------------------------------
(* Steps *)

LEMMA InsertKeeps ==
  ASSUME Inv, NEW r \in Requests, InsertIo(r)
  PROVE  Inv'
<1>1. Typed
  BY DEF Inv
<1>2. PICK S \in SUBSET Requests, W \in SUBSET Requests, H \in [Buckets -> SUBSET Requests] : Placed(S, W, H)
  BY DEF Inv
<1>3. PICK a \in Address :
        /\ io' = [io EXCEPT ![r] = a]
        /\ queue' = IndexIo(r, a)
        /\ hash' = WithHashList(Bucket(a), HashDiskIo(r, a))
  BY DEF InsertIo
<1>4. PICK k \in Buckets : k = Bucket(a)
  BY AddressNumbers
<1>5. PICK l, m : l = HashList(k) /\ m = HashDiskIo(r, a)
  OBVIOUS
<1>6. r \notin pending /\ pending' = pending \union {r} /\ list' = list
  BY DEF InsertIo
<1>7. Joined(queue, queue', S, r)
  BY <1>1, <1>2, <1>3, <1>6, QueueJoins
<1>8. /\ Joined(l, m, H[k], r)
      /\ \/ m.head = r /\ \A q \in H[k] : a.sector <= io[q].sector
         \/ m.head = hash.head[k] /\ H[k] # {} /\ io[hash.head[k]].sector <= a.sector
  BY <1>1, <1>2, <1>4, <1>5, <1>6, HashJoins
<1>9. hash' = [head |-> [hash.head EXCEPT ![k] = m.head], tail |-> [hash.tail EXCEPT ![k] = m.tail],
               next |-> m.next, prior |-> m.prior]
  BY <1>3, <1>4, <1>5 DEF WithHashList
<1>10. m \in Lists /\ queue' \in Lists
  BY <1>7, <1>8 DEF Joined
<1>11. /\ hash'.next = m.next /\ hash'.prior = m.prior
       /\ hash'.head[k] = m.head /\ hash'.tail[k] = m.tail
       /\ \A j \in Buckets \ {k} : hash'.head[j] = hash.head[j] /\ hash'.tail[j] = hash.tail[j]
  BY <1>1, <1>9 DEF Typed
<1>12. io'[r] = a /\ \A q \in Requests \ {r} : io'[q] = io[q]
  BY <1>1, <1>3 DEF Typed
<1>13. Typed'
  <2>1. hash' \in [head : [Buckets -> Requests \union {Null}], tail : [Buckets -> Requests \union {Null}],
                   next : [Requests -> Requests \union {Null}],
                   prior : [Requests -> Requests \union {Null}]]
    <3>1. m.head \in Requests \union {Null} /\ m.tail \in Requests \union {Null}
          /\ m.next \in [Requests -> Requests \union {Null}] /\ m.prior \in [Requests -> Requests \union {Null}]
      BY <1>10 DEF Lists
    <3>2. [hash.head EXCEPT ![k] = m.head] \in [Buckets -> Requests \union {Null}]
          /\ [hash.tail EXCEPT ![k] = m.tail] \in [Buckets -> Requests \union {Null}]
      BY <1>1, <3>1 DEF Typed
    <3>3. QED
      BY <1>9, <3>1, <3>2
  <2>2. DOMAIN io' = Requests
    BY <1>1, <1>3 DEF Typed
  <2>3. \A q \in pending' : io'[q] \in Address
    BY <1>1, <1>2, <1>6, <1>12 DEF Typed, Placed
  <2>4. QED
    BY <1>10, <2>1, <2>2, <2>3 DEF Typed
<1> DEFINE V == S \union {r}
           G == [H EXCEPT ![k] = H[k] \union {r}]
<1>14. S \intersect W = {} /\ pending = S \union W /\ S = UNION {H[j] : j \in Buckets}
  BY <1>2 DEF Placed
<1>15. Sound(queue', V)
  BY <1>7 DEF Joined
<1>16. Chained(queue'.next, list', W)
  <2>1. \A q \in W : queue'.next[q] = queue.next[q]
    BY <1>6, <1>7, <1>14 DEF Joined
  <2>2. PICK x, y : x = queue.next /\ y = queue'.next
    OBVIOUS
  <2>3. Chained(x, list, W) /\ \A q \in W : y[q] = x[q]
    BY <1>2, <2>1, <2>2 DEF Placed
  <2>4. \A X \in SUBSET W : (\A q \in X : x[q] \in X \union {Null}) <=> \A q \in X : y[q] \in X \union {Null}
    BY <2>3
  <2>5. Chained(y, list, W)
    BY <2>3, <2>4 DEF Chained
  <2>6. QED
    BY <1>6, <2>2, <2>5
<1>17. G[k] = H[k] \union {r} /\ \A j \in Buckets \ {k} : G[j] = H[j] /\ H[j] \intersect H[k] = {}
  BY <1>2 DEF Placed
<1>18. \A j \in Buckets : H[j] \subseteq S /\ H[j] \subseteq Requests \ {r}
  BY <1>6, <1>14
<1>19. ASSUME NEW j \in Buckets PROVE Sound(HashList(j)', G[j])
  <2>1. CASE j = k
    <3>1. Sound(m, G[j]) /\ m \in Lists
      BY <1>8, <1>17, <2>1 DEF Joined
    <3>2. PICK n : n = HashList(j)'
      OBVIOUS
    <3>3. n.head = m.head /\ n.tail = m.tail /\ n.next = m.next /\ n.prior = m.prior
      BY <1>11, <2>1, <3>2 DEF HashList
    <3>4. Sound(n, G[j])
      BY <3>1, <3>3, SoundSame
    <3>5. QED
      BY <3>2, <3>4
  <2>2. CASE j # k
    <3>1. PICK n, o : n = HashList(j)' /\ o = HashList(j)
      OBVIOUS
    <3>2. /\ n.head = o.head /\ n.tail = o.tail /\ n.next = m.next /\ n.prior = m.prior
          /\ o.next = l.next /\ o.prior = l.prior
      BY <1>5, <1>11, <2>2, <3>1 DEF HashList
    <3>3. \A q \in H[j] : m.next[q] = l.next[q] /\ m.prior[q] = l.prior[q]
      BY <1>8, <1>17, <1>18, <2>2 DEF Joined
    <3>4. Sound(o, H[j])
      BY <1>2, <3>1 DEF Placed
    <3>5. Sound(n, H[j])
      BY <3>2, <3>3, <3>4, SoundSame
    <3>6. QED
      BY <1>17, <2>2, <3>1, <3>5
  <2>3. QED
    BY <2>1, <2>2
<1>20. \A i, j \in Buckets : i # j => G[i] \intersect G[j] = {}
  BY <1>2, <1>17, <1>18 DEF Placed
<1>21. V = UNION {G[j] : j \in Buckets}
  BY <1>14, <1>17
<1>22. ASSUME NEW j \in Buckets, NEW q \in G[j] PROVE io'[hash'.head[j]].sector <= io'[q].sector
  <2>1. \A i \in Buckets : \A p \in H[i] : io[hash.head[i]].sector <= io[p].sector /\ hash.head[i] \in H[i]
    <3>1. \A i \in Buckets : \A p \in H[i] : io[hash.head[i]].sector <= io[p].sector
      BY <1>2 DEF Placed
    <3>2. \A i \in Buckets : Sound(HashList(i), H[i]) /\ HashList(i).head = hash.head[i]
      BY <1>1, <1>2, HashTyped DEF Placed
    <3>3. \A i \in Buckets : H[i] # {} => hash.head[i] \in H[i]
      BY <3>2 DEF Sound
    <3>4. QED
      BY <3>1, <3>3
  <2>2. CASE j # k
    <3>1. q \in H[j] /\ hash'.head[j] = hash.head[j]
      BY <1>11, <1>17, <1>22, <2>2
    <3>2. io'[q] = io[q] /\ io'[hash.head[j]] = io[hash.head[j]]
      BY <1>12, <1>18, <2>1, <3>1
    <3>3. QED
      BY <2>1, <3>1, <3>2
  <2>3. CASE j = k
    <3>1. CASE m.head = r /\ \A p \in H[k] : a.sector <= io[p].sector
      <4>1. hash'.head[j] = r /\ io'[r] = a
        BY <1>11, <1>12, <2>3, <3>1
      <4>2. q = r \/ q \in H[k]
        BY <1>17, <2>3
      <4>3. a.sector <= a.sector
        BY AddressNumbers
      <4>4. q \in H[k] => io'[q] = io[q]
        BY <1>12, <1>18
      <4>5. QED
        BY <3>1, <4>1, <4>2, <4>3, <4>4
    <3>2. CASE m.head = hash.head[k] /\ H[k] # {} /\ io[hash.head[k]].sector <= a.sector
      <4>1. hash.head[k] \in H[k] /\ hash'.head[j] = hash.head[k]
        BY <1>11, <2>1, <2>3, <3>2
      <4>2. io'[hash.head[k]] = io[hash.head[k]]
        BY <1>12, <1>18, <4>1
      <4>3. q = r \/ q \in H[k]
        BY <1>17, <2>3
      <4>4. q \in H[k] => io'[q] = io[q]
        BY <1>12, <1>18
      <4>5. QED
        BY <1>12, <2>1, <3>2, <4>1, <4>2, <4>3, <4>4
    <3>3. QED
      BY <1>8, <3>1, <3>2
  <2>4. QED
    BY <2>2, <2>3
<1>23. V \in SUBSET Requests /\ G \in [Buckets -> SUBSET Requests]
  OBVIOUS
<1>24. V \intersect W = {} /\ pending' = V \union W
  BY <1>6, <1>14
<1> HIDE DEF V, G
<1>25. Placed(V, W, G)'
  BY <1>15, <1>16, <1>19, <1>20, <1>21, <1>22, <1>24 DEF Placed
<1>26. QED
  BY <1>13, <1>23, <1>25 DEF Inv

LEMMA TakeKeeps ==
  ASSUME Inv, TakeQueue
  PROVE  Inv'
<1>1. Typed
  BY DEF Inv
<1>2. PICK S \in SUBSET Requests, W \in SUBSET Requests, H \in [Buckets -> SUBSET Requests] : Placed(S, W, H)
  BY DEF Inv
<1>3. /\ list = Null /\ queue.head # Null /\ list' = queue.head
      /\ queue' = [queue EXCEPT !.head = Null, !.tail = Null]
      /\ hash' = [hash EXCEPT !.head = AllNull, !.tail = AllNull]
      /\ UNCHANGED <<io, pending>>
  BY DEF TakeQueue, ClearedHash
<1>4. /\ queue'.head = Null /\ queue'.tail = Null /\ queue'.next = queue.next
      /\ queue' \in Lists
  BY <1>1, <1>3 DEF Typed, Lists
<1>5. Typed'
  BY <1>1, <1>3, <1>4 DEF Typed, AllNull
<1>6. Sound(queue, S) /\ W = {} /\ pending = S
  BY <1>2, <1>3, NullAssumption DEF Placed, Chained
<1>7. S # {} /\ S \subseteq Requests /\ Null \notin Requests
  BY <1>3, <1>6, NullAssumption DEF Sound
<1>8. Chained(queue.next, queue.head, S)
  <2>1. queue.head \in S
    BY <1>6, <1>7 DEF Sound
  <2>2. \A q \in S : queue.next[q] \in S \union {Null}
    BY <1>6 DEF Sound
  <2>3. \A q \in S : queue.next[q] # Null => queue.prior[queue.next[q]] = q
    BY <1>6 DEF Sound
  <2>4. queue.prior[queue.head] = Null
    BY <1>6, <2>1 DEF Sound
  <2>5. \A q \in S : queue.next[q] # queue.head
    BY <1>7, <2>1, <2>3, <2>4
  <2>6. \A q, p \in S : queue.next[q] = queue.next[p] /\ queue.next[q] # Null => q = p
    BY <2>3
  <2>7. \A X \in SUBSET S : queue.head \in X /\ (\A q \in X : queue.next[q] \in X \union {Null}) => X = S
    BY <1>6 DEF Sound
  <2>8. QED
    BY <1>7, <2>1, <2>2, <2>5, <2>6, <2>7 DEF Chained
<1>9. \A l : l.head = Null /\ l.tail = Null => Sound(l, {})
  <2>1. SUFFICES ASSUME NEW l, l.head = Null, l.tail = Null PROVE Sound(l, {})
    OBVIOUS
  <2>2. QED
    BY <2>1 DEF Sound
<1> DEFINE G == [k \in Buckets |-> {}]
<1>10. \A k \in Buckets : Sound(HashList(k)', G[k])
  <2>1. \A k \in Buckets : hash'.head[k] = Null /\ hash'.tail[k] = Null
    BY <1>1, <1>3 DEF Typed, AllNull
  <2>2. \A k \in Buckets : HashList(k)'.head = Null /\ HashList(k)'.tail = Null
    BY <2>1 DEF HashList
  <2>3. QED
    BY <1>9, <2>2
<1>11. Sound(queue', {}) /\ {} = UNION {G[k] : k \in Buckets} /\ G \in [Buckets -> SUBSET Requests]
  BY <1>4, <1>9
<1>12. \A k \in Buckets : G[k] = {}
  OBVIOUS
<1> HIDE DEF G
<1>13. Placed({}, S, G)'
  BY <1>3, <1>4, <1>6, <1>8, <1>10, <1>11, <1>12 DEF Placed
<1>14. QED
  BY <1>5, <1>7, <1>11, <1>13 DEF Inv

LEMMA ServeKeeps ==
  ASSUME Inv, Serve
  PROVE  Inv'
<1>1. Typed
  BY DEF Inv
<1>2. PICK S \in SUBSET Requests, W \in SUBSET Requests, H \in [Buckets -> SUBSET Requests] : Placed(S, W, H)
  BY DEF Inv
<1>3. PICK r, x : r = list /\ x = queue.next
  OBVIOUS
<1>4. /\ r # Null /\ list' = x[r] /\ pending' = pending \ {r} /\ UNCHANGED <<io, hash>>
      /\ queue' = [queue EXCEPT !.next[r] = Null, !.prior[r] = Null]
  BY <1>3 DEF Serve
<1>5. Sound(queue, S) /\ Chained(x, r, W) /\ S \intersect W = {} /\ pending = S \union W
  BY <1>2, <1>3 DEF Placed
<1>6. r \in W /\ r \in Requests /\ Null \notin Requests
  BY <1>4, <1>5, NullAssumption DEF Chained
<1>7. /\ queue' \in Lists /\ queue'.head = queue.head /\ queue'.tail = queue.tail
      /\ \A q \in Requests \ {r} : queue'.next[q] = x[q] /\ queue'.prior[q] = queue.prior[q]
  BY <1>1, <1>3, <1>4, <1>6 DEF Typed, Lists
<1>8. Typed'
  BY <1>1, <1>4, <1>7 DEF Typed
<1>9. Sound(queue', S)
  <2>1. \A q \in S : queue'.next[q] = queue.next[q] /\ queue'.prior[q] = queue.prior[q]
    BY <1>3, <1>5, <1>6, <1>7
  <2>2. QED
    BY <1>5, <1>7, <2>1, SoundSame
<1> DEFINE V == W \ {r}
<1>10. Chained(queue'.next, list', V)
  <2>1. PICK y, n : y = queue'.next /\ n = x[r]
    OBVIOUS
  <2>2. \A q \in V : y[q] = x[q]
    BY <1>7, <2>1
  <2>3. n \in V \union {Null} /\ n # r
    BY <1>5, <1>6, <2>1 DEF Chained
  <2>4. \A q \in V : x[q] \in V \union {Null} /\ (n # Null => x[q] # n)
    BY <1>5, <1>6, <2>1 DEF Chained
  <2>5. \A X \in SUBSET V : n \in X \union {Null} /\ (\A q \in X : x[q] \in X \union {Null}) => X = V
    <3>1. SUFFICES ASSUME NEW X \in SUBSET V, n \in X \union {Null}, \A q \in X : x[q] \in X \union {Null}
                   PROVE  X = V
      OBVIOUS
    <3> DEFINE Y == X \union {r}
    <3>2. Y \in SUBSET W /\ r \in Y /\ \A q \in Y : x[q] \in Y \union {Null}
      BY <1>6, <2>1, <3>1
    <3> HIDE DEF Y
    <3>3. Y = W
      BY <1>5, <3>2 DEF Chained
    <3>4. QED
      BY <3>1, <3>3 DEF Y
  <2>6. IF V = {} THEN n = Null ELSE n \in V
    <3>1. n = Null => V = {}
      BY <2>5, {} \in SUBSET V
    <3>2. QED
      BY <1>6, <2>3, <3>1
  <2>7. V \subseteq Requests
    OBVIOUS
  <2>8. \A X \in SUBSET V : n \in X /\ (\A q \in X : y[q] \in X \union {Null}) => X = V
    BY <2>2, <2>5
  <2>9. \A q, p \in V : x[q] = x[p] /\ x[q] # Null => q = p
    BY <1>5 DEF Chained
  <2>10. \A q \in V : x[q] # n
    BY <1>6, <2>4, <2>6
  <2> HIDE DEF V
  <2>11. Chained(y, n, V)
    BY <2>2, <2>4, <2>10, <2>6, <2>7, <2>8, <2>9 DEF Chained
  <2>12. QED
    BY <1>4, <2>1, <2>11
<1>11. V \in SUBSET Requests /\ S \intersect V = {} /\ pending' = S \union V
  BY <1>4, <1>5, <1>6
<1> HIDE DEF V
<1>12. \A k \in Buckets : HashList(k)' = HashList(k)
  BY <1>4 DEF HashList
<1>13. Placed(S, V, H)'
  BY <1>2, <1>4, <1>9, <1>10, <1>11, <1>12 DEF Placed
<1>14. QED
  BY <1>8, <1>11, <1>13 DEF Inv

LEMMA InitInv ==
  ASSUME Init
  PROVE  Inv
<1>1. Typed
  BY DEF Init, Typed, Lists, Unlinked, AllNull
<1>2. \A l : l.head = Null /\ l.tail = Null => Sound(l, {})
  <2>1. SUFFICES ASSUME NEW l, l.head = Null, l.tail = Null PROVE Sound(l, {})
    OBVIOUS
  <2>2. QED
    BY <2>1 DEF Sound
<1> DEFINE G == [k \in Buckets |-> {}]
<1>3. \A k \in Buckets : Sound(HashList(k), G[k])
  <2>1. \A k \in Buckets : HashList(k).head = Null /\ HashList(k).tail = Null
    BY DEF Init, AllNull, HashList
  <2>2. QED
    BY <1>2, <2>1
<1>4. Sound(queue, {}) /\ Chained(queue.next, list, {})
  <2>1. queue.head = Null /\ queue.tail = Null /\ list = Null
    BY DEF Init
  <2>2. QED
    BY <1>2, <2>1 DEF Chained
<1>5. {} = UNION {G[k] : k \in Buckets} /\ G \in [Buckets -> SUBSET Requests] /\ \A k \in Buckets : G[k] = {}
  OBVIOUS
<1> HIDE DEF G
<1>6. Placed({}, {}, G)
  BY <1>3, <1>4, <1>5 DEF Placed, Init
<1>7. QED
  BY <1>1, <1>5, <1>6 DEF Inv

\* The inductive invariant: the queue and the hash lists are whole lists of the same
\* requests, and what the worker has taken is a chain of the other pending ones.
THEOREM Invariance == Spec => []Inv
<1>1. Inv /\ [Next]_vars => Inv'
  <2>1. SUFFICES ASSUME Inv, [Next]_vars PROVE Inv'
    OBVIOUS
  <2>2. CASE UNCHANGED vars
    <3>1. \A k : HashList(k)' = HashList(k)
      BY <2>2 DEF vars, HashList
    <3>2. \A S, W, H : Placed(S, W, H)' <=> Placed(S, W, H)
      BY <2>2, <3>1 DEF vars, Placed
    <3>3. Typed'
      BY <2>1, <2>2 DEF vars, Inv, Typed
    <3>4. QED
      BY <2>1, <3>2, <3>3 DEF Inv
  <2>3. QED
    BY <2>1, <2>2, InsertKeeps, TakeKeeps, ServeKeeps DEF Next
<1>2. QED
  BY <1>1, InitInv, PTL DEF Spec

\* A request that was submitted and not served is on the queue or on the chain of the
\* worker, and never on both: insert_io and the taking of the queue lose none.
THEOREM NoRequestLost == Spec => []NothingLost
<1>1. Inv => NothingLost
  <2>1. SUFFICES ASSUME Inv PROVE NothingLost
    OBVIOUS
  <2>2. PICK S \in SUBSET Requests, W \in SUBSET Requests,
             H \in [Buckets -> SUBSET Requests] : Placed(S, W, H)
    BY <2>1 DEF Inv
  <2>3. Queued = S
    BY <2>2, SoundReach DEF Placed, Queued
  <2>4. Taken = W
    <3>1. Chained(queue.next, list, W)
      BY <2>2 DEF Placed
    <3>2. Reach(queue.next, list) = W
      BY <3>1, ReachAll DEF Chained
    <3>3. QED
      BY <3>2 DEF Taken
  <2>5. QED
    BY <2>2, <2>3, <2>4 DEF Placed, NothingLost
<1>2. QED
  BY <1>1, Invariance, PTL

\* The queue and the hash lists stay whole in both directions, hold the same requests,
\* and the lowest sector of a bucket is first, so that index_io may start there.
THEOREM ListsStaySound == Spec => []ListsSound
<1>1. Inv => ListsSound
  <2>1. SUFFICES ASSUME Inv PROVE ListsSound
    OBVIOUS
  <2>2. PICK S \in SUBSET Requests, W \in SUBSET Requests,
             H \in [Buckets -> SUBSET Requests] : Placed(S, W, H)
    BY <2>1 DEF Inv
  <2>3. Queued = S /\ Linked(queue)
    BY <2>2, SoundReach DEF Placed, Queued
  <2>4. ASSUME NEW k \in Buckets
        PROVE  Linked(HashList(k)) /\ Reach(hash.next, hash.head[k]) = H[k]
    <3>1. Sound(HashList(k), H[k])
      BY <2>2 DEF Placed
    <3>2. Linked(HashList(k)) /\ Reach(HashList(k).next, HashList(k).head) = H[k]
      BY <3>1, SoundReach
    <3>3. QED
      BY <3>2 DEF HashList
  <2>5. HashedAreQueued
    BY <2>2, <2>3, <2>4 DEF HashedAreQueued, Placed
  <2>6. HashHeadsLowest
    BY <2>2, <2>4 DEF HashHeadsLowest, Placed
  <2>7. QED
    BY <2>3, <2>5, <2>6 DEF ListsSound
<1>2. QED
  BY <1>1, Invariance, PTL
====
