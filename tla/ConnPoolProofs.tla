---------------------------- MODULE ConnPoolProofs ----------------------------
(***************************************************************************)
(* Theorems about ConnPool, for any number of threads and connections: no  *)
(* connection is used by two threads at once and none is lost, and the     *)
(* threads that take a second connection never wait for each other.        *)
(***************************************************************************)
EXTENDS ConnPool, FiniteSetTheorems, TLAPS

Has(w) == ToSet(held[w])

(* The pool, the check thread and the workers share no connection, and     *)
(* none of them has one twice.                                             *)
Apart ==
  /\ IsInjective(pool) /\ IsInjective(local)
  /\ \A w \in Worker : IsInjective(held[w])
  /\ ToSet(pool) \cap ToSet(local) = {}
  /\ \A w \in Worker : Has(w) \cap ToSet(pool) = {} /\ Has(w) \cap ToSet(local) = {}
  /\ \A w, v \in Worker : w # v => Has(w) \cap Has(v) = {}

(* A connection that nobody has was freed.                                 *)
Kept ==
  \A c \in Conn : \/ health[c] = "freed"
                  \/ c \in ToSet(pool) \/ c \in ToSet(local)
                  \/ \E w \in Worker : c \in Has(w)

(* Nobody has a freed connection.                                          *)
Unfreed ==
  \A c \in Conn : health[c] = "freed" =>
    /\ c \notin ToSet(pool) /\ c \notin ToSet(local)
    /\ \A w \in Worker : c \notin Has(w)

(* How far the check thread and Close have come.                           *)
Phases ==
  /\ \A w \in Worker : pc[w] = "using" => held[w] # <<>>
  /\ (closer # "none") = stop
  /\ checker = "exited" => stop
  /\ checker # "probe" => local = <<>>
  /\ closer \in {"clear", "done"} => checker = "exited"
  /\ closer = "done" => pool = <<>>

(* While no connection has been freed, a thread has one connection for a   *)
(* command and two for GetFriendList.                                      *)
Nested ==
  (\A c \in Conn : health[c] # "freed") =>
    \A w \in Worker :
      /\ pc[w] = "idle" => held[w] = <<>>
      /\ pc[w] = "using" => Len(held[w]) = 1 \/ (Len(held[w]) = 2 /\ w \in Nesting)
      /\ pc[w] \in {"get", "wait", "waiting"} =>
           held[w] = <<>> \/ (Len(held[w]) = 1 /\ w \in Nesting)

IInv == TypeOK /\ Apart /\ Kept /\ Phases /\ Nested /\ (~Redis => Unfreed)

-----------------------------------------------------------------------------
(* The elements of a sequence that grows at its end.                       *)
LEMMA AppendElements ==
  ASSUME NEW S, NEW s \in Seq(S), NEW e \in S
  PROVE  /\ Append(s, e) \in Seq(S)
         /\ ToSet(Append(s, e)) = ToSet(s) \cup {e}
         /\ IsInjective(s) /\ e \notin ToSet(s) => IsInjective(Append(s, e))
<1>1. \A i \in 1..Len(s) : Append(s, e)[i] = s[i]
  OBVIOUS
<1>2. Append(s, e)[Len(s) + 1] = e /\ Len(Append(s, e)) = Len(s) + 1 /\ Append(s, e) \in Seq(S)
  OBVIOUS
<1>3. DOMAIN Append(s, e) = 1..(Len(s) + 1) /\ DOMAIN s = 1..Len(s) /\ Len(s) \in Nat
  BY <1>2
<1>4. ToSet(Append(s, e)) = ToSet(s) \cup {e}
  BY <1>1, <1>2, <1>3 DEF ToSet
<1>5. ASSUME IsInjective(s), e \notin ToSet(s) PROVE IsInjective(Append(s, e))
  BY <1>1, <1>2, <1>3, <1>5 DEF ToSet, IsInjective
<1> QED BY <1>2, <1>4, <1>5

(* What the head of a sequence without repetition leaves.                  *)
LEMMA TailElements ==
  ASSUME NEW S, NEW s \in Seq(S), s # <<>>, IsInjective(s)
  PROVE  /\ Tail(s) \in Seq(S) /\ Head(s) \in S /\ Head(s) \in ToSet(s)
         /\ ToSet(Tail(s)) = ToSet(s) \ {Head(s)}
         /\ IsInjective(Tail(s))
<1>1. Len(s) \in Nat \ {0} /\ DOMAIN s = 1..Len(s) /\ Head(s) = s[1]
  OBVIOUS
<1>2. /\ Tail(s) \in Seq(S) /\ Len(Tail(s)) = Len(s) - 1
      /\ DOMAIN Tail(s) = 1..(Len(s) - 1)
      /\ \A i \in 1..(Len(s) - 1) : Tail(s)[i] = s[i + 1]
  BY <1>1
<1>3. Head(s) \in S /\ Head(s) \in ToSet(s)
  BY <1>1 DEF ToSet
<1>4. IsInjective(Tail(s))
  BY <1>1, <1>2 DEF IsInjective
<1>5. ToSet(Tail(s)) \subseteq ToSet(s) \ {Head(s)}
  BY <1>1, <1>2 DEF ToSet, IsInjective
<1>6. ASSUME NEW e \in ToSet(s) \ {Head(s)} PROVE e \in ToSet(Tail(s))
  <2>1. PICK i \in 1..Len(s) : s[i] = e
    BY <1>1 DEF ToSet
  <2>2. i - 1 \in 1..(Len(s) - 1) /\ Tail(s)[i - 1] = e
    BY <1>1, <1>2, <2>1
  <2> QED BY <1>2, <2>2 DEF ToSet
<1> QED BY <1>2, <1>3, <1>4, <1>5, <1>6

(* What the last element of a sequence without repetition leaves.          *)
LEMMA FrontElements ==
  ASSUME NEW S, NEW s \in Seq(S), s # <<>>, IsInjective(s)
  PROVE  /\ Front(s) \in Seq(S) /\ Len(Front(s)) = Len(s) - 1
         /\ Last(s) \in S /\ Last(s) \in ToSet(s)
         /\ ToSet(Front(s)) = ToSet(s) \ {Last(s)}
         /\ IsInjective(Front(s))
<1>1. Len(s) \in Nat \ {0} /\ DOMAIN s = 1..Len(s) /\ Last(s) = s[Len(s)]
  BY DEF Last
<1>2. /\ Front(s) \in Seq(S) /\ Len(Front(s)) = Len(s) - 1
      /\ DOMAIN Front(s) = 1..(Len(s) - 1)
      /\ \A i \in 1..(Len(s) - 1) : Front(s)[i] = s[i]
  BY <1>1 DEF Front
<1>3. Last(s) \in S /\ Last(s) \in ToSet(s)
  BY <1>1 DEF ToSet
<1>4. IsInjective(Front(s))
  BY <1>1, <1>2 DEF IsInjective
<1>5. ToSet(Front(s)) \subseteq ToSet(s) \ {Last(s)}
  BY <1>1, <1>2 DEF ToSet, IsInjective
<1>6. ASSUME NEW e \in ToSet(s) \ {Last(s)} PROVE e \in ToSet(Front(s))
  <2>1. PICK i \in 1..Len(s) : s[i] = e
    BY <1>1 DEF ToSet
  <2>2. i \in 1..(Len(s) - 1) /\ Front(s)[i] = e
    BY <1>1, <1>2, <2>1
  <2> QED BY <1>2, <2>2 DEF ToSet
<1> QED BY <1>2, <1>3, <1>4, <1>5, <1>6

(* Two sequences without repetition that share nothing, joined.            *)
LEMMA ConcatElements ==
  ASSUME NEW S, NEW s \in Seq(S), NEW t \in Seq(S)
  PROVE  /\ s \o t \in Seq(S)
         /\ ToSet(s \o t) = ToSet(s) \cup ToSet(t)
         /\ IsInjective(s) /\ IsInjective(t) /\ ToSet(s) \cap ToSet(t) = {}
              => IsInjective(s \o t)
<1>1. /\ s \o t \in Seq(S) /\ Len(s) \in Nat /\ Len(t) \in Nat
      /\ DOMAIN s = 1..Len(s) /\ DOMAIN t = 1..Len(t)
      /\ DOMAIN (s \o t) = 1..(Len(s) + Len(t))
      /\ \A i \in 1..Len(s) : (s \o t)[i] = s[i]
      /\ \A i \in 1..(Len(s) + Len(t)) : i > Len(s) => (s \o t)[i] = t[i - Len(s)]
  OBVIOUS
<1>2. ToSet(s \o t) \subseteq ToSet(s) \cup ToSet(t)
  BY <1>1 DEF ToSet
<1>3. ToSet(s) \subseteq ToSet(s \o t)
  BY <1>1 DEF ToSet
<1>4. ASSUME NEW e \in ToSet(t) PROVE e \in ToSet(s \o t)
  <2>1. PICK i \in 1..Len(t) : t[i] = e
    BY <1>1 DEF ToSet
  <2>2. Len(s) + i \in 1..(Len(s) + Len(t)) /\ (s \o t)[Len(s) + i] = e
    BY <1>1, <2>1
  <2> QED BY <1>1, <2>2 DEF ToSet
<1>5. ASSUME IsInjective(s), IsInjective(t), ToSet(s) \cap ToSet(t) = {}
      PROVE  IsInjective(s \o t)
  <2> SUFFICES ASSUME NEW i \in 1..(Len(s) + Len(t)), NEW j \in 1..(Len(s) + Len(t)),
                      (s \o t)[i] = (s \o t)[j]
               PROVE  i = j
    BY <1>1 DEF IsInjective
  <2>1. \A k \in 1..Len(s), m \in 1..Len(t) : s[k] # t[m]
    BY <1>1, <1>5 DEF ToSet
  <2>2. CASE i <= Len(s) /\ j <= Len(s)
    BY <1>1, <1>5, <2>2 DEF IsInjective
  <2>3. CASE i > Len(s) /\ j > Len(s)
    <3>1. i - Len(s) \in 1..Len(t) /\ j - Len(s) \in 1..Len(t)
      BY <1>1, <2>3
    <3>2. t[i - Len(s)] = t[j - Len(s)]
      BY <1>1, <2>3
    <3>3. i - Len(s) = j - Len(s)
      BY <1>1, <1>5, <3>1, <3>2 DEF IsInjective
    <3> QED BY <1>1, <3>3
  <2>4. CASE i <= Len(s) /\ j > Len(s)
    <3>1. i \in 1..Len(s) /\ j - Len(s) \in 1..Len(t)
      BY <1>1, <2>4
    <3> QED BY <1>1, <2>1, <2>4, <3>1
  <2>5. CASE i > Len(s) /\ j <= Len(s)
    <3>1. j \in 1..Len(s) /\ i - Len(s) \in 1..Len(t)
      BY <1>1, <2>5
    <3> QED BY <1>1, <2>1, <2>5, <3>1
  <2> QED BY <1>1, <2>2, <2>3, <2>4, <2>5
<1> QED BY <1>1, <1>2, <1>3, <1>4, <1>5

(* The empty sequence has no elements.                                     *)
LEMMA EmptyElements == ToSet(<<>>) = {} /\ IsInjective(<<>>)
  BY DEF ToSet, IsInjective

-----------------------------------------------------------------------------
(* In the beginning all connections are in the pool.                       *)
LEMMA InitIInv == Init => IInv
<1> SUFFICES ASSUME Init PROVE IInv
  OBVIOUS
<1> USE DEF Init
<1>1. TypeOK
  <2>1. <<>> \in Seq(Conn) /\ Len(<<>>) = 0
    OBVIOUS
  <2>2. held \in [Worker -> Seq(Conn)]
    BY <2>1
  <2>3. local \in Seq(Conn) /\ probed \in 0..Len(local)
    BY <2>1
  <2> QED BY <2>2, <2>3, CreatedAssumption DEF TypeOK
<1>2. Apart
  BY CreatedAssumption, EmptyElements DEF Apart, Has
<1>3. Kept /\ Unfreed
  BY CreatedAssumption, EmptyElements DEF Kept, Unfreed, Has
<1>4. Phases /\ Nested
  BY DEF Phases, Nested
<1> QED BY <1>1, <1>2, <1>3, <1>4 DEF IInv

(* Steps that leave the connections where they are.                        *)
LEMMA Stay ==
  ASSUME IInv, UNCHANGED <<pool, local, held>>,
         \A c \in Conn : (health'[c] = "freed") = (health[c] = "freed")
  PROVE  Apart' /\ Kept' /\ (~Redis => Unfreed')
<1>1. Apart'
  BY DEF IInv, Apart, Has
<1>2. Kept'
  BY DEF IInv, Kept, Has
<1>3. ~Redis => Unfreed'
  BY DEF IInv, Unfreed, Has
<1> QED BY <1>1, <1>2, <1>3

(* Steps of a thread that only go on to another place.                     *)
LEMMA Goes ==
  ASSUME IInv, UNCHANGED <<pool, health, held, checker, local, probed, stop, closer>>,
         NEW w \in Worker, NEW p \in {"idle", "get", "wait", "waiting", "using"},
         pc' = [pc EXCEPT ![w] = p],
         p = "using" => held[w] # <<>>,
         (\A c \in Conn : health[c] # "freed") =>
            /\ p = "idle" => held[w] = <<>>
            /\ p = "using" => Len(held[w]) = 1 \/ (Len(held[w]) = 2 /\ w \in Nesting)
            /\ p \in {"get", "wait", "waiting"} =>
                 held[w] = <<>> \/ (Len(held[w]) = 1 /\ w \in Nesting)
  PROVE  IInv'
<1>1. TypeOK'
  BY DEF IInv, TypeOK
<1>2. Apart' /\ Kept' /\ (~Redis => Unfreed')
  BY Stay
<1>3. pc'[w] = p /\ \A v \in Worker \ {w} : pc'[v] = pc[v]
  BY DEF IInv, TypeOK
<1>4. Phases'
  BY <1>3 DEF IInv, Phases
<1>5. Nested'
  BY <1>3 DEF IInv, Nested
<1> QED BY <1>1, <1>2, <1>4, <1>5 DEF IInv

(* The next command, and the waits.                                        *)
LEMMA GoIInv ==
  ASSUME IInv, NEW w \in Worker,
         Begin(w) \/ GetNull(w) \/ GetBlocks(w) \/ Wait(w) \/ SpuriousWakeup(w) \/ GetUser(w)
  PROVE  IInv'
<1>0. held[w] \in Seq(Conn)
  BY DEF IInv, TypeOK
<1>1. CASE Begin(w)
  BY <1>1, Goes DEF Begin, IInv, Nested
<1>2. CASE GetNull(w)
  <2> DEFINE p == IF held[w] = <<>> THEN "idle" ELSE "using"
  <2>1. pc' = [pc EXCEPT ![w] = p] /\ pc[w] = "get"
    BY <1>2 DEF GetNull
  <2>2. p = "using" => held[w] # <<>>
    OBVIOUS
  <2>3. (\A c \in Conn : health[c] # "freed") =>
          held[w] = <<>> \/ (Len(held[w]) = 1 /\ w \in Nesting)
    BY <2>1 DEF IInv, Nested
  <2>4. UNCHANGED <<pool, health, held, checker, local, probed, stop, closer>>
    BY <1>2 DEF GetNull
  <2>5. p \in {"idle", "using"} /\ (p = "idle" => held[w] = <<>>)
    OBVIOUS
  <2> HIDE DEF p
  <2> QED BY <2>1, <2>2, <2>3, <2>4, <2>5, Goes
<1>3. CASE GetBlocks(w)
  BY <1>3, Goes DEF GetBlocks, IInv, Nested
<1>4. CASE Wait(w)
  BY <1>4, Goes DEF Wait, IInv, Nested
<1>5. CASE SpuriousWakeup(w)
  BY <1>5, Goes DEF SpuriousWakeup, IInv, Nested
<1>6. CASE GetUser(w)
  BY <1>6, Goes DEF GetUser, IInv, Nested
<1> QED BY <1>1, <1>2, <1>3, <1>4, <1>5, <1>6

(* A connection moves from the front of the pool to the thread.            *)
LEMMA GetFrontIInv ==
  ASSUME IInv, NEW w \in Worker, GetFront(w)
  PROVE  IInv'
<1> DEFINE c == Head(pool)
<1>1. /\ TypeOK /\ pool \in Seq(Conn) /\ held[w] \in Seq(Conn) /\ pool # <<>>
      /\ pc[w] = "get" /\ ~stop
      /\ UNCHANGED <<health, checker, local, probed, stop, closer>>
  BY DEF IInv, TypeOK, GetFront
<1>2. /\ c \in Conn /\ c \in ToSet(pool) /\ Tail(pool) \in Seq(Conn)
      /\ ToSet(Tail(pool)) = ToSet(pool) \ {c} /\ IsInjective(Tail(pool))
  BY <1>1, TailElements DEF IInv, Apart
<1>3. /\ c \notin Has(w) /\ IsInjective(held[w])
      /\ Append(held[w], c) \in Seq(Conn) /\ Len(Append(held[w], c)) = Len(held[w]) + 1
      /\ ToSet(Append(held[w], c)) = Has(w) \cup {c} /\ IsInjective(Append(held[w], c))
  <2>1. c \notin Has(w) /\ IsInjective(held[w])
    BY <1>2 DEF IInv, Apart
  <2>2. Len(Append(held[w], c)) = Len(held[w]) + 1
    BY <1>1, <1>2
  <2> QED BY <1>1, <1>2, <2>1, <2>2, AppendElements DEF Has
<1>4. /\ pool' = Tail(pool)
      /\ held'[w] = Append(held[w], c) /\ \A v \in Worker \ {w} : held'[v] = held[v]
      /\ pc'[w] = "using" /\ \A v \in Worker \ {w} : pc'[v] = pc[v]
  BY DEF GetFront, IInv, TypeOK
<1>5. TypeOK'
  BY <1>1, <1>2, <1>3 DEF TypeOK, GetFront
<1>6. /\ Has(w)' = Has(w) \cup {c} /\ \A v \in Worker \ {w} : Has(v)' = Has(v)
      /\ ToSet(pool)' = ToSet(pool) \ {c} /\ ToSet(local)' = ToSet(local)
  BY <1>1, <1>2, <1>3, <1>4 DEF Has
<1> HIDE DEF c
<1>7. Apart'
  <2>1. IsInjective(pool)' /\ IsInjective(local)' /\ \A v \in Worker : IsInjective(held[v])'
    BY <1>1, <1>2, <1>3, <1>4 DEF IInv, Apart
  <2>2. ToSet(pool)' \cap ToSet(local)' = {}
    BY <1>6 DEF IInv, Apart
  <2>3. \A v \in Worker : Has(v)' \cap ToSet(pool)' = {} /\ Has(v)' \cap ToSet(local)' = {}
    BY <1>2, <1>6 DEF IInv, Apart
  <2>4. \A v, x \in Worker : v # x => Has(v)' \cap Has(x)' = {}
    BY <1>2, <1>6 DEF IInv, Apart
  <2> QED BY <2>1, <2>2, <2>3, <2>4 DEF Apart
<1>8. Kept'
  BY <1>1, <1>6 DEF IInv, Kept
<1>9. ~Redis => Unfreed'
  BY <1>1, <1>2, <1>6 DEF IInv, Unfreed
<1>10. Phases'
  <2>1. held'[w] # <<>>
    <3>1. Len(held'[w]) = Len(held[w]) + 1 /\ Len(held[w]) \in Nat
      BY <1>1, <1>3, <1>4
    <3> QED BY <3>1
  <2> QED BY <1>1, <1>4, <2>1 DEF IInv, Phases
<1>11. Nested'
  <2> SUFFICES ASSUME \A d \in Conn : health[d] # "freed", NEW v \in Worker
               PROVE  /\ pc'[v] = "idle" => held'[v] = <<>>
                      /\ pc'[v] = "using" => Len(held'[v]) = 1 \/ (Len(held'[v]) = 2 /\ v \in Nesting)
                      /\ pc'[v] \in {"get", "wait", "waiting"} =>
                           held'[v] = <<>> \/ (Len(held'[v]) = 1 /\ v \in Nesting)
    BY <1>1 DEF Nested
  <2>1. CASE v = w
    <3>1. held[w] = <<>> \/ (Len(held[w]) = 1 /\ w \in Nesting)
      BY <1>1 DEF IInv, Nested
    <3>2. Len(held'[w]) = 1 \/ (Len(held'[w]) = 2 /\ w \in Nesting)
      BY <1>1, <1>3, <1>4, <3>1
    <3> QED BY <1>4, <2>1, <3>2
  <2>2. CASE v # w
    BY <1>4, <2>2 DEF IInv, Nested
  <2> QED BY <2>1, <2>2
<1> QED BY <1>5, <1>7, <1>8, <1>9, <1>10, <1>11 DEF IInv

(* A thread gives up the connection it took last, which is freed.          *)
LEMMA DropIInv ==
  ASSUME IInv, NEW w \in Worker, NEW p \in {"idle", "using"},
         pc[w] = "using", pc' = [pc EXCEPT ![w] = p],
         p = "using" => Len(held[w]) # 1,
         held' = [held EXCEPT ![w] = Front(@)],
         health' = Freed({Last(held[w])}),
         UNCHANGED <<pool, checker, local, probed, stop, closer>>
  PROVE  IInv'
<1> DEFINE c == Last(held[w])
<1>1. TypeOK /\ held[w] \in Seq(Conn) /\ held[w] # <<>> /\ IsInjective(held[w])
  BY DEF IInv, TypeOK, Phases, Apart
<1>2. /\ Front(held[w]) \in Seq(Conn) /\ Len(Front(held[w])) = Len(held[w]) - 1
      /\ c \in Conn /\ c \in Has(w)
      /\ ToSet(Front(held[w])) = Has(w) \ {c} /\ IsInjective(Front(held[w]))
  BY <1>1, FrontElements DEF Has
<1>3. held'[w] = Front(held[w]) /\ \A v \in Worker \ {w} : held'[v] = held[v]
  BY <1>1 DEF TypeOK
<1>4. /\ health' \in [Conn -> {"live", "broken", "freed"}]
      /\ health'[c] = "freed" /\ \A d \in Conn \ {c} : health'[d] = health[d]
  BY <1>1, <1>2 DEF TypeOK, Freed
<1>5. TypeOK'
  BY <1>1, <1>2, <1>4 DEF TypeOK
<1>6. /\ Has(w)' = Has(w) \ {c} /\ \A v \in Worker \ {w} : Has(v)' = Has(v)
      /\ ToSet(pool)' = ToSet(pool) /\ ToSet(local)' = ToSet(local)
  BY <1>2, <1>3 DEF Has
<1>7. /\ c \notin ToSet(pool) /\ c \notin ToSet(local)
      /\ \A v \in Worker \ {w} : c \notin Has(v)
  BY <1>2 DEF IInv, Apart
<1> HIDE DEF c
<1>8. Apart'
  <2>1. IsInjective(pool)' /\ IsInjective(local)' /\ \A v \in Worker : IsInjective(held[v])'
    BY <1>2, <1>3 DEF IInv, Apart
  <2> QED BY <1>6, <2>1 DEF IInv, Apart
<1>9. Kept'
  BY <1>4, <1>6 DEF IInv, Kept
<1>10. ASSUME ~Redis PROVE Unfreed'
  <2> SUFFICES ASSUME NEW d \in Conn, health'[d] = "freed"
               PROVE  /\ d \notin ToSet(pool)' /\ d \notin ToSet(local)'
                      /\ \A v \in Worker : d \notin Has(v)'
    BY DEF Unfreed
  <2>1. CASE d = c
    BY <1>6, <1>7, <2>1
  <2>2. CASE d # c
    <3>1. health[d] = "freed"
      BY <1>4, <2>2
    <3> QED BY <1>6, <1>10, <3>1 DEF IInv, Unfreed
  <2> QED BY <2>1, <2>2
<1>11. Phases'
  <2>1. p = "using" => held'[w] # <<>>
    <3>1. Len(held[w]) \in Nat \ {0} /\ Len(held'[w]) = Len(held[w]) - 1
      BY <1>1, <1>2, <1>3
    <3>2. CASE p = "using"
      <4>1. Len(held[w]) # 1
        BY <3>2
      <4>2. \A n \in Nat \ {0} : n # 1 => n - 1 # 0
        OBVIOUS
      <4>3. Len(held[w]) - 1 # 0
        BY <3>1, <4>1, <4>2
      <4>4. Len(held'[w]) # 0
        BY <3>1, <4>3
      <4> QED BY <4>4
    <3> QED BY <3>2
  <2> QED BY <1>1, <1>3, <2>1 DEF IInv, Phases, TypeOK
<1>12. Nested'
  BY <1>2, <1>4 DEF Nested
<1> QED BY <1>5, <1>8, <1>9, <1>10, <1>11, <1>12 DEF IInv

(* A thread puts the connection it took last back into the pool.           *)
LEMMA PutBackIInv ==
  ASSUME IInv, NEW w \in Worker, Return(w), ~stop
  PROVE  IInv'
<1> DEFINE c == Last(held[w])
           p == IF Len(held[w]) = 1 THEN "idle" ELSE "using"
           after == [pc EXCEPT ![w] = p]
<1>1. /\ TypeOK /\ held[w] \in Seq(Conn) /\ held[w] # <<>> /\ IsInjective(held[w])
      /\ pool \in Seq(Conn) /\ pc[w] = "using" /\ closer = "none"
      /\ pc' \in NotifyOne(after)
      /\ held' = [held EXCEPT ![w] = Front(@)]
      /\ pool' = Append(pool, c)
      /\ UNCHANGED <<health, checker, local, probed, stop, closer>>
  BY DEF IInv, TypeOK, Apart, Phases, Return
<1>2. /\ Front(held[w]) \in Seq(Conn) /\ Len(Front(held[w])) = Len(held[w]) - 1
      /\ c \in Conn /\ c \in Has(w)
      /\ ToSet(Front(held[w])) = Has(w) \ {c} /\ IsInjective(Front(held[w]))
  BY <1>1, FrontElements DEF Has
<1>3. /\ c \notin ToSet(pool) /\ c \notin ToSet(local)
      /\ \A v \in Worker \ {w} : c \notin Has(v)
  BY <1>2 DEF IInv, Apart
<1>4. Append(pool, c) \in Seq(Conn) /\ ToSet(Append(pool, c)) = ToSet(pool) \cup {c}
      /\ IsInjective(Append(pool, c))
  BY <1>1, <1>2, <1>3, AppendElements DEF IInv, Apart
<1>5. /\ pc' \in [Worker -> {"idle", "get", "wait", "waiting", "using"}]
      /\ pc'[w] = p
      /\ \A v \in Worker \ {w} : pc'[v] = pc[v] \/ (pc[v] = "waiting" /\ pc'[v] = "get")
  <2>1. p \in {"idle", "using"} /\ pc \in [Worker -> {"idle", "get", "wait", "waiting", "using"}]
    BY <1>1 DEF TypeOK
  <2> HIDE DEF p
  <2>2. CASE Waiting = {}
    <3>1. pc' = after
      BY <1>1, <2>2 DEF NotifyOne
    <3> QED BY <2>1, <3>1
  <2>3. CASE Waiting # {}
    <3>1. PICK v \in Waiting : pc' = [after EXCEPT ![v] = "get"]
      BY <1>1, <2>3 DEF NotifyOne
    <3>2. v \in Worker /\ v # w /\ pc[v] = "waiting"
      BY <1>1, <3>1 DEF Waiting
    <3> QED BY <2>1, <3>1, <3>2
  <2> QED BY <2>2, <2>3
<1>6. held'[w] = Front(held[w]) /\ \A v \in Worker \ {w} : held'[v] = held[v]
  BY <1>1 DEF TypeOK
<1>7. TypeOK'
  BY <1>1, <1>2, <1>4, <1>5 DEF TypeOK
<1>8. /\ Has(w)' = Has(w) \ {c} /\ \A v \in Worker \ {w} : Has(v)' = Has(v)
      /\ ToSet(pool)' = ToSet(pool) \cup {c} /\ ToSet(local)' = ToSet(local)
  BY <1>1, <1>2, <1>4, <1>6 DEF Has
<1>9. Apart'
  <2>1. IsInjective(pool)' /\ IsInjective(local)' /\ \A v \in Worker : IsInjective(held[v])'
    BY <1>1, <1>2, <1>4, <1>6 DEF IInv, Apart
  <2>2. ToSet(pool)' \cap ToSet(local)' = {}
    BY <1>3, <1>8 DEF IInv, Apart
  <2>3. \A v \in Worker : Has(v)' \cap ToSet(pool)' = {} /\ Has(v)' \cap ToSet(local)' = {}
    BY <1>3, <1>8 DEF IInv, Apart
  <2>4. \A v, x \in Worker : v # x => Has(v)' \cap Has(x)' = {}
    BY <1>8 DEF IInv, Apart
  <2> QED BY <2>1, <2>2, <2>3, <2>4 DEF Apart
<1>10. Kept'
  BY <1>1, <1>8 DEF IInv, Kept
<1>11. ~Redis => Unfreed'
  BY <1>1, <1>2, <1>8, ZenonT(60) DEF IInv, Unfreed
<1>12. Len(held[w]) \in Nat \ {0} /\ Len(held'[w]) = Len(held[w]) - 1
  BY <1>1, <1>2, <1>6
<1>13. Phases'
  <2>1. p = "using" => held'[w] # <<>>
    <3>1. p = "using" => Len(held'[w]) \in Nat \ {0}
      BY <1>12
    <3> QED BY <3>1
  <2>2. \A v \in Worker : pc'[v] = "using" => held'[v] # <<>>
    BY <1>5, <1>6, <2>1 DEF IInv, Phases
  <2> QED BY <1>1, <2>2 DEF IInv, Phases
<1>14. Nested'
  <2> SUFFICES ASSUME \A d \in Conn : health[d] # "freed", NEW v \in Worker
               PROVE  /\ pc'[v] = "idle" => held'[v] = <<>>
                      /\ pc'[v] = "using" => Len(held'[v]) = 1 \/ (Len(held'[v]) = 2 /\ v \in Nesting)
                      /\ pc'[v] \in {"get", "wait", "waiting"} =>
                           held'[v] = <<>> \/ (Len(held'[v]) = 1 /\ v \in Nesting)
    BY <1>1 DEF Nested
  <2>1. CASE v = w
    <3>1. Len(held[w]) = 1 \/ (Len(held[w]) = 2 /\ w \in Nesting)
      BY <1>1 DEF IInv, Nested
    <3>2. CASE Len(held[w]) = 1
      <4>1. Len(held'[w]) = 0 /\ held'[w] \in Seq(Conn)
        BY <1>2, <1>6, <1>12, <3>2
      <4>2. held'[w] = <<>>
        BY <4>1
      <4> QED BY <1>5, <2>1, <3>2, <4>2
    <3>3. CASE Len(held[w]) = 2
      BY <1>5, <1>12, <2>1, <3>3
    <3> QED BY <3>1, <3>2, <3>3
  <2>2. CASE v # w
    BY <1>5, <1>6, <2>2 DEF IInv, Nested
  <2> QED BY <2>1, <2>2
<1> QED BY <1>7, <1>9, <1>10, <1>11, <1>13, <1>14 DEF IInv

(* A thread is done with a connection.                                     *)
LEMMA ReturnIInv ==
  ASSUME IInv, NEW w \in Worker, Return(w) \/ CheckEmailNoRow(w)
  PROVE  IInv'
<1>1. CASE Return(w) /\ ~stop
  BY <1>1, PutBackIInv
<1>2. CASE Return(w) /\ stop
  <2> DEFINE p == IF Len(held[w]) = 1 THEN "idle" ELSE "using"
  <2>1. p \in {"idle", "using"} /\ (p = "using" => Len(held[w]) # 1)
    OBVIOUS
  <2>2. /\ pc[w] = "using" /\ pc' = [pc EXCEPT ![w] = p]
        /\ held' = [held EXCEPT ![w] = Front(@)] /\ health' = Freed({Last(held[w])})
        /\ UNCHANGED <<pool, checker, local, probed, stop, closer>>
    BY <1>2 DEF Return
  <2> HIDE DEF p
  <2> QED BY <2>1, <2>2, DropIInv
<1>3. CASE CheckEmailNoRow(w)
  BY <1>3, DropIInv DEF CheckEmailNoRow
<1> QED BY <1>1, <1>2, <1>3

(* The server drops a connection, or the check thread exits, or Close goes *)
(* on without touching a connection.                                       *)
LEMMA QuietIInv ==
  ASSUME IInv, (\E c \in Conn : Break(c)) \/ CheckerExit \/ SetStop \/ NotifyAll \/ JoinChecker
  PROVE  IInv'
<1>1. UNCHANGED <<pool, held, local, probed>>
  BY DEF Break, CheckerExit, SetStop, NotifyAll, JoinChecker
<1>2. \A c \in Conn : (health'[c] = "freed") = (health[c] = "freed")
  <2>1. CASE \E c \in Conn : Break(c)
    BY <2>1 DEF IInv, TypeOK, Break
  <2> QED BY <2>1 DEF CheckerExit, SetStop, NotifyAll, JoinChecker
<1>3. Apart' /\ Kept' /\ (~Redis => Unfreed')
  BY <1>1, <1>2, Stay
<1>4. \A w \in Worker : pc'[w] = pc[w] \/ (pc[w] = "waiting" /\ pc'[w] = "get")
  BY DEF Break, CheckerExit, SetStop, NotifyAll, JoinChecker, Waiting
<1>5. TypeOK'
  <2>1. CASE \E c \in Conn : Break(c)
    BY <2>1 DEF IInv, TypeOK, Break
  <2>2. CASE CheckerExit \/ SetStop \/ JoinChecker
    BY <2>2 DEF IInv, TypeOK, CheckerExit, SetStop, JoinChecker
  <2>3. CASE NotifyAll
    BY <2>3 DEF IInv, TypeOK, NotifyAll
  <2> QED BY <2>1, <2>2, <2>3
<1>6. Nested'
  BY <1>1, <1>2, <1>4 DEF IInv, Nested
<1>7. Phases'
  <2>1. \A w \in Worker : pc'[w] = "using" => held'[w] # <<>>
    BY <1>1, <1>4 DEF IInv, Phases
  <2>2. CASE \E c \in Conn : Break(c)
    BY <2>1, <2>2 DEF IInv, Phases, Break
  <2>3. CASE CheckerExit
    BY <2>1, <2>3 DEF IInv, Phases, CheckerExit
  <2>4. CASE SetStop
    BY <2>1, <2>4 DEF IInv, Phases, SetStop
  <2>5. CASE NotifyAll
    BY <2>1, <2>5 DEF IInv, Phases, NotifyAll
  <2>6. CASE JoinChecker
    BY <2>1, <2>6 DEF IInv, Phases, JoinChecker
  <2> QED BY <2>2, <2>3, <2>4, <2>5, <2>6
<1> QED BY <1>3, <1>5, <1>6, <1>7 DEF IInv

(* The check thread takes the whole pool.                                  *)
LEMMA CheckTakeIInv == ASSUME IInv, CheckTake PROVE IInv'
<1> USE DEF CheckTake
<1>1. local = <<>>
  BY DEF IInv, Phases
<1>2. /\ ToSet(local)' = ToSet(pool) /\ ToSet(pool)' = {}
      /\ \A w \in Worker : Has(w)' = Has(w)
  BY EmptyElements DEF Has
<1>3. TypeOK'
  <2>1. <<>> \in Seq(Conn) /\ Len(pool) \in Nat
    BY DEF IInv, TypeOK
  <2> QED BY <2>1 DEF IInv, TypeOK
<1>4. Apart'
  <2>1. IsInjective(pool)' /\ IsInjective(local)' /\ \A w \in Worker : IsInjective(held[w])'
    BY EmptyElements DEF IInv, Apart
  <2>2. \A v, x \in Worker : v # x => Has(v)' \cap Has(x)' = {}
    BY <1>2 DEF IInv, Apart
  <2> QED BY <1>2, <2>1, <2>2 DEF IInv, Apart
<1>5. Kept'
  BY <1>1, <1>2, EmptyElements DEF IInv, Kept
<1>6. ~Redis => Unfreed'
  BY <1>2 DEF IInv, Unfreed
<1>7. Phases' /\ Nested'
  BY DEF IInv, Phases, Nested
<1> QED BY <1>3, <1>4, <1>5, <1>6, <1>7 DEF IInv

(* A connection is probed: a context of Redis may be freed, and stays      *)
(* where it is.                                                            *)
LEMMA ProbeIInv == ASSUME IInv, Probe PROVE IInv'
<1> DEFINE c == local[probed + 1]
<1>1. /\ TypeOK /\ c \in Conn /\ probed' = probed + 1 /\ probed + 1 \in 0..Len(local)
      /\ UNCHANGED <<pool, held, pc, checker, local, stop, closer>>
  BY DEF IInv, TypeOK, Probe
<1>2. PICK h \in Probed(c) : health' = [health EXCEPT ![c] = h]
  BY DEF Probe
<1> HIDE DEF c
<1>3. /\ h \in {"live", "broken", "freed"}
      /\ health[c] = "freed" => h = "freed"
      /\ ~Redis /\ h = "freed" => health[c] = "freed"
  BY <1>1 DEF Probed, TypeOK
<1>4. TypeOK'
  BY <1>1, <1>2, <1>3 DEF TypeOK
<1>5. /\ \A d \in Conn : health[d] = "freed" => health'[d] = "freed"
      /\ ~Redis => \A d \in Conn : (health'[d] = "freed") = (health[d] = "freed")
  BY <1>1, <1>2, <1>3 DEF TypeOK
<1>6. Apart' /\ Kept' /\ Phases'
  BY <1>1, <1>5 DEF IInv, Apart, Kept, Phases, Has
<1>7. ~Redis => Unfreed'
  BY <1>1, <1>5 DEF IInv, Unfreed, Has
<1>8. Nested'
  BY <1>1, <1>5 DEF IInv, Nested
<1> QED BY <1>4, <1>6, <1>7, <1>8 DEF IInv

(* The check thread puts back what it took, or frees it.                   *)
LEMMA CheckReturnIInv == ASSUME IInv, CheckReturn PROVE IInv'
<1>1. /\ TypeOK /\ pool \in Seq(Conn) /\ local \in Seq(Conn) /\ <<>> \in Seq(Conn)
      /\ Len(<<>>) = 0 /\ local' = <<>> /\ probed' = 0 /\ checker' = "sleep"
      /\ checker = "probe" /\ UNCHANGED <<held, pc, stop, closer>>
  BY DEF IInv, TypeOK, CheckReturn
<1>2. \A w \in Worker : Has(w)' = Has(w) /\ IsInjective(held[w])' = IsInjective(held[w])
  BY <1>1 DEF Has
<1>3. ToSet(local)' = {} /\ IsInjective(local)'
  BY <1>1, EmptyElements
<1>4. ToSet(local) \subseteq Conn
  BY <1>1 DEF ToSet
<1>5. CASE stop
  <2>1. health' = Freed(ToSet(local)) /\ pool' = pool
    BY <1>5 DEF CheckReturn
  <2>2. /\ health' \in [Conn -> {"live", "broken", "freed"}]
        /\ \A c \in ToSet(local) : health'[c] = "freed"
        /\ \A c \in Conn \ ToSet(local) : health'[c] = health[c]
        /\ \A c \in Conn : health[c] = "freed" => health'[c] = "freed"
    BY <1>1, <1>4, <2>1 DEF Freed, TypeOK
  <2>3. TypeOK'
    BY <1>1, <2>1, <2>2 DEF TypeOK
  <2>4. Apart'
    BY <1>2, <1>3, <2>1 DEF IInv, Apart
  <2>5. Kept'
    BY <1>2, <1>3, <2>1, <2>2 DEF IInv, Kept
  <2>6. ASSUME ~Redis PROVE Unfreed'
    <3> SUFFICES ASSUME NEW c \in Conn, health'[c] = "freed"
                 PROVE  c \notin ToSet(pool) /\ \A w \in Worker : c \notin Has(w)
      BY <1>2, <1>3, <2>1 DEF Unfreed
    <3>1. CASE c \in ToSet(local)
      BY <3>1 DEF IInv, Apart
    <3>2. CASE c \notin ToSet(local)
      BY <2>2, <2>6, <3>2 DEF IInv, Unfreed
    <3> QED BY <3>1, <3>2
  <2>7. Phases'
    BY <1>1, <2>1 DEF IInv, Phases
  <2>8. Nested'
    BY <1>1, <2>2 DEF IInv, Nested
  <2> QED BY <2>3, <2>4, <2>5, <2>6, <2>7, <2>8 DEF IInv
<1>6. CASE ~stop
  <2>1. pool' = pool \o local /\ health' = health
    BY <1>6 DEF CheckReturn
  <2>2. /\ pool' \in Seq(Conn) /\ ToSet(pool)' = ToSet(pool) \cup ToSet(local)
        /\ IsInjective(pool)'
    BY <1>1, <2>1, ConcatElements DEF IInv, Apart
  <2>3. TypeOK'
    BY <1>1, <2>1, <2>2 DEF TypeOK
  <2>4. Apart'
    <3>1. \A w \in Worker : Has(w)' \cap ToSet(pool)' = {}
      BY <1>2, <2>2 DEF IInv, Apart
    <3>2. \A v, x \in Worker : v # x => Has(v)' \cap Has(x)' = {}
      BY <1>2 DEF IInv, Apart
    <3>3. \A w \in Worker : IsInjective(held[w])'
      BY <1>1 DEF IInv, Apart
    <3> QED BY <1>3, <2>2, <3>1, <3>2, <3>3 DEF Apart
  <2>5. Kept'
    BY <1>2, <2>1, <2>2 DEF IInv, Kept
  <2>6. ~Redis => Unfreed'
    BY <1>2, <1>3, <2>1, <2>2 DEF IInv, Unfreed
  <2>7. Phases'
    BY <1>1, <1>6 DEF IInv, Phases
  <2>8. Nested'
    BY <1>1, <2>1 DEF IInv, Nested
  <2> QED BY <2>3, <2>4, <2>5, <2>6, <2>7, <2>8 DEF IInv
<1> QED BY <1>5, <1>6

(* Close frees what is left in the pool.                                   *)
LEMMA ClearIInv == ASSUME IInv, ClearConnections PROVE IInv'
<1>1. /\ TypeOK /\ pool' = <<>> /\ <<>> \in Seq(Conn) /\ health' = Freed(ToSet(pool))
      /\ closer = "clear" /\ closer' = "done"
      /\ UNCHANGED <<held, pc, checker, local, probed, stop>>
  BY DEF IInv, TypeOK, ClearConnections
<1>2. ToSet(pool) \subseteq Conn
  BY <1>1 DEF TypeOK, ToSet
<1>3. /\ health' \in [Conn -> {"live", "broken", "freed"}]
      /\ \A c \in ToSet(pool) : health'[c] = "freed"
      /\ \A c \in Conn \ ToSet(pool) : health'[c] = health[c]
      /\ \A c \in Conn : health[c] = "freed" => health'[c] = "freed"
  BY <1>1, <1>2 DEF Freed, TypeOK
<1>4. /\ \A w \in Worker : Has(w)' = Has(w)
      /\ ToSet(local)' = ToSet(local) /\ ToSet(pool)' = {} /\ IsInjective(pool)'
  BY <1>1, EmptyElements DEF Has
<1>5. TypeOK'
  BY <1>1, <1>3 DEF TypeOK
<1>6. Apart'
  BY <1>1, <1>4 DEF IInv, Apart
<1>7. Kept'
  BY <1>3, <1>4 DEF IInv, Kept
<1>8. ASSUME ~Redis PROVE Unfreed'
  <2> SUFFICES ASSUME NEW c \in Conn, health'[c] = "freed"
               PROVE  c \notin ToSet(local) /\ \A w \in Worker : c \notin Has(w)
    BY <1>4 DEF Unfreed
  <2>1. CASE c \in ToSet(pool)
    BY <2>1 DEF IInv, Apart
  <2>2. CASE c \notin ToSet(pool)
    BY <1>3, <1>8, <2>2 DEF IInv, Unfreed
  <2> QED BY <2>1, <2>2
<1>9. Phases'
  BY <1>1 DEF IInv, Phases
<1>10. Nested'
  BY <1>1, <1>3 DEF IInv, Nested
<1> QED BY <1>5, <1>6, <1>7, <1>8, <1>9, <1>10 DEF IInv

-----------------------------------------------------------------------------
(* Every step preserves the invariant.                                     *)
LEMMA NextIInv == IInv /\ [Next]_vars => IInv'
<1> SUFFICES ASSUME IInv, [Next]_vars PROVE IInv'
  OBVIOUS
<1>1. CASE \E w \in Worker : \/ Begin(w) \/ GetConnection(w) \/ Return(w)
                             \/ GetUser(w) \/ CheckEmailNoRow(w) \/ SpuriousWakeup(w)
  BY <1>1, GoIInv, GetFrontIInv, ReturnIInv DEF GetConnection
<1>2. CASE \E c \in Conn : Break(c)
  BY <1>2, QuietIInv
<1>3. CASE CheckerStep
  BY <1>3, QuietIInv, CheckTakeIInv, ProbeIInv, CheckReturnIInv DEF CheckerStep
<1>4. CASE SetStop \/ CloserStep
  BY <1>4, QuietIInv, ClearIInv DEF CloserStep
<1>5. CASE UNCHANGED vars
  BY <1>5 DEF vars, IInv, TypeOK, Apart, Kept, Phases, Nested, Unfreed, Has
<1> QED BY <1>1, <1>2, <1>3, <1>4, <1>5 DEF Next

(* The invariant holds for good.                                           *)
THEOREM Inductive == SafeSpec => []IInv
  BY InitIInv, NextIInv, PTL DEF SafeSpec

(* RedisConPool and MySqlPool alike: no two of the pool, the check thread  *)
(* and the workers have the same connection, none has one twice, nobody    *)
(* waits or works with a connection that another one uses, and a           *)
(* connection that nobody has any more was freed.                          *)
THEOREM NoSharing == SafeSpec => [](TypeOK /\ Apart /\ Kept)
  BY Inductive, PTL DEF IInv

(* MySqlPool: what is not freed has exactly one owner, a freed connection  *)
(* has none, and the pool stays empty after Close.  Of RedisConPool it is  *)
(* not true: its check puts back the contexts it has freed.                *)
THEOREM MySqlOneOwner == ASSUME ~Redis PROVE Spec => []OneOwner
<1>1. ASSUME IInv PROVE OneOwner
  <2>1. \A c \in Conn : \A o, p \in Owners(c) : o = p
    <3> SUFFICES ASSUME NEW c \in Conn, NEW o \in Owners(c), NEW p \in Owners(c), o # p
                 PROVE  FALSE
      OBVIOUS
    <3>1. /\ (o = "pool" /\ c \in ToSet(pool)) \/ (o = "checker" /\ c \in ToSet(local))
               \/ (o \in Worker /\ c \in Has(o))
          /\ (p = "pool" /\ c \in ToSet(pool)) \/ (p = "checker" /\ c \in ToSet(local))
               \/ (p \in Worker /\ c \in Has(p))
      BY DEF Owners, Has
    <3> QED BY <1>1, <3>1 DEF IInv, Apart
  <2>2. \A c \in Conn : (Owners(c) = {}) = (health[c] = "freed")
    <3> SUFFICES ASSUME NEW c \in Conn PROVE (Owners(c) = {}) = (health[c] = "freed")
      OBVIOUS
    <3>1. (Owners(c) = {}) = (/\ c \notin ToSet(pool) /\ c \notin ToSet(local)
                              /\ \A w \in Worker : c \notin Has(w))
      BY DEF Owners, Has
    <3> QED BY <1>1, <3>1 DEF IInv, Kept, Unfreed
  <2>3. ClosedPoolIsEmpty
    <3> SUFFICES ASSUME closer = "done" PROVE ClosedPoolIsEmpty
      BY DEF ClosedPoolIsEmpty
    <3>1. pool = <<>> /\ local = <<>> /\ checker = "exited"
      BY <1>1 DEF IInv, Phases
    <3>2. \A c \in Conn : health[c] = "freed" \/ \E w \in Worker : c \in ToSet(held[w])
      BY <1>1, <3>1, EmptyElements DEF IInv, Kept, Has
    <3> QED BY <3>1, <3>2 DEF ClosedPoolIsEmpty
  <2> QED BY <1>1, <2>1, <2>2, <2>3 DEF OneOwner, IInv, Apart
<1>2. SafeSpec => []OneOwner
  BY <1>1, Inductive, PTL
<1> QED BY <1>2, PTL DEF Spec

(* Threads that run GetFriendList never hold the whole pool between them   *)
(* while they wait for a second connection: each of them then has one, and *)
(* the pool has more than there are such threads.                          *)
THEOREM NestedUseIsSafe == Spec => []NoHoldAndWait
<1>1. ASSUME IInv PROVE NoHoldAndWait
  <2> SUFFICES ASSUME \A c \in Conn : health[c] # "freed",
                      \A c \in Conn : \E w \in Worker :
                        c \in ToSet(held[w]) /\ pc[w] \in {"wait", "waiting"}
               PROVE  FALSE
    BY DEF NoHoldAndWait
  <2> DEFINE f == [c \in Conn |-> CHOOSE w \in Worker :
                                    c \in ToSet(held[w]) /\ pc[w] \in {"wait", "waiting"}]
  <2>1. \A c \in Conn : f[c] \in Nesting /\ ToSet(held[f[c]]) = {c}
    <3> SUFFICES ASSUME NEW c \in Conn PROVE f[c] \in Nesting /\ ToSet(held[f[c]]) = {c}
      OBVIOUS
    <3> DEFINE w == f[c]
    <3>1. w \in Worker /\ c \in ToSet(held[w]) /\ pc[w] \in {"wait", "waiting"}
      OBVIOUS
    <3> HIDE DEF f
    <3>2. held[w] = <<>> \/ (Len(held[w]) = 1 /\ w \in Nesting)
      BY <1>1, <3>1 DEF IInv, Nested
    <3>3. held[w] # <<>>
      BY <3>1, EmptyElements
    <3>4. Len(held[w]) = 1 /\ w \in Nesting /\ held[w] \in Seq(Conn)
      BY <1>1, <3>1, <3>2, <3>3 DEF IInv, TypeOK
    <3>5. DOMAIN held[w] = {1}
      BY <3>4
    <3> QED BY <3>1, <3>4, <3>5 DEF ToSet
  <2> HIDE DEF f
  <2>2. f \in [Conn -> Nesting]
    BY <2>1 DEF f
  <2>3. \A c, d \in Conn : c # d => f[c] # f[d]
    BY <2>1
  <2>4. IsFiniteSet(Conn) /\ Cardinality(Conn) \in Nat /\ Cardinality(Nesting) \in Nat
        /\ Cardinality(Conn) <= Cardinality(Nesting)
    <3>1. f \in Injection(Conn, Nesting)
      BY <2>2, <2>3 DEF Injection, IsInjective
    <3> QED BY NestingAssumption, <3>1, FS_Injection, FS_CardinalityType
  <2> QED BY <2>4, NestingAssumption
<1>2. SafeSpec => []NoHoldAndWait
  BY <1>1, Inductive, PTL
<1> QED BY <1>2, PTL DEF Spec
=============================================================================
