--------------------------- MODULE ChatServerProofs ---------------------------
(***************************************************************************)
(* Proofs about ChatServer for any clients, whatever they have to send: the   *)
(* loops of the server hold no client that was deleted, and the server        *)
(* implements ChatRoom.                                                       *)
(***************************************************************************)
EXTENDS ChatServer, FoldTheorems, SequenceTheorems

Piece == Nat \X {"head", "rest"}
Message == Client \X Nat

\* The main thread is not in Run any more.
Over == {"ended", "killed", "shutdown"}

\* A handler has a packet.
Handling == {"reply", "dispatch", "broadcast", "relay"}

TypeInv ==
  /\ packets \in Plans
  /\ side \in [Client -> {"out", "up", "down"}]
  /\ backlog \in Seq(Client)
  /\ written \in [Client -> Nat]
  /\ wire \in [Client -> Seq(Piece)]
  /\ unread \in [Client -> 0 .. Window]
  /\ clients \in Seq(Client)
  /\ buffer \in [Client -> Seq(Piece)]
  /\ running \in BOOLEAN
  /\ pc \in {"select", "process", "parse"} \cup Handling \cup Over
  /\ readable \in Seq(Client)
  /\ cli \in Client \cup {Null}
  /\ packet \in Nat \cup {Null}
  /\ pending \in Seq(Client)
  /\ log \in Seq(Message)
  /\ joined \in [Client -> Nat \cup {Null}]
  /\ heard \in [Client -> Seq(Message)]

\* A client is in one place, and is there once.
Once(seq) == \A i, j \in 1 .. Len(seq) : seq[i] = seq[j] => i = j

MemberInv ==
  /\ Once(backlog) /\ Once(clients)
  /\ ToSet(backlog) \cap ToSet(clients) = {}
  /\ \A c \in ToSet(backlog) : side[c] # "out" /\ joined[c] = Null
  /\ \A c \in ToSet(clients) : side[c] # "out" /\ joined[c] \in Nat
  /\ \A c \in Client : side[c] = "out" => joined[c] = Null
  /\ \A c \in Client : joined[c] = Null => heard[c] = <<>>

\* The pointers of the loops: each to a client that is there, none twice, and none
\* to the client that is being processed.
PointerInv ==
  pc \notin Over =>
    /\ Once(readable) /\ ToSet(readable) \subseteq ToSet(clients) \ {cli}
    /\ Once(pending) /\ ToSet(pending) \subseteq ToSet(clients) \ {cli}
    /\ pc # "relay" => pending = <<>>
    /\ pc = "select" => readable = <<>>
    /\ pc \in {"select", "process"} => cli = Null
    /\ pc \notin {"select", "process"} => cli \in ToSet(clients)

\* The j-th piece that a client sends.
IsPiece(p, j) ==
  \/ p[2] = "head" /\ 2 * p[1] = j + 1
  \/ p[2] = "rest" /\ 2 * p[1] = j

\* Of n packets sent the first t were taken; what was received of the others, and
\* what was not, follow each other.
Stream(received, rest, t, n) ==
  /\ Len(received) + Len(rest) = 2 * (n - t)
  /\ \A i \in 1 .. Len(received) : IsPiece(received[i], 2 * t + i)
  /\ \A i \in 1 .. Len(rest) : IsPiece(rest[i], 2 * t + Len(received) + i)

Taken(c, t) == Stream(buffer[c], wire[c], t, written[c])

InHand(c, k) == pc \in {"dispatch", "broadcast"} /\ cli = c /\ packet = k

\* What c had to say in the first t packets was said, but for one in hand, the last.
Logged(c, t) ==
  /\ \A k \in 1 .. Len(packets[c]) :
       Contains(log, <<c, k>>) <=> packets[c][k] \in Spoken /\ k <= t /\ ~InHand(c, k)
  /\ pc \in {"dispatch", "broadcast"} /\ cli = c => packet = t

StreamInv ==
  \A c \in Client :
    /\ written[c] <= Len(packets[c])
    /\ \E t \in 0 .. written[c] :
         /\ Taken(c, t)
         /\ c \in ToSet(clients) \/ joined[c] = Null => Logged(c, t)

\* What the handlers have in hand.
HandInv ==
  /\ pc \in Handling => packet \in 1 .. Len(packets[cli])
  /\ pc \in {"dispatch", "broadcast", "relay"} => packets[cli][packet] \in Spoken
  /\ pc = "reply" => packets[cli][packet] \notin Spoken
  /\ pc = "relay" => Len(log) > 0 /\ log[Len(log)] = <<cli, packet>>

\* Who has still to hear the last message.
Waits(c) == pc = "relay" /\ (c = cli \/ c \in ToSet(pending))

HearInv ==
  pc \notin Over =>
    \A c \in ToSet(clients) :
      joined[c] + Len(heard[c]) = IF Waits(c) THEN Len(log) - 1 ELSE Len(log)

IInv == TypeInv /\ MemberInv /\ PointerInv /\ StreamInv /\ HandInv /\ HearInv
-------------------------------------------------------------------------------
\* Only, taken one client at a time.
LEMMA OnlyFold ==
  ASSUME NEW s \in Seq(Client), NEW S
  PROVE  \E F : /\ F \in [0 .. Len(s) -> Seq(Client)] /\ F[0] = <<>>
                /\ \A k \in 1 .. Len(s) :
                     F[k] = IF s[k] \in S THEN Append(F[k - 1], s[k]) ELSE F[k - 1]
                /\ Only(s, S) = F[Len(s)]
<1> DEFINE g == [x \in Seq(Client) \X Client |->
                   IF x[2] \in S THEN Append(x[1], x[2]) ELSE x[1]]
           D == SUBSET DOMAIN s
           Eq(e) == e = [T \in D |->
             IF T = {} THEN <<>>
             ELSE LET x == Max(T) IN
                  IF s[x] \in S THEN Append(e[T \ {x}], s[x]) ELSE e[T \ {x}]]
<1>1. g \in [Seq(Client) \X Client -> Seq(Client)] /\ <<>> \in Seq(Client)
  OBVIOUS
<1>2. PICK h : IsFoldLeft(h, s, Seq(Client), <<>>, g)
  <2> HIDE DEF g
  <2> QED
    BY <1>1, FoldLeftExists
<1>3. \A T \in D : T # {} => Max(T) = Greatest(T) /\ Greatest(T) \in T
  <2>1. IsFiniteSet(DOMAIN s) /\ DOMAIN s \subseteq Int
    BY FS_Interval
  <2> QED
    BY <2>1, GreatestExists DEF Max, Greatest
<1>4. Eq(h)
  <2> DEFINE e == [T \in D |->
               IF T = {} THEN <<>>
               ELSE LET x == Max(T) IN
                    IF s[x] \in S THEN Append(h[T \ {x}], s[x]) ELSE h[T \ {x}]]
  <2>1. ASSUME NEW T \in D PROVE h[T] = e[T]
    <3>1. CASE T = {}
      BY <1>2, <3>1 DEF IsFoldLeft
    <3>2. CASE T # {}
      <4>1. h[T \ {Max(T)}] \in Seq(Client) /\ s[Max(T)] \in Client
        BY <1>2, <1>3, <3>2 DEF IsFoldLeft
      <4>2. h[T] = g[<<h[T \ {Max(T)}], s[Max(T)]>>]
        BY <1>2, <1>3, <3>2 DEF IsFoldLeft
      <4> QED
        BY <3>2, <4>1, <4>2
    <3> QED
      BY <3>1, <3>2
  <2>2. h = [T \in D |-> h[T]] /\ e = [T \in D |-> e[T]]
    BY <1>2 DEF IsFoldLeft
  <2>3. h = e
    <3> HIDE DEF e
    <3> QED
      BY <2>1, <2>2
  <2> QED
    BY <2>3
<1>5. Only(s, S) = (CHOOSE e : Eq(e))[DOMAIN s]
  BY DEF Only, FoldLeft, MapThenFoldSet
<1>6. PICK e : Eq(e) /\ Only(s, S) = e[DOMAIN s]
  <2> HIDE DEF Eq
  <2> QED
    BY <1>4, <1>5
<1>7. e[{}] = <<>>
  BY <1>6
<1>8. ASSUME NEW T \in D, T # {}, e[T \ {Greatest(T)}] \in Seq(Client)
      PROVE  e[T] = g[<<e[T \ {Greatest(T)}], s[Greatest(T)]>>]
  <2>1. e[T] = IF s[Greatest(T)] \in S THEN Append(e[T \ {Greatest(T)}], s[Greatest(T)])
               ELSE e[T \ {Greatest(T)}]
    BY <1>3, <1>6, <1>8
  <2>2. s[Greatest(T)] \in Client
    BY <1>3, <1>8
  <2> QED
    BY <1>8, <2>1, <2>2
<1>9. PICK F : IsChain(F, s, Seq(Client), <<>>, g, e[DOMAIN s])
  <2> HIDE DEF g, Eq
  <2>1. FoldsLeft(e, s, Seq(Client), <<>>, g)
    BY <1>7, <1>8 DEF FoldsLeft
  <2> QED
    BY <1>1, <2>1, FoldLeftChain
<1>10. ASSUME NEW k \in 1 .. Len(s)
       PROVE  F[k] = IF s[k] \in S THEN Append(F[k - 1], s[k]) ELSE F[k - 1]
  <2>1. F[k - 1] \in Seq(Client) /\ s[k] \in Client
    BY <1>9 DEF IsChain
  <2>2. F[k] = g[<<F[k - 1], s[k]>>]
    BY <1>9 DEF IsChain
  <2> QED
    BY <2>1, <2>2
<1> QED
  BY <1>6, <1>9, <1>10 DEF IsChain

\* What a sequence has after an element is appended.
LEMMA AppendFacts ==
  ASSUME NEW T, NEW s \in Seq(T), NEW x \in T
  PROVE  /\ Append(s, x) \in Seq(T)
         /\ ToSet(Append(s, x)) = ToSet(s) \cup {x}
         /\ Once(s) /\ x \notin ToSet(s) => Once(Append(s, x))
         /\ \A y : Contains(Append(s, x), y) <=> Contains(s, y) \/ y = x
<1>1. /\ Len(Append(s, x)) = Len(s) + 1 /\ Append(s, x)[Len(s) + 1] = x
      /\ \A i \in 1 .. Len(s) : Append(s, x)[i] = s[i]
      /\ DOMAIN s = 1 .. Len(s) /\ DOMAIN Append(s, x) = 1 .. Len(s) + 1
      /\ Append(s, x) \in Seq(T) /\ Len(s) \in Nat
  OBVIOUS
<1>2. \A i \in 1 .. Len(s) + 1 : i \in 1 .. Len(s) \/ i = Len(s) + 1
  BY <1>1
<1>3. \A i \in 1 .. Len(s) : i \in 1 .. Len(s) + 1 /\ Len(s) + 1 \in 1 .. Len(s) + 1
  BY <1>1
<1>4. Len(s) + 1 \in 1 .. Len(s) + 1
  BY <1>1
<1>5. ToSet(Append(s, x)) = ToSet(s) \cup {x}
  BY <1>1, <1>2, <1>3, <1>4, Zenon DEF ToSet
<1>6. ASSUME Once(s), x \notin ToSet(s) PROVE Once(Append(s, x))
  <2>1. \A i \in 1 .. Len(s) : s[i] # x
    BY <1>1, <1>6 DEF ToSet
  <2> QED
    BY <1>1, <1>2, <1>6, <2>1 DEF Once
<1>7. ASSUME NEW y PROVE Contains(Append(s, x), y) <=> Contains(s, y) \/ y = x
  BY <1>1, <1>2, <1>3, <1>4 DEF Contains
<1> QED
  BY <1>1, <1>5, <1>6, <1>7

\* What a sequence has but for its first element.
LEMMA TailFacts ==
  ASSUME NEW T, NEW s \in Seq(T), s # <<>>
  PROVE  /\ Head(s) \in T /\ Tail(s) \in Seq(T)
         /\ ToSet(s) = ToSet(Tail(s)) \cup {Head(s)}
         /\ Once(s) => Once(Tail(s)) /\ Head(s) \notin ToSet(Tail(s))
<1>1. /\ Len(s) \in Nat \ {0} /\ Len(Tail(s)) = Len(s) - 1 /\ Head(s) = s[1]
      /\ \A i \in 1 .. Len(s) - 1 : Tail(s)[i] = s[i + 1]
      /\ DOMAIN s = 1 .. Len(s) /\ DOMAIN Tail(s) = 1 .. Len(s) - 1
      /\ Head(s) \in T /\ Tail(s) \in Seq(T)
  OBVIOUS
<1>2. ASSUME NEW x PROVE x \in ToSet(s) <=> x \in ToSet(Tail(s)) \cup {Head(s)}
  <2>1. ASSUME x \in ToSet(s) PROVE x \in ToSet(Tail(s)) \cup {Head(s)}
    <3>1. PICK i \in 1 .. Len(s) : x = s[i]
      BY <1>1, <2>1 DEF ToSet
    <3>2. CASE i = 1
      BY <1>1, <3>1, <3>2
    <3>3. CASE i # 1
      <4>1. i - 1 \in 1 .. Len(s) - 1 /\ (i - 1) + 1 = i
        BY <1>1, <3>3
      <4>2. Tail(s)[i - 1] = x
        BY <1>1, <3>1, <4>1
      <4> QED
        BY <1>1, <4>1, <4>2 DEF ToSet
    <3> QED
      BY <3>2, <3>3
  <2>2. ASSUME x \in ToSet(Tail(s)) PROVE x \in ToSet(s)
    <3>1. PICK i \in 1 .. Len(s) - 1 : x = s[i + 1]
      BY <1>1, <2>2 DEF ToSet
    <3>2. i + 1 \in 1 .. Len(s)
      BY <1>1
    <3> QED
      BY <1>1, <3>1, <3>2 DEF ToSet
  <2>3. Head(s) \in ToSet(s)
    BY <1>1 DEF ToSet
  <2> QED
    BY <2>1, <2>2, <2>3
<1>3. ASSUME Once(s) PROVE Once(Tail(s)) /\ Head(s) \notin ToSet(Tail(s))
  <2>1. \A i \in 1 .. Len(s) - 1 : i + 1 \in 1 .. Len(s) /\ 1 \in 1 .. Len(s)
    BY <1>1
  <2>2. Once(Tail(s))
    <3> SUFFICES ASSUME NEW i \in 1 .. Len(s) - 1, NEW j \in 1 .. Len(s) - 1,
                        Tail(s)[i] = Tail(s)[j]
                 PROVE  i = j
      BY <1>1 DEF Once
    <3>1. i + 1 = j + 1
      BY <1>1, <1>3, <2>1 DEF Once
    <3> QED
      BY <3>1
  <2>3. Head(s) \notin ToSet(Tail(s))
    <3> SUFFICES ASSUME NEW i \in 1 .. Len(s) - 1, s[i + 1] = s[1] PROVE FALSE
      BY <1>1 DEF ToSet
    <3>1. i + 1 = 1
      BY <1>3, <2>1 DEF Once
    <3> QED
      BY <3>1
  <2> QED
    BY <2>2, <2>3
<1> QED
  BY <1>1, <1>2, <1>3

\* Only keeps those that are in the set, and each as often as it was there.
LEMMA OnlyFacts ==
  ASSUME NEW s \in Seq(Client), NEW S
  PROVE  /\ Only(s, S) \in Seq(Client)
         /\ ToSet(Only(s, S)) = ToSet(s) \cap S
         /\ Once(s) => Once(Only(s, S))
<1>1. PICK F : /\ F \in [0 .. Len(s) -> Seq(Client)] /\ F[0] = <<>>
               /\ \A k \in 1 .. Len(s) :
                    F[k] = IF s[k] \in S THEN Append(F[k - 1], s[k]) ELSE F[k - 1]
               /\ Only(s, S) = F[Len(s)]
  BY OnlyFold
<1> DEFINE First(k) == {s[i] : i \in 1 .. k}
           N == {k \in Nat : k <= Len(s) => /\ ToSet(F[k]) = First(k) \cap S
                                            /\ Once(s) => Once(F[k])}
<1>2. 0 \in N
  <2>1. 1 .. 0 = {} /\ Len(<<>>) = 0 /\ DOMAIN <<>> = {}
    OBVIOUS
  <2> QED
    BY <1>1, <2>1 DEF ToSet, Once
<1>3. ASSUME NEW k \in N PROVE k + 1 \in N
  <2> SUFFICES ASSUME k + 1 <= Len(s)
               PROVE  /\ ToSet(F[k + 1]) = First(k + 1) \cap S
                      /\ Once(s) => Once(F[k + 1])
    OBVIOUS
  <2>1. k \in Nat /\ k + 1 \in 1 .. Len(s) /\ (k + 1) - 1 = k /\ k \in 0 .. Len(s)
    OBVIOUS
  <2>2. F[k] \in Seq(Client) /\ s[k + 1] \in Client
    BY <1>1, <2>1
  <2>3. F[k + 1] = IF s[k + 1] \in S THEN Append(F[k], s[k + 1]) ELSE F[k]
    BY <1>1, <2>1
  <2>4. First(k + 1) = First(k) \cup {s[k + 1]}
    <3>1. \A i \in 1 .. k + 1 : i \in 1 .. k \/ i = k + 1
      BY <2>1
    <3>2. \A i \in 1 .. k : i \in 1 .. k + 1
      BY <2>1
    <3>3. k + 1 \in 1 .. k + 1
      BY <2>1
    <3> QED
      BY <3>1, <3>2, <3>3
  <2>5. ToSet(F[k]) = First(k) \cap S /\ (Once(s) => Once(F[k]))
    BY <2>1
  <2>6. Once(s) => s[k + 1] \notin First(k)
    <3>1. \A i \in 1 .. k : i \in 1 .. Len(s) /\ i # k + 1
      BY <2>1
    <3> QED
      BY <2>1, <3>1 DEF Once
  <2> HIDE DEF N, First
  <2>7. CASE s[k + 1] \in S
    BY <2>2, <2>3, <2>4, <2>5, <2>6, <2>7, AppendFacts
  <2>8. CASE s[k + 1] \notin S
    BY <2>3, <2>4, <2>5, <2>8
  <2> QED
    BY <2>7, <2>8
<1>4. N = Nat
  <2>1. N \in SUBSET Nat
    OBVIOUS
  <2> HIDE DEF N
  <2> QED
    BY <1>2, <1>3, <2>1, NatSetInduction
<1>5. Len(s) \in Nat /\ First(Len(s)) = ToSet(s)
  BY DEF ToSet
<1>6. Len(s) \in N
  BY <1>4, <1>5
<1>7. ToSet(F[Len(s)]) = ToSet(s) \cap S /\ (Once(s) => Once(F[Len(s)]))
  BY <1>5, <1>6
<1> QED
  BY <1>1, <1>5, <1>7

\* Nothing has happened yet.
LEMMA InitInv == Init => IInv
<1> SUFFICES ASSUME Init PROVE IInv
  OBVIOUS
<1>1. /\ \A T : <<>> \in Seq(T)
      /\ Len(<<>>) = 0 /\ ToSet(<<>>) = {} /\ Once(<<>>) /\ \A x : ~Contains(<<>>, x)
  BY DEF ToSet, Once, Contains
<1>2. 0 \in 0 .. Window /\ Null \notin Client /\ Null \notin Nat
  BY ChatServerAssumption
<1>3. TypeInv
  BY <1>1, <1>2 DEF Init, TypeInv
<1>4. MemberInv /\ PointerInv
  BY <1>1 DEF Init, MemberInv, PointerInv
<1>5. StreamInv
  <2>1. ASSUME NEW c \in Client PROVE Len(packets[c]) \in Nat
    BY ChatServerAssumption DEF Init
  <2>2. ASSUME NEW c \in Client PROVE Taken(c, 0) /\ Logged(c, 0)
    <3>1. Len(buffer[c]) = 0 /\ Len(wire[c]) = 0 /\ written[c] = 0
      BY <1>1 DEF Init
    <3> QED
      BY <1>1, <3>1 DEF Init, Taken, Stream, Logged, InHand
  <2> QED
    BY <2>1, <2>2 DEF Init, StreamInv
<1>6. HandInv /\ HearInv
  BY <1>1 DEF Init, HandInv, HearInv, Handling
<1> QED
  BY <1>3, <1>4, <1>5, <1>6 DEF IInv

\* A stream of pieces cut in two.
LEMMA Cut ==
  ASSUME NEW T, NEW s \in Seq(T), NEW k \in 0 .. Len(s)
  PROVE  /\ SubSeq(s, 1, k) \in Seq(T) /\ Len(SubSeq(s, 1, k)) = k
         /\ \A i \in 1 .. k : SubSeq(s, 1, k)[i] = s[i]
         /\ SubSeq(s, k + 1, Len(s)) \in Seq(T) /\ Len(SubSeq(s, k + 1, Len(s))) = Len(s) - k
         /\ \A i \in 1 .. Len(s) - k : SubSeq(s, k + 1, Len(s))[i] = s[k + i]
<1>1. Len(s) \in Nat /\ k \in Nat /\ \A i \in 1 .. Len(s) : s[i] \in T
  OBVIOUS
<1>2. /\ SubSeq(s, 1, k) \in Seq(T) /\ Len(SubSeq(s, 1, k)) = k
      /\ \A i \in 1 .. k : SubSeq(s, 1, k)[i] = s[i]
  BY <1>1
<1>3. /\ SubSeq(s, k + 1, Len(s)) \in Seq(T) /\ Len(SubSeq(s, k + 1, Len(s))) = Len(s) - k
      /\ \A i \in 1 .. Len(s) - k : SubSeq(s, k + 1, Len(s))[i] = s[k + i]
  BY <1>1
<1> QED
  BY <1>2, <1>3

\* The client whose packet is looked at, and the packet that a handler has.
LEMMA Current ==
  ASSUME IInv
  PROVE  /\ ToSet(clients) \subseteq Client /\ ToSet(backlog) \subseteq Client
         /\ pc \notin Over \cup {"select", "process"} => cli \in Client /\ cli \in ToSet(clients)
         /\ pc \in Handling => /\ cli \in Client /\ cli \in ToSet(clients)
                               /\ packet \in 1 .. Len(packets[cli]) /\ <<cli, packet>> \in Message
         /\ pc = "relay" /\ pending # <<>> =>
              Head(pending) \in Client /\ Head(pending) \in ToSet(clients)
         /\ \A c \in Client : packets[c] \in Seq(Kind)
<1> USE DEF IInv
<1>1. ToSet(clients) \subseteq Client /\ ToSet(backlog) \subseteq Client
  <2>1. \A s \in Seq(Client) : ToSet(s) \subseteq Client
    BY DEF ToSet
  <2> QED
    BY <2>1 DEF TypeInv
<1>2. \A c \in Client : packets[c] \in Seq(Kind)
  BY ChatServerAssumption DEF TypeInv
<1>3. pc \notin Over \cup {"select", "process"} => cli \in Client /\ cli \in ToSet(clients)
  BY <1>1 DEF PointerInv
<1>4. ASSUME pc \in Handling
      PROVE  /\ cli \in Client /\ cli \in ToSet(clients)
             /\ packet \in 1 .. Len(packets[cli]) /\ <<cli, packet>> \in Message
  <2>1. cli \in Client /\ cli \in ToSet(clients)
    BY <1>3, <1>4 DEF Handling, Over
  <2>2. packet \in 1 .. Len(packets[cli])
    BY <1>4 DEF HandInv
  <2> QED
    BY <1>2, <2>1, <2>2 DEF Message
<1>5. ASSUME pc = "relay", pending # <<>>
      PROVE  Head(pending) \in Client /\ Head(pending) \in ToSet(clients)
  <2>1. pending \in Seq(Client) /\ ToSet(pending) \subseteq ToSet(clients)
    BY <1>5 DEF TypeInv, PointerInv, Over
  <2> QED
    BY <1>5, <2>1, TailFacts
<1> QED
  BY <1>1, <1>2, <1>3, <1>4, <1>5

\* What a send does to the types.
LEMMA SendType ==
  ASSUME TypeInv, NEW c \in Client, <<cli, packet>> \in Message, Send(c)
  PROVE  unread' \in [Client -> 0 .. Window] /\ heard' \in [Client -> Seq(Message)]
<1>1. Window \in Nat \ {0} /\ unread[c] \in 0 .. Window
  BY ChatServerAssumption DEF TypeInv
<1>2. (IF side[c] = "up" THEN unread[c] + 1 ELSE 0) \in 0 .. Window
  BY <1>1 DEF Send, CanSend
<1>3. unread' \in [Client -> 0 .. Window]
  BY <1>2 DEF Send, TypeInv
<1>4. Append(heard[c], <<cli, packet>>) \in Seq(Message)
  BY DEF TypeInv
<1>5. heard' \in [Client -> Seq(Message)]
  BY <1>4 DEF Send, TypeInv
<1> QED
  BY <1>3, <1>5

\* Every step keeps the types.
LEMMA TypeStep == IInv /\ [Next]_vars => TypeInv'
<1> SUFFICES ASSUME IInv, [Next]_vars PROVE TypeInv'
  OBVIOUS
<1>0. Null \notin Client /\ Null \notin Nat /\ Window \in Nat \ {0} /\ TypeInv
  BY ChatServerAssumption DEF IInv
<1> USE <1>0 DEF TypeInv
<1>1. ASSUME NEW c \in Client, Connect(c) PROVE TypeInv'
  <2>1. backlog' \in Seq(Client) /\ side' \in [Client -> {"out", "up", "down"}]
    BY <1>1 DEF Connect
  <2> QED
    BY <1>1, <2>1 DEF Connect, room, server
<1>2. ASSUME NEW c \in Client, Write(c) PROVE TypeInv'
  <2>1. written[c] + 1 \in Nat /\ written' \in [Client -> Nat]
    <3>1. written[c] \in Nat /\ written[c] + 1 \in Nat
      OBVIOUS
    <3>2. written' = [written EXCEPT ![c] = written[c] + 1]
      BY <1>2 DEF Write
    <3> QED
      BY <3>1, <3>2
  <2>2. <<<<written[c] + 1, "head">>, <<written[c] + 1, "rest">>>> \in Seq(Piece)
    <3>1. <<written[c] + 1, "head">> \in Piece /\ <<written[c] + 1, "rest">> \in Piece
      BY <2>1 DEF Piece
    <3> QED
      BY <3>1
  <2>3. wire[c] \o <<<<written[c] + 1, "head">>, <<written[c] + 1, "rest">>>> \in Seq(Piece)
    BY <2>2
  <2>4. wire' \in [Client -> Seq(Piece)]
    BY <1>2, <2>3 DEF Write
  <2> QED
    BY <1>2, <2>1, <2>4 DEF Write, room, server
<1>3. ASSUME NEW c \in Client, Read(c) PROVE TypeInv'
  <2>1. unread[c] - 1 \in 0 .. Window
    BY <1>3, <1>0 DEF Read
  <2>2. unread' \in [Client -> 0 .. Window]
    BY <1>3, <2>1 DEF Read
  <2> QED
    BY <1>3, <2>2 DEF Read, room, server
<1>4. ASSUME NEW c \in Client, Close(c) PROVE TypeInv'
  <2>1. 0 \in 0 .. Window
    BY <1>0
  <2> QED
    BY <1>4, <2>1 DEF Close, room, server
<1>5. CASE RequestStop
  BY <1>5 DEF RequestStop, net, server, room
<1>6. CASE Select
  <2>1. readable' \in Seq(Client)
    BY <1>6, OnlyFacts DEF Select
  <2>2. CASE backlog = <<>>
    BY <1>6, <2>1, <2>2 DEF Select
  <2>3. CASE backlog # <<>>
    <3>1. Head(backlog) \in Client /\ Tail(backlog) \in Seq(Client)
      BY <2>3
    <3>2. clients' = Append(clients, Head(backlog))
          /\ joined' = [joined EXCEPT ![Head(backlog)] = Len(log)]
      BY <1>6, <2>3 DEF Select
    <3>3. clients' \in Seq(Client) /\ joined' \in [Client -> Nat \cup {Null}]
      <4>1. Len(log) \in Nat
        OBVIOUS
      <4> QED
        BY <3>1, <3>2, <4>1
    <3> QED
      BY <1>6, <2>1, <2>3, <3>1, <3>3 DEF Select
  <2> QED
    BY <2>2, <2>3
<1>7. CASE Receive
  <2> DEFINE c == Head(readable)
  <2>1. c \in Client /\ readable' \in Seq(Client)
    BY <1>7 DEF Receive
  <2>2. ASSUME NEW k \in 1 .. Len(wire[c]),
               buffer' = [buffer EXCEPT ![c] = @ \o SubSeq(wire[c], 1, k)],
               wire' = [wire EXCEPT ![c] = SubSeq(@, k + 1, Len(@))]
        PROVE  buffer' \in [Client -> Seq(Piece)] /\ wire' \in [Client -> Seq(Piece)]
    <3>1. wire[c] \in Seq(Piece) /\ k \in 0 .. Len(wire[c]) /\ buffer[c] \in Seq(Piece)
      BY <2>1
    <3>2. SubSeq(wire[c], 1, k) \in Seq(Piece) /\ SubSeq(wire[c], k + 1, Len(wire[c])) \in
       Seq(Piece)
      BY <3>1, Cut
    <3>3. buffer[c] \o SubSeq(wire[c], 1, k) \in Seq(Piece)
      BY <3>1, <3>2
    <3> HIDE DEF c
    <3> QED
      BY <2>1, <2>2, <3>2, <3>3
  <2>3. DisconnectClient(c) => /\ buffer' \in [Client -> Seq(Piece)]
                               /\ wire' \in [Client -> Seq(Piece)]
                               /\ clients' \in Seq(Client)
    BY <2>1, OnlyFacts DEF DisconnectClient
  <2>4. /\ buffer' \in [Client -> Seq(Piece)] /\ wire' \in [Client -> Seq(Piece)]
        /\ clients' \in Seq(Client)
        /\ cli' \in Client \cup {Null} /\ pc' \in {"process", "parse"}
    <3> HIDE DEF c
    <3>1. \/ DisconnectClient(c) /\ cli' = cli /\ pc' = pc
          \/ \E k \in 1 .. Len(wire[c]) :
               /\ buffer' = [buffer EXCEPT ![c] = @ \o SubSeq(wire[c], 1, k)]
               /\ wire' = [wire EXCEPT ![c] = SubSeq(@, k + 1, Len(@))]
               /\ cli' = c /\ pc' = "parse" /\ clients' = clients
      BY <1>7 DEF Receive, c
    <3>2. pc = "process"
      BY <1>7 DEF Receive
    <3> QED
      BY <2>1, <2>2, <2>3, <3>1, <3>2
  <2> QED
    BY <1>7, <2>1, <2>4 DEF Receive, room
<1>8. CASE EndOfRound
  <2>1. <<>> \in Seq(Client)
    OBVIOUS
  <2> QED
    BY <1>8, <2>1 DEF EndOfRound, net, room
<1>9. CASE NeedMoreData
  BY <1>9 DEF NeedMoreData, net, room
<1>10. CASE InvalidPacket
  <2>1. clients' \in Seq(Client) /\ <<>> \in Seq(Piece) /\ 0 \in 0 .. Window
    BY <1>10, <1>0, OnlyFacts DEF InvalidPacket, DisconnectClient
  <2> QED
    BY <1>10, <2>1 DEF InvalidPacket, DisconnectClient, room
<1>11. CASE TryParse
  <2>1. buffer' \in [Client -> Seq(Piece)]
    <3>1. \A b \in Seq(Piece) : Erase(b) \in Seq(Piece)
      <4> SUFFICES ASSUME NEW b \in Seq(Piece) PROVE SubSeq(b, 3, Len(b)) \in Seq(Piece)
        BY DEF Erase
      <4>1. \A i \in 3 .. Len(b) : b[i] \in Piece
        OBVIOUS
      <4> QED
        BY <4>1, SubSeqProperties
    <3> QED
      BY <1>11, <3>1 DEF TryParse
  <2>2. packet' \in Nat \cup {Null}
    <3>1. cli \in Client
      BY <1>11, Current DEF TryParse, Over
    <3>2. buffer[cli] \in Seq(Piece) /\ 1 \in 1 .. Len(buffer[cli])
      BY <1>11, <1>0, <3>1 DEF TryParse, Complete
    <3>3. buffer[cli][1] \in Piece
      BY <3>2
    <3> QED
      BY <1>11, <3>3 DEF TryParse, Piece
  <2>3. pc' \in {"parse", "shutdown"} \cup Handling
    BY <1>11 DEF TryParse, Create, Handling
  <2> QED
    BY <1>11, <2>1, <2>2, <2>3 DEF TryParse, net, room, Over
<1>12. CASE Dispatch
  BY <1>12 DEF Dispatch, net, room, Handling
<1>13. CASE BroadCast
  <2>1. <<cli, packet>> \in Message
    BY <1>13, Current DEF BroadCast, Handling
  <2>2. pending' \in Seq(Client) /\ log' \in Seq(Message)
    BY <1>13, <2>1, OnlyFacts DEF BroadCast
  <2> QED
    BY <1>13, <2>2 DEF BroadCast, net, Handling
<1>14. CASE Relay
  <2>1. Head(pending) \in Client /\ <<cli, packet>> \in Message
    BY <1>14, Current DEF Relay, Handling
  <2>2. unread' \in [Client -> 0 .. Window] /\ heard' \in [Client -> Seq(Message)]
    BY <1>14, <2>1, SendType DEF Relay
  <2>3. pending' \in Seq(Client)
    BY <1>14 DEF Relay
  <2> QED
    BY <1>14, <2>2, <2>3 DEF Relay
<1>15. CASE Reply
  <2>1. cli \in Client /\ <<cli, packet>> \in Message
    BY <1>15, Current DEF Reply, AtReply, Handling
  <2>2. unread' \in [Client -> 0 .. Window] /\ heard' \in [Client -> Seq(Message)]
    BY <1>15, <2>1, SendType DEF Reply
  <2> QED
    BY <1>15, <2>2 DEF Reply
<1>16. CASE BrokenPipe
  BY <1>16 DEF BrokenPipe, net, server, room, Over
<1>17. CASE ShutdownGracefully
  <2>1. <<>> \in Seq(Client)
    OBVIOUS
  <2> QED
    BY <1>17, <2>1 DEF ShutdownGracefully, net, room, Over
<1>18. CASE UNCHANGED vars
  BY <1>18 DEF vars, net, server, room
<1> QED
  BY <1>1, <1>2, <1>3, <1>4, <1>5, <1>6, <1>7, <1>8, <1>9, <1>10, <1>11, <1>12, <1>13, <1>14,
     <1>15, <1>16, <1>17, <1>18
     DEF Next, Main

\* A send is heard by the client that it is for, and by nobody else.
LEMMA SendHeard ==
  ASSUME TypeInv, NEW c \in Client, Send(c)
  PROVE  /\ \A d \in Client \ {c} : heard'[d] = heard[d]
         /\ packets[cli][packet] \in Spoken => heard'[c] = Append(heard[c], <<cli, packet>>)
         /\ packets[cli][packet] \notin Spoken => heard' = heard
BY DEF Send, TypeInv

\* Every step keeps the clients in their places.
LEMMA MemberStep == IInv /\ [Next]_vars => MemberInv'
<1> SUFFICES ASSUME IInv, [Next]_vars PROVE MemberInv'
  OBVIOUS
<1>0. /\ Null \notin Nat /\ TypeInv /\ MemberInv
      /\ ToSet(clients) \subseteq Client /\ ToSet(backlog) \subseteq Client
  BY ChatServerAssumption, Current DEF IInv
<1> USE <1>0 DEF MemberInv
<1>1. ASSUME NEW c \in Client, Connect(c) PROVE MemberInv'
  <2> /\ backlog \in Seq(Client) /\ backlog' = Append(backlog, c) /\ side[c] = "out"
      /\ side' = [side EXCEPT ![c] = "up"] /\ UNCHANGED <<clients, joined, heard>>
    BY <1>1 DEF Connect, TypeInv, server, room
  <2>1. c \notin ToSet(backlog) /\ c \notin ToSet(clients) /\ joined[c] = Null
    OBVIOUS
  <2>2. ToSet(backlog') = ToSet(backlog) \cup {c} /\ Once(backlog')
    BY <2>1, AppendFacts
  <2>3. \A d \in Client : side'[d] = IF d = c THEN "up" ELSE side[d]
    BY DEF TypeInv
  <2> QED
    BY <2>1, <2>2, <2>3
<1>2. ASSUME NEW c \in Client, Write(c) PROVE MemberInv'
  BY <1>2 DEF Write, room, server
<1>3. ASSUME NEW c \in Client, Read(c) PROVE MemberInv'
  BY <1>3 DEF Read, room, server
<1>4. ASSUME NEW c \in Client, Close(c) PROVE MemberInv'
  <2>1. side[c] = "up" /\ UNCHANGED <<clients, backlog, joined, heard>>
    BY <1>4 DEF Close, server, room
  <2>2. \A d \in Client : side'[d] = IF d = c THEN "down" ELSE side[d]
    BY <1>4 DEF Close, TypeInv
  <2> QED
    BY <2>1, <2>2
<1>5. CASE RequestStop
  BY <1>5 DEF RequestStop, net, server, room
<1>6. CASE Select
  <2>1. CASE backlog = <<>>
    BY <1>6, <2>1 DEF Select
  <2>2. CASE backlog # <<>>
    <3> DEFINE c == Head(backlog)
    <3>1. /\ backlog' = Tail(backlog) /\ clients' = Append(clients, c)
          /\ joined' = [joined EXCEPT ![c] = Len(log)] /\ UNCHANGED <<side, heard>>
      BY <1>6, <2>2 DEF Select
    <3>2. /\ c \in Client /\ ToSet(backlog) = ToSet(backlog') \cup {c}
          /\ Once(backlog') /\ c \notin ToSet(backlog')
      BY <2>2, <3>1, TailFacts DEF TypeInv
    <3>3. c \notin ToSet(clients) /\ clients \in Seq(Client)
      BY <3>2 DEF TypeInv
    <3>4. ToSet(clients') = ToSet(clients) \cup {c} /\ Once(clients')
      BY <3>1, <3>2, <3>3, AppendFacts
    <3>5. Len(log) \in Nat /\ \A d \in Client : joined'[d] = IF d = c THEN Len(log) ELSE joined[d]
      BY <3>1 DEF TypeInv
    <3> HIDE DEF c
    <3> QED
      BY <3>1, <3>2, <3>3, <3>4, <3>5
  <2> QED
    BY <2>1, <2>2
<1>7. CASE Receive
  <2>1. UNCHANGED <<backlog, side, joined, heard>>
    BY <1>7 DEF Receive, room
  <2>2. clients' = clients \/ clients' = Only(clients, Client \ {Head(readable)})
    BY <1>7 DEF Receive, DisconnectClient
  <2>3. Once(clients') /\ ToSet(clients') \subseteq ToSet(clients)
    BY <2>2, OnlyFacts DEF TypeInv
  <2> QED
    BY <2>1, <2>3
<1>8. CASE EndOfRound
  BY <1>8 DEF EndOfRound, net, room
<1>9. CASE NeedMoreData
  BY <1>9 DEF NeedMoreData, net, room
<1>10. CASE InvalidPacket
  <2>1. UNCHANGED <<backlog, joined, heard>> /\ side' = [side EXCEPT ![cli] = "down"]
    BY <1>10 DEF InvalidPacket, room
  <2>2. clients' = Only(clients, Client \ {cli})
    BY <1>10 DEF InvalidPacket, DisconnectClient
  <2>3. Once(clients') /\ ToSet(clients') \subseteq ToSet(clients)
    BY <2>2, OnlyFacts DEF TypeInv
  <2>4. cli \in ToSet(clients)
    BY <1>10, Current DEF InvalidPacket, Over
  <2>5. \A d \in Client : side'[d] = IF d = cli THEN "down" ELSE side[d]
    BY <2>1 DEF TypeInv
  <2> QED
    BY <2>1, <2>3, <2>4, <2>5
<1>11. CASE TryParse
  BY <1>11 DEF TryParse, net, room
<1>12. CASE Dispatch
  BY <1>12 DEF Dispatch, net, room
<1>13. CASE BroadCast
  BY <1>13 DEF BroadCast, net
<1>14. CASE Relay
  <2>1. Head(pending) \in Client /\ Head(pending) \in ToSet(clients)
    BY <1>14, Current DEF Relay
  <2>2. \A d \in Client \ {Head(pending)} : heard'[d] = heard[d]
    BY <1>14, <2>1, SendHeard DEF Relay
  <2> QED
    BY <1>14, <2>1, <2>2 DEF Relay
<1>15. CASE Reply
  <2>1. cli \in Client /\ cli \in ToSet(clients)
    BY <1>15, Current DEF Reply, AtReply, Handling
  <2>2. \A d \in Client \ {cli} : heard'[d] = heard[d]
    BY <1>15, <2>1, SendHeard DEF Reply
  <2> QED
    BY <1>15, <2>1, <2>2 DEF Reply
<1>16. CASE BrokenPipe
  BY <1>16 DEF BrokenPipe, net, server, room
<1>17. CASE ShutdownGracefully
  <2>1. ToSet(<<>>) = {} /\ Once(<<>>)
    BY DEF ToSet, Once
  <2> QED
    BY <1>17, <2>1 DEF ShutdownGracefully, net, room
<1>18. CASE UNCHANGED vars
  BY <1>18 DEF vars, net, server, room
<1> QED
  BY <1>1, <1>2, <1>3, <1>4, <1>5, <1>6, <1>7, <1>8, <1>9, <1>10, <1>11, <1>12, <1>13, <1>14,
     <1>15, <1>16, <1>17, <1>18
     DEF Next, Main

\* Every step keeps the pointers of the loops good.
LEMMA PointerStep == IInv /\ [Next]_vars => PointerInv'
<1> SUFFICES ASSUME IInv, [Next]_vars PROVE PointerInv'
  OBVIOUS
<1>0. /\ Null \notin Client /\ TypeInv /\ PointerInv /\ Once(clients)
      /\ ToSet(clients) \subseteq Client /\ ToSet(backlog) \subseteq Client
      /\ ToSet(<<>>) = {} /\ Once(<<>>)
  BY ChatServerAssumption, Current DEF IInv, MemberInv, ToSet, Once
<1> USE <1>0 DEF PointerInv, Over
<1>1. ASSUME NEW c \in Client, Connect(c) PROVE PointerInv'
  BY <1>1 DEF Connect, room, server
<1>2. ASSUME NEW c \in Client, Write(c) PROVE PointerInv'
  BY <1>2 DEF Write, room, server
<1>3. ASSUME NEW c \in Client, Read(c) PROVE PointerInv'
  BY <1>3 DEF Read, room, server
<1>4. ASSUME NEW c \in Client, Close(c) PROVE PointerInv'
  BY <1>4 DEF Close, room, server
<1>5. CASE RequestStop
  BY <1>5 DEF RequestStop, net, server, room
<1>6. CASE Select
  <2>1. ToSet(readable') \subseteq ToSet(clients) /\ Once(readable')
    BY <1>6, OnlyFacts DEF Select, TypeInv
  <2>2. ToSet(clients) \subseteq ToSet(clients')
    <3>1. CASE backlog = <<>>
      BY <1>6, <3>1 DEF Select
    <3>2. CASE backlog # <<>>
      <4>1. Head(backlog) \in Client /\ clients' = Append(clients, Head(backlog))
        BY <1>6, <3>2, TailFacts DEF Select, TypeInv
      <4> QED
        BY <4>1, AppendFacts DEF TypeInv
    <3> QED
      BY <3>1, <3>2
  <2>3. pc = "select" /\ pc' = "process" /\ UNCHANGED <<cli, pending>>
    BY <1>6 DEF Select
  <2>4. cli = Null /\ pending = <<>>
    BY <2>3
  <2> QED
    BY <2>1, <2>2, <2>3, <2>4
<1>7. CASE Receive
  <2> DEFINE c == Head(readable)
  <2>1. /\ pc = "process" /\ cli = Null /\ pending = <<>> /\ pending' = <<>>
        /\ Once(readable) /\ ToSet(readable) \subseteq ToSet(clients)
        /\ readable' = Tail(readable)
    BY <1>7 DEF Receive
  <2>2. /\ c \in Client /\ c \in ToSet(clients) /\ Once(readable')
        /\ ToSet(readable') \subseteq ToSet(clients) \ {c}
    BY <1>7, <2>1, TailFacts DEF Receive, TypeInv
  <2>3. CASE DisconnectClient(c) /\ cli' = cli /\ pc' = pc
    <3>1. ToSet(clients') = ToSet(clients) \cap (Client \ {c})
      BY <2>3, OnlyFacts DEF DisconnectClient, TypeInv
    <3> HIDE DEF c
    <3> QED
      BY <2>1, <2>2, <2>3, <3>1
  <2>4. CASE cli' = c /\ pc' = "parse" /\ clients' = clients
    <3> HIDE DEF c
    <3> QED
      BY <2>1, <2>2, <2>4
  <2> QED
    BY <1>7, <2>3, <2>4 DEF Receive
<1>8. CASE EndOfRound
  BY <1>8 DEF EndOfRound, net, room
<1>9. CASE NeedMoreData
  BY <1>9 DEF NeedMoreData, net, room
<1>10. CASE InvalidPacket
  <2>1. /\ pc = "parse" /\ pc' = "process" /\ cli' = Null /\ UNCHANGED <<readable, pending>>
        /\ clients' = Only(clients, Client \ {cli})
    BY <1>10 DEF InvalidPacket, DisconnectClient
  <2>2. ToSet(clients') = ToSet(clients) \cap (Client \ {cli})
    BY <2>1, OnlyFacts DEF TypeInv
  <2> QED
    BY <2>1, <2>2
<1>11. CASE TryParse
  <2>1. pc' \in {"parse", "reply", "dispatch", "broadcast"} \/ pc' \in Over
    BY <1>11 DEF TryParse, Create
  <2>2. UNCHANGED <<clients, readable, cli, pending>> /\ pc = "parse"
    BY <1>11 DEF TryParse
  <2> QED
    BY <2>1, <2>2
<1>12. CASE Dispatch
  BY <1>12 DEF Dispatch, net, room
<1>13. CASE BroadCast
  <2>1. /\ pc = "broadcast" /\ pc' = "relay" /\ UNCHANGED <<clients, readable, cli>>
        /\ pending' = Only(clients, Client \ {cli})
    BY <1>13 DEF BroadCast
  <2>2. Once(pending') /\ ToSet(pending') = ToSet(clients) \cap (Client \ {cli})
    BY <2>1, OnlyFacts DEF TypeInv
  <2> QED
    BY <2>1, <2>2
<1>14. CASE Relay
  <2>1. /\ pc = "relay" /\ pending # <<>> /\ pending' = Tail(pending)
        /\ UNCHANGED <<clients, readable, cli, pc>>
    BY <1>14 DEF Relay
  <2>2. Once(pending') /\ ToSet(pending') \subseteq ToSet(pending)
    BY <2>1, TailFacts DEF TypeInv
  <2> QED
    BY <2>1, <2>2
<1>15. CASE Reply
  BY <1>15 DEF Reply, AtReply
<1>16. CASE BrokenPipe
  BY <1>16 DEF BrokenPipe, net, server, room
<1>17. CASE ShutdownGracefully
  BY <1>17 DEF ShutdownGracefully, net, room
<1>18. CASE UNCHANGED vars
  BY <1>18 DEF vars, net, server, room
<1> QED
  BY <1>1, <1>2, <1>3, <1>4, <1>5, <1>6, <1>7, <1>8, <1>9, <1>10, <1>11, <1>12, <1>13, <1>14,
     <1>15, <1>16, <1>17, <1>18
     DEF Next, Main

\* The streams are the same, and so is the packet in hand.
LEMMA StreamFrame ==
  ASSUME StreamInv,
         UNCHANGED <<packets, written, buffer, wire, joined, log>>,
         ToSet(clients') \subseteq ToSet(clients),
         \/ pc \notin {"dispatch", "broadcast"} /\ pc' \notin {"dispatch", "broadcast"}
         \/ UNCHANGED <<cli, packet, pc>>
         \/ /\ pc \in {"dispatch", "broadcast"} /\ pc' \in {"dispatch", "broadcast"}
            /\ UNCHANGED <<cli, packet>>
  PROVE  StreamInv'
<1> SUFFICES ASSUME NEW c \in Client
             PROVE  /\ written[c] <= Len(packets[c])
                    /\ \E t \in 0 .. written[c] :
                         /\ Taken(c, t)'
                         /\ c \in ToSet(clients') \/ joined[c] = Null => Logged(c, t)'
  BY DEF StreamInv
<1>1. PICK t \in 0 .. written[c] :
        /\ Taken(c, t)
        /\ c \in ToSet(clients) \/ joined[c] = Null => Logged(c, t)
  BY DEF StreamInv
<1>2. Taken(c, t)'
  BY <1>1 DEF Taken
<1>3. ASSUME Logged(c, t) PROVE Logged(c, t)'
  <2>1. \A k \in 1 .. Len(packets[c]) : InHand(c, k) <=> InHand(c, k)'
    BY DEF InHand
  <2>2. pc' \in {"dispatch", "broadcast"} /\ cli' = c => packet' = t
    BY <1>3 DEF Logged
  <2>3. \A k \in 1 .. Len(packets[c]) :
          Contains(log, <<c, k>>) <=> packets[c][k] \in Spoken /\ k <= t /\ ~InHand(c, k)'
    BY <1>3, <2>1 DEF Logged
  <2> HIDE DEF InHand
  <2> QED
    BY <2>2, <2>3 DEF Logged
<1>4. c \in ToSet(clients') \/ joined[c] = Null => Logged(c, t)'
  BY <1>1, <1>3
<1>5. written[c] <= Len(packets[c])
  BY DEF StreamInv
<1> QED
  BY <1>1, <1>2, <1>4, <1>5

\* An empty stream: every packet that was sent is taken.
LEMMA StreamEmpty == \A n \in Nat : Stream(<<>>, <<>>, n, n)
BY DEF Stream

\* A packet is sent.
LEMMA StreamSent ==
  ASSUME NEW b \in Seq(Piece), NEW w \in Seq(Piece), NEW n \in Nat, NEW t \in Nat,
         Stream(b, w, t, n)
  PROVE  Stream(b, w \o <<<<n + 1, "head">>, <<n + 1, "rest">>>>, t, n + 1)
<1> DEFINE new == <<<<n + 1, "head">>, <<n + 1, "rest">>>>
           v == w \o new
<1>1. Len(b) \in Nat /\ Len(w) \in Nat /\ Len(b) + Len(w) = 2 * (n - t)
  BY DEF Stream
<1>2. new \in Seq(Piece) /\ Len(new) = 2 /\ new[1] = <<n + 1, "head">> /\ new[2] = <<n + 1, "rest">>
  <2>1. <<n + 1, "head">> \in Piece /\ <<n + 1, "rest">> \in Piece
    BY DEF Piece
  <2> QED
    BY <2>1
<1>3. /\ Len(v) = Len(w) + 2 /\ \A i \in 1 .. Len(w) : v[i] = w[i]
      /\ v[Len(w) + 1] = new[1] /\ v[Len(w) + 2] = new[2]
  <2> HIDE DEF new
  <2>1. /\ Len(w \o new) = Len(w) + Len(new)
        /\ \A i \in 1 .. Len(w) + Len(new) :
             (w \o new)[i] = IF i <= Len(w) THEN w[i] ELSE new[i - Len(w)]
    BY <1>2, ConcatProperties
  <2>2. /\ \A i \in 1 .. Len(w) : i \in 1 .. Len(w) + 2 /\ i <= Len(w)
        /\ \A i \in 1 .. 2 : /\ Len(w) + i \in 1 .. Len(w) + 2 /\ ~(Len(w) + i <= Len(w))
                             /\ (Len(w) + i) - Len(w) = i
    BY <1>1
  <2>3. 1 \in 1 .. 2 /\ 2 \in 1 .. 2
    OBVIOUS
  <2> QED
    BY <1>2, <2>1, <2>2, <2>3
<1>4. /\ IsPiece(new[1], 2 * t + Len(b) + (Len(w) + 1))
      /\ IsPiece(new[2], 2 * t + Len(b) + (Len(w) + 2))
  <2>1. /\ 2 * (n + 1) = (2 * t + Len(b) + (Len(w) + 1)) + 1
        /\ 2 * (n + 1) = 2 * t + Len(b) + (Len(w) + 2)
    BY <1>1
  <2> QED
    BY <1>2, <2>1 DEF IsPiece
<1> HIDE DEF v, new
<1>5. ASSUME NEW i \in 1 .. Len(v) PROVE IsPiece(v[i], 2 * t + Len(b) + i)
  <2>1. i \in 1 .. Len(w) \/ i = Len(w) + 1 \/ i = Len(w) + 2
    BY <1>1, <1>3
  <2>2. \A j \in 1 .. Len(w) : IsPiece(w[j], 2 * t + Len(b) + j)
    BY DEF Stream
  <2> QED
    BY <1>3, <1>4, <2>1, <2>2
<1>6. Len(b) + Len(v) = 2 * ((n + 1) - t)
  BY <1>1, <1>3
<1>7. \A i \in 1 .. Len(b) : IsPiece(b[i], 2 * t + i)
  BY DEF Stream
<1>8. Stream(b, v, t, n + 1)
  BY <1>5, <1>6, <1>7 DEF Stream
<1> QED
  BY <1>8 DEF v, new

\* Some of what was sent is received.
LEMMA StreamReceived ==
  ASSUME NEW b \in Seq(Piece), NEW w \in Seq(Piece), NEW n \in Nat, NEW t \in Nat,
         Stream(b, w, t, n), NEW k \in 1 .. Len(w)
  PROVE  Stream(b \o SubSeq(w, 1, k), SubSeq(w, k + 1, Len(w)), t, n)
<1> DEFINE got == SubSeq(w, 1, k)
           left == SubSeq(w, k + 1, Len(w))
           all == b \o got
<1>1. Len(b) \in Nat /\ Len(w) \in Nat /\ Len(b) + Len(w) = 2 * (n - t) /\ k \in Nat
      /\ k \in 0 .. Len(w)
  BY DEF Stream
<1>2. /\ got \in Seq(Piece) /\ Len(got) = k /\ \A i \in 1 .. k : got[i] = w[i]
      /\ left \in Seq(Piece) /\ Len(left) = Len(w) - k
      /\ \A i \in 1 .. Len(w) - k : left[i] = w[k + i]
  BY <1>1, Cut
<1> HIDE DEF got, left
<1>3. /\ Len(all) = Len(b) + k
      /\ \A i \in 1 .. Len(b) + k : all[i] = IF i <= Len(b) THEN b[i] ELSE got[i - Len(b)]
  BY <1>2, ConcatProperties
<1>4. /\ \A i \in 1 .. Len(b) : IsPiece(b[i], 2 * t + i)
      /\ \A i \in 1 .. Len(w) : IsPiece(w[i], 2 * t + Len(b) + i)
  BY DEF Stream
<1> HIDE DEF all
<1>5. ASSUME NEW i \in 1 .. Len(all) PROVE IsPiece(all[i], 2 * t + i)
  <2>1. CASE i <= Len(b)
    <3>1. i \in 1 .. Len(b) /\ i \in 1 .. Len(b) + k
      BY <1>1, <1>3, <2>1
    <3> QED
      BY <1>3, <1>4, <2>1, <3>1
  <2>2. CASE ~(i <= Len(b))
    <3> DEFINE j == i - Len(b)
    <3>1. /\ j \in 1 .. k /\ j \in 1 .. Len(w) /\ i \in 1 .. Len(b) + k
          /\ 2 * t + Len(b) + j = 2 * t + i
      BY <1>1, <1>3, <2>2
    <3>2. all[i] = w[j]
      BY <1>2, <1>3, <2>2, <3>1
    <3>3. IsPiece(w[j], 2 * t + Len(b) + j)
      BY <1>4, <3>1
    <3> QED
      BY <3>1, <3>2, <3>3
  <2> QED
    BY <2>1, <2>2
<1>6. ASSUME NEW i \in 1 .. Len(left) PROVE IsPiece(left[i], 2 * t + Len(all) + i)
  <2>1. /\ i \in 1 .. Len(w) - k /\ k + i \in 1 .. Len(w)
        /\ 2 * t + Len(b) + (k + i) = 2 * t + Len(all) + i
    BY <1>1, <1>2, <1>3
  <2>2. IsPiece(w[k + i], 2 * t + Len(b) + (k + i))
    BY <1>4, <2>1
  <2> QED
    BY <1>2, <2>1, <2>2
<1>7. Len(all) + Len(left) = 2 * (n - t)
  <2>1. (Len(b) + k) + (Len(w) - k) = Len(b) + Len(w)
    BY <1>1
  <2>2. Len(all) = Len(b) + k /\ Len(left) = Len(w) - k
    BY <1>2, <1>3
  <2> QED
    BY <1>1, <2>1, <2>2
<1>8. Stream(all, left, t, n)
  BY <1>5, <1>6, <1>7 DEF Stream
<1> QED
  BY <1>8 DEF all, got, left

\* A whole packet in the buffer is the next one of its client, and can be cut out.
LEMMA StreamTaken ==
  ASSUME NEW b \in Seq(Piece), NEW w \in Seq(Piece), NEW n \in Nat, NEW t \in Nat,
         Stream(b, w, t, n), Len(b) >= 2
  PROVE  /\ b[1][1] = t + 1 /\ t + 1 <= n
         /\ Stream(SubSeq(b, 3, Len(b)), w, t + 1, n)
<1> DEFINE left == SubSeq(b, 3, Len(b))
<1>1. Len(b) \in Nat /\ Len(w) \in Nat /\ Len(b) + Len(w) = 2 * (n - t)
  BY DEF Stream
<1>2. /\ \A i \in 1 .. Len(b) : IsPiece(b[i], 2 * t + i)
      /\ \A i \in 1 .. Len(w) : IsPiece(w[i], 2 * t + Len(b) + i)
  BY DEF Stream
<1>3. 1 \in 1 .. Len(b) /\ 2 \in 0 .. Len(b) /\ 2 + 1 = 3
  BY <1>1
<1>4. b[1][1] = t + 1
  <2>1. b[1] \in Piece /\ IsPiece(b[1], 2 * t + 1)
    BY <1>2, <1>3
  <2>2. b[1][1] \in Nat
    BY <2>1 DEF Piece
  <2>3. 2 * b[1][1] = (2 * t + 1) + 1 \/ 2 * b[1][1] = 2 * t + 1
    BY <2>1 DEF IsPiece
  <2>4. \A x, u \in Nat : 2 * x = (2 * u + 1) + 1 \/ 2 * x = 2 * u + 1 => x = u + 1
    OBVIOUS
  <2> QED
    BY <2>2, <2>3, <2>4
<1>5. t + 1 <= n
  BY <1>1
<1>6. Len(left) = Len(b) - 2 /\ \A i \in 1 .. Len(b) - 2 : left[i] = b[2 + i]
  <2>1. /\ Len(SubSeq(b, 2 + 1, Len(b))) = Len(b) - 2
        /\ \A i \in 1 .. Len(b) - 2 : SubSeq(b, 2 + 1, Len(b))[i] = b[2 + i]
    BY <1>3, Cut
  <2> QED
    BY <1>3, <2>1
<1> HIDE DEF left
<1>7. ASSUME NEW i \in 1 .. Len(left) PROVE IsPiece(left[i], 2 * (t + 1) + i)
  <2>1. i \in 1 .. Len(b) - 2 /\ 2 + i \in 1 .. Len(b) /\ 2 * t + (2 + i) = 2 * (t + 1) + i
    BY <1>1, <1>6
  <2>2. IsPiece(b[2 + i], 2 * t + (2 + i))
    BY <1>2, <2>1
  <2> QED
    BY <1>6, <2>1, <2>2
<1>8. ASSUME NEW i \in 1 .. Len(w) PROVE IsPiece(w[i], 2 * (t + 1) + Len(left) + i)
  <2>1. 2 * t + Len(b) + i = 2 * (t + 1) + Len(left) + i
    BY <1>1, <1>6
  <2> QED
    BY <1>2, <2>1
<1>9. Len(left) + Len(w) = 2 * (n - (t + 1))
  BY <1>1, <1>6
<1>10. Stream(left, w, t + 1, n)
  BY <1>7, <1>8, <1>9 DEF Stream
<1> QED
  BY <1>4, <1>5, <1>10 DEF left

\* Every step keeps the streams whole.
LEMMA StreamStep == IInv /\ [Next]_vars => StreamInv'
<1> SUFFICES ASSUME IInv, [Next]_vars PROVE StreamInv'
  OBVIOUS
<1>0. /\ Null \notin Nat /\ Null \notin Client /\ TypeInv /\ MemberInv /\ PointerInv /\ StreamInv
      /\ HandInv /\ ToSet(clients) \subseteq Client /\ ToSet(backlog) \subseteq Client
      /\ \A c \in Client : packets[c] \in Seq(Kind)
      /\ clients \in Seq(Client) /\ backlog \in Seq(Client) /\ log \in Seq(Message)
  BY ChatServerAssumption, Current DEF IInv, TypeInv
<1> USE <1>0
<1>1. ASSUME NEW c \in Client, Connect(c) PROVE StreamInv'
  <2>1. UNCHANGED <<packets, written, buffer, wire, joined, log, clients>>
    BY <1>1 DEF Connect, room, server
  <2>2. UNCHANGED <<cli, packet, pc>>
    BY <1>1 DEF Connect, room, server
  <2> QED
    BY <2>1, <2>2, StreamFrame
<1>2. ASSUME NEW c \in Client, Write(c) PROVE StreamInv'
  <2> SUFFICES ASSUME NEW d \in Client
               PROVE  /\ written'[d] <= Len(packets'[d])
                      /\ \E t \in 0 .. written'[d] :
                           /\ Taken(d, t)'
                           /\ d \in ToSet(clients') \/ joined'[d] = Null => Logged(d, t)'
    BY DEF StreamInv
  <2>0. PICK t \in 0 .. written[d] :
          /\ Taken(d, t) /\ written[d] <= Len(packets[d])
          /\ d \in ToSet(clients) \/ joined[d] = Null => Logged(d, t)
    BY DEF StreamInv
  <2>a. written[d] \in Nat /\ buffer[d] \in Seq(Piece) /\ wire[d] \in Seq(Piece)
    BY DEF TypeInv
  <2>b. t \in Nat /\ Len(packets[d]) \in Nat
    BY <2>a
  <2>1. UNCHANGED <<packets, buffer, clients, joined, log, cli, packet, pc>>
    BY <1>2 DEF Write, room, server
  <2>2. Logged(d, t) => Logged(d, t)'
    BY <2>1 DEF Logged, InHand
  <2>3. CASE d # c
    <3>1. written'[d] = written[d] /\ wire'[d] = wire[d]
      BY <1>2, <2>3 DEF Write, TypeInv
    <3>2. Taken(d, t)'
      BY <2>0, <2>1, <3>1 DEF Taken
    <3> QED
      BY <2>0, <2>1, <2>2, <3>1, <3>2
  <2>4. CASE d = c
    <3> DEFINE n == written[d] + 1
    <3>1. /\ written'[d] = n /\ wire'[d] = wire[d] \o <<<<n, "head">>, <<n, "rest">>>>
          /\ n <= Len(packets[d]) /\ buffer'[d] = buffer[d]
      BY <1>2, <2>1, <2>4 DEF Write, TypeInv
    <3>2. Taken(d, t)'
      <4>1. Stream(buffer[d], wire[d] \o <<<<n, "head">>, <<n, "rest">>>>, t, n)
        BY <2>0, <2>a, <2>b, StreamSent DEF Taken
      <4> QED
        BY <3>1, <4>1, Zenon DEF Taken
    <3>3. t \in 0 .. n
      BY <2>a, <2>b
    <3> HIDE DEF n
    <3> QED
      BY <2>0, <2>1, <2>2, <3>1, <3>2, <3>3
  <2> QED
    BY <2>3, <2>4
<1>3. ASSUME NEW c \in Client, Read(c) PROVE StreamInv'
  <2>1. UNCHANGED <<packets, written, buffer, wire, joined, log, clients>>
    BY <1>3 DEF Read, room, server
  <2>2. UNCHANGED <<cli, packet, pc>>
    BY <1>3 DEF Read, room, server
  <2> QED
    BY <2>1, <2>2, StreamFrame
<1>4. ASSUME NEW c \in Client, Close(c) PROVE StreamInv'
  <2>1. UNCHANGED <<packets, written, buffer, wire, joined, log, clients>>
    BY <1>4 DEF Close, room, server
  <2>2. UNCHANGED <<cli, packet, pc>>
    BY <1>4 DEF Close, room, server
  <2> QED
    BY <2>1, <2>2, StreamFrame
<1>5. CASE RequestStop
  <2>1. UNCHANGED <<packets, written, buffer, wire, joined, log, clients>>
    BY <1>5 DEF RequestStop, net, server, room
  <2>2. UNCHANGED <<cli, packet, pc>>
    BY <1>5 DEF RequestStop, net, server, room
  <2> QED
    BY <2>1, <2>2, StreamFrame
<1>6. CASE Select
  <2> SUFFICES ASSUME NEW d \in Client
               PROVE  /\ written'[d] <= Len(packets'[d])
                      /\ \E t \in 0 .. written'[d] :
                           /\ Taken(d, t)'
                           /\ d \in ToSet(clients') \/ joined'[d] = Null => Logged(d, t)'
    BY DEF StreamInv
  <2>0. PICK t \in 0 .. written[d] :
          /\ Taken(d, t) /\ written[d] <= Len(packets[d])
          /\ d \in ToSet(clients) \/ joined[d] = Null => Logged(d, t)
    BY DEF StreamInv
  <2>a. written[d] \in Nat /\ buffer[d] \in Seq(Piece) /\ wire[d] \in Seq(Piece)
    BY DEF TypeInv
  <2>b. t \in Nat /\ Len(packets[d]) \in Nat
    BY <2>a
  <2>1. UNCHANGED <<packets, buffer, written, wire, log, cli, packet>>
    BY <1>6 DEF Select
  <2>2. pc = "select" /\ pc' = "process"
    BY <1>6 DEF Select
  <2>3. Logged(d, t) => Logged(d, t)'
    BY <2>1, <2>2 DEF Logged, InHand
  <2>4. Taken(d, t)'
    BY <2>0, <2>1 DEF Taken
  <2>5. d \in ToSet(clients') \/ joined'[d] = Null => d \in ToSet(clients) \/ joined[d] = Null
    <3>1. CASE backlog = <<>>
      BY <1>6, <3>1 DEF Select
    <3>2. CASE backlog # <<>>
      <4>1. /\ Head(backlog) \in Client /\ clients' = Append(clients, Head(backlog))
            /\ joined' = [joined EXCEPT ![Head(backlog)] = Len(log)]
            /\ Head(backlog) \in ToSet(backlog)
        <5>1. Head(backlog) \in Client /\ Head(backlog) \in ToSet(backlog)
          BY <3>2, TailFacts
        <5> QED
          BY <1>6, <3>2, <5>1 DEF Select
      <4>2. ToSet(clients') = ToSet(clients) \cup {Head(backlog)}
        BY <4>1, AppendFacts
      <4>3. joined[Head(backlog)] = Null
        BY <4>1 DEF MemberInv
      <4>4. d # Head(backlog) => joined'[d] = joined[d]
        BY <4>1 DEF TypeInv
      <4> QED
        BY <4>2, <4>3, <4>4
    <3> QED
      BY <3>1, <3>2
  <2> QED
    BY <2>0, <2>1, <2>3, <2>4, <2>5
<1>7. CASE Receive
  <2> SUFFICES ASSUME NEW d \in Client
               PROVE  /\ written'[d] <= Len(packets'[d])
                      /\ \E t \in 0 .. written'[d] :
                           /\ Taken(d, t)'
                           /\ d \in ToSet(clients') \/ joined'[d] = Null => Logged(d, t)'
    BY DEF StreamInv
  <2>0. PICK t \in 0 .. written[d] :
          /\ Taken(d, t) /\ written[d] <= Len(packets[d])
          /\ d \in ToSet(clients) \/ joined[d] = Null => Logged(d, t)
    BY DEF StreamInv
  <2>a. written[d] \in Nat /\ buffer[d] \in Seq(Piece) /\ wire[d] \in Seq(Piece)
    BY DEF TypeInv
  <2>b. t \in Nat /\ Len(packets[d]) \in Nat
    BY <2>a
  <2> DEFINE c == Head(readable)
  <2>1. UNCHANGED <<packets, written, joined, log, packet>>
    BY <1>7 DEF Receive, room
  <2>2. c \in Client /\ c \in ToSet(clients)
    <3>1. readable # <<>> /\ readable \in Seq(Client) /\ ToSet(readable) \subseteq ToSet(clients)
      BY <1>7 DEF Receive, PointerInv, Over, TypeInv
    <3> QED
      BY <3>1, TailFacts
  <2>3. Logged(d, t) => Logged(d, t)'
    <3>1. pc = "process" /\ pc' \in {"process", "parse"}
      BY <1>7 DEF Receive
    <3> QED
      BY <2>1, <3>1 DEF Logged, InHand
  <2> HIDE DEF c
  <2>4. CASE DisconnectClient(c)
    <3>1. clients' = Only(clients, Client \ {c})
          /\ buffer' = [buffer EXCEPT ![c] = <<>>] /\ wire' = [wire EXCEPT ![c] = <<>>]
      BY <2>4 DEF DisconnectClient
    <3>2. ToSet(clients') = ToSet(clients) \cap (Client \ {c})
      BY <3>1, OnlyFacts DEF TypeInv
    <3>3. CASE d = c
      <4>1. buffer'[d] = <<>> /\ wire'[d] = <<>>
        BY <3>1, <3>3 DEF TypeInv
      <4>2. Taken(d, written[d])'
        BY <2>1, <2>a, <4>1, StreamEmpty DEF Taken
      <4>3. d \notin ToSet(clients') /\ joined'[d] # Null
        BY <2>1, <2>2, <3>2, <3>3 DEF MemberInv
      <4> QED
        BY <2>0, <2>1, <2>a, <4>2, <4>3
    <3>4. CASE d # c
      <4>1. buffer'[d] = buffer[d] /\ wire'[d] = wire[d]
        BY <3>1, <3>4 DEF TypeInv
      <4>2. Taken(d, t)'
        BY <2>0, <2>1, <4>1 DEF Taken
      <4> QED
        BY <2>0, <2>1, <2>3, <3>2, <4>2
    <3> QED
      BY <3>3, <3>4
  <2>5. CASE \E k \in 1 .. Len(wire[c]) :
               /\ buffer' = [buffer EXCEPT ![c] = @ \o SubSeq(wire[c], 1, k)]
               /\ wire' = [wire EXCEPT ![c] = SubSeq(@, k + 1, Len(@))]
               /\ clients' = clients
    <3>1. PICK k \in 1 .. Len(wire[c]) :
               /\ buffer' = [buffer EXCEPT ![c] = @ \o SubSeq(wire[c], 1, k)]
               /\ wire' = [wire EXCEPT ![c] = SubSeq(@, k + 1, Len(@))]
               /\ clients' = clients
      BY <2>5
    <3>2. CASE d # c
      <4>1. buffer'[d] = buffer[d] /\ wire'[d] = wire[d]
        BY <3>1, <3>2 DEF TypeInv
      <4>2. Taken(d, t)'
        BY <2>0, <2>1, <4>1 DEF Taken
      <4> QED
        BY <2>0, <2>1, <2>3, <3>1, <4>2
    <3>3. CASE d = c
      <4>1. /\ buffer'[d] = buffer[d] \o SubSeq(wire[d], 1, k)
            /\ wire'[d] = SubSeq(wire[d], k + 1, Len(wire[d])) /\ written'[d] = written[d]
        BY <2>1, <3>1, <3>3 DEF TypeInv
      <4>2. Taken(d, t)'
        <5>1. k \in 1 .. Len(wire[d])
          BY <3>3
        <5>2. Stream(buffer[d] \o SubSeq(wire[d], 1, k), SubSeq(wire[d], k + 1, Len(wire[d])),
                     t, written[d])
          BY <2>0, <2>a, <2>b, <5>1, StreamReceived DEF Taken
        <5> QED
          BY <4>1, <5>2, Zenon DEF Taken
      <4> QED
        BY <2>0, <2>1, <2>3, <3>1, <4>2
    <3> QED
      BY <3>2, <3>3
  <2> QED
    BY <1>7, <2>4, <2>5 DEF Receive, c
<1>8. CASE EndOfRound
  <2>1. UNCHANGED <<packets, written, buffer, wire, joined, log, clients>>
    BY <1>8 DEF EndOfRound, net, room
  <2>2. pc \notin {"dispatch", "broadcast"} /\ pc' \notin {"dispatch", "broadcast"}
    BY <1>8 DEF EndOfRound, net, room
  <2> QED
    BY <2>1, <2>2, StreamFrame
<1>9. CASE NeedMoreData
  <2>1. UNCHANGED <<packets, written, buffer, wire, joined, log, clients>>
    BY <1>9 DEF NeedMoreData, net, room
  <2>2. pc \notin {"dispatch", "broadcast"} /\ pc' \notin {"dispatch", "broadcast"}
    BY <1>9 DEF NeedMoreData, net, room
  <2> QED
    BY <2>1, <2>2, StreamFrame
<1>10. CASE InvalidPacket
  <2> SUFFICES ASSUME NEW d \in Client
               PROVE  /\ written'[d] <= Len(packets'[d])
                      /\ \E t \in 0 .. written'[d] :
                           /\ Taken(d, t)'
                           /\ d \in ToSet(clients') \/ joined'[d] = Null => Logged(d, t)'
    BY DEF StreamInv
  <2>0. PICK t \in 0 .. written[d] :
          /\ Taken(d, t) /\ written[d] <= Len(packets[d])
          /\ d \in ToSet(clients) \/ joined[d] = Null => Logged(d, t)
    BY DEF StreamInv
  <2>a. written[d] \in Nat /\ buffer[d] \in Seq(Piece) /\ wire[d] \in Seq(Piece)
    BY DEF TypeInv
  <2>b. t \in Nat /\ Len(packets[d]) \in Nat
    BY <2>a
  <2>1. UNCHANGED <<packets, written, joined, log, packet>>
    BY <1>10 DEF InvalidPacket, room
  <2>2. cli \in Client /\ cli \in ToSet(clients)
    BY <1>10, Current DEF InvalidPacket, Over
  <2>3. Logged(d, t) => Logged(d, t)'
    <3>1. pc = "parse" /\ pc' = "process"
      BY <1>10 DEF InvalidPacket
    <3> QED
      BY <2>1, <3>1 DEF Logged, InHand
  <2>4. DisconnectClient(cli)
    BY <1>10 DEF InvalidPacket
  <2>5. QED
    <3>1. clients' = Only(clients, Client \ {cli})
          /\ buffer' = [buffer EXCEPT ![cli] = <<>>] /\ wire' = [wire EXCEPT ![cli] = <<>>]
      BY <2>4 DEF DisconnectClient
    <3>2. ToSet(clients') = ToSet(clients) \cap (Client \ {cli})
      BY <3>1, OnlyFacts DEF TypeInv
    <3>3. CASE d = cli
      <4>1. buffer'[d] = <<>> /\ wire'[d] = <<>>
        BY <3>1, <3>3 DEF TypeInv
      <4>2. Taken(d, written[d])'
        BY <2>1, <2>a, <4>1, StreamEmpty DEF Taken
      <4>3. d \notin ToSet(clients') /\ joined'[d] # Null
        BY <2>1, <2>2, <3>2, <3>3 DEF MemberInv
      <4> QED
        BY <2>0, <2>1, <2>a, <4>2, <4>3
    <3>4. CASE d # cli
      <4>1. buffer'[d] = buffer[d] /\ wire'[d] = wire[d]
        BY <3>1, <3>4 DEF TypeInv
      <4>2. Taken(d, t)'
        BY <2>0, <2>1, <4>1 DEF Taken
      <4> QED
        BY <2>0, <2>1, <2>3, <3>2, <4>2
    <3> QED
      BY <3>3, <3>4
<1>11. CASE TryParse
  <2> SUFFICES ASSUME NEW d \in Client
               PROVE  /\ written'[d] <= Len(packets'[d])
                      /\ \E t \in 0 .. written'[d] :
                           /\ Taken(d, t)'
                           /\ d \in ToSet(clients') \/ joined'[d] = Null => Logged(d, t)'
    BY DEF StreamInv
  <2>0. PICK t \in 0 .. written[d] :
          /\ Taken(d, t) /\ written[d] <= Len(packets[d])
          /\ d \in ToSet(clients) \/ joined[d] = Null => Logged(d, t)
    BY DEF StreamInv
  <2>a. written[d] \in Nat /\ buffer[d] \in Seq(Piece) /\ wire[d] \in Seq(Piece)
    BY DEF TypeInv
  <2>b. t \in Nat /\ Len(packets[d]) \in Nat
    BY <2>a
  <2>1. UNCHANGED <<packets, written, wire, clients, joined, log, cli>>
        /\ buffer' = [buffer EXCEPT ![cli] = Erase(buffer[cli])]
        /\ pc = "parse" /\ cli \in Client /\ cli \in ToSet(clients) /\ Len(buffer[cli]) >= 2
    BY <1>11, Current DEF TryParse, net, room, Over, Complete
  <2>2. CASE d # cli
    <3>1. buffer'[d] = buffer[d]
      BY <2>1, <2>2 DEF TypeInv
    <3>2. Taken(d, t)'
      BY <2>0, <2>1, <3>1 DEF Taken
    <3>3. Logged(d, t) => Logged(d, t)'
      BY <2>1, <2>2 DEF Logged, InHand
    <3> QED
      BY <2>0, <2>1, <3>2, <3>3
  <2>3. CASE d = cli
    <3>1. /\ buffer[d][1][1] = t + 1 /\ t + 1 <= written[d]
          /\ Stream(SubSeq(buffer[d], 3, Len(buffer[d])), wire[d], t + 1, written[d])
      BY <2>0, <2>1, <2>3, <2>a, <2>b, StreamTaken DEF Taken
    <3>2. /\ buffer'[d] = SubSeq(buffer[d], 3, Len(buffer[d]))
          /\ wire'[d] = wire[d] /\ written'[d] = written[d]
      BY <2>1, <2>3 DEF TypeInv, Erase
    <3>4. Taken(d, t + 1)'
      BY <3>1, <3>2, Zenon DEF Taken
    <3>5. Logged(d, t)
      BY <2>0, <2>1, <2>3
    <3>6. t + 1 \in 1 .. Len(packets[d]) /\ t + 1 \in 0 .. written[d]
      BY <2>0, <2>a, <2>b, <3>1
    <3>7. IF packets[d][t + 1] \in Spoken
          THEN pc' \in {"dispatch", "broadcast"} /\ packet' = t + 1
          ELSE pc' \notin {"dispatch", "broadcast"}
      BY <1>11, <2>3, <3>1 DEF TryParse, Create, Spoken, Answered, TooLong
    <3>8. Logged(d, t + 1)'
      <4>1. ASSUME NEW k \in 1 .. Len(packets[d])
            PROVE  Contains(log, <<d, k>>) <=>
                     packets[d][k] \in Spoken /\ k <= t + 1 /\ ~InHand(d, k)'
        <5>1. Contains(log, <<d, k>>) <=> packets[d][k] \in Spoken /\ k <= t
          BY <2>1, <3>5 DEF Logged, InHand
        <5>2. k <= t + 1 <=> k <= t \/ k = t + 1
          BY <2>b
        <5>3. k <= t => k # t + 1
          BY <2>b
        <5> QED
          BY <2>1, <2>3, <3>7, <5>1, <5>2, <5>3 DEF InHand
      <4>2. pc' \in {"dispatch", "broadcast"} => packet' = t + 1
        BY <3>7
      <4> QED
        BY <2>1, <4>1, <4>2 DEF Logged
    <3> QED
      BY <2>0, <2>1, <3>4, <3>6, <3>8
  <2> QED
    BY <2>2, <2>3
<1>12. CASE Dispatch
  <2>1. UNCHANGED <<packets, written, buffer, wire, joined, log, clients>>
    BY <1>12 DEF Dispatch, net, room
  <2>2. /\ pc \in {"dispatch", "broadcast"} /\ pc' \in {"dispatch", "broadcast"}
        /\ UNCHANGED <<cli, packet>>
    BY <1>12 DEF Dispatch, net, room
  <2> QED
    BY <2>1, <2>2, StreamFrame
<1>13. CASE BroadCast
  <2> SUFFICES ASSUME NEW d \in Client
               PROVE  /\ written'[d] <= Len(packets'[d])
                      /\ \E t \in 0 .. written'[d] :
                           /\ Taken(d, t)'
                           /\ d \in ToSet(clients') \/ joined'[d] = Null => Logged(d, t)'
    BY DEF StreamInv
  <2>0. PICK t \in 0 .. written[d] :
          /\ Taken(d, t) /\ written[d] <= Len(packets[d])
          /\ d \in ToSet(clients) \/ joined[d] = Null => Logged(d, t)
    BY DEF StreamInv
  <2>a. written[d] \in Nat /\ buffer[d] \in Seq(Piece) /\ wire[d] \in Seq(Piece)
    BY DEF TypeInv
  <2>b. t \in Nat /\ Len(packets[d]) \in Nat
    BY <2>a
  <2>1. UNCHANGED <<packets, written, wire, buffer, clients, joined, cli, packet>>
        /\ log' = Append(log, <<cli, packet>>) /\ pc = "broadcast" /\ pc' = "relay"
    BY <1>13 DEF BroadCast, net, server
  <2>2. /\ cli \in Client /\ cli \in ToSet(clients) /\ <<cli, packet>> \in Message
        /\ log \in Seq(Message) /\ packets[cli][packet] \in Spoken
    BY <2>1, Current DEF Handling, HandInv, TypeInv
  <2>3. \A y : Contains(log', y) <=> Contains(log, y) \/ y = <<cli, packet>>
    <3>1. \A y : Contains(Append(log, <<cli, packet>>), y) <=> Contains(log, y) \/ y = <<cli,
       packet>>
      BY <2>2, AppendFacts
    <3> QED
      BY <2>1, <3>1
  <2>4. Taken(d, t)'
    BY <2>0, <2>1 DEF Taken
  <2>5. ASSUME Logged(d, t) PROVE Logged(d, t)'
    <3>1. ASSUME NEW k \in 1 .. Len(packets[d])
          PROVE  Contains(log', <<d, k>>) <=> packets[d][k] \in Spoken /\ k <= t
      <4>1. Contains(log, <<d, k>>) <=> packets[d][k] \in Spoken /\ k <= t /\ ~InHand(d, k)
        BY <2>5 DEF Logged
      <4>2. InHand(d, k) <=> <<d, k>> = <<cli, packet>>
        BY <2>1 DEF InHand
      <4>3. <<d, k>> = <<cli, packet>> => packets[d][k] \in Spoken /\ k <= t
        <5>1. cli = d => packet = t
          BY <2>1, <2>5 DEF Logged
        <5> QED
          BY <2>2, <5>1
      <4> QED
        BY <2>3, <4>1, <4>2, <4>3
    <3> QED
      BY <2>1, <3>1 DEF Logged, InHand
  <2> QED
    BY <2>0, <2>1, <2>4, <2>5
<1>14. CASE Relay
  <2>1. UNCHANGED <<packets, written, buffer, wire, joined, log, clients>>
    BY <1>14 DEF Relay
  <2>2. UNCHANGED <<cli, packet, pc>>
    BY <1>14 DEF Relay
  <2> QED
    BY <2>1, <2>2, StreamFrame
<1>15. CASE Reply
  <2>1. UNCHANGED <<packets, written, buffer, wire, joined, log, clients>>
    BY <1>15 DEF Reply
  <2>2. pc \notin {"dispatch", "broadcast"} /\ pc' \notin {"dispatch", "broadcast"}
    BY <1>15 DEF Reply, AtReply
  <2> QED
    BY <2>1, <2>2, StreamFrame
<1>16. CASE BrokenPipe
  <2>1. UNCHANGED <<packets, written, buffer, wire, joined, log, clients>>
    BY <1>16 DEF BrokenPipe, net, server, room
  <2>2. pc \notin {"dispatch", "broadcast"} /\ pc' \notin {"dispatch", "broadcast"}
    BY <1>16 DEF BrokenPipe, AtReply
  <2> QED
    BY <2>1, <2>2, StreamFrame
<1>17. CASE ShutdownGracefully
  <2>1. UNCHANGED <<packets, written, buffer, wire, joined, log>> /\ ToSet(clients') = {}
    BY <1>17 DEF ShutdownGracefully, net, room, ToSet
  <2>2. pc \notin {"dispatch", "broadcast"} /\ pc' \notin {"dispatch", "broadcast"}
    BY <1>17 DEF ShutdownGracefully
  <2> QED
    BY <2>1, <2>2, StreamFrame
<1>18. CASE UNCHANGED vars
  <2>1. UNCHANGED <<packets, written, buffer, wire, joined, log, clients, cli, packet, pc>>
    BY <1>18 DEF vars, net, server, room
  <2> QED
    BY <2>1, StreamFrame
<1> QED
  BY <1>1, <1>2, <1>3, <1>4, <1>5, <1>6, <1>7, <1>8, <1>9, <1>10, <1>11, <1>12, <1>13, <1>14,
     <1>15, <1>16, <1>17, <1>18
     DEF Next, Main

\* Every step keeps what the handlers have in hand.
LEMMA HandStep == IInv /\ [Next]_vars => HandInv'
<1> SUFFICES ASSUME IInv, [Next]_vars PROVE HandInv'
  OBVIOUS
<1> USE DEF IInv, HandInv, Handling
<1>1. ASSUME NEW c \in Client, Connect(c) PROVE HandInv'
  <2>1. UNCHANGED <<packets, pc, cli, packet, log>>
    BY <1>1 DEF Connect, room, server
  <2> QED
    BY <2>1
<1>2. ASSUME NEW c \in Client, Write(c) PROVE HandInv'
  <2>1. UNCHANGED <<packets, pc, cli, packet, log>>
    BY <1>2 DEF Write, room, server
  <2> QED
    BY <2>1
<1>3. ASSUME NEW c \in Client, Read(c) PROVE HandInv'
  <2>1. UNCHANGED <<packets, pc, cli, packet, log>>
    BY <1>3 DEF Read, room, server
  <2> QED
    BY <2>1
<1>4. ASSUME NEW c \in Client, Close(c) PROVE HandInv'
  <2>1. UNCHANGED <<packets, pc, cli, packet, log>>
    BY <1>4 DEF Close, room, server
  <2> QED
    BY <2>1
<1>5. CASE RequestStop
  <2>1. UNCHANGED <<packets, pc, cli, packet, log>>
    BY <1>5 DEF RequestStop, net, server, room
  <2> QED
    BY <2>1
<1>6. CASE Select
  BY <1>6 DEF Select
<1>7. CASE Receive
  BY <1>7 DEF Receive, room
<1>8. CASE EndOfRound
  BY <1>8 DEF EndOfRound, net, room
<1>9. CASE NeedMoreData
  BY <1>9 DEF NeedMoreData, net, room
<1>10. CASE InvalidPacket
  BY <1>10 DEF InvalidPacket, room
<1>11. CASE TryParse
  <2>1. /\ UNCHANGED <<packets, cli, log>> /\ pc = "parse" /\ cli \in Client
        /\ Len(buffer[cli]) >= 2 /\ packets[cli] \in Seq(Kind)
    BY <1>11, Current DEF TryParse, net, room, Over, Complete
  <2>2. PICK t \in 0 .. written[cli] : Taken(cli, t)
    BY <2>1 DEF StreamInv
  <2>3. /\ written[cli] \in Nat /\ buffer[cli] \in Seq(Piece) /\ wire[cli] \in Seq(Piece)
        /\ written[cli] <= Len(packets[cli])
    BY <2>1 DEF TypeInv, StreamInv
  <2>4. t \in Nat /\ Len(packets[cli]) \in Nat
    BY <2>1, <2>2, <2>3
  <2>5. buffer[cli][1][1] = t + 1 /\ t + 1 <= written[cli]
    BY <2>1, <2>2, <2>3, <2>4, StreamTaken DEF Taken
  <2>6. t + 1 \in 1 .. Len(packets[cli])
    BY <2>3, <2>4, <2>5
  <2>7. /\ pc' = Create(packets[cli][t + 1]) /\ (pc' # "parse" => packet' = t + 1)
    BY <1>11, <2>5 DEF TryParse
  <2> QED
    BY <2>1, <2>6, <2>7 DEF Create, Spoken, Answered, TooLong
<1>12. CASE Dispatch
  BY <1>12 DEF Dispatch, net, room
<1>13. CASE BroadCast
  <2>1. /\ UNCHANGED <<packets, cli, packet>> /\ pc = "broadcast" /\ pc' = "relay"
        /\ log' = Append(log, <<cli, packet>>) /\ log \in Seq(Message) /\ <<cli, packet>> \in
           Message
    BY <1>13, Current DEF BroadCast, net, TypeInv
  <2>2. Len(log') > 0 /\ log'[Len(log')] = <<cli, packet>>
    BY <2>1
  <2> QED
    BY <2>1, <2>2
<1>14. CASE Relay
  <2>1. UNCHANGED <<packets, pc, cli, packet, log>>
    BY <1>14 DEF Relay
  <2> QED
    BY <2>1
<1>15. CASE Reply
  BY <1>15 DEF Reply
<1>16. CASE BrokenPipe
  BY <1>16 DEF BrokenPipe, net, server, room
<1>17. CASE ShutdownGracefully
  BY <1>17 DEF ShutdownGracefully, net, room
<1>18. CASE UNCHANGED vars
  BY <1>18 DEF vars, net, server, room
<1> QED
  BY <1>1, <1>2, <1>3, <1>4, <1>5, <1>6, <1>7, <1>8, <1>9, <1>10, <1>11, <1>12, <1>13, <1>14,
     <1>15, <1>16, <1>17, <1>18
     DEF Next, Main

\* Every step keeps what each client has heard.
LEMMA HearStep == IInv /\ [Next]_vars => HearInv'
<1> SUFFICES ASSUME IInv, [Next]_vars PROVE HearInv'
  OBVIOUS
<1>0. /\ Null \notin Nat /\ TypeInv /\ MemberInv /\ PointerInv /\ HandInv /\ HearInv
      /\ ToSet(clients) \subseteq Client /\ ToSet(backlog) \subseteq Client
      /\ clients \in Seq(Client) /\ backlog \in Seq(Client) /\ log \in Seq(Message)
      /\ pending \in Seq(Client) /\ Len(log) \in Nat /\ ToSet(<<>>) = {} /\ Len(<<>>) = 0
      /\ \A c \in Client : heard[c] \in Seq(Message) /\ Len(heard[c]) \in Nat
      /\ \A c \in ToSet(clients) : joined[c] \in Nat
  <2>1. \A c \in Client : heard[c] \in Seq(Message)
    BY DEF IInv, TypeInv
  <2>2. \A c \in Client : Len(heard[c]) \in Nat
    BY <2>1
  <2>3. TypeInv /\ MemberInv /\ PointerInv /\ HandInv /\ HearInv
    BY DEF IInv
  <2>4. ToSet(<<>>) = {} /\ Len(<<>>) = 0
    BY DEF ToSet
  <2>5. clients \in Seq(Client) /\ backlog \in Seq(Client) /\ log \in Seq(Message)
        /\ pending \in Seq(Client)
    BY <2>3 DEF TypeInv
  <2>6. Len(log) \in Nat
    BY <2>5
  <2>7. \A c \in ToSet(clients) : joined[c] \in Nat
    BY <2>3 DEF MemberInv
  <2>8. ToSet(clients) \subseteq Client /\ ToSet(backlog) \subseteq Client
    BY Current
  <2> QED
    BY ChatServerAssumption, <2>1, <2>2, <2>3, <2>4, <2>5, <2>6, <2>7, <2>8
<1> USE <1>0 DEF HearInv, Over
<1>1. ASSUME NEW c \in Client, Connect(c) PROVE HearInv'
  <2>1. UNCHANGED <<clients, joined, heard, log, pc, cli, pending>>
    BY <1>1 DEF Connect, room, server
  <2> QED
    BY <2>1 DEF Waits
<1>2. ASSUME NEW c \in Client, Write(c) PROVE HearInv'
  <2>1. UNCHANGED <<clients, joined, heard, log, pc, cli, pending>>
    BY <1>2 DEF Write, room, server
  <2> QED
    BY <2>1 DEF Waits
<1>3. ASSUME NEW c \in Client, Read(c) PROVE HearInv'
  <2>1. UNCHANGED <<clients, joined, heard, log, pc, cli, pending>>
    BY <1>3 DEF Read, room, server
  <2> QED
    BY <2>1 DEF Waits
<1>4. ASSUME NEW c \in Client, Close(c) PROVE HearInv'
  <2>1. UNCHANGED <<clients, joined, heard, log, pc, cli, pending>>
    BY <1>4 DEF Close, room, server
  <2> QED
    BY <2>1 DEF Waits
<1>5. CASE RequestStop
  <2>1. UNCHANGED <<clients, joined, heard, log, pc, cli, pending>>
    BY <1>5 DEF RequestStop, net, server, room
  <2> QED
    BY <2>1 DEF Waits
<1>6. CASE Select
  <2>1. pc = "select" /\ pc' = "process" /\ UNCHANGED <<log, heard>>
    BY <1>6 DEF Select
  <2>2. CASE backlog = <<>>
    <3>1. UNCHANGED <<clients, joined>>
      BY <1>6, <2>2 DEF Select
    <3> QED
      BY <2>1, <3>1 DEF Waits
  <2>3. CASE backlog # <<>>
    <3> DEFINE c == Head(backlog)
    <3>1. c \in Client /\ c \in ToSet(backlog)
      BY <2>3, TailFacts
    <3>2. clients' = Append(clients, c) /\ joined' = [joined EXCEPT ![c] = Len(log)]
      BY <1>6, <2>3 DEF Select
    <3> HIDE DEF c
    <3>3. ToSet(clients') = ToSet(clients) \cup {c}
      BY <3>1, <3>2, AppendFacts
    <3>4. c \notin ToSet(clients) /\ heard[c] = <<>>
      BY <3>1 DEF MemberInv
    <3>5. \A d \in Client : joined'[d] = IF d = c THEN Len(log) ELSE joined[d]
      BY <3>2 DEF TypeInv
    <3>6. ASSUME NEW d \in ToSet(clients') PROVE joined'[d] + Len(heard'[d]) = Len(log')
      <4>1. CASE d = c
        <5>1. Len(heard'[d]) = 0 /\ joined'[d] = Len(log)
          BY <2>1, <3>1, <3>4, <3>5, <4>1
        <5> QED
          BY <2>1, <5>1
      <4>2. CASE d # c
        <5>1. d \in ToSet(clients) /\ joined'[d] = joined[d]
          BY <3>3, <3>5, <4>2
        <5> QED
          BY <2>1, <5>1 DEF Waits
      <4> QED
        BY <4>1, <4>2
    <3> QED
      BY <2>1, <3>6 DEF Waits
  <2> QED
    BY <2>2, <2>3
<1>7. CASE Receive
  <2>1. /\ UNCHANGED <<joined, heard, log>> /\ ToSet(clients') \subseteq ToSet(clients)
        /\ pc = "process" /\ pc' \in {"process", "parse"}
    <3>1. clients' = clients \/ clients' = Only(clients, Client \ {Head(readable)})
      BY <1>7 DEF Receive, DisconnectClient
    <3>2. ToSet(clients') \subseteq ToSet(clients)
      BY <3>1, OnlyFacts
    <3> QED
      BY <1>7, <3>2 DEF Receive, room
  <2>2. \A c \in ToSet(clients') : joined[c] + Len(heard[c]) = Len(log)
    BY <2>1 DEF Waits
  <2> QED
    BY <2>1, <2>2 DEF Waits
<1>8. CASE EndOfRound
  <2>1. UNCHANGED <<clients, joined, heard, log>>
    BY <1>8 DEF EndOfRound, net, room
  <2>2. pc \notin Over \cup {"relay"} /\ pc' # "relay"
    BY <1>8 DEF EndOfRound, net, room, Create
  <2> QED
    BY <2>1, <2>2 DEF Waits
<1>9. CASE NeedMoreData
  <2>1. UNCHANGED <<clients, joined, heard, log>>
    BY <1>9 DEF NeedMoreData, net, room
  <2>2. pc \notin Over \cup {"relay"} /\ pc' # "relay"
    BY <1>9 DEF NeedMoreData, net, room, Create
  <2> QED
    BY <2>1, <2>2 DEF Waits
<1>10. CASE InvalidPacket
  <2>1. /\ UNCHANGED <<joined, heard, log>> /\ ToSet(clients') \subseteq ToSet(clients)
        /\ pc = "parse" /\ pc' = "process"
    <3>1. clients' = Only(clients, Client \ {cli})
      BY <1>10 DEF InvalidPacket, DisconnectClient
    <3>2. ToSet(clients') \subseteq ToSet(clients)
      BY <3>1, OnlyFacts
    <3> QED
      BY <1>10, <3>2 DEF InvalidPacket, room
  <2>2. \A c \in ToSet(clients') : joined[c] + Len(heard[c]) = Len(log)
    BY <2>1 DEF Waits
  <2> QED
    BY <2>1, <2>2 DEF Waits
<1>11. CASE TryParse
  <2>1. UNCHANGED <<clients, joined, heard, log>>
    BY <1>11 DEF TryParse, net, room
  <2>2. pc \notin Over \cup {"relay"} /\ pc' # "relay"
    BY <1>11 DEF TryParse, net, room, Create
  <2> QED
    BY <2>1, <2>2 DEF Waits
<1>12. CASE Dispatch
  <2>1. UNCHANGED <<clients, joined, heard, log>>
    BY <1>12 DEF Dispatch, net, room
  <2>2. pc \notin Over \cup {"relay"} /\ pc' # "relay"
    BY <1>12 DEF Dispatch, net, room, Create
  <2> QED
    BY <2>1, <2>2 DEF Waits
<1>13. CASE BroadCast
  <2>1. /\ UNCHANGED <<clients, cli, joined, heard>> /\ pc = "broadcast" /\ pc' = "relay"
        /\ log' = Append(log, <<cli, packet>>) /\ pending' = Only(clients, Client \ {cli})
        /\ <<cli, packet>> \in Message
    BY <1>13, Current DEF BroadCast, Handling
  <2>2. ToSet(pending') = ToSet(clients) \cap (Client \ {cli}) /\ Len(log') = Len(log) + 1
    BY <2>1, OnlyFacts
  <2>3. ASSUME NEW c \in ToSet(clients)
        PROVE  Waits(c)' /\ joined[c] + Len(heard[c]) = Len(log') - 1
    <3>1. Waits(c)'
      BY <2>1, <2>2 DEF Waits
    <3>2. joined[c] + Len(heard[c]) = Len(log)
      BY <2>1 DEF Waits
    <3> QED
      BY <2>2, <3>1, <3>2
  <2> QED
    BY <2>1, <2>3
<1>14. CASE Relay
  <2> DEFINE c == Head(pending)
  <2>1. /\ UNCHANGED <<clients, cli, joined, log, pc>> /\ pc = "relay" /\ pending # <<>>
        /\ pending' = Tail(pending) /\ Send(c)
    BY <1>14 DEF Relay
  <2>2. c \in Client /\ c \in ToSet(clients) /\ c # cli
    <3>1. ToSet(pending) \subseteq ToSet(clients) \ {cli} /\ c \in ToSet(pending)
      BY <2>1, TailFacts DEF PointerInv
    <3> QED
      BY <3>1
  <2>3. ToSet(pending) = ToSet(pending') \cup {c} /\ c \notin ToSet(pending')
    BY <2>1, TailFacts DEF PointerInv
  <2> HIDE DEF c
  <2>4. /\ \A d \in Client \ {c} : heard'[d] = heard[d]
        /\ heard'[c] = Append(heard[c], <<cli, packet>>)
    BY <2>1, <2>2, SendHeard DEF HandInv
  <2>5. ASSUME NEW d \in ToSet(clients)
        PROVE  joined[d] + Len(heard'[d]) = IF Waits(d)' THEN Len(log) - 1 ELSE Len(log)
    <3>1. CASE d = c
      <4>1. Len(heard'[d]) = Len(heard[d]) + 1
        BY <2>2, <2>4, <3>1
      <4>2. joined[d] + Len(heard[d]) = Len(log) - 1 /\ ~Waits(d)'
        BY <2>1, <2>2, <2>3, <3>1 DEF Waits
      <4>3. joined[d] + (Len(heard[d]) + 1) = Len(log)
        BY <2>2, <3>1, <4>2
      <4> QED
        BY <4>1, <4>2, <4>3
    <3>2. CASE d # c
      <4>1. Waits(d)' <=> Waits(d)
        BY <2>1, <2>3, <3>2 DEF Waits
      <4>2. heard'[d] = heard[d]
        BY <2>4, <3>2
      <4>3. joined[d] + Len(heard[d]) = IF Waits(d) THEN Len(log) - 1 ELSE Len(log)
        BY <2>1
      <4> QED
        BY <4>1, <4>2, <4>3
    <3> QED
      BY <3>1, <3>2
  <2> QED
    BY <2>1, <2>5
<1>15. CASE Reply
  <2>1. /\ UNCHANGED <<clients, joined, log>> /\ pc' = "parse" /\ Send(cli) /\ AtReply
        /\ cli \in Client /\ cli \in ToSet(clients)
    BY <1>15, Current DEF Reply, AtReply, Handling
  <2>2. CASE pc = "reply"
    <3>1. heard' = heard
      BY <2>1, <2>2, SendHeard DEF HandInv
    <3> QED
      BY <2>1, <2>2, <3>1 DEF Waits
  <2>3. CASE pc = "relay" /\ pending = <<>>
    <3>1. /\ \A d \in Client \ {cli} : heard'[d] = heard[d]
          /\ heard'[cli] = Append(heard[cli], <<cli, packet>>)
      BY <2>1, <2>3, SendHeard DEF HandInv
    <3>2. ASSUME NEW d \in ToSet(clients) PROVE joined[d] + Len(heard'[d]) = Len(log)
      <4>1. CASE d = cli
        <5>1. Len(heard'[d]) = Len(heard[d]) + 1
          BY <2>1, <3>1, <4>1
        <5>2. joined[d] + Len(heard[d]) = Len(log) - 1
          BY <2>3, <4>1 DEF Waits
        <5>3. joined[d] \in Nat /\ Len(heard[d]) \in Nat
          BY <2>1, <4>1
        <5>4. joined[d] + (Len(heard[d]) + 1) = Len(log)
          BY <5>2, <5>3
        <5> QED
          BY <5>1, <5>4
      <4>2. CASE d # cli
        <5>1. ~Waits(d) /\ heard'[d] = heard[d]
          BY <2>3, <3>1, <4>2 DEF Waits
        <5>2. joined[d] + Len(heard[d]) = Len(log)
          BY <2>3, <5>1
        <5> QED
          BY <5>1, <5>2
      <4> QED
        BY <4>1, <4>2
    <3> QED
      BY <2>1, <3>2 DEF Waits
  <2> QED
    BY <2>1, <2>2, <2>3 DEF AtReply
<1>16. CASE BrokenPipe
  BY <1>16 DEF BrokenPipe
<1>17. CASE ShutdownGracefully
  BY <1>17 DEF ShutdownGracefully
<1>18. CASE UNCHANGED vars
  <2>1. UNCHANGED <<clients, joined, heard, log, pc, cli, pending>>
    BY <1>18 DEF vars, net, server, room
  <2> QED
    BY <2>1 DEF Waits
<1> QED
  BY <1>1, <1>2, <1>3, <1>4, <1>5, <1>6, <1>7, <1>8, <1>9, <1>10, <1>11, <1>12, <1>13, <1>14,
     <1>15, <1>16, <1>17, <1>18
     DEF Next, Main

\* Every step keeps the invariant.
LEMMA InvStep == IInv /\ [Next]_vars => IInv'
BY TypeStep, MemberStep, PointerStep, StreamStep, HandStep, HearStep DEF IInv

\* The invariant holds of every state.
LEMMA Invariance == Spec => []IInv
<1>1. Init => IInv
  BY InitInv
<1>2. IInv /\ [Next]_vars => IInv'
  BY InvStep
<1> QED
  BY <1>1, <1>2, PTL DEF Spec

\* The pieces of a stream are pieces of packets that the client has.
LEMMA StreamPieces ==
  ASSUME NEW b \in Seq(Piece), NEW w \in Seq(Piece), NEW n \in Nat, NEW t \in 0 .. n,
         Stream(b, w, t, n)
  PROVE  \A p \in ToSet(w) \cup ToSet(b) : p[1] \in 1 .. n /\ p[2] \in {"head", "rest"}
                                           /\ p = <<p[1], p[2]>>
<1>1. Len(b) \in Nat /\ Len(w) \in Nat /\ Len(b) + Len(w) = 2 * (n - t) /\ t \in Nat
  BY DEF Stream
<1>2. ASSUME NEW p \in Piece, NEW j \in 1 .. 2 * n, IsPiece(p, j)
      PROVE  p[1] \in 1 .. n /\ p[2] \in {"head", "rest"} /\ p = <<p[1], p[2]>>
  <2>1. p[1] \in Nat /\ p[2] \in {"head", "rest"} /\ p = <<p[1], p[2]>>
    BY DEF Piece
  <2>2. 2 * p[1] = j + 1 \/ 2 * p[1] = j
    BY <1>2 DEF IsPiece
  <2>3. \A x \in Nat : 2 * x = j + 1 \/ 2 * x = j => x \in 1 .. n
    OBVIOUS
  <2> QED
    BY <2>1, <2>2, <2>3
<1>3. ASSUME NEW i \in 1 .. Len(b) PROVE 2 * t + i \in 1 .. 2 * n
  <2>1. 2 * t + i <= 2 * t + (Len(b) + Len(w)) /\ 2 * t + 2 * (n - t) = 2 * n
    BY <1>1
  <2> QED
    BY <1>1, <2>1
<1>4. ASSUME NEW i \in 1 .. Len(w) PROVE 2 * t + Len(b) + i \in 1 .. 2 * n
  <2>1. 2 * t + Len(b) + i <= 2 * t + (Len(b) + Len(w)) /\ 2 * t + 2 * (n - t) = 2 * n
    BY <1>1
  <2> QED
    BY <1>1, <2>1
<1>5. /\ \A i \in 1 .. Len(b) : IsPiece(b[i], 2 * t + i) /\ b[i] \in Piece
      /\ \A i \in 1 .. Len(w) : IsPiece(w[i], 2 * t + Len(b) + i) /\ w[i] \in Piece
  BY DEF Stream
<1> SUFFICES ASSUME NEW p \in ToSet(w) \cup ToSet(b)
             PROVE  p[1] \in 1 .. n /\ p[2] \in {"head", "rest"} /\ p = <<p[1], p[2]>>
  OBVIOUS
<1>6. CASE p \in ToSet(b)
  <2>1. PICK i \in 1 .. Len(b) : p = b[i]
    BY <1>6 DEF ToSet
  <2> QED
    BY <1>2, <1>3, <1>5, <2>1
<1>7. CASE p \in ToSet(w)
  <2>1. PICK i \in 1 .. Len(w) : p = w[i]
    BY <1>7 DEF ToSet
  <2> QED
    BY <1>2, <1>4, <1>5, <2>1
<1> QED
  BY <1>6, <1>7

\* The loops of the server hold no client that was deleted, and the variables
\* are of their types.
LEMMA InvImplies == IInv => NoStaleClient
<1> SUFFICES ASSUME IInv PROVE NoStaleClient
  OBVIOUS
<1>1. TypeInv /\ PointerInv /\ StreamInv
  BY DEF IInv
<1>2. ASSUME NEW c \in Client PROVE ToSet(wire[c]) \cup ToSet(buffer[c]) \subseteq Pieces(c)
  <2>1. /\ written[c] \in Nat /\ buffer[c] \in Seq(Piece) /\ wire[c] \in Seq(Piece)
        /\ packets[c] \in Seq(Kind)
    BY <1>1, Current DEF TypeInv
  <2>2. written[c] <= Len(packets[c]) /\ \E t \in 0 .. written[c] : Taken(c, t)
    BY <1>1 DEF StreamInv
  <2>3. \A p \in ToSet(wire[c]) \cup ToSet(buffer[c]) :
          p[1] \in 1 .. written[c] /\ p[2] \in {"head", "rest"} /\ p = <<p[1], p[2]>>
    BY <2>1, <2>2, StreamPieces DEF Taken
  <2>4. Len(packets[c]) \in Nat
    BY <2>1
  <2>5. \A k \in 1 .. written[c] : k \in 1 .. Len(packets[c])
    BY <2>1, <2>2, <2>4
  <2> QED
    BY <2>3, <2>5 DEF Pieces
<1>3. pc \notin {"ended", "killed", "shutdown"} =>
        ToSet(readable) \cup ToSet(pending) \cup ({cli} \ {Null}) \subseteq ToSet(clients)
  BY <1>1 DEF PointerInv, Over
<1> QED
  BY <1>1, <1>2, <1>3 DEF NoStaleClient, TypeInv

\* The raw pointers that the loops of Server::Run, ProcessClient and BroadCast hold
\* are those of clients that were not deleted, whatever is sent in whatever pieces,
\* and whoever closes meanwhile.
THEOREM NoStaleClients == Spec => []NoStaleClient
BY Invariance, InvImplies, PTL
-------------------------------------------------------------------------------
\* A step of the server is a step of the room, or changes nothing of it.
LEMMA RoomStep == IInv /\ [Next]_vars => [Room!Next]_(Room!vars)
<1> SUFFICES ASSUME IInv, [Next]_vars PROVE [Room!Next]_(Room!vars)
  OBVIOUS
<1>0. /\ Null \notin Nat /\ TypeInv /\ MemberInv /\ PointerInv /\ StreamInv /\ HandInv /\ HearInv
      /\ ToSet(clients) \subseteq Client /\ ToSet(backlog) \subseteq Client
      /\ \A c \in ToSet(clients) : joined[c] \in Nat /\ Len(heard[c]) \in Nat
      /\ Len(log) \in Nat
  <2>1. TypeInv /\ MemberInv /\ PointerInv /\ StreamInv /\ HandInv /\ HearInv
    BY DEF IInv
  <2>2. ToSet(clients) \subseteq Client /\ ToSet(backlog) \subseteq Client
    BY Current
  <2>3. log \in Seq(Message) /\ \A c \in Client : heard[c] \in Seq(Message)
    BY <2>1 DEF TypeInv
  <2>4. Len(log) \in Nat /\ \A c \in Client : Len(heard[c]) \in Nat
    BY <2>3
  <2>5. \A c \in ToSet(clients) : joined[c] \in Nat
    BY <2>1 DEF MemberInv
  <2> QED
    BY ChatServerAssumption, <2>1, <2>2, <2>4, <2>5
<1> USE <1>0
\* A client that is written to hears the last message, which is the next of its own.
<1>a. ASSUME NEW c \in ToSet(clients), Waits(c), Send(c),
             UNCHANGED <<packets, log, joined>>
      PROVE  Room!Hear(c)
  <2>1. pc = "relay" /\ c \in Client
    BY <1>a DEF Waits
  <2>2. joined[c] + Len(heard[c]) = Len(log) - 1
    BY <1>a, <2>1 DEF HearInv, Over
  <2>3. joined[c] + Len(heard[c]) + 1 = Len(log) /\ joined[c] + Len(heard[c]) < Len(log)
    BY <2>2
  <2>4. packets[cli][packet] \in Spoken /\ log[Len(log)] = <<cli, packet>>
    BY <2>1 DEF HandInv
  <2>5. heard' = [heard EXCEPT ![c] = Append(heard[c], <<cli, packet>>)]
    BY <1>a, <2>4 DEF Send
  <2>6. heard' = [heard EXCEPT ![c] = Append(heard[c], log[joined[c] + Len(heard[c]) + 1])]
    BY <2>3, <2>4, <2>5
  <2>7. joined[c] # Null
    OBVIOUS
  <2> QED
    BY <1>a, <2>3, <2>6, <2>7 DEF Room!Hear
<1>1. ASSUME NEW c \in Client, Connect(c) PROVE [Room!Next]_(Room!vars)
  <2>1. UNCHANGED <<packets, log, joined, heard>>
    BY <1>1 DEF Connect, room, server
  <2> QED
    BY <2>1 DEF Room!vars
<1>2. ASSUME NEW c \in Client, Write(c) PROVE [Room!Next]_(Room!vars)
  <2>1. UNCHANGED <<packets, log, joined, heard>>
    BY <1>2 DEF Write, room, server
  <2> QED
    BY <2>1 DEF Room!vars
<1>3. ASSUME NEW c \in Client, Read(c) PROVE [Room!Next]_(Room!vars)
  <2>1. UNCHANGED <<packets, log, joined, heard>>
    BY <1>3 DEF Read, room, server
  <2> QED
    BY <2>1 DEF Room!vars
<1>4. ASSUME NEW c \in Client, Close(c) PROVE [Room!Next]_(Room!vars)
  <2>1. UNCHANGED <<packets, log, joined, heard>>
    BY <1>4 DEF Close, room, server
  <2> QED
    BY <2>1 DEF Room!vars
<1>5. CASE RequestStop
  <2>1. UNCHANGED <<packets, log, joined, heard>>
    BY <1>5 DEF RequestStop, net, server, room
  <2> QED
    BY <2>1 DEF Room!vars
<1>6. CASE Select
  <2>1. CASE backlog = <<>>
    BY <1>6, <2>1 DEF Select, Room!vars
  <2>2. CASE backlog # <<>>
    <3>1. Head(backlog) \in Client /\ Head(backlog) \in ToSet(backlog)
      <4>1. backlog \in Seq(Client)
        BY DEF TypeInv
      <4> QED
        BY <2>2, <4>1, TailFacts
    <3>2. joined[Head(backlog)] = Null
      BY <3>1 DEF MemberInv
    <3>3. Room!Join(Head(backlog))
      BY <1>6, <2>2, <3>2 DEF Select, Room!Join
    <3> QED
      BY <3>1, <3>3 DEF Room!Next
  <2> QED
    BY <2>1, <2>2
<1>7. CASE Receive
  <2>1. UNCHANGED <<packets, log, joined, heard>>
    BY <1>7 DEF Receive, room
  <2> QED
    BY <2>1 DEF Room!vars
<1>8. CASE EndOfRound
  <2>1. UNCHANGED <<packets, log, joined, heard>>
    BY <1>8 DEF EndOfRound, net, room
  <2> QED
    BY <2>1 DEF Room!vars
<1>9. CASE NeedMoreData
  <2>1. UNCHANGED <<packets, log, joined, heard>>
    BY <1>9 DEF NeedMoreData, net, room
  <2> QED
    BY <2>1 DEF Room!vars
<1>10. CASE InvalidPacket
  <2>1. UNCHANGED <<packets, log, joined, heard>>
    BY <1>10 DEF InvalidPacket, room
  <2> QED
    BY <2>1 DEF Room!vars
<1>11. CASE TryParse
  <2>1. UNCHANGED <<packets, log, joined, heard>>
    BY <1>11 DEF TryParse, net, room
  <2> QED
    BY <2>1 DEF Room!vars
<1>12. CASE Dispatch
  <2>1. UNCHANGED <<packets, log, joined, heard>>
    BY <1>12 DEF Dispatch, net, room
  <2> QED
    BY <2>1 DEF Room!vars
<1>13. CASE BroadCast
  <2>1. /\ UNCHANGED <<packets, joined, heard>> /\ log' = Append(log, <<cli, packet>>)
        /\ pc = "broadcast" /\ cli \in Client /\ cli \in ToSet(clients)
        /\ packet \in 1 .. Len(packets[cli]) /\ packets[cli][packet] \in Spoken
    BY <1>13, Current DEF BroadCast, net, Handling, HandInv
  <2>2. PICK t \in 0 .. written[cli] : Logged(cli, t) /\ packet = t
    BY <2>1 DEF StreamInv, Logged
  <2>3. \A k \in 1 .. Len(packets[cli]) :
          Contains(log, <<cli, k>>) <=> packets[cli][k] \in Spoken /\ k <= packet /\ k # packet
    BY <2>1, <2>2 DEF Logged, InHand
  <2>4. ~Contains(log, <<cli, packet>>)
    BY <2>1, <2>3
  <2>5. ASSUME NEW k \in 1 .. packet - 1
        PROVE  packets[cli][k] \in Spoken <=> Contains(log, <<cli, k>>)
    <3>1. packets[cli] \in Seq(Kind)
      BY <2>1, Current
    <3>2. packet \in Nat /\ packet <= Len(packets[cli]) /\ Len(packets[cli]) \in Nat
      BY <2>1, <3>1
    <3>3. k \in 1 .. Len(packets[cli]) /\ k <= packet /\ k # packet
      BY <3>2
    <3> QED
      BY <2>3, <3>3
  <2>6. \A x : Room!Contains(log, x) <=> Contains(log, x)
    BY DEF Contains, Room!Contains
  <2>7. Room!IsNext(cli, packet)
    BY <2>1, <2>4, <2>5, <2>6 DEF Room!IsNext
  <2>8. joined[cli] # Null
    BY <2>1
  <2>9. Room!Say(cli)
    BY <2>1, <2>7, <2>8 DEF Room!Say
  <2> QED
    BY <2>1, <2>9 DEF Room!Next
<1>14. CASE Relay
  <2> DEFINE c == Head(pending)
  <2>1. pc = "relay" /\ pending # <<>> /\ Send(c) /\ UNCHANGED <<packets, log, joined>>
    BY <1>14 DEF Relay
  <2>2. c \in ToSet(clients) /\ c \in Client /\ Waits(c)
    <3>1. c \in ToSet(pending)
      BY <2>1, TailFacts DEF TypeInv
    <3> QED
      BY <2>1, <3>1, Current DEF Waits
  <2>3. Room!Hear(c)
    BY <2>1, <2>2, <1>a
  <2> QED
    BY <2>2, <2>3 DEF Room!Next
<1>15. CASE Reply
  <2>1. /\ AtReply /\ Send(cli) /\ UNCHANGED <<packets, log, joined>>
        /\ cli \in ToSet(clients) /\ cli \in Client
    BY <1>15, Current DEF Reply, AtReply, Handling
  <2>2. CASE pc = "reply"
    <3>1. heard' = heard
      BY <2>1, <2>2 DEF Send, HandInv
    <3> QED
      BY <2>1, <3>1 DEF Room!vars
  <2>3. CASE pc = "relay"
    <3>1. Room!Hear(cli)
      BY <2>1, <2>3, <1>a DEF Waits
    <3> QED
      BY <2>1, <3>1 DEF Room!Next
  <2> QED
    BY <2>1, <2>2, <2>3 DEF AtReply
<1>16. CASE BrokenPipe
  <2>1. UNCHANGED <<packets, log, joined, heard>>
    BY <1>16 DEF BrokenPipe, net, server, room
  <2> QED
    BY <2>1 DEF Room!vars
<1>17. CASE ShutdownGracefully
  <2>1. UNCHANGED <<packets, log, joined, heard>>
    BY <1>17 DEF ShutdownGracefully, net, room
  <2> QED
    BY <2>1 DEF Room!vars
<1>18. CASE UNCHANGED vars
  BY <1>18 DEF vars, room, net, Room!vars
<1> QED
  BY <1>1, <1>2, <1>3, <1>4, <1>5, <1>6, <1>7, <1>8, <1>9, <1>10, <1>11, <1>12, <1>13, <1>14,
     <1>15, <1>16, <1>17, <1>18
     DEF Next, Main

\* The server keeps the promise of ChatRoom: there is one order of the messages, it
\* leaves out nothing that a client said, and each client hears all of it from where
\* the client came in.
THEOREM ChatRoomImplemented == Spec => ImplementsChatRoom
<1>1. Init => Room!Init
  BY DEF Init, Room!Init
<1>2. IInv /\ [Next]_vars => [Room!Next]_(Room!vars)
  BY RoomStep
<1>3. Spec => []IInv
  BY Invariance
<1> QED
  BY <1>1, <1>2, <1>3, PTL DEF Spec, ImplementsChatRoom, Room!Spec
===============================================================================
