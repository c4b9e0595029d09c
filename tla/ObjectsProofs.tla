---------------------------- MODULE ObjectsProofs ----------------------------
(***************************************************************************)
(* Proofs about the connections of a signal, instance C of Objects, for    *)
(* any number of connections, receivers and threads and any depth of       *)
(* calls: nothing that has been freed is used, and emissions are exact.    *)
(* And about the posted events of a thread, however its calls nest: every  *)
(* event is delivered once or removed, and in order; and the thread does   *)
(* not block beside one.                                                   *)
(*                                                                         *)
(* The first two are not inductive.  An emission may stand on a connection *)
(* that was removed, whose link was the next one at that moment and may be *)
(* out of date; what is still true of such links is LinksLead, and for the *)
(* emission Leads and SkipsNone.  That nothing an emission can reach is    *)
(* freed follows from the count of references (ReferencesAreCounted).      *)
(*                                                                         *)
(* Nor is the third.  QueueOK says how the list is sorted, StackSound what *)
(* calls what, SendsOK what a send for one receiver leaves behind its      *)
(* index, IdleOK that the list is made shorter only while nobody sends,    *)
(* and DeadOK what becomes of the events of an object that is deleted.     *)
(* The fourth adds to it (BlockInv) which calls may stand on which         *)
(* (Nesting), what the list holds behind the insertion offset as long as   *)
(* the thread may wait (BehindOffset), and for each reason to wake the     *)
(* thread who is about to (Posts, Wakes, Exits).                           *)
(***************************************************************************)
EXTENDS Objects, FiniteSetTheorems, WellFoundedInduction, TLAPS

Object == Listener \cup {Sender}

\* The calls.
Standing == {"visit", "claim", "queue", "post", "slot", "advance"}

EmissionFrame ==
  [call : {"emit"}, at : Standing \cup {"first", "end", "clean"}, cur : Nat,
   to : Listener \cup {C!Nobody}, highest : Nat, known : SUBSET Nat, called : SUBSET Nat]

DisconnectionFrame ==
  [call : {"disconnect"}, at : {"see", "remove", "clean"}, cur : Nat, to : Listener,
   success : BOOLEAN]

DestructionFrame == [call : {"destroy"}, at : {"lists"}, of : Object]

Frame == EmissionFrame \cup DisconnectionFrame \cup DestructionFrame

Connection ==
  [receiver : Listener \cup {C!Nobody}, single : BOOLEAN, next : Nat, prev : Nat]

ConnectionsTypeOK ==
  /\ conn \in Seq(Connection) /\ Len(conn) <= MaxConnections
  /\ orphaned \subseteq DOMAIN conn /\ freed \subseteq DOMAIN conn
  /\ ref \in Nat
  /\ alive \subseteq Object
  /\ currentConnectionId = IF Sender \in alive THEN Len(conn) ELSE 0
  /\ calls \in [Thread -> Seq(Frame)]

\* n is the first of D after b, p is the last of D before b, or None.
After(D, b, n) ==
  \/ n = 0 /\ \A k \in D : k <= b
  \/ n \in D /\ n > b /\ \A k \in D : k > b => n <= k

Before(D, b, p) ==
  \/ p = 0 /\ \A k \in D : k >= b
  \/ p \in D /\ p < b /\ \A k \in D : k < b => k <= p

Linked ==
  /\ After(C!Connected, 0, first) /\ Before(C!Connected, Len(conn) + 1, last)
  /\ \A c \in C!Connected :
       /\ After(C!Connected, c, conn[c].next)
       /\ Before(C!Connected, c, conn[c].prev)
       /\ conn[c].receiver \in alive

\* Which connections are kept, and which are freed.
Parted ==
  orphaned \cup freed = DOMAIN conn \ C!Connected /\ orphaned \cap freed = {}

\* The links of a connection, removed or not, lead on to later ones, and from
\* what has not been freed to what has not been freed.
LinksLead ==
  \A c \in DOMAIN conn :
    conn[c].next # C!None => /\ conn[c].next \in DOMAIN conn /\ c < conn[c].next
                             /\ c \notin freed => conn[c].next \notin freed

\* From a connection that f knew when it began, the links lead to such
\* connections or beyond those it is to call,
Fresh(f, c) == c \in f.known \/ c > f.highest

Leads(f) ==
  \A c \in f.known : conn[c].next = C!None \/ Fresh(f, conn[c].next)

\* and pass over none that is still connected.
SkipsNone(f) ==
  \A c \in f.known, k \in f.known \cap C!Connected :
    c < k /\ k <= f.highest => conn[c].next # C!None /\ conn[c].next <= k

\* What is behind an emission.
Behind(f, k) ==
  f.at \in {"end", "clean"} \/ k < f.cur \/ (k = f.cur /\ f.at \in {"slot", "advance"})

EmissionOK(f) ==
  /\ f.highest <= Len(conn)
  /\ f.known \subseteq DOMAIN conn /\ f.called \subseteq f.known
  /\ f.at = "first" => f.called = {}
  /\ Leads(f) /\ SkipsNone(f)
  /\ IF f.at \in Standing THEN f.cur \in f.known ELSE f.cur = C!None
  /\ f.at \in {"claim", "queue", "post", "slot"} =>
       f.to \in Listener /\ conn[f.cur].receiver \in {f.to, C!Nobody}
  /\ f.at # "first" =>
       \A k \in f.known \cap C!Connected : k <= f.highest /\ Behind(f, k) => k \in f.called

Walks(f) == f.call # "destroy" /\ f.at # "clean"

FrameOK(f) ==
  /\ f.call = "emit" => EmissionOK(f)
  /\ f.call = "disconnect" => (f.at = "remove" => f.cur # C!None) /\ (f.at = "clean" => f.cur = C!None)
  /\ Walks(f) /\ f.cur # C!None => f.cur \in DOMAIN conn \ freed

FramesOK ==
  \A t \in Thread : \A i \in DOMAIN calls[t] :
    /\ FrameOK(calls[t][i])
    /\ i < Len(calls[t]) => calls[t][i].call = "emit" /\ calls[t][i].at = "slot"
    /\ calls[t][i].call = "destroy" => thread[calls[t][i].of] = t /\ calls[t][i].of \in alive

\* Who holds a reference.
Walkers == {p \in UNION {{t} \X DOMAIN calls[t] : t \in Thread} : Walks(calls[p[1]][p[2]])}

ReferencesAreCounted ==
  /\ IsFiniteSet(Walkers)
  /\ ref = Cardinality(Walkers) + IF Sender \in alive THEN 1 ELSE 0

\* Once the sender is being destroyed, what is left of its emissions is below
\* its destruction.
Leaving ==
  \/ Sender \notin alive
  \/ \E t \in Thread : \E i \in DOMAIN calls[t] :
       calls[t][i].call = "destroy" /\ calls[t][i].of = Sender

LeftAlone ==
  Leaving => \A t \in Thread : \A i \in DOMAIN calls[t] :
    LET f == calls[t][i]
    IN f.call # "destroy" =>
         t = thread[Sender] /\ f.call = "emit" /\ f.at \in {"slot", "advance", "visit", "end"}

GoneIsEmpty == Sender \notin alive => C!Connected = {}

HistoryOK ==
  /\ shots \in [1..MaxConnections -> {0, 1}]
  /\ \A c \in 1..MaxConnections :
       shots[c] = 1 => c \in DOMAIN conn /\ conn[c].receiver = C!Nobody
  /\ \A c \in late : c \in DOMAIN conn /\ conn[c].single

ConnectionsInv ==
  /\ ConnectionsTypeOK /\ Linked /\ Parted /\ LinksLead
  /\ FramesOK /\ ReferencesAreCounted /\ LeftAlone /\ GoneIsEmpty /\ HistoryOK

-----------------------------------------------------------------------------
(* Stacks of calls.                                                        *)

\* The stack of t becomes s, which is as before below k.
Moves(t, s, k) ==
  /\ s \in Seq(Frame) /\ k \in Nat \ {0}
  /\ calls' = [calls EXCEPT ![t] = s]
  /\ Len(s) \in {k - 1, k} /\ Len(calls[t]) \in {k - 1, k}
  /\ \A i \in 1..k - 1 : s[i] = calls[t][i]

LEMMA FrontAndAppend ==
  ASSUME NEW X, NEW q \in Seq(X), NEW x \in X
  PROVE  /\ LET s == Append(q, x) IN
              /\ s \in Seq(X) /\ Len(s) = Len(q) + 1 /\ s[Len(q) + 1] = x
              /\ \A i \in 1..Len(q) : s[i] = q[i]
         /\ q # <<>> =>
              /\ Len(q) \in Nat \ {0}
              /\ LET s == Append(C!Front(q), x) IN
                   /\ s \in Seq(X) /\ Len(s) = Len(q) /\ s[Len(q)] = x
                   /\ \A i \in 1..Len(q) - 1 : s[i] = q[i]
              /\ LET s == C!Front(q) IN
                   /\ s \in Seq(X) /\ Len(s) = Len(q) - 1
                   /\ \A i \in 1..Len(q) - 1 : s[i] = q[i]
<1>1. LET s == Append(q, x) IN
        /\ s \in Seq(X) /\ Len(s) = Len(q) + 1 /\ s[Len(q) + 1] = x
        /\ \A i \in 1..Len(q) : s[i] = q[i]
  OBVIOUS
<1>2. ASSUME q # <<>>
      PROVE  /\ Len(q) \in Nat \ {0}
             /\ LET s == C!Front(q) IN
                  /\ s \in Seq(X) /\ Len(s) = Len(q) - 1
                  /\ \A i \in 1..Len(q) - 1 : s[i] = q[i]
  <2>1. Len(q) \in Nat \ {0}
    BY <1>2
  <2>2. C!Front(q) = [i \in 1..Len(q) - 1 |-> q[i]]
    BY <2>1 DEF C!Front
  <2>3. C!Front(q) \in Seq(X) /\ Len(C!Front(q)) = Len(q) - 1
    BY <2>1, <2>2
  <2> QED
    BY <2>1, <2>2, <2>3
<1>3. ASSUME q # <<>>
      PROVE  LET s == Append(C!Front(q), x) IN
               /\ s \in Seq(X) /\ Len(s) = Len(q) /\ s[Len(q)] = x
               /\ \A i \in 1..Len(q) - 1 : s[i] = q[i]
  <2>1. PICK p \in Seq(X) : p = C!Front(q)
    BY <1>2, <1>3
  <2>2. Len(p) = Len(q) - 1 /\ \A i \in 1..Len(q) - 1 : p[i] = q[i]
    BY <1>2, <1>3, <2>1
  <2>3. /\ Append(p, x) \in Seq(X) /\ Len(Append(p, x)) = Len(p) + 1
        /\ Append(p, x)[Len(p) + 1] = x /\ \A i \in 1..Len(p) : Append(p, x)[i] = p[i]
    OBVIOUS
  <2> QED
    BY <1>2, <1>3, <2>1, <2>2, <2>3
<1> QED
  BY <1>1, <1>2, <1>3

\* The call that t is in.
Inside(t, k, f) ==
  /\ k \in Nat \ {0} /\ k = Len(calls[t]) /\ f = calls[t][k] /\ f \in Frame /\ FrameOK(f)
  /\ f = C!Top(t)
  /\ f.call = "destroy" => thread[f.of] = t /\ f.of \in alive

LEMMA TopIs ==
  ASSUME ConnectionsTypeOK, FramesOK, NEW t \in Thread, calls[t] # <<>>
  PROVE  \E k, f : Inside(t, k, f)
<1>1. calls[t] \in Seq(Frame)
  BY DEF ConnectionsTypeOK
<1>2. Len(calls[t]) \in Nat \ {0} /\ Len(calls[t]) \in DOMAIN calls[t]
  BY <1>1
<1>3. calls[t][Len(calls[t])] \in Frame
  BY <1>1, <1>2
<1> QED
  BY <1>2, <1>3 DEF Inside, C!Top, C!Last, FramesOK

LEMMA SetTopMoves ==
  ASSUME ConnectionsTypeOK, NEW t \in Thread, NEW k, NEW f, Inside(t, k, f),
         NEW g \in Frame, C!SetTop(t, g)
  PROVE  \E s : Moves(t, s, k) /\ Len(s) = k /\ s[k] = g
<1>1. calls[t] \in Seq(Frame) /\ calls[t] # <<>> /\ Len(calls[t]) = k
  BY DEF ConnectionsTypeOK, Inside
<1>2. PICK s : s = Append(C!Front(calls[t]), g)
  OBVIOUS
<1>3. s \in Seq(Frame) /\ Len(s) = k /\ s[k] = g /\ \A i \in 1..k - 1 : s[i] = calls[t][i]
  BY <1>1, <1>2, FrontAndAppend
<1>4. calls' = [calls EXCEPT ![t] = s]
  BY <1>2 DEF C!SetTop
<1> QED
  BY <1>1, <1>3, <1>4 DEF Moves, Inside

LEMMA ReturnMoves ==
  ASSUME ConnectionsTypeOK, NEW t \in Thread, NEW k, NEW f, Inside(t, k, f), C!Returns(t)
  PROVE  \E s : Moves(t, s, k) /\ Len(s) = k - 1
<1>1. calls[t] \in Seq(Frame) /\ calls[t] # <<>> /\ Len(calls[t]) = k
  BY DEF ConnectionsTypeOK, Inside
<1>2. PICK s : s = C!Front(calls[t])
  OBVIOUS
<1>3. s \in Seq(Frame) /\ Len(s) = k - 1 /\ \A i \in 1..k - 1 : s[i] = calls[t][i]
  BY <1>1, <1>2, FrontAndAppend DEF Inside
<1>4. calls' = [calls EXCEPT ![t] = s]
  BY <1>2 DEF C!Returns
<1> QED
  BY <1>1, <1>3, <1>4 DEF Moves, Inside

LEMMA CallMoves ==
  ASSUME ConnectionsTypeOK, NEW t \in Thread, NEW g \in Frame, C!Calls(t, g)
  PROVE  \E s, k : /\ Moves(t, s, k) /\ Len(s) = k /\ s[k] = g /\ Len(calls[t]) = k - 1
                   /\ k > 1 => calls[t][k - 1].call = "emit" /\ calls[t][k - 1].at = "slot"
<1>1. calls[t] \in Seq(Frame)
  BY DEF ConnectionsTypeOK
<1>2. PICK s : s = Append(calls[t], g)
  OBVIOUS
<1>3. PICK k : k = Len(calls[t]) + 1
  OBVIOUS
<1>4. s \in Seq(Frame) /\ Len(s) = k /\ s[k] = g /\ \A i \in 1..k - 1 : s[i] = calls[t][i]
  BY <1>1, <1>2, <1>3, FrontAndAppend
<1>5. calls' = [calls EXCEPT ![t] = s]
  BY <1>2 DEF C!Calls
<1>6. k \in Nat \ {0} /\ Len(calls[t]) = k - 1
  BY <1>1, <1>3
<1>7. k > 1 => calls[t][k - 1].call = "emit" /\ calls[t][k - 1].at = "slot"
  <2>1. k > 1 => calls[t] # <<>>
    BY <1>6
  <2> QED
    BY <2>1, <1>6 DEF C!Calls, C!Ready, C!At, C!Top, C!Last
<1> QED
  BY <1>4, <1>5, <1>6, <1>7 DEF Moves

-----------------------------------------------------------------------------
(* The list of connections.                                                *)

LEMMA ConnectionTyped ==
  ASSUME ConnectionsTypeOK
  PROVE  /\ Len(conn) \in Nat /\ DOMAIN conn = 1..Len(conn)
         /\ C!Connected \subseteq 1..Len(conn)
         /\ \A k \in DOMAIN conn :
              /\ conn[k] \in Connection
              /\ conn[k].receiver \in Listener \cup {C!Nobody}
              /\ conn[k].next \in Nat /\ conn[k].prev \in Nat
<1>1. Len(conn) \in Nat /\ DOMAIN conn = 1..Len(conn)
  BY DEF ConnectionsTypeOK
<1>2. \A k \in DOMAIN conn : conn[k] \in Connection
  BY DEF ConnectionsTypeOK
<1> QED
  BY <1>1, <1>2 DEF Connection, C!Connected

LEMMA LeastIsAfter ==
  ASSUME NEW D \in SUBSET (Nat \ {0}), NEW b \in Nat, NEW n
  PROVE  /\ C!IsLeast(n, {k \in D : k > b}) <=> After(D, b, n)
         /\ C!IsGreatest(n, {k \in D : k < b}) <=> Before(D, b, n)
<1>. DEFINE L == {k \in D : k > b}
            G == {k \in D : k < b}
<1>1. /\ L = {} <=> \A k \in D : k <= b
      /\ G = {} <=> \A k \in D : k >= b
  <2>1. \A k \in D : (~(k > b) <=> k <= b) /\ (~(k < b) <=> k >= b)
    OBVIOUS
  <2>2. L = {} <=> \A k \in D : ~(k > b)
    OBVIOUS
  <2>3. G = {} <=> \A k \in D : ~(k < b)
    OBVIOUS
  <2> QED
    BY <2>1, <2>2, <2>3
<1>2. /\ n \in L <=> n \in D /\ n > b
      /\ n \in G <=> n \in D /\ n < b
      /\ \A k : k \in L <=> k \in D /\ k > b
      /\ \A k : k \in G <=> k \in D /\ k < b
  OBVIOUS
<1>. HIDE DEF L, G
<1>3. C!IsLeast(n, L) <=> After(D, b, n)
  BY <1>1, <1>2 DEF C!IsLeast, After, C!None
<1>4. C!IsGreatest(n, G) <=> Before(D, b, n)
  BY <1>1, <1>2 DEF C!IsGreatest, Before, C!None
<1> QED
  BY <1>3, <1>4 DEF L, G

LEMMA ListIs ==
  ASSUME ConnectionsTypeOK
  PROVE  C!ListIsLinked <=> Linked /\ Parted
<1>1. PICK D : D = C!Connected
  OBVIOUS
<1>2. D \in SUBSET (Nat \ {0}) /\ D \subseteq 1..Len(conn) /\ Len(conn) \in Nat
  BY <1>1, ConnectionTyped
<1>3. {k \in D : k > 0} = D /\ {k \in D : k < Len(conn) + 1} = D
  <2>1. \A k \in D : k > 0 /\ k < Len(conn) + 1
    BY <1>2
  <2> QED
    BY <2>1, Zenon
<1>4. /\ C!IsLeast(first, D) <=> After(D, 0, first)
      /\ C!IsGreatest(last, D) <=> Before(D, Len(conn) + 1, last)
  <2>1. Len(conn) + 1 \in Nat /\ 0 \in Nat
    BY <1>2
  <2> QED
    BY <1>2, <1>3, <2>1, LeastIsAfter
<1>5. ASSUME NEW c \in D
      PROVE  /\ C!IsLeast(conn[c].next, {k \in D : k > c}) <=> After(D, c, conn[c].next)
             /\ C!IsGreatest(conn[c].prev, {k \in D : k < c}) <=> Before(D, c, conn[c].prev)
  <2>1. c \in Nat
    BY <1>2
  <2> QED
    BY <1>2, <2>1, LeastIsAfter
<1> QED
  BY <1>1, <1>4, <1>5 DEF C!ListIsLinked, Linked, Parted

\* Where a connection that is connected stands in the list.
LEMMA Neighbours ==
  ASSUME ConnectionsTypeOK, Linked, NEW c \in C!Connected
  PROVE  /\ c \in Nat \ {0}
         /\ LET n == conn[c].next
            IN  n \in Nat /\ (n # C!None => n \in C!Connected /\ n > c)
         /\ LET p == conn[c].prev
            IN  p \in Nat /\ p # c /\ (p # C!None => p \in C!Connected /\ p < c /\ conn[p].next = c)
<1>. USE ConnectionTyped DEF C!None
<1>1. c \in Nat \ {0} /\ conn[c].next \in Nat /\ conn[c].prev \in Nat
  BY DEF C!Connected
<1>2. ASSUME conn[c].next # 0
      PROVE  conn[c].next \in C!Connected /\ conn[c].next > c
  BY <1>2 DEF Linked, After
<1>3. ASSUME conn[c].prev # 0
      PROVE  /\ conn[c].prev \in C!Connected /\ conn[c].prev < c
             /\ \A k \in C!Connected : k < c => k <= conn[c].prev
  BY <1>3 DEF Linked, Before
<1>4. ASSUME conn[c].prev # 0
      PROVE  conn[conn[c].prev].next = c
  <2>. DEFINE p == conn[c].prev
              n == conn[p].next
  <2>1. After(C!Connected, p, n)
    BY <1>3, <1>4 DEF Linked
  <2>3. n \in C!Connected /\ n > p /\ n <= c
    BY <1>1, <1>3, <1>4, <2>1 DEF After
  <2> QED
    BY <1>1, <1>3, <1>4, <2>3, SMTT(40)
<1> QED
  BY <1>1, <1>2, <1>3, <1>4

\* What the removal of c does to each connection.
Removed(c) ==
  /\ conn' \in Seq(Connection) /\ Len(conn') = Len(conn)
  /\ C!Connected' = C!Connected \ {c}
  /\ \A k \in DOMAIN conn :
       /\ conn'[k].single = conn[k].single
       /\ conn'[k].receiver = IF k = c THEN C!Nobody ELSE conn[k].receiver
       /\ conn'[k].next = IF k = conn[c].prev THEN conn[c].next ELSE conn[k].next
       /\ k # c => conn'[k].prev = IF k = conn[c].next THEN conn[c].prev ELSE conn[k].prev

LEMMA RemovalIs ==
  ASSUME ConnectionsTypeOK, Linked, NEW c \in C!Connected, C!RemoveConnection(c)
  PROVE  Removed(c)
<1>. DEFINE n == conn[c].next
            p == conn[c].prev
<1>1. /\ c \in DOMAIN conn /\ n \in Nat /\ p \in Nat /\ n # c /\ p # c
      /\ n = p => n = 0
      /\ DOMAIN conn = 1..Len(conn) /\ Len(conn) \in Nat
  BY Neighbours, ConnectionTyped DEF C!None
<1>. DEFINE e(k) == CASE k = c -> [conn[k] EXCEPT !.receiver = C!Nobody, !.prev = C!None]
                      [] k = n -> [conn[k] EXCEPT !.prev = p]
                      [] k = p -> [conn[k] EXCEPT !.next = n]
                      [] OTHER -> conn[k]
<1>2. conn' = [k \in DOMAIN conn |-> e(k)]
  BY Zenon DEF C!RemoveConnection
<1>. HIDE DEF n, p
<1>3. ASSUME NEW k \in DOMAIN conn
      PROVE  /\ conn'[k] \in Connection
             /\ conn'[k].single = conn[k].single
             /\ conn'[k].receiver = IF k = c THEN C!Nobody ELSE conn[k].receiver
             /\ conn'[k].next = IF k = p THEN n ELSE conn[k].next
             /\ k # c => conn'[k].prev = IF k = n THEN p ELSE conn[k].prev
  <2>0. conn[k] \in Connection /\ k # 0
    BY <1>1, ConnectionTyped
  <2>1. CASE k = c
    <3>1. k # n /\ k # p
      BY <1>1, <2>1
    <3>2. conn'[k] = [conn[k] EXCEPT !.receiver = C!Nobody, !.prev = C!None]
      BY <1>2, <2>1, <3>1, Zenon
    <3>3. conn'[k] \in Connection
      <4>0. PICK A, B, N : A = Listener \cup {C!Nobody} /\ B = BOOLEAN /\ N = Nat
        OBVIOUS
      <4>1. /\ Connection = [receiver : A, single : B, next : N, prev : N]
            /\ C!Nobody \in A /\ C!None \in N
        BY <4>0 DEF Connection, C!None
      <4>2. conn[k] \in [receiver : A, single : B, next : N, prev : N]
        BY <2>0, <4>1
      <4>3. [conn[k] EXCEPT !.receiver = C!Nobody, !.prev = C!None]
              \in [receiver : A, single : B, next : N, prev : N]
        BY <4>1, <4>2
      <4> QED
        BY <3>2, <4>1, <4>3
    <3>4. /\ conn'[k].single = conn[k].single /\ conn'[k].next = conn[k].next
          /\ conn'[k].receiver = C!Nobody
      BY <2>0, <3>2 DEF Connection
    <3> QED
      BY <2>1, <3>1, <3>3, <3>4
  <2>2. CASE k = n
    <3>1. conn'[k] = [conn[k] EXCEPT !.prev = p] /\ k # c /\ k # p
      BY <1>1, <1>2, <2>0, <2>2, Zenon
    <3> QED
      BY <1>1, <2>0, <2>2, <3>1 DEF Connection, C!None
  <2>3. CASE k = p
    <3>1. conn'[k] = [conn[k] EXCEPT !.next = n] /\ k # c /\ k # n
      BY <1>1, <1>2, <2>0, <2>3, Zenon
    <3> QED
      BY <1>1, <2>0, <2>3, <3>1 DEF Connection, C!None
  <2>4. CASE k # c /\ k # n /\ k # p
    <3>1. conn'[k] = conn[k]
      BY <1>2, <2>4, Zenon
    <3> QED
      BY <2>0, <2>4, <3>1
  <2> QED
    BY <2>1, <2>2, <2>3, <2>4
<1>4. conn' \in Seq(Connection) /\ Len(conn') = Len(conn) /\ DOMAIN conn' = DOMAIN conn
  <2>. HIDE DEF e
  <2>1. \A k \in DOMAIN conn : conn'[k] = e(k)
    BY <1>2
  <2>2. conn' \in [1..Len(conn) -> Connection]
    BY <1>1, <1>2, <1>3, <2>1
  <2> QED
    BY <1>1, <2>2
<1>5. C!Connected' = C!Connected \ {c}
  BY <1>3, <1>4 DEF C!Connected
<1> QED
  BY <1>3, <1>4, <1>5 DEF Removed, n, p

LEMMA RemovalKeepsLinked ==
  ASSUME ConnectionsTypeOK, Linked, NEW c \in C!Connected, C!RemoveConnection(c), alive' = alive
  PROVE  Linked'
<1>1. PICK D, n, p, z : D = C!Connected /\ n = conn[c].next /\ p = conn[c].prev /\ z = Len(conn) + 1
  OBVIOUS
<1>2. /\ \A k \in D : k \in Nat /\ k > 0 /\ k < z
      /\ z \in Nat /\ c \in D
      /\ After(D, c, n) /\ Before(D, c, p) /\ After(D, 0, first) /\ Before(D, z, last)
  BY <1>1, ConnectionTyped DEF Linked
<1>3. /\ C!Connected' = D \ {c} /\ Len(conn') + 1 = z /\ D \subseteq DOMAIN conn
      /\ first' = IF first = c THEN n ELSE first
      /\ last' = IF last = c THEN p ELSE last
  BY <1>1, RemovalIs, Zenon DEF Removed, C!RemoveConnection, C!Connected
<1>4. \A k \in D \ {c} : /\ conn'[k].receiver = conn[k].receiver
                         /\ conn'[k].next = IF k = p THEN n ELSE conn[k].next
                         /\ conn'[k].prev = IF k = n THEN p ELSE conn[k].prev
  BY <1>1, <1>3, RemovalIs DEF Removed
<1>5. After(D \ {c}, 0, first')
  BY <1>2, <1>3 DEF After
<1>6. Before(D \ {c}, z, last')
  BY <1>2, <1>3 DEF Before
<1>7. ASSUME NEW k \in D \ {c}
      PROVE  After(D \ {c}, k, conn'[k].next)
  <2>1. PICK m : m = conn[k].next /\ After(D, k, m)
    BY <1>1 DEF Linked
  <2>2. CASE k = p
    BY <1>2, <1>4, <2>2 DEF After, Before
  <2>3. CASE k # p
    <3>1. m # c
      BY <1>2, <2>1, <2>3 DEF After, Before
    <3> QED
      BY <1>2, <1>4, <2>1, <2>3, <3>1 DEF After
  <2> QED
    BY <2>2, <2>3
<1>8. ASSUME NEW k \in D \ {c}
      PROVE  Before(D \ {c}, k, conn'[k].prev)
  <2>1. PICK m : m = conn[k].prev /\ Before(D, k, m)
    BY <1>1 DEF Linked
  <2>2. CASE k = n
    BY <1>2, <1>4, <2>2 DEF After, Before
  <2>3. CASE k # n
    <3>1. m # c
      BY <1>2, <2>1, <2>3 DEF After, Before
    <3> QED
      BY <1>2, <1>4, <2>1, <2>3, <3>1 DEF Before
  <2> QED
    BY <2>2, <2>3
<1>9. \A k \in D \ {c} : conn'[k].receiver \in alive'
  BY <1>1, <1>4 DEF Linked
<1> QED
  BY <1>3, <1>5, <1>6, <1>7, <1>8, <1>9 DEF Linked

\* What frees connections frees all that were removed, and only when nobody
\* but the caller, if he, holds a reference.
Frees(o) == (orphaned' = o /\ freed' = freed) \/ (orphaned' = {} /\ freed' = freed \cup o)

LEMMA RemovalKeepsParted ==
  ASSUME ConnectionsTypeOK, Linked, Parted, NEW c \in C!Connected, C!RemoveConnection(c),
         Frees(orphaned \cup {c})
  PROVE  Parted' /\ orphaned' \subseteq DOMAIN conn' /\ freed' \subseteq DOMAIN conn'
<1>1. DOMAIN conn' = DOMAIN conn /\ C!Connected' = C!Connected \ {c}
  BY RemovalIs DEF Removed, ConnectionsTypeOK
<1>2. c \in DOMAIN conn /\ c \notin orphaned /\ c \notin freed
  BY DEF Parted, C!Connected
<1>3. orphaned' \cup freed' = orphaned \cup freed \cup {c} /\ orphaned' \cap freed' = {}
  BY <1>2 DEF Parted, Frees
<1> QED
  BY <1>1, <1>2, <1>3 DEF Parted, C!Connected

LEMMA RemovalKeepsLead ==
  ASSUME ConnectionsTypeOK, Linked, Parted, LinksLead, NEW c \in C!Connected, C!RemoveConnection(c),
         Frees(orphaned \cup {c})
  PROVE  LinksLead'
<1>. USE DEF C!None
<1>1. DOMAIN conn' = DOMAIN conn /\ C!Connected' = C!Connected \ {c}
  BY RemovalIs DEF Removed, ConnectionsTypeOK
<1>2. ASSUME NEW k \in DOMAIN conn, conn'[k].next # 0
      PROVE  /\ conn'[k].next \in DOMAIN conn /\ k < conn'[k].next
             /\ freed' = freed /\ k \notin freed => conn'[k].next \notin freed
             /\ k \in C!Connected' => conn'[k].next \notin freed'
  <2>1. CASE k = conn[c].prev
    <3>1. conn'[k].next = conn[c].next /\ k \in Nat \ {0} /\ k \in C!Connected /\ k < c
      BY <1>2, <2>1, RemovalIs, Neighbours, ConnectionTyped DEF Removed
    <3>2. conn[c].next \in C!Connected /\ conn[c].next > c /\ c \in Nat /\ conn[c].next \in Nat
      BY <1>2, <3>1, Neighbours
    <3>3. conn[c].next \notin freed'
      BY <3>2 DEF Parted, Frees, C!Connected
    <3> QED
      BY <3>1, <3>2, <3>3 DEF Parted, C!Connected
  <2>2. CASE k # conn[c].prev
    <3>1. conn'[k].next = conn[k].next
      BY <2>2, RemovalIs DEF Removed
    <3>2. k \in C!Connected /\ k # c => conn[k].next \in C!Connected /\ conn[k].next # c
      <4>. SUFFICES ASSUME k \in C!Connected, k # c
                    PROVE  conn[k].next \in C!Connected /\ conn[k].next # c
        OBVIOUS
      <4>1. PICK D, m, p : D = C!Connected /\ m = conn[k].next /\ p = conn[c].prev
        OBVIOUS
      <4>2. After(D, k, m) /\ Before(D, c, p) /\ m # 0 /\ k # p /\ \A j \in D : j \in Nat /\ j > 0
        BY <1>2, <2>2, <3>1, <4>1, ConnectionTyped DEF Linked
      <4> QED
        BY <4>1, <4>2 DEF After, Before
    <3>3. k \in C!Connected /\ k # c => conn[k].next \notin freed'
      BY <3>2 DEF Parted, Frees, C!Connected
    <3> QED
      BY <1>1, <1>2, <3>1, <3>3 DEF LinksLead
  <2> QED
    BY <2>1, <2>2
<1>3. ASSUME NEW k \in DOMAIN conn, conn'[k].next # 0, k \notin freed', freed' # freed
      PROVE  k \in C!Connected'
  <2>1. freed' = freed \cup orphaned \cup {c}
    BY <1>3 DEF Frees
  <2> QED
    BY <1>1, <1>3, <2>1 DEF Parted, C!Connected
<1>4. freed' = freed \/ freed' # freed
  OBVIOUS
<1> QED
  BY <1>1, <1>2, <1>3, <1>4 DEF LinksLead

\* What a new connection does to the others.
Added(r, single) ==
  LET c == Len(conn) + 1
  IN  /\ conn' \in Seq(Connection) /\ Len(conn') = c
      /\ C!Connected' = C!Connected \cup {c}
      /\ \A k \in DOMAIN conn :
           /\ conn'[k].single = conn[k].single /\ conn'[k].receiver = conn[k].receiver
           /\ conn'[k].next = IF k = last THEN c ELSE conn[k].next
           /\ conn'[k].prev = conn[k].prev
      /\ conn'[c].receiver = r /\ conn'[c].next = C!None /\ conn'[c].prev = last
      /\ first' = IF last = C!None THEN c ELSE first
      /\ last' = c

LEMMA AdditionIs ==
  ASSUME ConnectionsTypeOK, Linked, NEW t, NEW r \in Listener, NEW single \in BOOLEAN,
         C!Connect(t, r, single)
  PROVE  Added(r, single)
<1>1. PICK c : c = Len(conn) + 1
  OBVIOUS
<1>2. /\ Len(conn) \in Nat /\ c \in Nat \ {0} /\ DOMAIN conn = 1..Len(conn)
      /\ last \in Nat /\ r # C!Nobody
  BY <1>1, ConnectionTyped, ObjectsAssumption DEF Linked, Before, C!ConnectionsAssumption
<1>3. PICK new : new = [receiver |-> r, single |-> single, next |-> C!None, prev |-> last]
  OBVIOUS
<1>4. /\ new \in Connection
      /\ new.receiver = r /\ new.next = C!None /\ new.prev = last
  BY <1>2, <1>3 DEF Connection, C!None
<1>. DEFINE e(k) == IF k = last THEN [conn[k] EXCEPT !.next = c] ELSE conn[k]
<1>5. conn' = Append([k \in DOMAIN conn |-> e(k)], new)
  BY <1>1, <1>3 DEF C!Connect
<1>6. ASSUME NEW k \in DOMAIN conn
      PROVE  /\ e(k) \in Connection
             /\ e(k).single = conn[k].single /\ e(k).receiver = conn[k].receiver
             /\ e(k).next = IF k = last THEN c ELSE conn[k].next
             /\ e(k).prev = conn[k].prev
  <2>1. conn[k] \in Connection
    BY ConnectionTyped
  <2>2. CASE k = last
    BY <1>2, <2>1, <2>2 DEF Connection
  <2> QED
    BY <2>1, <2>2
<1>. HIDE DEF e
<1>7. PICK q : q = [k \in DOMAIN conn |-> e(k)]
  OBVIOUS
<1>8. q \in Seq(Connection) /\ Len(q) = Len(conn) /\ \A k \in DOMAIN conn : q[k] = e(k)
  <2>1. q \in [1..Len(conn) -> Connection]
    BY <1>2, <1>6, <1>7
  <2> QED
    BY <1>2, <1>7, <2>1
<1>9. /\ conn' \in Seq(Connection) /\ Len(conn') = c /\ conn'[c] = new
      /\ \A k \in 1..Len(conn) : conn'[k] = e(k)
  <2>1. conn' = Append(q, new)
    BY <1>5, <1>7
  <2>2. /\ Append(q, new) \in Seq(Connection) /\ Len(Append(q, new)) = Len(q) + 1
        /\ Append(q, new)[Len(q) + 1] = new /\ \A i \in 1..Len(q) : Append(q, new)[i] = q[i]
    BY <1>4, <1>8
  <2> QED
    BY <1>1, <1>2, <1>8, <2>1, <2>2
<1>10. C!Connected' = C!Connected \cup {c}
  <2>1. DOMAIN conn' = 1..c
    BY <1>2, <1>9
  <2>2. \A k \in 1..Len(conn) : conn'[k].receiver = conn[k].receiver
    BY <1>2, <1>6, <1>9
  <2>3. conn'[c].receiver # C!Nobody
    BY <1>2, <1>4, <1>9
  <2>4. 1..c = 1..Len(conn) \cup {c}
    BY <1>1, <1>2
  <2> QED
    BY <1>2, <2>1, <2>2, <2>3, <2>4 DEF C!Connected
<1>11. first' = (IF last = C!None THEN c ELSE first) /\ last' = c
  BY <1>1 DEF C!Connect
<1> QED
  BY <1>1, <1>2, <1>4, <1>6, <1>9, <1>10, <1>11 DEF Added

LEMMA AdditionKeepsLinked ==
  ASSUME ConnectionsTypeOK, Linked, LinksLead, NEW t, NEW r \in Listener, NEW single \in BOOLEAN,
         C!Connect(t, r, single)
  PROVE  Linked'
<1>1. PICK D, c, l : D = C!Connected /\ c = Len(conn) + 1 /\ l = last
  OBVIOUS
<1>2. /\ \A k \in D : k \in Nat /\ k > 0 /\ k < c
      /\ D \subseteq DOMAIN conn
      /\ c \in Nat /\ c > 0
      /\ After(D, 0, first) /\ Before(D, c, l)
  BY <1>1, ConnectionTyped DEF Linked
<1>3. /\ C!Connected' = D \cup {c} /\ Len(conn') = c
      /\ first' = IF l = 0 THEN c ELSE first
      /\ last' = c
      /\ conn'[c].receiver = r /\ conn'[c].next = 0 /\ conn'[c].prev = l
  BY <1>1, AdditionIs DEF Added, C!None
<1>4. \A k \in D : /\ conn'[k].receiver = conn[k].receiver
                   /\ conn'[k].next = IF k = l THEN c ELSE conn[k].next
                   /\ conn'[k].prev = conn[k].prev
  BY <1>1, <1>2, AdditionIs DEF Added
<1>5. After(D \cup {c}, 0, first')
  BY <1>2, <1>3 DEF After, Before
<1>6. Before(D \cup {c}, c + 1, last')
  BY <1>2, <1>3 DEF Before
<1>7. ASSUME NEW k \in D
      PROVE  After(D \cup {c}, k, conn'[k].next)
  <2>1. PICK m : m = conn[k].next /\ After(D, k, m)
    BY <1>1 DEF Linked
  <2> QED
    BY <1>2, <1>4, <2>1 DEF After, Before
<1>8. ASSUME NEW k \in D
      PROVE  Before(D \cup {c}, k, conn'[k].prev)
  <2>1. PICK m : m = conn[k].prev /\ Before(D, k, m)
    BY <1>1 DEF Linked
  <2> QED
    BY <1>2, <1>4, <2>1 DEF Before
<1>9. After(D \cup {c}, c, conn'[c].next) /\ Before(D \cup {c}, c, conn'[c].prev)
  BY <1>2, <1>3 DEF After, Before
<1>10. \A k \in D \cup {c} : conn'[k].receiver \in alive'
  BY <1>1, <1>3, <1>4 DEF Linked, C!Connect, C!memory
<1> QED
  BY <1>3, <1>5, <1>6, <1>7, <1>8, <1>9, <1>10 DEF Linked

LEMMA AdditionKeepsLead ==
  ASSUME ConnectionsTypeOK, Linked, Parted, LinksLead,
         NEW t, NEW r \in Listener, NEW single \in BOOLEAN, C!Connect(t, r, single)
  PROVE  LinksLead' /\ Parted'
<1>1. PICK c : c = Len(conn) + 1 /\ c \in Nat \ {0} /\ c \notin DOMAIN conn
               /\ DOMAIN conn = 1..Len(conn) /\ Len(conn) \in Nat
  BY ConnectionTyped
<1>2. DOMAIN conn' = DOMAIN conn \cup {c}
  <2>1. DOMAIN conn' = 1..c
    BY <1>1, AdditionIs DEF Added
  <2> QED
    BY <1>1, <2>1
<1>3. orphaned' = orphaned /\ freed' = freed
  BY DEF C!Connect, C!memory
<1>4. C!Connected' = C!Connected \cup {c}
  BY <1>1, AdditionIs DEF Added
<1>5. freed \subseteq DOMAIN conn /\ orphaned \subseteq DOMAIN conn
  BY DEF ConnectionsTypeOK
<1>6. LinksLead'
  <2>1. \A k \in DOMAIN conn : conn'[k].next = IF k = last THEN c ELSE conn[k].next
    BY <1>1, AdditionIs DEF Added
  <2>2. conn'[c].next = 0
    BY <1>1, AdditionIs DEF Added, C!None
  <2>3. \A k \in DOMAIN conn : k < c
    BY <1>1
  <2> QED
    BY <1>1, <1>2, <1>3, <1>5, <2>1, <2>2, <2>3 DEF LinksLead, C!None
<1>7. Parted'
  BY <1>1, <1>2, <1>3, <1>4, <1>5 DEF Parted
<1> QED
  BY <1>6, <1>7

-----------------------------------------------------------------------------
(* What the steps on the list mean for an emission.                        *)

LEMMA RemovalKeepsEmission ==
  ASSUME ConnectionsTypeOK, Linked, NEW f \in EmissionFrame, EmissionOK(f),
         NEW c \in C!Connected, C!RemoveConnection(c)
  PROVE  EmissionOK(f)'
<1>. USE DEF C!None
<1>1. f.known \subseteq Nat /\ f.highest \in Nat /\ f.known \subseteq DOMAIN conn
  BY DEF EmissionFrame, EmissionOK
<1>2. DOMAIN conn' = DOMAIN conn /\ Len(conn') = Len(conn) /\ C!Connected' = C!Connected \ {c}
  BY RemovalIs DEF Removed, ConnectionsTypeOK
<1>3. \A k \in DOMAIN conn :
        /\ conn'[k].receiver = IF k = c THEN C!Nobody ELSE conn[k].receiver
        /\ conn'[k].next = IF k = conn[c].prev THEN conn[c].next ELSE conn[k].next
  BY RemovalIs DEF Removed
<1>4. /\ c \in Nat /\ c > 0 /\ conn[c].next \in Nat /\ (conn[c].next # 0 => conn[c].next > c)
      /\ conn[c].prev # 0 => conn[c].prev < c /\ conn[conn[c].prev].next = c
  BY Neighbours
<1>5. \A k \in f.known : k > 0
  BY <1>1, ConnectionTyped
\* The connection before c is one that f knew: c was one, or is beyond.
<1>6. ASSUME conn[c].prev \in f.known
      PROVE  /\ c \in f.known \/ c > f.highest
             /\ conn[c].prev < c
  BY <1>4, <1>5, <1>6 DEF EmissionOK, Leads, Fresh
<1>7. Leads(f)'
  <2>. SUFFICES ASSUME NEW k \in f.known, conn'[k].next # 0
                PROVE  Fresh(f, conn'[k].next)
    BY DEF Leads, Fresh
  <2>1. CASE k = conn[c].prev
    <3>1. conn'[k].next = conn[c].next
      BY <1>1, <1>3, <2>1
    <3> QED
      BY <1>1, <1>4, <1>6, <2>1, <3>1 DEF EmissionOK, Leads, Fresh
  <2>2. CASE k # conn[c].prev
    BY <1>1, <1>3, <2>2 DEF EmissionOK, Leads
  <2> QED
    BY <2>1, <2>2
<1>8. SkipsNone(f)'
  <2>. SUFFICES ASSUME NEW k \in f.known, NEW j \in f.known \cap C!Connected, j # c,
                       k < j, j <= f.highest
                PROVE  conn'[k].next # 0 /\ conn'[k].next <= j
    BY <1>2 DEF SkipsNone
  <2>1. conn[k].next # 0 /\ conn[k].next <= j
    BY DEF EmissionOK, SkipsNone
  <2>2. CASE k = conn[c].prev
    <3>1. conn'[k].next = conn[c].next /\ conn[k].next = c /\ c < j
      BY <1>1, <1>3, <1>4, <1>5, <2>1, <2>2
    <3>2. c \in f.known
      BY <1>1, <1>4, <1>6, <2>2, <3>1
    <3> QED
      BY <3>1, <3>2 DEF EmissionOK, SkipsNone
  <2>3. CASE k # conn[c].prev
    BY <1>1, <1>3, <2>1, <2>3
  <2> QED
    BY <2>2, <2>3
<1>9. /\ f.highest <= Len(conn')
      /\ f.known \subseteq DOMAIN conn' /\ f.called \subseteq f.known
      /\ f.at = "first" => f.called = {}
      /\ IF f.at \in Standing THEN f.cur \in f.known ELSE f.cur = 0
  BY <1>2 DEF EmissionOK
<1>10. f.at \in {"claim", "queue", "post", "slot"} =>
         f.to \in Listener /\ conn'[f.cur].receiver \in {f.to, C!Nobody}
  <2>. SUFFICES ASSUME f.at \in {"claim", "queue", "post", "slot"}
                PROVE  f.to \in Listener /\ conn'[f.cur].receiver \in {f.to, C!Nobody}
    OBVIOUS
  <2>1. f.cur \in DOMAIN conn
    BY <1>1 DEF EmissionOK, Standing
  <2> QED
    BY <1>3, <2>1 DEF EmissionOK
<1>11. f.at # "first" =>
         \A k \in f.known \cap C!Connected' : k <= f.highest /\ Behind(f, k) => k \in f.called
  BY <1>2 DEF EmissionOK
<1> QED
  BY <1>7, <1>8, <1>9, <1>10, <1>11 DEF EmissionOK, Behind

LEMMA AdditionKeepsEmission ==
  ASSUME ConnectionsTypeOK, Linked, NEW f \in EmissionFrame, EmissionOK(f),
         NEW t, NEW r \in Listener, NEW single \in BOOLEAN, C!Connect(t, r, single)
  PROVE  EmissionOK(f)'
<1>. USE DEF C!None
<1>1. f.known \subseteq Nat /\ f.highest \in Nat /\ f.known \subseteq DOMAIN conn
      /\ f.highest <= Len(conn)
  BY DEF EmissionFrame, EmissionOK
<1>2. PICK c : c = Len(conn) + 1 /\ c \in Nat /\ Len(conn) \in Nat /\ DOMAIN conn = 1..Len(conn)
  BY ConnectionTyped
<1>3. /\ DOMAIN conn' = 1..c /\ Len(conn') = c /\ C!Connected' = C!Connected \cup {c}
      /\ \A k \in DOMAIN conn :
           /\ conn'[k].receiver = conn[k].receiver
           /\ conn'[k].next = IF k = last THEN c ELSE conn[k].next
  <2>1. Added(r, single)
    BY AdditionIs
  <2>2. conn' \in Seq(Connection) /\ Len(conn') = c /\ C!Connected' = C!Connected \cup {c}
    BY <1>2, <2>1 DEF Added
  <2>3. \A k \in DOMAIN conn :
           /\ conn'[k].receiver = conn[k].receiver
           /\ conn'[k].next = IF k = last THEN c ELSE conn[k].next
    BY <1>2, <2>1 DEF Added
  <2> QED
    BY <1>2, <2>2, <2>3
<1>4. c \notin f.known /\ c > f.highest /\ f.known \cap C!Connected' = f.known \cap C!Connected
  BY <1>1, <1>2, <1>3
<1>5. Leads(f)'
  BY <1>1, <1>3, <1>4 DEF EmissionOK, Leads, Fresh
<1>6. SkipsNone(f)'
  <2>. SUFFICES ASSUME NEW k \in f.known, NEW j \in f.known \cap C!Connected,
                       k < j, j <= f.highest
                PROVE  conn'[k].next # 0 /\ conn'[k].next <= j
    BY <1>4 DEF SkipsNone
  <2>1. conn[k].next # 0 /\ conn[k].next <= j
    BY DEF EmissionOK, SkipsNone
  <2>2. k # last
    <3>1. Before(C!Connected, c, last) /\ \A i \in C!Connected : i < c /\ i > 0
      BY <1>2, ConnectionTyped DEF Linked
    <3> QED
      BY <1>1, <1>2, <3>1 DEF Before
  <2> QED
    BY <1>1, <1>3, <2>1, <2>2
<1>7. /\ f.highest <= Len(conn')
      /\ f.known \subseteq DOMAIN conn' /\ f.called \subseteq f.known
      /\ f.at = "first" => f.called = {}
      /\ IF f.at \in Standing THEN f.cur \in f.known ELSE f.cur = 0
  BY <1>1, <1>2, <1>3 DEF EmissionOK
<1>8. f.at \in {"claim", "queue", "post", "slot"} =>
         f.to \in Listener /\ conn'[f.cur].receiver \in {f.to, C!Nobody}
  <2>. SUFFICES ASSUME f.at \in {"claim", "queue", "post", "slot"}
                PROVE  f.to \in Listener /\ conn'[f.cur].receiver \in {f.to, C!Nobody}
    OBVIOUS
  <2>1. f.cur \in DOMAIN conn
    BY <1>1 DEF EmissionOK, Standing
  <2> QED
    BY <1>3, <2>1 DEF EmissionOK
<1>9. f.at # "first" =>
         \A k \in f.known \cap C!Connected' : k <= f.highest /\ Behind(f, k) => k \in f.called
  BY <1>4 DEF EmissionOK
<1> QED
  BY <1>5, <1>6, <1>7, <1>8, <1>9 DEF EmissionOK, Behind

LEMMA EmissionStays ==
  ASSUME NEW f, EmissionOK(f), conn' = conn
  PROVE  EmissionOK(f)'
<1>1. C!Connected' = C!Connected
  BY DEF C!Connected
<1> QED
  BY <1>1 DEF EmissionOK, Leads, SkipsNone, Fresh, Behind

-----------------------------------------------------------------------------
(* What a step means for the calls.                                        *)

ListStep ==
  \/ conn' = conn
  \/ \E c \in C!Connected : C!RemoveConnection(c)
  \/ \E t \in Thread, r \in Listener, single \in BOOLEAN : C!Connect(t, r, single)

LEMMA FrameStays ==
  ASSUME ConnectionsTypeOK, Linked, ListStep, NEW f \in Frame, FrameOK(f),
         Walks(f) => freed' = freed
  PROVE  FrameOK(f)'
<1>1. DOMAIN conn \subseteq DOMAIN conn'
  <2>1. CASE conn' = conn
    BY <2>1
  <2>2. CASE \E c \in C!Connected : C!RemoveConnection(c)
    <3>1. PICK c \in C!Connected : Removed(c)
      BY <2>2, RemovalIs
    <3> QED
      BY <3>1, ConnectionTyped DEF Removed
  <2>3. CASE \E t \in Thread, r \in Listener, single \in BOOLEAN : C!Connect(t, r, single)
    <3>1. PICK r, single : Added(r, single)
      BY <2>3, AdditionIs
    <3>2. conn' \in Seq(Connection) /\ Len(conn') = Len(conn) + 1
      BY <3>1 DEF Added
    <3> QED
      BY <3>2, ConnectionTyped
  <2> QED
    BY <2>1, <2>2, <2>3 DEF ListStep
<1>2. f.call = "emit" => EmissionOK(f)'
  <2>. SUFFICES ASSUME f.call = "emit"
                PROVE  EmissionOK(f)'
    OBVIOUS
  <2>1. f \in EmissionFrame
    BY DEF Frame, DisconnectionFrame, DestructionFrame
  <2> QED
    BY <2>1, RemovalKeepsEmission, AdditionKeepsEmission, EmissionStays DEF ListStep, FrameOK
<1>3. Walks(f) /\ f.cur # C!None => f.cur \in DOMAIN conn' \ freed'
  BY <1>1 DEF FrameOK
<1> QED
  BY <1>2, <1>3 DEF FrameOK, Walks

LEMMA TopPositions ==
  ASSUME NEW m \in Nat, NEW n \in Nat, NEW k \in Nat \ {0}, m \in {k - 1, k}, n \in {k - 1, k}
  PROVE  /\ \A i \in 1..m : /\ i # k => i \in 1..k - 1 /\ i \in 1..n
                            /\ i = k => m = k
                            /\ i < m => i < n \/ (m = k /\ i = k - 1)
         /\ \A i \in 1..n : i # k => i \in 1..k - 1 /\ i \in 1..m
         /\ k \in 1..m <=> m = k
OBVIOUS

LEMMA MovedCalls ==
  ASSUME ConnectionsTypeOK, NEW t \in Thread, NEW s, NEW k, Moves(t, s, k)
  PROVE  /\ calls' \in [Thread -> Seq(Frame)]
         /\ \A u \in Thread : \A i \in DOMAIN calls'[u] :
              /\ calls'[u][i] \in Frame
              /\ \/ u = t /\ i = k /\ Len(s) = k /\ calls'[u][i] = s[k]
                 \/ (u # t \/ i # k) /\ i \in DOMAIN calls[u] /\ calls'[u][i] = calls[u][i]
              /\ i < Len(calls'[u]) => i < Len(calls[u]) \/ (u = t /\ Len(s) = k /\ i = k - 1)
         /\ \A u \in Thread : \A i \in DOMAIN calls[u] :
              u # t \/ i # k => i \in DOMAIN calls'[u] /\ calls'[u][i] = calls[u][i]
         /\ k \in DOMAIN calls'[t] <=> Len(s) = k
<1>1. calls \in [Thread -> Seq(Frame)] /\ s \in Seq(Frame) /\ k \in Nat \ {0}
  BY DEF ConnectionsTypeOK, Moves
<1>2. calls'[t] = s /\ \A u \in Thread : u # t => calls'[u] = calls[u]
  BY <1>1 DEF Moves
<1>3. calls' \in [Thread -> Seq(Frame)]
  BY <1>1 DEF Moves
<1>4. /\ Len(s) \in Nat /\ Len(calls[t]) \in Nat
      /\ DOMAIN s = 1..Len(s) /\ DOMAIN calls[t] = 1..Len(calls[t])
      /\ Len(s) \in {k - 1, k} /\ Len(calls[t]) \in {k - 1, k}
      /\ \A i \in 1..k - 1 : s[i] = calls[t][i]
  BY <1>1 DEF Moves
<1>5. PICK m, n : m = Len(s) /\ n = Len(calls[t])
  BY Zenon
<1>6. /\ \A i \in 1..m : /\ i # k => i \in 1..k - 1 /\ i \in 1..n
                         /\ i = k => m = k
                         /\ i < m => i < n \/ (m = k /\ i = k - 1)
      /\ \A i \in 1..n : i # k => i \in 1..k - 1 /\ i \in 1..m
      /\ k \in 1..m <=> m = k
  <2>1. m \in Nat /\ n \in Nat /\ k \in Nat \ {0} /\ m \in {k - 1, k} /\ n \in {k - 1, k}
    BY <1>1, <1>4, <1>5, Zenon
  <2> QED
    BY <2>1, TopPositions, Zenon
<1>7. /\ \A i \in DOMAIN s :
           /\ \/ i = k /\ Len(s) = k
              \/ i # k /\ i \in DOMAIN calls[t] /\ s[i] = calls[t][i]
           /\ i < Len(s) => i < Len(calls[t]) \/ (Len(s) = k /\ i = k - 1)
      /\ \A i \in DOMAIN calls[t] : i # k => i \in DOMAIN s /\ s[i] = calls[t][i]
      /\ k \in DOMAIN s <=> Len(s) = k
  BY <1>4, <1>5, <1>6
<1>8. \A u \in Thread : \A i \in DOMAIN calls'[u] : calls'[u][i] \in Frame
  BY <1>3
<1> QED
  BY <1>2, <1>3, <1>7, <1>8

LEMMA FramesMove ==
  ASSUME ConnectionsTypeOK, Linked, ListStep, FramesOK,
         NEW t \in Thread, NEW s, NEW k, Moves(t, s, k),
         k > Len(calls[t]) /\ k > 1 => calls[t][k - 1].call = "emit" /\ calls[t][k - 1].at = "slot",
         freed' # freed =>
           \A u \in Thread : \A i \in DOMAIN calls[u] : Walks(calls[u][i]) => u = t /\ i = k,
         \A u \in Thread : \A i \in DOMAIN calls[u] :
           (u # t \/ i # k) /\ calls[u][i].call = "destroy" => calls[u][i].of \in alive',
         Len(s) = k => /\ FrameOK(s[k])'
                       /\ s[k].call = "destroy" => thread[s[k].of] = t /\ s[k].of \in alive'
  PROVE  FramesOK'
<1>1. PICK old, new : old = calls /\ new = calls'
  OBVIOUS
<1>2. ASSUME NEW u \in Thread, NEW i \in DOMAIN new[u]
      PROVE  /\ FrameOK(new[u][i])'
             /\ i < Len(new[u]) => new[u][i].call = "emit" /\ new[u][i].at = "slot"
             /\ new[u][i].call = "destroy" => thread[new[u][i].of] = u /\ new[u][i].of \in alive'
  <2>1. CASE u = t /\ i = k
    <3>1. Len(s) = k /\ new[u][i] = s[k]
      BY <1>1, <1>2, <2>1, MovedCalls
    <3>2. ~(i < Len(new[u]))
      <4>1. new[t] = s
        BY <1>1 DEF Moves, ConnectionsTypeOK
      <4> QED
        BY <2>1, <3>1, <4>1 DEF Moves
    <3> QED
      BY <2>1, <3>1, <3>2
  <2>2. CASE u # t \/ i # k
    <3>1. PICK f : f = old[u][i]
      OBVIOUS
    <3>2. i \in DOMAIN calls[u] /\ f \in Frame /\ f = calls[u][i] /\ f = new[u][i]
      BY <1>1, <1>2, <2>2, <3>1, MovedCalls
    <3>3. FrameOK(f)
      BY <3>2 DEF FramesOK
    <3>4. Walks(f) => freed' = freed
      BY <2>2, <3>2
    <3>5. FrameOK(f)'
      BY <3>2, <3>3, <3>4, FrameStays
    <3>6. i < Len(new[u]) => i < Len(calls[u]) \/ (u = t /\ Len(s) = k /\ i = k - 1)
      BY <1>1, <1>2, MovedCalls
    <3>7. i < Len(calls[u]) => f.call = "emit" /\ f.at = "slot"
      <4>1. i < Len(calls[u]) => calls[u][i].call = "emit" /\ calls[u][i].at = "slot"
        BY <3>2 DEF FramesOK
      <4> QED
        BY <3>2, <4>1
    <3>8. CASE u = t /\ Len(s) = k /\ i = k - 1 /\ ~(i < Len(calls[u]))
      <4>1. k > Len(calls[t]) /\ k > 1
        <5>1. k \in Nat /\ Len(calls[t]) \in Nat /\ i \in 1..Len(calls[t])
          BY <3>2, <3>8 DEF Moves, ConnectionsTypeOK
        <5> QED
          BY <3>8, <5>1
      <4>2. f.call = "emit" /\ f.at = "slot"
        BY <3>2, <3>8, <4>1
      <4> QED
        BY <3>2, <3>5, <4>2
    <3>9. f.call = "destroy" => thread[f.of] = u /\ f.of \in alive'
      BY <2>2, <3>2, ZenonT(40) DEF FramesOK
    <3> QED
      BY <3>2, <3>5, <3>6, <3>7, <3>8, <3>9
  <2> QED
    BY <2>1, <2>2
<1> QED
  BY <1>1, <1>2 DEF FramesOK

-----------------------------------------------------------------------------
(* The count of references.                                                *)

In(p, S) == IF p \in S THEN 1 ELSE 0

Beside(p, S, T) == \A q : q # p => (q \in S <=> q \in T)

LEMMA CardinalityMoves ==
  ASSUME NEW S, NEW T, NEW p, IsFiniteSet(S), Beside(p, S, T)
  PROVE  /\ IsFiniteSet(T)
         /\ Cardinality(S) \in Nat /\ Cardinality(T) \in Nat
         /\ Cardinality(T) = Cardinality(S) + In(p, T) - In(p, S)
<1>1. IsFiniteSet(S \ {p}) /\ Cardinality(S \ {p}) = Cardinality(S) - In(p, S)
  BY FS_RemoveElement, FS_CardinalityType DEF In
<1>2. CASE p \in T
  <2>1. T = (S \ {p}) \cup {p}
    BY <1>2 DEF Beside
  <2>2. IsFiniteSet(T) /\ Cardinality(T) = Cardinality(S \ {p}) + 1
    BY <1>1, <2>1, FS_AddElement
  <2> QED
    BY <1>1, <1>2, <2>2, FS_CardinalityType DEF In
<1>3. CASE p \notin T
  <2>1. T = S \ {p}
    BY <1>3 DEF Beside
  <2> QED
    BY <1>1, <1>3, <2>1, FS_CardinalityType DEF In
<1> QED
  BY <1>2, <1>3

LEMMA WalkersAre ==
  /\ \A u, i : <<u, i>> \in Walkers <=> u \in Thread /\ i \in DOMAIN calls[u] /\ Walks(calls[u][i])
  /\ \A p \in Walkers : \E u \in Thread : \E i \in DOMAIN calls[u] : p = <<u, i>>
<1>1. PICK P : P = UNION {{t} \X DOMAIN calls[t] : t \in Thread}
  OBVIOUS
<1>2. \A u, i : <<u, i>> \in P <=> u \in Thread /\ i \in DOMAIN calls[u]
  BY <1>1
<1>3. \A p \in P : \E u \in Thread : \E i \in DOMAIN calls[u] : p = <<u, i>>
  BY <1>1
<1>4. Walkers = {p \in P : Walks(calls[p[1]][p[2]])}
  BY <1>1 DEF Walkers
<1> QED
  BY <1>2, <1>3, <1>4

LEMMA WalkersMove ==
  ASSUME ConnectionsTypeOK, NEW t \in Thread, NEW s, NEW k, Moves(t, s, k), IsFiniteSet(Walkers)
  PROVE  /\ IsFiniteSet(Walkers')
         /\ Cardinality(Walkers) \in Nat /\ Cardinality(Walkers') \in Nat
         /\ Cardinality(Walkers') =
              Cardinality(Walkers) + (IF Len(s) = k /\ Walks(s[k]) THEN 1 ELSE 0)
                                   - (IF Len(calls[t]) = k /\ Walks(calls[t][k]) THEN 1 ELSE 0)
<1>1. PICK old, new : old = Walkers /\ new = Walkers'
  OBVIOUS
<1>2. /\ \A u, i : <<u, i>> \in old <=> u \in Thread /\ i \in DOMAIN calls[u] /\ Walks(calls[u][i])
      /\ \A p \in old : \E u \in Thread : \E i \in DOMAIN calls[u] : p = <<u, i>>
  BY <1>1, WalkersAre
<1>3. /\ \A u, i : <<u, i>> \in new <=> u \in Thread /\ i \in DOMAIN calls'[u] /\ Walks(calls'[u][i])
      /\ \A p \in new : \E u \in Thread : \E i \in DOMAIN calls'[u] : p = <<u, i>>
  <2>1. PICK P : P = (UNION {{u} \X DOMAIN calls[u] : u \in Thread})'
    OBVIOUS
  <2>2. \A u, i : <<u, i>> \in P <=> u \in Thread /\ i \in DOMAIN calls'[u]
    BY <2>1
  <2>3. \A p \in P : \E u \in Thread : \E i \in DOMAIN calls'[u] : p = <<u, i>>
    BY <2>1
  <2>4. new = {p \in P : Walks(calls'[p[1]][p[2]])}
    BY <1>1, <2>1 DEF Walkers, Walks
  <2> QED
    BY <2>2, <2>3, <2>4
<1>4. Beside(<<t, k>>, old, new)
  <2>1. ASSUME NEW u \in Thread, NEW i, u # t \/ i # k
        PROVE  <<u, i>> \in old <=> <<u, i>> \in new
    <3>1. i \in DOMAIN calls[u] <=> i \in DOMAIN calls'[u]
      BY <2>1, MovedCalls
    <3>2. i \in DOMAIN calls[u] => calls'[u][i] = calls[u][i]
      BY <2>1, MovedCalls
    <3> QED
      BY <1>2, <1>3, <3>1, <3>2
  <2> QED
    BY <1>2, <1>3, <2>1 DEF Beside
<1>5. <<t, k>> \in old <=> Len(calls[t]) = k /\ Walks(calls[t][k])
  <2>1. k \in DOMAIN calls[t] <=> Len(calls[t]) = k
    BY DEF Moves, ConnectionsTypeOK
  <2> QED
    BY <1>2, <2>1
<1>6. <<t, k>> \in new <=> Len(s) = k /\ Walks(s[k])
  <2>1. k \in DOMAIN calls'[t] <=> Len(s) = k
    BY MovedCalls
  <2>2. calls'[t] = s
    BY DEF Moves, ConnectionsTypeOK
  <2> QED
    BY <1>3, <2>1, <2>2
<1>7. /\ IsFiniteSet(new) /\ Cardinality(old) \in Nat /\ Cardinality(new) \in Nat
      /\ Cardinality(new) = Cardinality(old) + In(<<t, k>>, new) - In(<<t, k>>, old)
  BY <1>1, <1>4, CardinalityMoves
<1> QED
  BY <1>1, <1>5, <1>6, <1>7 DEF In

-----------------------------------------------------------------------------
(* Whole steps.                                                            *)

\* Nobody walks but the call at k of t.
OnlyWalks(t, k) ==
  \A u \in Thread : \A i \in DOMAIN calls[u] : Walks(calls[u][i]) => u = t /\ i = k

LEMMA NobodyWalks ==
  ASSUME ConnectionsTypeOK, ReferencesAreCounted, Sender \in alive, ref = 1
  PROVE  \A u \in Thread : \A i \in DOMAIN calls[u] : ~Walks(calls[u][i])
<1>1. IsFiniteSet(Walkers) /\ Cardinality(Walkers) \in Nat
  BY FS_CardinalityType DEF ReferencesAreCounted
<1>2. Cardinality(Walkers) = 0
  BY <1>1 DEF ReferencesAreCounted
<1>3. Walkers = {}
  BY <1>1, <1>2, FS_EmptySet
<1> QED
  BY <1>3, WalkersAre

\* Who walks and has the last reference walks alone.
LEMMA WalksAlone ==
  ASSUME ConnectionsTypeOK, ReferencesAreCounted, NEW t \in Thread, NEW k, NEW f, Inside(t, k, f),
         Walks(f)
  PROVE  /\ ref >= 1 /\ (Sender \in alive => ref >= 2)
         /\ ref = 1 => OnlyWalks(t, k)
<1>1. IsFiniteSet(Walkers) /\ Cardinality(Walkers) \in Nat
  BY FS_CardinalityType DEF ReferencesAreCounted
<1>2. <<t, k>> \in Walkers
  <2>1. calls[t] \in Seq(Frame) /\ k \in Nat \ {0} /\ k = Len(calls[t]) /\ f = calls[t][k]
    BY DEF Inside, ConnectionsTypeOK
  <2>2. k \in DOMAIN calls[t] /\ Walks(calls[t][k])
    BY <2>1
  <2> QED
    BY <2>2, WalkersAre
<1>3. Cardinality(Walkers \ {<<t, k>>}) = Cardinality(Walkers) - 1 /\ IsFiniteSet(Walkers \ {<<t, k>>})
      /\ Cardinality(Walkers \ {<<t, k>>}) \in Nat
  BY <1>1, <1>2, FS_RemoveElement, FS_CardinalityType
<1>4. ref >= 1 /\ (Sender \in alive => ref >= 2)
  BY <1>1, <1>3 DEF ReferencesAreCounted
<1>5. ASSUME ref = 1
      PROVE  OnlyWalks(t, k)
  <2>1. Cardinality(Walkers \ {<<t, k>>}) = 0
    BY <1>1, <1>3, <1>5 DEF ReferencesAreCounted
  <2>2. Walkers \ {<<t, k>>} = {}
    BY <1>3, <2>1, FS_EmptySet
  <2>3. ASSUME NEW u \in Thread, NEW i \in DOMAIN calls[u], Walks(calls[u][i])
        PROVE  u = t /\ i = k
    <3>1. <<u, i>> \in Walkers
      BY <2>3, WalkersAre
    <3>2. <<u, i>> = <<t, k>>
      BY <2>2, <3>1
    <3> QED
      BY <3>2
  <2> QED
    BY <2>3 DEF OnlyWalks
<1> QED
  BY <1>4, <1>5

\* Where a call may stand when the sender is leaving.
Unwinding(t, f) ==
  f.call # "destroy" =>
    t = thread[Sender] /\ f.call = "emit" /\ f.at \in {"slot", "advance", "visit", "end"}

LEMMA LeftAloneMoves ==
  ASSUME ConnectionsTypeOK, LeftAlone, NEW t \in Thread, NEW s, NEW k, Moves(t, s, k),
         Sender \in alive' \/ Leaving,
         Len(s) = k => /\ ~(s[k].call = "destroy" /\ s[k].of = Sender)
                       /\ Leaving => Unwinding(t, s[k])
  PROVE  LeftAlone'
<1>1. PICK new : new = calls'
  OBVIOUS
<1>2. Leaving' => Leaving
  <2>1. CASE Sender \notin alive'
    BY <2>1
  <2>2. ASSUME NEW u \in Thread, NEW i \in DOMAIN new[u], new[u][i].call = "destroy", new[u][i].of = Sender
        PROVE  Leaving
    <3>1. i \in DOMAIN calls[u] /\ calls[u][i] = new[u][i]
      BY <1>1, <2>2, MovedCalls
    <3> QED
      BY <2>2, <3>1 DEF Leaving
  <2> QED
    BY <1>1, <2>1, <2>2 DEF Leaving
<1>3. ASSUME Leaving, NEW u \in Thread, NEW i \in DOMAIN new[u]
      PROVE  Unwinding(u, new[u][i])
  <2>1. CASE u = t /\ i = k /\ Len(s) = k /\ new[u][i] = s[k]
    BY <1>3, <2>1
  <2>2. CASE i \in DOMAIN calls[u] /\ new[u][i] = calls[u][i]
    BY <1>3, <2>2 DEF LeftAlone, Unwinding
  <2> QED
    BY <1>1, <1>3, <2>1, <2>2, MovedCalls
<1> QED
  BY <1>1, <1>2, <1>3 DEF LeftAlone, Unwinding

\* A call that is under way, other than a destruction, when the sender leaves.
LEMMA LeavingMeans ==
  ASSUME ConnectionsTypeOK, FramesOK, LeftAlone, GoneIsEmpty, NEW t \in Thread, NEW k, NEW f,
         Inside(t, k, f), f.call # "destroy", Leaving
  PROVE  Unwinding(t, f) /\ Sender \notin alive /\ C!Connected = {}
<1>1. calls[t] \in Seq(Frame) /\ k \in DOMAIN calls[t] /\ f = calls[t][k] /\ k = Len(calls[t])
  BY DEF Inside, ConnectionsTypeOK
<1>2. Unwinding(t, f)
  BY <1>1 DEF LeftAlone, Unwinding
<1>3. ASSUME NEW u \in Thread, NEW i \in DOMAIN calls[u],
             calls[u][i].call = "destroy", calls[u][i].of = Sender
      PROVE  FALSE
  <2>1. u = t
    BY <1>2, <1>3 DEF FramesOK, Unwinding
  <2>2. i # k /\ i \in 1..k
    BY <1>1, <1>3, <2>1
  <2>3. i < Len(calls[u])
    BY <1>1, <2>1, <2>2
  <2> QED
    BY <1>3, <2>3 DEF FramesOK
<1>4. Sender \notin alive
  BY <1>3 DEF Leaving
<1> QED
  BY <1>2, <1>4 DEF GoneIsEmpty

\* A step that moves the call at the top of t, or calls, or returns.
LEMMA StackStep ==
  ASSUME ConnectionsTypeOK, Linked, FramesOK, ReferencesAreCounted, LeftAlone, ListStep,
         NEW t \in Thread, NEW s, NEW k, Moves(t, s, k),
         k > Len(calls[t]) /\ k > 1 => calls[t][k - 1].call = "emit" /\ calls[t][k - 1].at = "slot",
         freed' # freed => OnlyWalks(t, k),
         alive' = alive,
         Len(s) = k => /\ FrameOK(s[k])'
                       /\ s[k].call = "destroy" => thread[s[k].of] = t /\ s[k].of \in alive /\ s[k].of # Sender
                       /\ Leaving => Unwinding(t, s[k]),
         ref' = ref + (IF Len(s) = k /\ Walks(s[k]) THEN 1 ELSE 0)
                    - (IF Len(calls[t]) = k /\ Walks(calls[t][k]) THEN 1 ELSE 0)
  PROVE  FramesOK' /\ LeftAlone' /\ ReferencesAreCounted' /\ ref' \in Nat
<1>1. FramesOK'
  <2>1. \A u \in Thread : \A i \in DOMAIN calls[u] :
          (u # t \/ i # k) /\ calls[u][i].call = "destroy" => calls[u][i].of \in alive'
    BY DEF FramesOK
  <2> QED
    BY <2>1, FramesMove DEF OnlyWalks
<1>2. LeftAlone'
  <2>1. Sender \in alive' \/ Leaving
    BY DEF Leaving
  <2> QED
    BY <2>1, LeftAloneMoves
<1>3. ReferencesAreCounted' /\ ref' \in Nat
  <2>1. /\ IsFiniteSet(Walkers') /\ Cardinality(Walkers) \in Nat /\ Cardinality(Walkers') \in Nat
        /\ Cardinality(Walkers') =
              Cardinality(Walkers) + (IF Len(s) = k /\ Walks(s[k]) THEN 1 ELSE 0)
                                   - (IF Len(calls[t]) = k /\ Walks(calls[t][k]) THEN 1 ELSE 0)
    BY WalkersMove DEF ReferencesAreCounted
  <2>2. PICK n, m, a, b :
           /\ n = Cardinality(Walkers) /\ m = Cardinality(Walkers')
           /\ a = (IF Len(s) = k /\ Walks(s[k]) THEN 1 ELSE 0)
           /\ b = (IF Len(calls[t]) = k /\ Walks(calls[t][k]) THEN 1 ELSE 0)
    OBVIOUS
  <2>3. /\ n \in Nat /\ m \in Nat /\ m = n + a - b /\ ref' = ref + a - b /\ a \in {0, 1} /\ b \in {0, 1}
        /\ ref = n + IF Sender \in alive THEN 1 ELSE 0
    BY <2>1, <2>2 DEF ReferencesAreCounted
  <2>4. ref' = m + IF Sender \in alive' THEN 1 ELSE 0
    BY <2>3, SMTT(40)
  <2> QED
    BY <2>1, <2>2, <2>3, <2>4, SMTT(40) DEF ReferencesAreCounted
<1> QED
  BY <1>1, <1>2, <1>3

\* A step of the list that leaves the calls where they are.
LEMMA ListStepKeepsCalls ==
  ASSUME ConnectionsTypeOK, Linked, FramesOK, ReferencesAreCounted, LeftAlone, ListStep,
         calls' = calls, alive' = alive, ref' = ref,
         freed' # freed => \A u \in Thread : \A i \in DOMAIN calls[u] : ~Walks(calls[u][i])
  PROVE  FramesOK' /\ LeftAlone' /\ ReferencesAreCounted'
<1>1. PICK old : old = calls
  OBVIOUS
<1>2. ASSUME NEW u \in Thread, NEW i \in DOMAIN old[u]
      PROVE  FrameOK(old[u][i])'
  <2>1. old[u][i] \in Frame /\ FrameOK(old[u][i])
    BY <1>1, <1>2 DEF FramesOK, ConnectionsTypeOK
  <2>2. Walks(old[u][i]) => freed' = freed
    BY <1>1, <1>2
  <2> QED
    BY <2>1, <2>2, FrameStays
<1>3. FramesOK'
  BY <1>1, <1>2 DEF FramesOK
<1>4. LeftAlone'
  BY DEF LeftAlone, Leaving
<1>5. Walkers' = Walkers
  BY DEF Walkers, Walks
<1> QED
  BY <1>3, <1>4, <1>5 DEF ReferencesAreCounted

\* What is freed when the list does not change are connections that were removed.
LEMMA FreeingKeeps ==
  ASSUME ConnectionsTypeOK, Linked, Parted, LinksLead, conn' = conn, Frees(orphaned)
  PROVE  Parted' /\ LinksLead' /\ orphaned' \subseteq DOMAIN conn /\ freed' \subseteq DOMAIN conn
<1>1. C!Connected' = C!Connected
  BY DEF C!Connected
<1>2. Parted'
  BY <1>1 DEF Parted, Frees
<1>3. LinksLead'
  <2>1. CASE freed' = freed
    BY <2>1 DEF LinksLead
  <2>2. CASE freed' = freed \cup orphaned
    <3>1. ASSUME NEW c \in DOMAIN conn, conn[c].next # C!None, c \notin freed'
          PROVE  conn[c].next \notin freed'
      <4>1. c \in C!Connected
        BY <2>2, <3>1 DEF Parted
      <4>2. conn[c].next \in C!Connected
        BY <3>1, <4>1, Neighbours
      <4> QED
        BY <2>2, <4>2 DEF Parted
    <3> QED
      BY <3>1 DEF LinksLead
  <2> QED
    BY <2>1, <2>2 DEF Frees
<1> QED
  BY <1>2, <1>3 DEF Frees, ConnectionsTypeOK

\* A step that moves, begins or ends a call of t, and leaves the list.
LEMMA CallStep ==
  ASSUME ConnectionsInv, C!list' = C!list, UNCHANGED <<currentConnectionId, alive>>, Frees(orphaned),
         NEW t \in Thread, NEW s, NEW k, Moves(t, s, k),
         k > Len(calls[t]) /\ k > 1 => calls[t][k - 1].call = "emit" /\ calls[t][k - 1].at = "slot",
         freed' # freed => OnlyWalks(t, k),
         Len(s) = k => /\ FrameOK(s[k]) /\ (Walks(s[k]) => freed' = freed)
                       /\ s[k].call = "destroy" => thread[s[k].of] = t /\ s[k].of \in alive /\ s[k].of # Sender
                       /\ Leaving => Unwinding(t, s[k]),
         ref' = ref + (IF Len(s) = k /\ Walks(s[k]) THEN 1 ELSE 0)
                    - (IF Len(calls[t]) = k /\ Walks(calls[t][k]) THEN 1 ELSE 0),
         HistoryOK'
  PROVE  ConnectionsInv'
<1>. USE DEF ConnectionsInv
<1>1. conn' = conn /\ first' = first /\ last' = last
  BY DEF C!list
<1>2. ListStep
  BY <1>1 DEF ListStep
<1>3. Len(s) = k => FrameOK(s[k])'
  <2>1. Len(s) = k => s[k] \in Frame
    BY DEF Moves
  <2> QED
    BY <1>2, <2>1, FrameStays
<1>4. FramesOK' /\ LeftAlone' /\ ReferencesAreCounted' /\ ref' \in Nat
  BY <1>2, <1>3, StackStep
<1>5. Parted' /\ LinksLead' /\ orphaned' \subseteq DOMAIN conn /\ freed' \subseteq DOMAIN conn
  BY <1>1, FreeingKeeps
<1>6. calls' \in [Thread -> Seq(Frame)]
  BY MovedCalls
<1>7. ConnectionsTypeOK'
  BY <1>1, <1>4, <1>5, <1>6 DEF ConnectionsTypeOK
<1>8. C!Connected' = C!Connected
  BY <1>1 DEF C!Connected
<1>9. Linked' /\ GoneIsEmpty'
  BY <1>1, <1>8 DEF Linked, GoneIsEmpty
<1> QED
  BY <1>4, <1>5, <1>7, <1>9

LEMMA HistoryStays ==
  ASSUME HistoryOK, conn' = conn, C!history' = C!history
  PROVE  HistoryOK'
BY DEF HistoryOK, C!history

\* A step of a call that goes on walking.
LEMMA WalkStep ==
  ASSUME ConnectionsInv, UNCHANGED <<C!list, C!memory, currentConnectionId, alive>>,
         NEW t \in Thread, NEW k, NEW f, Inside(t, k, f), Walks(f),
         NEW g \in Frame, C!SetTop(t, g), Walks(g), FrameOK(g), Leaving => Unwinding(t, g),
         HistoryOK'
  PROVE  ConnectionsInv'
<1>1. /\ Frees(orphaned) /\ freed' = freed /\ ref' = ref
      /\ C!list' = C!list /\ UNCHANGED <<currentConnectionId, alive>>
  BY DEF C!memory, Frees
<1>2. PICK s : Moves(t, s, k) /\ Len(s) = k /\ s[k] = g
  BY SetTopMoves DEF ConnectionsInv
<1>3. g.call # "destroy"
  BY DEF Walks
<1>4. Len(calls[t]) = k /\ calls[t][k] = f /\ k \in Nat /\ ref \in Nat
  BY DEF Inside, ConnectionsInv, ConnectionsTypeOK
<1> QED
  BY <1>1, <1>2, <1>3, <1>4, CallStep

-----------------------------------------------------------------------------
(* The steps of a disconnection of all connections to a receiver.          *)

LEMMA InsideAt ==
  ASSUME ConnectionsInv, NEW t \in Thread, NEW call, NEW at, C!At(t, call, at)
  PROVE  \E k, f : Inside(t, k, f) /\ f.call = call /\ f.at = at /\ f = C!Top(t)
<1>1. calls[t] # <<>> /\ C!Top(t).call = call /\ C!Top(t).at = at
  BY DEF C!At
<1>2. PICK k, f : Inside(t, k, f)
  BY <1>1, TopIs DEF ConnectionsInv
<1> QED
  BY <1>1, <1>2 DEF Inside

Disconnects(h, a, c, r, ok) ==
  /\ h \in DisconnectionFrame
  /\ h.call = "disconnect" /\ h.at = a /\ h.cur = c /\ h.to = r /\ h.success = ok

LEMMA DisconnectionEdits ==
  ASSUME NEW f \in Frame, f.call = "disconnect",
         NEW a \in {"see", "remove", "clean"}, NEW c \in Nat, NEW ok \in BOOLEAN
  PROVE  /\ f \in DisconnectionFrame /\ f \in Frame
         /\ f.cur \in Nat /\ f.to \in Listener /\ f.success \in BOOLEAN
         /\ Disconnects([f EXCEPT !.at = a], a, f.cur, f.to, f.success)
         /\ Disconnects([f EXCEPT !.cur = c], f.at, c, f.to, f.success)
         /\ Disconnects([f EXCEPT !.at = a, !.cur = c, !.success = ok], a, c, f.to, ok)
<1>1. f \in DisconnectionFrame
  BY DEF Frame, EmissionFrame, DestructionFrame, DisconnectionFrame
<1>2. PICK K, A, N, L, B : K = {"disconnect"} /\ A = {"see", "remove", "clean"} /\ N = Nat
                        /\ L = Listener /\ B = BOOLEAN
  OBVIOUS
<1>3. /\ DisconnectionFrame = [call : K, at : A, cur : N, to : L, success : B]
      /\ a \in A /\ c \in N /\ ok \in B
  BY <1>2 DEF DisconnectionFrame
<1>4. f \in [call : K, at : A, cur : N, to : L, success : B]
  BY <1>1, <1>3
<1>5. /\ [f EXCEPT !.at = a] \in [call : K, at : A, cur : N, to : L, success : B]
      /\ [f EXCEPT !.cur = c] \in [call : K, at : A, cur : N, to : L, success : B]
      /\ [f EXCEPT !.at = a, !.cur = c, !.success = ok] \in [call : K, at : A, cur : N, to : L, success : B]
  BY <1>3, <1>4
<1>6. f.cur \in N /\ f.to \in L /\ f.success \in B
  BY <1>4
<1>7. /\ [f EXCEPT !.at = a].call = f.call /\ [f EXCEPT !.at = a].at = a /\ [f EXCEPT !.at = a].cur = f.cur
      /\ [f EXCEPT !.at = a].to = f.to /\ [f EXCEPT !.at = a].success = f.success
  BY <1>4
<1>8. LET h == [f EXCEPT !.cur = c]
      IN  h.call = f.call /\ h.at = f.at /\ h.cur = c /\ h.to = f.to /\ h.success = f.success
  BY <1>4
<1>9. LET h == [f EXCEPT !.at = a, !.cur = c, !.success = ok]
      IN  h.call = f.call /\ h.at = a /\ h.cur = c /\ h.to = f.to /\ h.success = ok
  BY <1>4
<1> QED
  BY <1>1, <1>2, <1>3, <1>5, <1>6, <1>7, <1>8, <1>9 DEF Disconnects

LEMMA DisconnectionIsFrame ==
  ASSUME NEW h, NEW a, NEW c, NEW r, NEW ok, Disconnects(h, a, c, r, ok),
         a = "remove" => c # C!None, a = "clean" => c = C!None,
         a # "clean" /\ c # C!None => c \in DOMAIN conn \ freed
  PROVE  /\ h \in Frame /\ FrameOK(h)
         /\ Walks(h) <=> a # "clean"
BY DEF Disconnects, Frame, FrameOK, Walks

\* Nobody disconnects once the sender leaves.
LEMMA NoneDisconnectsLater ==
  ASSUME ConnectionsInv, NEW t \in Thread, NEW k, NEW f, Inside(t, k, f), f.call = "disconnect"
  PROVE  ~Leaving /\ Sender \in alive
<1>1. ~Leaving
  BY LeavingMeans DEF ConnectionsInv, Unwinding
<1> QED
  BY <1>1 DEF Leaving

LEMMA SenderNotDying ==
  ASSUME ConnectionsTypeOK, Sender \in alive \ C!Dying
  PROVE  ~Leaving
<1>1. ASSUME NEW t \in Thread, NEW i \in DOMAIN calls[t],
             calls[t][i].call = "destroy", calls[t][i].of = Sender
      PROVE  FALSE
  <2>1. calls[t][i] \in C!ToSet(calls[t])
    BY <1>1 DEF C!ToSet
  <2>2. calls[t][i] \in C!Frames
    BY <2>1 DEF C!Frames
  <2> QED
    BY <1>1, <2>2 DEF C!Dying
<1> QED
  BY <1>1 DEF Leaving

LEMMA SeeKeeps ==
  ASSUME ConnectionsInv, NEW t \in Thread, C!See(t)
  PROVE  ConnectionsInv'
<1>1. PICK k, f : Inside(t, k, f) /\ f.call = "disconnect" /\ f.at = "see" /\ f = C!Top(t) /\ f.cur # C!None
  BY InsideAt DEF C!See
<1>2. f \in Frame /\ FrameOK(f) /\ Walks(f) /\ f.cur \in DOMAIN conn \ freed
  BY <1>1 DEF Inside, FrameOK, Walks
<1>3. ~Leaving
  BY <1>1, NoneDisconnectsLater
<1>4. PICK g : C!SetTop(t, g)
             /\ g = IF conn[f.cur].receiver = f.to THEN [f EXCEPT !.at = "remove"]
                    ELSE [f EXCEPT !.cur = conn[f.cur].next]
  BY <1>1 DEF C!See
<1>5. conn[f.cur].next \in Nat
      /\ (conn[f.cur].next # C!None => conn[f.cur].next \in DOMAIN conn \ freed)
  BY <1>2, ConnectionTyped DEF ConnectionsInv, LinksLead
<1>6. g \in Frame /\ FrameOK(g) /\ Walks(g)
  <2>1. CASE conn[f.cur].receiver = f.to
    <3>1. Disconnects(g, "remove", f.cur, f.to, f.success)
      BY <1>1, <1>2, <1>4, <1>5, <2>1, DisconnectionEdits, Zenon
    <3> QED
      BY <1>1, <1>2, <3>1, DisconnectionIsFrame
  <2>2. CASE conn[f.cur].receiver # f.to
    <3>1. Disconnects(g, "see", conn[f.cur].next, f.to, f.success)
      BY <1>1, <1>2, <1>4, <1>5, <2>2, DisconnectionEdits, Zenon
    <3> QED
      BY <1>1, <1>2, <1>5, <3>1, DisconnectionIsFrame
  <2> QED
    BY <2>1, <2>2
<1>7. UNCHANGED <<C!list, C!memory, currentConnectionId, alive>> /\ HistoryOK'
  BY HistoryStays DEF C!See, C!list, ConnectionsInv
<1> QED
  BY <1>1, <1>2, <1>3, <1>4, <1>6, <1>7, WalkStep

\* Giving a reference back frees only when nobody else walks.
LEMMA DerefMeans ==
  ASSUME ConnectionsInv, NEW t \in Thread, NEW k, NEW f, Inside(t, k, f), Walks(f), C!Deref
  PROVE  /\ Frees(orphaned) /\ ref' = ref - 1
         /\ freed' # freed => OnlyWalks(t, k)
BY WalksAlone DEF C!Deref, Frees, ConnectionsInv

LEMMA CleanMeans ==
  ASSUME ConnectionsInv, NEW o, C!Clean(o), Sender \in alive
  PROVE  /\ Frees(o)
         /\ freed' # freed => \A u \in Thread : \A i \in DOMAIN calls[u] : ~Walks(calls[u][i])
BY NobodyWalks DEF C!Clean, Frees, ConnectionsInv

LEMMA SeenAllKeeps ==
  ASSUME ConnectionsInv, NEW t \in Thread, C!SeenAll(t)
  PROVE  ConnectionsInv'
<1>1. PICK k, f : Inside(t, k, f) /\ f.call = "disconnect" /\ f.at = "see" /\ f = C!Top(t) /\ f.cur = C!None
  BY InsideAt DEF C!SeenAll
<1>2. f \in Frame /\ FrameOK(f) /\ Walks(f) /\ Len(calls[t]) = k /\ calls[t][k] = f /\ k \in Nat
  BY <1>1 DEF Inside, Walks
<1>3. ~Leaving
  BY <1>1, NoneDisconnectsLater
<1>4. /\ Frees(orphaned) /\ ref' = ref - 1
      /\ freed' # freed => OnlyWalks(t, k)
  BY <1>1, <1>2, DerefMeans DEF C!SeenAll
<1>5. C!list' = C!list /\ UNCHANGED <<currentConnectionId, alive>> /\ HistoryOK'
  BY HistoryStays DEF C!SeenAll, C!list, ConnectionsInv
<1>6. ref \in Nat /\ ConnectionsTypeOK
  BY DEF ConnectionsInv, ConnectionsTypeOK
<1>7. CASE f.success
  <2>1. PICK g : g = [f EXCEPT !.at = "clean"] /\ C!SetTop(t, g)
    BY <1>1, <1>7 DEF C!SeenAll, C!Goes
  <2>2. Disconnects(g, "clean", C!None, f.to, f.success)
    BY <1>1, <1>2, <2>1, DisconnectionEdits, Zenon
  <2>3. g \in Frame /\ FrameOK(g) /\ ~Walks(g) /\ g.call # "destroy"
    BY <2>2, DisconnectionIsFrame DEF Disconnects
  <2>4. PICK s : Moves(t, s, k) /\ Len(s) = k /\ s[k] = g
    BY <1>1, <1>6, <2>1, <2>3, SetTopMoves
  <2> QED
    BY <1>2, <1>3, <1>4, <1>5, <1>6, <2>3, <2>4, CallStep
<1>8. CASE ~f.success
  <2>1. C!Returns(t)
    BY <1>1, <1>8 DEF C!SeenAll
  <2>2. PICK s : Moves(t, s, k) /\ Len(s) = k - 1
    BY <1>1, <1>6, <2>1, ReturnMoves
  <2> QED
    BY <1>2, <1>4, <1>5, <1>6, <2>2, CallStep
<1> QED
  BY <1>7, <1>8

LEMMA CleanUpKeeps ==
  ASSUME ConnectionsInv, NEW t \in Thread, C!CleanUp(t)
  PROVE  ConnectionsInv'
<1>1. PICK k, f : Inside(t, k, f) /\ f.call # "destroy" /\ f.at = "clean" /\ f = C!Top(t)
  BY InsideAt DEF C!CleanUp
<1>2. ~Walks(f) /\ Len(calls[t]) = k /\ calls[t][k] = f /\ k \in Nat
  BY <1>1 DEF Inside, Walks
<1>3. Sender \in alive
  <2>1. ~Leaving
    BY <1>1, LeavingMeans DEF ConnectionsInv, Unwinding
  <2> QED
    BY <2>1 DEF Leaving
<1>4. /\ Frees(orphaned)
      /\ freed' # freed => OnlyWalks(t, k)
  BY <1>3, CleanMeans DEF C!CleanUp, OnlyWalks
<1>5. C!list' = C!list /\ UNCHANGED <<ref, currentConnectionId, alive>> /\ HistoryOK'
  BY HistoryStays DEF C!CleanUp, C!list, ConnectionsInv
<1>6. PICK s : Moves(t, s, k) /\ Len(s) = k - 1
  BY <1>1, ReturnMoves DEF C!CleanUp, ConnectionsInv
<1>7. ref \in Nat
  BY DEF ConnectionsInv, ConnectionsTypeOK
<1> QED
  BY <1>2, <1>4, <1>5, <1>6, <1>7, CallStep

LEMMA DisconnectReceiverKeeps ==
  ASSUME ConnectionsInv, NEW t \in Thread, NEW r \in Listener, C!DisconnectReceiver(t, r)
  PROVE  ConnectionsInv'
<1>1. PICK g : g = C!Disconnection(r, first) /\ C!Calls(t, g)
  BY DEF C!DisconnectReceiver
<1>2. first \in Nat /\ (first # C!None => first \in DOMAIN conn \ freed)
  BY ConnectionTyped DEF ConnectionsInv, Linked, After, Parted, C!None, C!Connected
<1>3. Disconnects(g, "see", first, r, FALSE)
  BY <1>1, <1>2 DEF C!Disconnection, Disconnects, DisconnectionFrame
<1>4. g \in Frame /\ FrameOK(g) /\ Walks(g) /\ g.call # "destroy"
  BY <1>2, <1>3, DisconnectionIsFrame DEF Disconnects
<1>5. PICK s, k : /\ Moves(t, s, k) /\ Len(s) = k /\ s[k] = g /\ Len(calls[t]) = k - 1
                  /\ k > 1 => calls[t][k - 1].call = "emit" /\ calls[t][k - 1].at = "slot"
  BY <1>1, <1>4, CallMoves DEF ConnectionsInv
<1>6. /\ C!list' = C!list /\ UNCHANGED <<currentConnectionId, alive>> /\ HistoryOK'
      /\ Frees(orphaned) /\ freed' = freed /\ ref' = ref + 1 /\ ref \in Nat
  BY HistoryStays DEF C!DisconnectReceiver, C!list, ConnectionsInv, ConnectionsTypeOK, Frees
<1>7. ~Leaving
  BY SenderNotDying DEF C!DisconnectReceiver, ConnectionsInv
<1>8. k \in Nat
  BY <1>5 DEF Moves
<1> QED
  BY <1>4, <1>5, <1>6, <1>7, <1>8, CallStep, SMTT(40)

-----------------------------------------------------------------------------
(* The steps of an emission.                                               *)

Emits(h, a, c, r, f, q, d) ==
  /\ h \in EmissionFrame
  /\ h.call = "emit" /\ h.at = a /\ h.cur = c /\ h.to = r /\ h.highest = f.highest
  /\ h.known = q /\ h.called = d

LEMMA EmissionEdits ==
  ASSUME NEW f \in Frame, f.call = "emit",
         NEW a \in Standing \cup {"first", "end", "clean"}, NEW c \in Nat,
         NEW r \in Listener \cup {C!Nobody}, NEW q \in SUBSET Nat
  PROVE  /\ Emits(f, f.at, f.cur, f.to, f, f.known, f.called) /\ f \in Frame
         /\ f.cur \in Nat /\ f.to \in Listener \cup {C!Nobody} /\ f.highest \in Nat
         /\ f.known \in SUBSET Nat /\ f.called \in SUBSET Nat
         /\ Emits([f EXCEPT !.at = a], a, f.cur, f.to, f, f.known, f.called)
         /\ Emits([f EXCEPT !.at = a, !.to = r], a, f.cur, r, f, f.known, f.called)
         /\ Emits([f EXCEPT !.at = a, !.cur = c], a, c, f.to, f, f.known, f.called)
         /\ Emits([f EXCEPT !.cur = c, !.at = a, !.known = q], a, c, f.to, f, q, f.called)
         /\ Emits(C!Called(f), f.at, f.cur, f.to, f, f.known, f.called \cup {f.cur})
<1>1. f \in EmissionFrame
  BY DEF Frame, EmissionFrame, DestructionFrame, DisconnectionFrame
<1>2. PICK K, A, N, L, S : K = {"emit"} /\ A = Standing \cup {"first", "end", "clean"} /\ N = Nat
                        /\ L = Listener \cup {C!Nobody} /\ S = SUBSET Nat
  OBVIOUS
<1>3. /\ EmissionFrame = [call : K, at : A, cur : N, to : L, highest : N, known : S, called : S]
      /\ a \in A /\ c \in N /\ r \in L /\ q \in S
  BY <1>2 DEF EmissionFrame
<1>4. PICK R : R = [call : K, at : A, cur : N, to : L, highest : N, known : S, called : S]
  OBVIOUS
<1>5. f \in R
  BY <1>1, <1>3, <1>4
<1>6. f.call \in K /\ f.at \in A /\ f.cur \in N /\ f.to \in L /\ f.highest \in N /\ f.known \in S /\ f.called \in S
  BY <1>4, <1>5
<1>7. PICK d : d = f.called \cup {f.cur}
  OBVIOUS
<1>8. d \in S
  BY <1>2, <1>6, <1>7
<1>9. /\ [f EXCEPT !.at = a] \in R
      /\ [f EXCEPT !.at = a, !.to = r] \in R
      /\ [f EXCEPT !.at = a, !.cur = c] \in R
      /\ [f EXCEPT !.cur = c, !.at = a, !.known = q] \in R
      /\ [f EXCEPT !.called = d] \in R
  BY <1>3, <1>4, <1>5, <1>8
<1>10. LET h == [f EXCEPT !.at = a]
       IN  /\ h.call = f.call /\ h.at = a /\ h.cur = f.cur /\ h.to = f.to
           /\ h.highest = f.highest /\ h.known = f.known /\ h.called = f.called
  BY <1>4, <1>5
<1>11. LET h == [f EXCEPT !.at = a, !.to = r]
       IN  /\ h.call = f.call /\ h.at = a /\ h.cur = f.cur /\ h.to = r
           /\ h.highest = f.highest /\ h.known = f.known /\ h.called = f.called
  BY <1>4, <1>5
<1>12. LET h == [f EXCEPT !.at = a, !.cur = c]
       IN  /\ h.call = f.call /\ h.at = a /\ h.cur = c /\ h.to = f.to
           /\ h.highest = f.highest /\ h.known = f.known /\ h.called = f.called
  BY <1>4, <1>5
<1>13. LET h == [f EXCEPT !.cur = c, !.at = a, !.known = q]
       IN  /\ h.call = f.call /\ h.at = a /\ h.cur = c /\ h.to = f.to
           /\ h.highest = f.highest /\ h.known = q /\ h.called = f.called
  BY <1>4, <1>5
<1>14. LET h == [f EXCEPT !.called = d]
       IN  /\ h.call = f.call /\ h.at = f.at /\ h.cur = f.cur /\ h.to = f.to
           /\ h.highest = f.highest /\ h.known = f.known /\ h.called = d
  BY <1>4, <1>5
<1>15. C!Called(f) = [f EXCEPT !.called = d]
  BY <1>7 DEF C!Called
<1>16. R = EmissionFrame
  BY <1>3, <1>4
<1>17. f.cur \in Nat /\ f.to \in Listener \cup {C!Nobody} /\ f.highest \in Nat
       /\ f.known \in SUBSET Nat /\ f.called \in SUBSET Nat
  BY <1>2, <1>6
<1> QED
  BY <1>5, <1>7, <1>9, <1>10, <1>11, <1>12, <1>13, <1>14, <1>15, <1>16, <1>17 DEF Emits

\* What is known of an emission that is under way.
LEMMA EmittingIs ==
  ASSUME ConnectionsInv, NEW t \in Thread, NEW k, NEW f, Inside(t, k, f), f.call = "emit"
  PROVE  /\ f \in Frame /\ EmissionOK(f)
         /\ f.known \subseteq DOMAIN conn /\ f.cur \in Nat
         /\ f.at # "clean" => Walks(f)
         /\ f.at \in Standing => f.cur \in f.known /\ f.cur \in DOMAIN conn \ freed /\ f.cur > 0
         /\ Leaving => /\ f.at \in {"slot", "advance", "visit", "end"} /\ t = thread[Sender]
                       /\ Sender \notin alive /\ C!Connected = {}
<1>1. f \in Frame /\ FrameOK(f)
  BY DEF Inside
<1>2. EmissionOK(f)
  BY <1>1 DEF FrameOK
<1>3. f.cur \in Nat /\ f.known \subseteq DOMAIN conn
  BY <1>1, <1>2 DEF Frame, EmissionFrame, DisconnectionFrame, DestructionFrame, EmissionOK
<1>4. f.at # "clean" => Walks(f)
  BY DEF Walks
<1>5. f.at \in Standing => f.cur \in f.known /\ f.cur \in DOMAIN conn \ freed /\ f.cur > 0
  <2>. SUFFICES ASSUME f.at \in Standing
                PROVE  f.cur \in f.known /\ f.cur \in DOMAIN conn \ freed /\ f.cur > 0
    OBVIOUS
  <2>1. f.cur \in f.known /\ f.at # "clean"
    BY <1>2 DEF EmissionOK, Standing
  <2>2. f.cur \in 1..Len(conn) /\ Len(conn) \in Nat
    BY <1>3, <2>1, ConnectionTyped DEF ConnectionsInv
  <2>3. f.cur # C!None /\ f.cur > 0
    BY <2>2 DEF C!None
  <2> QED
    BY <1>1, <1>4, <2>1, <2>3 DEF FrameOK
<1>6. Leaving => Unwinding(t, f) /\ Sender \notin alive /\ C!Connected = {}
  BY LeavingMeans DEF ConnectionsInv
<1> QED
  BY <1>1, <1>2, <1>3, <1>4, <1>5, <1>6 DEF Unwinding

\* g is f gone on, having called what is in d.
GoesOn(f, g, a, c, r, d) ==
  /\ Emits(g, a, c, r, f, f.known, d)
  /\ a \notin {"first", "clean"} /\ f.called \subseteq d /\ d \subseteq f.known
  /\ IF a \in Standing THEN c \in f.known /\ c \notin freed ELSE c = C!None
  /\ a \in {"claim", "queue", "post", "slot"} =>
       r \in Listener /\ conn[c].receiver \in {r, C!Nobody}
  /\ \A j \in f.known \cap C!Connected :
       j <= f.highest /\ Behind(g, j) => Behind(f, j) \/ j \in d
  /\ Leaving => a \in {"slot", "advance", "visit", "end"}

LEMMA GoesOnIs ==
  ASSUME NEW f, EmissionOK(f), f.at # "first",
         NEW g, NEW a, NEW c, NEW r, NEW d, GoesOn(f, g, a, c, r, d)
  PROVE  g \in Frame /\ FrameOK(g) /\ Walks(g) /\ g.call = "emit" /\ g.at = a
<1>1. Emits(g, a, c, r, f, f.known, d)
  BY DEF GoesOn
<1>2. Leads(g) /\ SkipsNone(g)
  BY <1>1 DEF EmissionOK, Emits, Leads, SkipsNone, Fresh
<1>3. EmissionOK(g)
  BY <1>1, <1>2 DEF EmissionOK, Emits, GoesOn
<1>4. g.cur # C!None => g.cur \in DOMAIN conn \ freed
  BY <1>1 DEF EmissionOK, Emits, GoesOn
<1> QED
  BY <1>1, <1>3, <1>4 DEF FrameOK, Walks, Emits, Frame, GoesOn

LEMMA EmissionStep ==
  ASSUME ConnectionsInv, UNCHANGED <<C!list, C!memory, currentConnectionId, alive>>, HistoryOK',
         NEW t \in Thread, NEW k, NEW f, Inside(t, k, f), f.call = "emit", f.at \notin {"first", "clean"},
         NEW g, NEW a, NEW c, NEW r, NEW d, GoesOn(f, g, a, c, r, d), C!SetTop(t, g)
  PROVE  ConnectionsInv'
<1>1. /\ EmissionOK(f) /\ Walks(f)
      /\ Leaving => t = thread[Sender]
  BY EmittingIs
<1>2. g \in Frame /\ FrameOK(g) /\ Walks(g) /\ g.call = "emit" /\ g.at = a
  BY <1>1, GoesOnIs
<1>3. Leaving => Unwinding(t, g)
  BY <1>1, <1>2 DEF Unwinding, GoesOn
<1> QED
  BY <1>1, <1>2, <1>3, WalkStep

LEMMA SlotReturnsKeeps ==
  ASSUME ConnectionsInv, NEW t \in Thread, C!SlotReturns(t)
  PROVE  ConnectionsInv'
<1>1. PICK k, f : Inside(t, k, f) /\ f.call = "emit" /\ f.at = "slot" /\ f = C!Top(t)
  BY InsideAt DEF C!SlotReturns
<1>2. f \in Frame /\ EmissionOK(f) /\ f.cur \in f.known /\ f.cur \in DOMAIN conn \ freed
  BY <1>1, EmittingIs DEF Standing
<1>3. PICK g : g = [f EXCEPT !.at = "advance", !.to = C!Nobody] /\ C!SetTop(t, g)
  BY <1>1, SMTT(40) DEF C!SlotReturns, C!Advances
<1>4. Emits(g, "advance", f.cur, C!Nobody, f, f.known, f.called)
  BY <1>1, <1>2, <1>3, EmissionEdits, Zenon DEF Standing
<1>5. \A j : Behind(g, j) => Behind(f, j)
  BY <1>1, <1>4 DEF Behind, Emits
<1>6. UNCHANGED <<C!list, C!memory, currentConnectionId, alive>> /\ HistoryOK'
  BY HistoryStays DEF C!SlotReturns, C!list, ConnectionsInv
<1>7. f.called \subseteq f.known
  BY <1>2 DEF EmissionOK
<1>8. GoesOn(f, g, "advance", f.cur, C!Nobody, f.called)
  BY <1>1, <1>2, <1>3, <1>4, <1>5, <1>6, <1>7 DEF GoesOn, Standing
<1> QED
  BY <1>1, <1>3, <1>6, <1>8, EmissionStep

\* A call that goes past a connection that was removed.
LEMMA PassesRemoved ==
  ASSUME ConnectionsInv, UNCHANGED <<C!list, C!memory, currentConnectionId, alive>>, HistoryOK',
         NEW t \in Thread, NEW k, NEW f, Inside(t, k, f), f.call = "emit", f.at \in Standing,
         conn[f.cur].receiver = C!Nobody,
         NEW g, NEW r, Emits(g, "advance", f.cur, r, f, f.known, f.called), C!SetTop(t, g)
  PROVE  ConnectionsInv'
<1>1. f \in Frame /\ EmissionOK(f) /\ f.cur \in f.known /\ f.cur \in DOMAIN conn \ freed
  BY EmittingIs
<1>2. f.cur \notin C!Connected
  BY DEF C!Connected
<1>3. \A j \in f.known \cap C!Connected : Behind(g, j) => Behind(f, j)
  BY <1>2 DEF Behind, Emits, Standing
<1>4. f.called \subseteq f.known
  BY <1>1 DEF EmissionOK
<1>5. GoesOn(f, g, "advance", f.cur, r, f.called)
  BY <1>1, <1>3, <1>4 DEF GoesOn, Standing
<1> QED
  BY <1>1, <1>5, EmissionStep DEF Standing

LEMMA VisitKeeps ==
  ASSUME ConnectionsInv, NEW t \in Thread, C!Visit(t)
  PROVE  ConnectionsInv'
<1>1. PICK k, f : Inside(t, k, f) /\ f.call = "emit" /\ f.at = "visit" /\ f = C!Top(t)
  BY InsideAt DEF C!Visit
<1>2. /\ f \in Frame /\ EmissionOK(f) /\ f.cur \in f.known /\ f.cur \in DOMAIN conn \ freed
      /\ Leaving => C!Connected = {}
  BY <1>1, EmittingIs, SMTT(40) DEF Standing
<1>3. PICK g, r : /\ r = conn[f.cur].receiver /\ C!SetTop(t, g)
                  /\ g = IF r = C!Nobody THEN [f EXCEPT !.at = "advance"]
                         ELSE IF thread[r] # t THEN [f EXCEPT !.at = "queue", !.to = r]
                         ELSE IF conn[f.cur].single THEN [f EXCEPT !.at = "claim", !.to = r]
                         ELSE [C!Called(f) EXCEPT !.at = "slot", !.to = r]
  BY <1>1, Zenon DEF C!Visit
<1>4. UNCHANGED <<C!list, C!memory, currentConnectionId, alive>> /\ HistoryOK'
  BY HistoryStays DEF C!Visit, C!list, ConnectionsInv
<1>5. CASE r = C!Nobody
  <2>1. Emits(g, "advance", f.cur, f.to, f, f.known, f.called)
    BY <1>1, <1>2, <1>3, <1>5, EmissionEdits, Zenon DEF Standing
  <2> QED
    BY <1>1, <1>3, <1>4, <1>5, <2>1, PassesRemoved DEF Standing
<1>6. CASE r # C!Nobody
  <2>1. r \in Listener /\ f.cur \in C!Connected
    BY <1>2, <1>3, <1>6, ConnectionTyped DEF ConnectionsInv, C!Connected
  <2>2. ~Leaving
    BY <1>2, <2>1
  <2>3. f.called \subseteq f.known /\ f.called \cup {f.cur} \subseteq f.known
    BY <1>2 DEF EmissionOK
  <2>4. \/ Emits(g, "queue", f.cur, r, f, f.known, f.called)
        \/ Emits(g, "claim", f.cur, r, f, f.known, f.called)
        \/ Emits(g, "slot", f.cur, r, f, f.known, f.called \cup {f.cur})
    <3>1. /\ Emits([f EXCEPT !.at = "queue", !.to = r], "queue", f.cur, r, f, f.known, f.called)
          /\ Emits([f EXCEPT !.at = "claim", !.to = r], "claim", f.cur, r, f, f.known, f.called)
      BY <1>1, <1>2, <2>1, EmissionEdits, Zenon DEF Standing
    <3>2. PICK h : h = C!Called(f)
      BY SMTT(40)
    <3>3. Emits(h, f.at, f.cur, f.to, f, f.known, f.called \cup {f.cur})
      BY <1>1, <1>2, <3>2, EmissionEdits, Zenon
    <3>4. h \in Frame /\ h.call = "emit"
      BY <3>3, SMTT(40) DEF Emits, Frame
    <3>5. Emits([h EXCEPT !.at = "slot", !.to = r], "slot", h.cur, r, h, h.known, h.called)
      BY <2>1, <3>4, EmissionEdits, Zenon DEF Standing
    <3>6. Emits([h EXCEPT !.at = "slot", !.to = r], "slot", f.cur, r, f, f.known, f.called \cup {f.cur})
      BY <3>3, <3>5 DEF Emits
    <3> QED
      BY <1>3, <1>6, <3>1, <3>2, <3>6, SMTT(40)
  <2>5. CASE \/ Emits(g, "queue", f.cur, r, f, f.known, f.called)
             \/ Emits(g, "claim", f.cur, r, f, f.known, f.called)
    <3>1. \A j : Behind(g, j) => Behind(f, j)
      BY <1>1, <2>5, SMTT(40) DEF Behind, Emits
    <3>2. \/ GoesOn(f, g, "queue", f.cur, r, f.called)
          \/ GoesOn(f, g, "claim", f.cur, r, f.called)
      BY <1>1, <1>2, <1>3, <1>4, <2>1, <2>2, <2>3, <2>5, <3>1 DEF GoesOn, Standing
    <3> QED
      BY <1>1, <1>3, <1>4, <3>2, EmissionStep
  <2>6. CASE Emits(g, "slot", f.cur, r, f, f.known, f.called \cup {f.cur})
    <3>1. \A j : Behind(g, j) => Behind(f, j) \/ j \in f.called \cup {f.cur}
      BY <1>1, <2>6, SMTT(40) DEF Behind, Emits
    <3>2. GoesOn(f, g, "slot", f.cur, r, f.called \cup {f.cur})
      BY <1>1, <1>2, <1>3, <1>4, <2>1, <2>2, <2>3, <2>6, <3>1 DEF GoesOn, Standing
    <3> QED
      BY <1>1, <1>3, <1>4, <3>2, EmissionStep
  <2> QED
    BY <2>4, <2>5, <2>6
<1> QED
  BY <1>5, <1>6

LEMMA QueueKeeps ==
  ASSUME ConnectionsInv, NEW t \in Thread, C!Queue(t)
  PROVE  ConnectionsInv'
<1>1. PICK k, f : Inside(t, k, f) /\ f.call = "emit" /\ f.at = "queue" /\ f = C!Top(t)
  BY InsideAt DEF C!Queue
<1>2. /\ f \in Frame /\ EmissionOK(f) /\ f.cur \in f.known /\ f.cur \in DOMAIN conn \ freed
      /\ ~Leaving
  BY <1>1, EmittingIs DEF Standing
<1>3. UNCHANGED <<C!list, C!memory, currentConnectionId, alive>> /\ HistoryOK'
  BY HistoryStays DEF C!Queue, C!list, ConnectionsInv
<1>4. CASE conn[f.cur].receiver = C!Nobody
  <2>1. PICK g : g = [f EXCEPT !.at = "advance", !.to = C!Nobody] /\ C!SetTop(t, g)
    BY <1>1, <1>4, SMTT(40) DEF C!Queue, C!Advances
  <2>2. Emits(g, "advance", f.cur, C!Nobody, f, f.known, f.called)
    BY <1>1, <1>2, <2>1, EmissionEdits, Zenon DEF Standing
  <2> QED
    BY <1>1, <1>3, <1>4, <2>1, <2>2, PassesRemoved DEF Standing
<1>5. CASE conn[f.cur].receiver # C!Nobody
  <2>1. PICK g, a : a \in {"claim", "post"} /\ g = [f EXCEPT !.at = a] /\ C!SetTop(t, g)
    BY <1>1, <1>5, SMTT(40) DEF C!Queue, C!Goes
  <2>2. Emits(g, a, f.cur, f.to, f, f.known, f.called)
    BY <1>1, <1>2, <2>1, EmissionEdits, Zenon DEF Standing
  <2>3. \A j : Behind(g, j) => Behind(f, j)
    BY <1>1, <2>1, <2>2 DEF Behind, Emits
  <2>4. f.called \subseteq f.known /\ f.to \in Listener /\ conn[f.cur].receiver \in {f.to, C!Nobody}
    BY <1>1, <1>2 DEF EmissionOK
  <2>5. GoesOn(f, g, a, f.cur, f.to, f.called)
    BY <1>1, <1>2, <1>3, <2>1, <2>2, <2>3, <2>4 DEF GoesOn, Standing
  <2> QED
    BY <1>1, <1>3, <2>1, <2>5, EmissionStep
<1> QED
  BY <1>4, <1>5

LEMMA PostKeeps ==
  ASSUME ConnectionsInv, NEW t \in Thread, C!Post(t)
  PROVE  ConnectionsInv'
<1>1. PICK k, f : Inside(t, k, f) /\ f.call = "emit" /\ f.at = "post" /\ f = C!Top(t)
  BY InsideAt DEF C!Post
<1>2. /\ f \in Frame /\ EmissionOK(f) /\ f.cur \in f.known /\ f.cur \in DOMAIN conn \ freed
      /\ ~Leaving
  BY <1>1, EmittingIs DEF Standing
<1>3. UNCHANGED <<C!list, C!memory, currentConnectionId, alive, shots>> /\ conn' = conn
  BY DEF C!Post, C!list
<1>4. CASE ~conn[f.cur].single /\ conn[f.cur].receiver = C!Nobody
  <2>1. PICK g : g = [f EXCEPT !.at = "advance", !.to = C!Nobody] /\ C!SetTop(t, g) /\ late' = late
    BY <1>1, <1>4, SMTT(40) DEF C!Post, C!Advances
  <2>2. Emits(g, "advance", f.cur, C!Nobody, f, f.known, f.called)
    BY <1>1, <1>2, <2>1, EmissionEdits, Zenon DEF Standing
  <2>3. HistoryOK'
    BY <1>3, <2>1 DEF HistoryOK, ConnectionsInv
  <2> QED
    BY <1>1, <1>3, <1>4, <2>1, <2>2, <2>3, PassesRemoved DEF Standing
<1>5. CASE ~(~conn[f.cur].single /\ conn[f.cur].receiver = C!Nobody)
  <2>1. PICK h, g : /\ h = C!Called(f) /\ g = [h EXCEPT !.at = "advance", !.to = C!Nobody] /\ C!SetTop(t, g)
                    /\ late' = IF f.to \in alive THEN late ELSE late \cup {f.cur}
    BY <1>1, <1>5, Zenon DEF C!Post, C!Advances
  <2>2. Emits(h, f.at, f.cur, f.to, f, f.known, f.called \cup {f.cur})
    BY <1>1, <1>2, <2>1, EmissionEdits, Zenon
  <2>3. h \in Frame /\ h.call = "emit"
    BY <2>2, SMTT(40) DEF Emits, Frame
  <2>4. Emits(g, "advance", h.cur, C!Nobody, h, h.known, h.called)
    BY <2>1, <2>3, EmissionEdits, Zenon DEF Standing
  <2>5. Emits(g, "advance", f.cur, C!Nobody, f, f.known, f.called \cup {f.cur})
    BY <2>2, <2>4 DEF Emits
  <2>6. \A j : Behind(g, j) => Behind(f, j) \/ j \in f.called \cup {f.cur}
    BY <1>1, <2>5 DEF Behind, Emits
  <2>7. f.called \cup {f.cur} \subseteq f.known /\ conn[f.cur].receiver \in {f.to, C!Nobody}
    BY <1>1, <1>2 DEF EmissionOK
\* What is posted to an object that is gone comes from a single shot: another
\* connection still has its receiver, which is there.
  <2>8. f.to \notin alive => conn[f.cur].single
    <3>1. SUFFICES ASSUME f.to \notin alive, ~conn[f.cur].single
                   PROVE  FALSE
      OBVIOUS
    <3>2. conn[f.cur].receiver = f.to /\ f.cur \in C!Connected
      BY <1>2, <1>5, <2>7, <3>1 DEF C!Connected
    <3> QED
      BY <3>1, <3>2 DEF ConnectionsInv, Linked
  <2>9. HistoryOK'
    BY <1>2, <1>3, <2>1, <2>8 DEF HistoryOK, ConnectionsInv
  <2>10. GoesOn(f, g, "advance", f.cur, C!Nobody, f.called \cup {f.cur})
    BY <1>1, <1>2, <1>3, <2>1, <2>5, <2>6, <2>7, <2>9 DEF GoesOn, Standing
  <2> QED
    BY <1>1, <1>3, <2>1, <2>9, <2>10, EmissionStep
<1> QED
  BY <1>4, <1>5

LEMMA AdvanceKeeps ==
  ASSUME ConnectionsInv, NEW t \in Thread, C!Advance(t)
  PROVE  ConnectionsInv'
<1>1. PICK k, f : Inside(t, k, f) /\ f.call = "emit" /\ f.at = "advance" /\ f = C!Top(t)
  BY InsideAt DEF C!Advance
<1>2. /\ f \in Frame /\ EmissionOK(f) /\ f.cur \in f.known /\ f.cur \in DOMAIN conn \ freed
      /\ f.known \subseteq DOMAIN conn
  BY <1>1, EmittingIs DEF Standing
<1>3. UNCHANGED <<C!list, C!memory, currentConnectionId, alive>> /\ HistoryOK'
  BY HistoryStays DEF C!Advance, C!list, ConnectionsInv
<1>4. PICK g, n : /\ n = conn[f.cur].next /\ C!SetTop(t, g)
                  /\ g = IF n = C!None \/ n > f.highest THEN [f EXCEPT !.at = "end", !.cur = C!None]
                         ELSE [f EXCEPT !.at = "visit", !.cur = n]
  BY <1>1, Zenon DEF C!Advance
<1>5. /\ n \in Nat /\ f.highest \in Nat /\ f.cur \in Nat /\ f.known \subseteq Nat
      /\ f.called \subseteq f.known
      /\ n # C!None => n \in DOMAIN conn \ freed
      /\ n = C!None \/ n \in f.known \/ n > f.highest
  <2>1. f.known \subseteq Nat /\ f.highest \in Nat /\ f.cur \in Nat
    BY <1>1, <1>2, EmissionEdits, Zenon DEF Standing
  <2>2. f.called \subseteq f.known /\ Leads(f)
    BY <1>2 DEF EmissionOK
  <2>3. n \in Nat /\ (n # C!None => n \in DOMAIN conn \ freed)
    BY <1>2, <1>4, ConnectionTyped DEF ConnectionsInv, LinksLead
  <2> QED
    BY <1>2, <1>4, <2>1, <2>2, <2>3, SMTT(40) DEF Leads, Fresh
<1>6. \A j \in f.known \cap C!Connected : j <= f.highest => Behind(f, j) \/ (n # C!None /\ n <= j)
  BY <1>1, <1>2, <1>4, <1>5 DEF EmissionOK, SkipsNone, Behind
<1>7. CASE n = C!None \/ n > f.highest
  <2>1. Emits(g, "end", C!None, f.to, f, f.known, f.called)
    BY <1>1, <1>2, <1>4, <1>7, EmissionEdits, Zenon DEF Standing, C!None
  <2>2. \A j \in f.known \cap C!Connected : j <= f.highest => Behind(f, j)
    <3>1. \A j \in f.known \cap C!Connected : j <= f.highest => ~(n # C!None /\ n <= j)
      BY <1>5, <1>7
    <3> QED
      BY <1>6, <3>1
  <2>3. GoesOn(f, g, "end", C!None, f.to, f.called)
    BY <1>1, <1>2, <1>3, <1>4, <1>5, <2>1, <2>2 DEF GoesOn, Standing
  <2> QED
    BY <1>1, <1>3, <1>4, <2>3, EmissionStep, SMTT(40)
<1>8. CASE ~(n = C!None \/ n > f.highest)
  <2>1. n \in f.known /\ n \notin freed
    BY <1>5, <1>8, SMTT(40)
  <2>2. Emits(g, "visit", n, f.to, f, f.known, f.called)
    BY <1>1, <1>2, <1>4, <1>5, <1>8, EmissionEdits, Zenon DEF Standing
  <2>3. \A j \in f.known \cap C!Connected : j <= f.highest /\ Behind(g, j) => Behind(f, j)
    <3>1. \A j : Behind(g, j) => j < n
      BY <2>2 DEF Behind, Emits
    <3>2. \A j \in f.known : j < n => ~(n <= j)
      BY <1>5
    <3> QED
      BY <1>6, <3>1, <3>2
  <2>4. GoesOn(f, g, "visit", n, f.to, f.called)
    BY <1>1, <1>2, <1>3, <1>4, <1>5, <2>1, <2>2, <2>3 DEF GoesOn, Standing
  <2> QED
    BY <1>1, <1>3, <1>4, <2>4, EmissionStep
<1> QED
  BY <1>7, <1>8

LEMMA EmitKeeps ==
  ASSUME ConnectionsInv, NEW t \in Thread, C!Emit(t)
  PROVE  ConnectionsInv'
<1>1. PICK g : g = C!Emission(currentConnectionId) /\ C!Calls(t, g)
  BY DEF C!Emit
<1>2. /\ currentConnectionId \in Nat /\ currentConnectionId <= Len(conn)
      /\ ref \in Nat
  BY ConnectionTyped DEF ConnectionsInv, ConnectionsTypeOK
<1>3. /\ g \in EmissionFrame /\ g.call = "emit" /\ g.at = "first" /\ g.cur = C!None
      /\ g.highest = currentConnectionId /\ g.known = {} /\ g.called = {}
  <2>1. /\ {} \in SUBSET Nat /\ C!None \in Nat /\ C!Nobody \in Listener \cup {C!Nobody}
        /\ "first" \in Standing \cup {"first", "end", "clean"}
    BY DEF C!None
  <2>2. g = [call |-> "emit", at |-> "first", cur |-> C!None, to |-> C!Nobody,
             highest |-> currentConnectionId, known |-> {}, called |-> {}]
    BY <1>1 DEF C!Emission
  <2> QED
    BY <1>2, <2>1, <2>2 DEF EmissionFrame
<1>4. EmissionOK(g)
  BY <1>2, <1>3 DEF EmissionOK, Leads, SkipsNone, Standing
<1>5. g \in Frame /\ FrameOK(g) /\ Walks(g)
  BY <1>3, <1>4 DEF FrameOK, Frame, Walks
<1>6. PICK s, k : /\ Moves(t, s, k) /\ Len(s) = k /\ s[k] = g /\ Len(calls[t]) = k - 1
                  /\ k > 1 => calls[t][k - 1].call = "emit" /\ calls[t][k - 1].at = "slot"
  BY <1>1, <1>5, CallMoves DEF ConnectionsInv
<1>7. /\ C!list' = C!list /\ UNCHANGED <<currentConnectionId, alive>> /\ HistoryOK'
      /\ Frees(orphaned) /\ freed' = freed /\ ref' = ref + 1
  BY HistoryStays DEF C!Emit, C!list, ConnectionsInv, Frees
<1>8. ~Leaving
  BY SenderNotDying DEF C!Emit, ConnectionsInv
<1>9. k \in Nat
  BY <1>6 DEF Moves
<1> QED
  BY <1>2, <1>3, <1>5, <1>6, <1>7, <1>8, <1>9, CallStep

\* An emission begins with the connections that are connected, and the first.
LEMMA FirstIs ==
  ASSUME ConnectionsInv, NEW f \in Frame, f.call = "emit", EmissionOK(f), f.at = "first",
         NEW g, NEW a, Emits(g, a, first, f.to, f, C!Connected, f.called),
         a = IF first = C!None THEN "end" ELSE "visit"
  PROVE  g \in Frame /\ FrameOK(g) /\ Walks(g) /\ g.call = "emit" /\ g.at = a
<1>. USE DEF C!None
<1>1. PICK D : D = C!Connected
  OBVIOUS
<1>2. /\ \A j \in D : j \in Nat /\ j > 0
      /\ D \subseteq DOMAIN conn \ freed
      /\ After(D, 0, first) /\ \A c \in D : After(D, c, conn[c].next)
  BY <1>1, ConnectionTyped DEF ConnectionsInv, Linked, Parted
<1>3. g.known = D /\ g.highest = f.highest /\ g.called = {} /\ g.cur = first /\ g.at = a
  BY <1>1 DEF Emits, EmissionOK
<1>4. Leads(g)
  BY <1>2, <1>3 DEF Leads, Fresh, After
<1>5. SkipsNone(g)
  BY <1>1, <1>2, <1>3 DEF SkipsNone, After
<1>6. first \in Nat /\ (first # 0 => first \in D)
  BY <1>2 DEF After
<1>7. \A k \in D : ~Behind(g, k) \/ first = 0
  <2>1. a \in {"end", "visit"} /\ (a = "end" => first = 0)
    OBVIOUS
  <2>2. first # 0 => \A k \in D : first <= k
    BY <1>2 DEF After
  <2> QED
    BY <1>2, <1>3, <1>6, <2>1, <2>2 DEF Behind
<1>8. first = 0 => D = {}
  BY <1>2 DEF After
<1>9. EmissionOK(g)
  BY <1>2, <1>3, <1>4, <1>5, <1>6, <1>7, <1>8 DEF EmissionOK, Standing
<1>10. g \in Frame /\ g.call = "emit"
  BY SMTT(40) DEF Emits, Frame
<1> QED
  BY <1>2, <1>3, <1>6, <1>9, <1>10 DEF FrameOK, Walks

LEMMA FirstKeeps ==
  ASSUME ConnectionsInv, NEW t \in Thread, C!First(t)
  PROVE  ConnectionsInv'
<1>1. PICK k, f : Inside(t, k, f) /\ f.call = "emit" /\ f.at = "first" /\ f = C!Top(t)
  BY InsideAt DEF C!First
<1>2. f \in Frame /\ EmissionOK(f) /\ Walks(f) /\ ~Leaving
  BY <1>1, EmittingIs
<1>3. PICK g, a : /\ a = IF first = C!None THEN "end" ELSE "visit"
                  /\ C!SetTop(t, g) /\ g = [f EXCEPT !.cur = first, !.at = a, !.known = C!Connected]
  BY <1>1, Zenon DEF C!First, C!Connected
<1>4. Emits(g, a, first, f.to, f, C!Connected, f.called)
  <2>1. first \in Nat /\ C!Connected \in SUBSET Nat /\ a \in Standing \cup {"first", "end", "clean"}
    BY <1>3, ConnectionTyped DEF ConnectionsInv, Linked, After, Standing
  <2> QED
    BY <1>1, <1>2, <1>3, <2>1, EmissionEdits, Zenon
<1>5. g \in Frame /\ FrameOK(g) /\ Walks(g)
  BY <1>1, <1>2, <1>3, <1>4, FirstIs
<1>6. UNCHANGED <<C!list, C!memory, currentConnectionId, alive>> /\ HistoryOK'
  BY HistoryStays DEF C!First, C!list, ConnectionsInv
<1> QED
  BY <1>1, <1>2, <1>3, <1>5, <1>6, WalkStep

LEMMA EmitEndKeeps ==
  ASSUME ConnectionsInv, NEW t \in Thread, C!EmitEnd(t)
  PROVE  ConnectionsInv'
<1>1. PICK k, f : Inside(t, k, f) /\ f.call = "emit" /\ f.at = "end" /\ f = C!Top(t)
  BY InsideAt DEF C!EmitEnd
<1>2. /\ f \in Frame /\ EmissionOK(f) /\ Walks(f)
      /\ Len(calls[t]) = k /\ calls[t][k] = f /\ k \in Nat
      /\ Leaving => Sender \notin alive
  BY <1>1, EmittingIs DEF Inside
<1>3. /\ Frees(orphaned) /\ ref' = ref - 1
      /\ freed' # freed => OnlyWalks(t, k)
  BY <1>1, <1>2, DerefMeans DEF C!EmitEnd
<1>4. C!list' = C!list /\ UNCHANGED <<currentConnectionId, alive>> /\ HistoryOK'
  BY HistoryStays DEF C!EmitEnd, C!list, ConnectionsInv
<1>5. ref \in Nat /\ ConnectionsTypeOK
  BY DEF ConnectionsInv, ConnectionsTypeOK
<1>6. CASE currentConnectionId # 0
  <2>1. ~Leaving
    BY <1>2, <1>5, <1>6 DEF ConnectionsTypeOK
  <2>2. PICK g : g = [f EXCEPT !.at = "clean"] /\ C!SetTop(t, g)
    BY <1>1, <1>6 DEF C!EmitEnd, C!Goes
  <2>3. f.cur = C!None /\ f.called \subseteq f.known /\ \A j : Behind(f, j)
    BY <1>1, <1>2, SMTT(40) DEF EmissionOK, Standing, Behind
  <2>4. Emits(g, "clean", C!None, f.to, f, f.known, f.called) /\ "clean" \notin Standing
    BY <1>1, <1>2, <2>2, <2>3, EmissionEdits, Zenon DEF Standing
  <2>5. g \in Frame /\ FrameOK(g) /\ ~Walks(g) /\ g.call # "destroy"
    <3>1. Leads(g) /\ SkipsNone(g)
      BY <1>2, <2>4 DEF EmissionOK, Emits, Leads, SkipsNone, Fresh
    <3>2. \A j \in f.known \cap C!Connected : j <= f.highest => j \in f.called
      BY <1>1, <1>2, <2>3 DEF EmissionOK
    <3>3. EmissionOK(g)
      BY <1>2, <2>4, <3>1, <3>2 DEF EmissionOK, Emits
    <3> QED
      BY <2>4, <3>3 DEF FrameOK, Walks, Emits, Frame
  <2>6. PICK s : Moves(t, s, k) /\ Len(s) = k /\ s[k] = g
    BY <1>1, <1>5, <2>2, <2>5, SetTopMoves
  <2> QED
    BY <1>2, <1>3, <1>4, <1>5, <2>1, <2>5, <2>6, CallStep
<1>7. CASE currentConnectionId = 0
  <2>1. C!Returns(t)
    BY <1>7 DEF C!EmitEnd
  <2>2. PICK s : Moves(t, s, k) /\ Len(s) = k - 1
    BY <1>1, <1>5, <2>1, ReturnMoves
  <2> QED
    BY <1>2, <1>3, <1>4, <1>5, <2>2, CallStep
<1> QED
  BY <1>6, <1>7

-----------------------------------------------------------------------------
(* The steps that change the list.                                         *)

LEMMA RemovalKeepsList ==
  ASSUME ConnectionsInv, NEW c \in C!Connected, C!RemoveConnection(c), Frees(orphaned \cup {c}),
         UNCHANGED <<currentConnectionId, alive, late>>,
         calls' \in [Thread -> Seq(Frame)], ref' \in Nat,
         shots' = shots \/ shots' = [shots EXCEPT ![c] = @ + 1]
  PROVE  /\ ConnectionsTypeOK' /\ Linked' /\ Parted' /\ LinksLead' /\ GoneIsEmpty' /\ HistoryOK'
         /\ ListStep
<1>. USE DEF ConnectionsInv
<1>1. Linked' /\ Parted' /\ LinksLead' /\ orphaned' \subseteq DOMAIN conn' /\ freed' \subseteq DOMAIN conn'
  BY RemovalKeepsLinked, RemovalKeepsParted, RemovalKeepsLead
<1>2. Removed(c)
  BY RemovalIs
<1>3. ConnectionsTypeOK'
  BY <1>1, <1>2 DEF ConnectionsTypeOK, Removed
<1>4. GoneIsEmpty'
  BY <1>2 DEF Removed, GoneIsEmpty
<1>5. /\ DOMAIN conn' = DOMAIN conn /\ c \in DOMAIN conn /\ DOMAIN conn \subseteq 1..MaxConnections
      /\ conn[c].receiver # C!Nobody
      /\ \A k \in DOMAIN conn : conn'[k].single = conn[k].single
      /\ \A k \in DOMAIN conn : conn'[k].receiver = IF k = c THEN C!Nobody ELSE conn[k].receiver
  <2>1. DOMAIN conn' = DOMAIN conn /\ c \in DOMAIN conn /\ conn[c].receiver # C!Nobody
    BY <1>2, ConnectionTyped DEF Removed, C!Connected
  <2>2. DOMAIN conn \subseteq 1..MaxConnections
    BY ConnectionTyped, ObjectsAssumption DEF ConnectionsTypeOK, C!ConnectionsAssumption
  <2> QED
    BY <1>2, <2>1, <2>2 DEF Removed
<1>6. HistoryOK'
  <2>1. shots[c] = 0 /\ c \in 1..MaxConnections
    BY <1>5 DEF HistoryOK
  <2>2. /\ shots' \in [1..MaxConnections -> {0, 1}]
        /\ \A k \in 1..MaxConnections : shots'[k] = shots[k] \/ k = c
    <3>1. PICK I : I = 1..MaxConnections
      OBVIOUS
    <3>2. shots \in [I -> {0, 1}] /\ c \in I /\ shots[c] + 1 = 1
      BY <2>1, <3>1 DEF HistoryOK
    <3>3. shots' = shots \/ shots' = [shots EXCEPT ![c] = 1]
      BY <3>2
    <3>4. shots' \in [I -> {0, 1}] /\ \A k \in I : shots'[k] = shots[k] \/ k = c
      BY <3>2, <3>3
    <3> QED
      BY <3>1, <3>4
  <2>3. \A k \in 1..MaxConnections : shots'[k] = 1 => k \in DOMAIN conn' /\ conn'[k].receiver = C!Nobody
    BY <1>5, <2>2 DEF HistoryOK
  <2>4. \A k \in late' : k \in DOMAIN conn' /\ conn'[k].single
    BY <1>5 DEF HistoryOK
  <2> QED
    BY <2>2, <2>3, <2>4 DEF HistoryOK
<1>7. ListStep
  BY DEF ListStep
<1> QED
  BY <1>1, <1>3, <1>4, <1>6, <1>7

\* A removal that leaves the calls where they are.
LEMMA RemovalKeeps ==
  ASSUME ConnectionsInv, NEW c \in C!Connected, C!RemoveConnection(c), Frees(orphaned \cup {c}),
         UNCHANGED <<ref, currentConnectionId, alive, calls, shots, late>>,
         freed' # freed => \A u \in Thread : \A i \in DOMAIN calls[u] : ~Walks(calls[u][i])
  PROVE  ConnectionsInv'
<1>1. calls' \in [Thread -> Seq(Frame)] /\ ref' \in Nat
  BY DEF ConnectionsInv, ConnectionsTypeOK
<1>2. /\ ConnectionsTypeOK' /\ Linked' /\ Parted' /\ LinksLead' /\ GoneIsEmpty' /\ HistoryOK'
      /\ ListStep
  BY <1>1, RemovalKeepsList
<1>3. FramesOK' /\ LeftAlone' /\ ReferencesAreCounted'
  BY <1>2, ListStepKeepsCalls DEF ConnectionsInv
<1> QED
  BY <1>2, <1>3 DEF ConnectionsInv

\* A removal by a call that walks and goes on; nothing is freed.
LEMMA RemovalMoves ==
  ASSUME ConnectionsInv, NEW c \in C!Connected, C!RemoveConnection(c),
         orphaned' = orphaned \cup {c}, freed' = freed,
         UNCHANGED <<ref, currentConnectionId, alive, late>>,
         shots' = shots \/ shots' = [shots EXCEPT ![c] = @ + 1],
         NEW t \in Thread, NEW k, NEW f, Inside(t, k, f), Walks(f),
         NEW g \in Frame, C!SetTop(t, g), Walks(g), FrameOK(g), ~Leaving
  PROVE  ConnectionsInv'
<1>1. PICK s : Moves(t, s, k) /\ Len(s) = k /\ s[k] = g
  BY SetTopMoves DEF ConnectionsInv
<1>2. calls' \in [Thread -> Seq(Frame)] /\ ref' \in Nat /\ ref' = ref /\ ref \in Nat
  BY <1>1, MovedCalls DEF ConnectionsInv, ConnectionsTypeOK
<1>3. Frees(orphaned \cup {c})
  BY DEF Frees
<1>4. /\ ConnectionsTypeOK' /\ Linked' /\ Parted' /\ LinksLead' /\ GoneIsEmpty' /\ HistoryOK'
      /\ ListStep
  BY <1>2, <1>3, RemovalKeepsList
<1>5. FrameOK(g)'
  BY <1>4, FrameStays DEF ConnectionsInv
<1>6. g.call # "destroy" /\ Len(calls[t]) = k /\ calls[t][k] = f /\ k \in Nat
  BY DEF Walks, Inside
<1>7. FramesOK' /\ LeftAlone' /\ ReferencesAreCounted'
  BY <1>1, <1>2, <1>4, <1>5, <1>6, StackStep DEF ConnectionsInv
<1> QED
  BY <1>4, <1>7 DEF ConnectionsInv

LEMMA DisconnectKeeps ==
  ASSUME ConnectionsInv, NEW t \in Thread, NEW c \in DOMAIN conn, C!Disconnect(t, c)
  PROVE  ConnectionsInv'
<1>1. c \in C!Connected
  BY DEF C!Disconnect, C!Connected
<1>2. Sender \in alive
  BY <1>1 DEF ConnectionsInv, GoneIsEmpty
<1>3. /\ Frees(orphaned \cup {c})
      /\ freed' # freed => \A u \in Thread : \A i \in DOMAIN calls[u] : ~Walks(calls[u][i])
  BY <1>2, CleanMeans DEF C!Disconnect
<1>4. C!RemoveConnection(c) /\ UNCHANGED <<ref, currentConnectionId, alive, calls, shots, late>>
  BY DEF C!Disconnect, C!history
<1> QED
  BY <1>1, <1>3, <1>4, RemovalKeeps

LEMMA RemoveSeenKeeps ==
  ASSUME ConnectionsInv, NEW t \in Thread, C!RemoveSeen(t)
  PROVE  ConnectionsInv'
<1>1. PICK k, f : Inside(t, k, f) /\ f.call = "disconnect" /\ f.at = "remove" /\ f = C!Top(t)
  BY InsideAt DEF C!RemoveSeen
<1>2. f \in Frame /\ FrameOK(f) /\ Walks(f) /\ f.cur # C!None /\ f.cur \in DOMAIN conn \ freed
  BY <1>1 DEF Inside, FrameOK, Walks
<1>3. ~Leaving
  BY <1>1, NoneDisconnectsLater
<1>4. PICK n : n = conn[f.cur].next
  OBVIOUS
<1>5. n \in Nat /\ (n # C!None => n \in DOMAIN conn \ freed)
  BY <1>2, <1>4, ConnectionTyped DEF ConnectionsInv, LinksLead
<1>6. PICK g : C!SetTop(t, g) /\ g = [f EXCEPT !.at = "see", !.cur = n, !.success = TRUE]
  BY <1>1, <1>4 DEF C!RemoveSeen
<1>7. \E ok : Disconnects(g, "see", n, f.to, ok)
  BY <1>1, <1>2, <1>5, <1>6, DisconnectionEdits, Zenon
<1>8. g \in Frame /\ FrameOK(g) /\ Walks(g)
  <2>1. PICK ok : Disconnects(g, "see", n, f.to, ok)
    BY <1>7
  <2> QED
    BY <1>5, <2>1, DisconnectionIsFrame
<1>9. UNCHANGED <<freed, ref, currentConnectionId, alive, shots, late>>
  BY DEF C!RemoveSeen, C!history
<1>10. CASE conn[f.cur].receiver # C!Nobody
  <2>1. f.cur \in C!Connected
    BY <1>2, <1>10 DEF C!Connected
  <2>2. C!RemoveConnection(f.cur) /\ orphaned' = orphaned \cup {f.cur}
    BY <1>1, <1>10 DEF C!RemoveSeen
  <2> QED
    BY <1>1, <1>2, <1>3, <1>6, <1>8, <1>9, <2>1, <2>2, RemovalMoves
<1>11. CASE conn[f.cur].receiver = C!Nobody
  <2>1. UNCHANGED <<C!list, C!memory, currentConnectionId, alive>>
    BY <1>1, <1>9, <1>11 DEF C!RemoveSeen, C!memory
  <2>2. HistoryOK'
    BY <1>9, <2>1 DEF HistoryOK, ConnectionsInv, C!list
  <2> QED
    BY <1>1, <1>2, <1>3, <1>6, <1>8, <2>1, <2>2, WalkStep
<1> QED
  BY <1>10, <1>11

LEMMA ClaimKeeps ==
  ASSUME ConnectionsInv, NEW t \in Thread, C!Claim(t)
  PROVE  ConnectionsInv'
<1>1. PICK k, f : Inside(t, k, f) /\ f.call = "emit" /\ f.at = "claim" /\ f = C!Top(t)
  BY InsideAt DEF C!Claim
<1>2. /\ f \in Frame /\ EmissionOK(f) /\ f.cur \in f.known /\ f.cur \in DOMAIN conn \ freed
      /\ Walks(f) /\ ~Leaving
  BY <1>1, EmittingIs DEF Standing
<1>3. UNCHANGED <<ref, currentConnectionId, alive, late>>
  BY DEF C!Claim
<1>4. CASE conn[f.cur].receiver = C!Nobody
  <2>1. PICK g : g = [f EXCEPT !.at = "advance", !.to = C!Nobody] /\ C!SetTop(t, g)
    BY <1>1, <1>4, SMTT(40) DEF C!Claim, C!Advances
  <2>2. Emits(g, "advance", f.cur, C!Nobody, f, f.known, f.called)
    BY <1>1, <1>2, <2>1, EmissionEdits, Zenon DEF Standing
  <2>3. UNCHANGED <<C!list, C!memory, currentConnectionId, alive>> /\ shots' = shots
    BY <1>1, <1>3, <1>4 DEF C!Claim, C!memory
  <2>4. HistoryOK'
    BY <1>3, <2>3 DEF HistoryOK, ConnectionsInv, C!list
  <2> QED
    BY <1>1, <1>4, <2>1, <2>2, <2>3, <2>4, PassesRemoved DEF Standing
<1>5. CASE conn[f.cur].receiver # C!Nobody
  <2>1. f.cur \in C!Connected
    BY <1>2, <1>5 DEF C!Connected
  <2>2. Sender \in alive
    BY <2>1 DEF ConnectionsInv, GoneIsEmpty
  <2>3. /\ C!RemoveConnection(f.cur) /\ C!Clean(orphaned \cup {f.cur})
        /\ shots' = [shots EXCEPT ![f.cur] = @ + 1]
    BY <1>1, <1>5 DEF C!Claim
\* The emission has a reference, and so has the sender.
  <2>4. orphaned' = orphaned \cup {f.cur} /\ freed' = freed
    <3>1. ref >= 2 /\ ref \in Nat
      BY <1>1, <1>2, <2>2, WalksAlone DEF ConnectionsInv, ConnectionsTypeOK
    <3> QED
      BY <2>3, <3>1 DEF C!Clean
  <2>5. f.called \subseteq f.known /\ f.to \in Listener /\ conn[f.cur].receiver \in {f.to, C!Nobody}
    BY <1>1, <1>2 DEF EmissionOK
  <2>6. PICK g : /\ C!SetTop(t, g)
                 /\ g = IF thread[f.to] = t THEN [C!Called(f) EXCEPT !.at = "slot"]
                        ELSE [f EXCEPT !.at = "post"]
    BY <1>1, <1>5 DEF C!Claim
  <2>7. g \in Frame /\ FrameOK(g) /\ Walks(g)
    <3>1. CASE thread[f.to] = t
      <4>1. PICK h : h = C!Called(f) /\ g = [h EXCEPT !.at = "slot"]
        BY <2>6, <3>1, SMTT(40)
      <4>2. Emits(h, f.at, f.cur, f.to, f, f.known, f.called \cup {f.cur})
        BY <1>1, <1>2, <4>1, EmissionEdits, Zenon
      <4>3. h \in Frame /\ h.call = "emit"
        BY <4>2, SMTT(40) DEF Emits, Frame
      <4>4. Emits(g, "slot", h.cur, h.to, h, h.known, h.called)
        BY <4>1, <4>3, EmissionEdits, Zenon DEF Standing
      <4>5. Emits(g, "slot", f.cur, f.to, f, f.known, f.called \cup {f.cur})
        BY <4>2, <4>4 DEF Emits
      <4>6. \A j : Behind(g, j) => Behind(f, j) \/ j \in f.called \cup {f.cur}
        BY <1>1, <4>5 DEF Behind, Emits
      <4>7. GoesOn(f, g, "slot", f.cur, f.to, f.called \cup {f.cur})
        BY <1>2, <2>5, <4>5, <4>6 DEF GoesOn, Standing
      <4> QED
        BY <1>1, <1>2, <4>7, GoesOnIs
    <3>2. CASE thread[f.to] # t
      <4>1. Emits(g, "post", f.cur, f.to, f, f.known, f.called)
        BY <1>1, <1>2, <2>6, <3>2, EmissionEdits, Zenon DEF Standing
      <4>2. \A j : Behind(g, j) => Behind(f, j)
        BY <1>1, <4>1 DEF Behind, Emits
      <4>3. GoesOn(f, g, "post", f.cur, f.to, f.called)
        BY <1>2, <2>5, <4>1, <4>2 DEF GoesOn, Standing
      <4> QED
        BY <1>1, <1>2, <4>3, GoesOnIs, SMTT(40)
    <3> QED
      BY <3>1, <3>2
  <2> QED
    BY <1>1, <1>2, <1>3, <2>1, <2>3, <2>4, <2>6, <2>7, RemovalMoves
<1> QED
  BY <1>4, <1>5

LEMMA ConnectKeeps ==
  ASSUME ConnectionsInv, NEW t \in Thread, NEW r \in Listener, NEW single \in BOOLEAN,
         C!Connect(t, r, single)
  PROVE  ConnectionsInv'
<1>. USE DEF ConnectionsInv
<1>1. ListStep
  BY DEF ListStep
<1>2. /\ UNCHANGED <<orphaned, freed, ref, alive, calls, shots, late>>
      /\ currentConnectionId' = currentConnectionId + 1 /\ Sender \in alive
      /\ Len(conn) < MaxConnections
  BY DEF C!Connect, C!memory, C!history
<1>3. FramesOK' /\ LeftAlone' /\ ReferencesAreCounted'
  BY <1>1, <1>2, ListStepKeepsCalls
<1>4. Linked' /\ LinksLead' /\ Parted'
  BY AdditionKeepsLinked, AdditionKeepsLead
<1>5. GoneIsEmpty'
  BY <1>2 DEF GoneIsEmpty
<1>6. /\ conn' \in Seq(Connection) /\ Len(conn') = Len(conn) + 1 /\ Len(conn) \in Nat
      /\ DOMAIN conn \subseteq DOMAIN conn'
      /\ \A k \in DOMAIN conn : conn'[k].single = conn[k].single /\ conn'[k].receiver = conn[k].receiver
  <2>1. /\ conn' \in Seq(Connection) /\ Len(conn') = Len(conn) + 1
        /\ \A k \in DOMAIN conn : conn'[k].single = conn[k].single /\ conn'[k].receiver = conn[k].receiver
    BY AdditionIs DEF Added
  <2>2. Len(conn) \in Nat /\ DOMAIN conn = 1..Len(conn) /\ DOMAIN conn' = 1..Len(conn')
    BY <2>1, ConnectionTyped
  <2> QED
    BY <2>1, <2>2
<1>7. ConnectionsTypeOK'
  <2>1. MaxConnections \in Nat
    BY ObjectsAssumption DEF C!ConnectionsAssumption
  <2>2. Len(conn') <= MaxConnections /\ currentConnectionId' = Len(conn')
    BY <1>2, <1>6, <2>1 DEF ConnectionsTypeOK
  <2> QED
    BY <1>2, <1>6, <2>2 DEF ConnectionsTypeOK
<1>8. HistoryOK'
  BY <1>2, <1>6 DEF HistoryOK
<1> QED
  BY <1>3, <1>4, <1>5, <1>7, <1>8

-----------------------------------------------------------------------------
(* Destruction.                                                            *)

\* An object is gone once its destruction returns.
LEMMA ObjectGoes ==
  ASSUME ConnectionsInv, NEW t \in Thread, NEW k, NEW f, Inside(t, k, f), f.call = "destroy",
         C!Returns(t), alive' = alive \ {f.of}, C!list' = C!list, C!history' = C!history,
         Frees(orphaned),
         freed' # freed => \A u \in Thread : \A i \in DOMAIN calls[u] : ~Walks(calls[u][i]),
         \A c \in C!Connected : conn[c].receiver # f.of,
         IF f.of = Sender THEN C!Connected = {} /\ currentConnectionId' = 0 /\ ref' = ref - 1
                          ELSE UNCHANGED <<currentConnectionId, ref>>
  PROVE  ConnectionsInv'
<1>. USE DEF ConnectionsInv
<1>1. PICK s : Moves(t, s, k) /\ Len(s) = k - 1
  BY ReturnMoves
<1>2. /\ k \in Nat \ {0} /\ k = Len(calls[t]) /\ k \in DOMAIN calls[t] /\ f = calls[t][k]
      /\ thread[f.of] = t /\ f.of \in alive /\ ~Walks(f)
  <2>1. calls[t] \in Seq(Frame)
    BY DEF ConnectionsTypeOK
  <2> QED
    BY <2>1 DEF Inside, Walks
<1>3. conn' = conn /\ first' = first /\ last' = last /\ ListStep
  BY DEF C!list, ListStep
<1>4. Sender \in alive' <=> Sender \in alive /\ f.of # Sender
  OBVIOUS
<1>5. FramesOK'
  <2>1. ASSUME NEW u \in Thread, NEW i \in DOMAIN calls[u], u # t \/ i # k, calls[u][i].call = "destroy"
        PROVE  calls[u][i].of \in alive'
    <3>1. thread[calls[u][i].of] = u /\ calls[u][i].of \in alive
          /\ ~(i < Len(calls[u]))
      BY <2>1 DEF FramesOK
    <3>2. u # t
      <4>1. calls[u] \in Seq(Frame)
        BY DEF ConnectionsTypeOK
      <4>2. i \in 1..Len(calls[u]) /\ Len(calls[u]) \in Nat
        BY <4>1, <2>1
      <4>3. i = Len(calls[u])
        BY <3>1, <4>2
      <4> QED
        BY <1>2, <2>1, <4>3
    <3> QED
      BY <1>2, <3>1, <3>2
  <2>2. freed' # freed =>
           \A u \in Thread : \A i \in DOMAIN calls[u] : Walks(calls[u][i]) => u = t /\ i = k
    OBVIOUS
  <2>3. ~(k > Len(calls[t])) /\ Len(s) # k
    BY <1>1, <1>2
  <2> QED
    BY <1>1, <1>3, <2>1, <2>2, <2>3, FramesMove
<1>6. LeftAlone'
  <2>1. Sender \in alive' \/ Leaving
    BY <1>2, <1>4 DEF Leaving
  <2>2. Len(s) # k
    BY <1>1, <1>2
  <2> QED
    BY <1>1, <2>1, <2>2, LeftAloneMoves
<1>7. ReferencesAreCounted' /\ ref' \in Nat
  <2>1. /\ IsFiniteSet(Walkers') /\ Cardinality(Walkers) \in Nat /\ Cardinality(Walkers') \in Nat
        /\ Cardinality(Walkers') =
              Cardinality(Walkers) + (IF Len(s) = k /\ Walks(s[k]) THEN 1 ELSE 0)
                                   - (IF Len(calls[t]) = k /\ Walks(calls[t][k]) THEN 1 ELSE 0)
    BY <1>1, WalkersMove DEF ReferencesAreCounted
  <2>2. Len(s) # k /\ ~Walks(calls[t][k])
    BY <1>1, <1>2
  <2>3. PICK n, m : n = Cardinality(Walkers) /\ m = Cardinality(Walkers')
    OBVIOUS
  <2>4. n \in Nat /\ m \in Nat /\ m = n /\ ref = n + IF Sender \in alive THEN 1 ELSE 0
    BY <2>1, <2>2, <2>3 DEF ReferencesAreCounted
  <2>5. ref' = m + IF Sender \in alive' THEN 1 ELSE 0
    BY <1>2, <1>4, <2>4
  <2> QED
    BY <2>1, <2>3, <2>4, <2>5, SMTT(40) DEF ReferencesAreCounted
<1>8. Parted' /\ LinksLead' /\ orphaned' \subseteq DOMAIN conn /\ freed' \subseteq DOMAIN conn
  BY <1>3, FreeingKeeps
<1>9. C!Connected' = C!Connected
  BY <1>3 DEF C!Connected
<1>10. ConnectionsTypeOK'
  <2>1. calls' \in [Thread -> Seq(Frame)]
    BY <1>1, MovedCalls
  <2>2. currentConnectionId' = IF Sender \in alive' THEN Len(conn) ELSE 0
    BY <1>4 DEF ConnectionsTypeOK
  <2> QED
    BY <1>3, <1>7, <1>8, <2>1, <2>2 DEF ConnectionsTypeOK
<1>11. Linked'
  BY <1>3, <1>9 DEF Linked
<1>12. GoneIsEmpty'
  BY <1>4, <1>9 DEF GoneIsEmpty
<1>13. HistoryOK'
  BY <1>3, HistoryStays
<1> QED
  BY <1>5, <1>6, <1>7, <1>8, <1>10, <1>11, <1>12, <1>13

LEMMA MaxIsIn ==
  ASSUME ConnectionsTypeOK, NEW S \in SUBSET DOMAIN conn, S # {}
  PROVE  C!Max(S) \in S
<1>1. PICK n : n = Len(conn) /\ n \in Nat /\ \A c \in S : c \in Nat /\ c <= n
  BY ConnectionTyped
<1>2. PICK M : M = {n - c : c \in S}
  OBVIOUS
<1>3. M \in SUBSET Nat /\ M # {}
  BY <1>1, <1>2
<1>4. PICK m \in M : \A j \in M : <<j, m>> \notin OpToRel(<, Nat)
  BY <1>3, WFMin, NatLessThanWellFounded, Zenon
<1>5. \A j \in M : m <= j
  <2>1. \A j \in M : ~(j < m)
    BY <1>3, <1>4 DEF OpToRel
  <2> QED
    BY <1>3, <2>1
<1>6. PICK c \in S : m = n - c
  BY <1>2
<1>7. \A d \in S : c >= d
  <2>. SUFFICES ASSUME NEW d \in S
                PROVE  c >= d
    OBVIOUS
  <2>1. n - d \in M
    BY <1>2
  <2> QED
    BY <1>1, <1>5, <1>6, <2>1
<1> QED
  BY <1>7 DEF C!Max

LEMMA DisconnectSenderKeeps ==
  ASSUME ConnectionsInv, NEW t \in Thread, C!DisconnectSender(t)
  PROVE  ConnectionsInv'
<1>1. PICK k, f : Inside(t, k, f) /\ f.call = "destroy" /\ f = C!Top(t) /\ f.of # Sender
  BY InsideAt DEF C!DisconnectSender
<1>2. f.of # C!Nobody
  <2>1. f.of \in Object
    BY <1>1 DEF Inside, Frame, EmissionFrame, DisconnectionFrame, DestructionFrame
  <2> QED
    BY <2>1, ObjectsAssumption DEF C!ConnectionsAssumption, Object
<1>3. PICK mine : mine = {c \in DOMAIN conn : conn[c].receiver = f.of}
  OBVIOUS
<1>4. /\ UNCHANGED <<ref, currentConnectionId, shots, late>> /\ C!history' = C!history
      /\ IF mine # {}
         THEN /\ C!RemoveConnection(C!Max(mine)) /\ C!Clean(orphaned \cup {C!Max(mine)})
              /\ UNCHANGED <<alive, calls>>
         ELSE /\ alive' = alive \ {f.of} /\ C!Returns(t)
              /\ UNCHANGED <<C!list, orphaned, freed>>
  BY <1>1, <1>3 DEF C!DisconnectSender, C!history
<1>5. CASE mine # {}
  <2>1. C!Max(mine) \in C!Connected
    BY <1>2, <1>3, <1>5, MaxIsIn DEF ConnectionsInv, C!Connected
  <2>2. Sender \in alive
    BY <2>1 DEF ConnectionsInv, GoneIsEmpty
  <2>3. /\ Frees(orphaned \cup {C!Max(mine)})
        /\ freed' # freed => \A u \in Thread : \A i \in DOMAIN calls[u] : ~Walks(calls[u][i])
    BY <1>4, <1>5, <2>2, CleanMeans
  <2> QED
    BY <1>4, <1>5, <2>1, <2>3, RemovalKeeps
<1>6. CASE mine = {}
  <2>1. \A c \in C!Connected : conn[c].receiver # f.of
    BY <1>3, <1>6 DEF C!Connected
  <2>2. Frees(orphaned) /\ freed' = freed
    BY <1>4, <1>6 DEF Frees
  <2> QED
    BY <1>1, <1>4, <1>6, <2>1, <2>2, ObjectGoes
<1> QED
  BY <1>5, <1>6

LEMMA DisconnectReceiversKeeps ==
  ASSUME ConnectionsInv, NEW t \in Thread, C!DisconnectReceivers(t)
  PROVE  ConnectionsInv'
<1>1. PICK k, f : Inside(t, k, f) /\ f.call = "destroy" /\ f.of = Sender
  BY InsideAt DEF C!DisconnectReceivers
<1>2. Sender \in alive
  BY <1>1 DEF Inside
<1>3. CASE first # C!None
  <2>1. first \in C!Connected
    BY <1>3 DEF ConnectionsInv, Linked, After, C!None
  <2>2. /\ C!RemoveConnection(first) /\ orphaned' = orphaned \cup {first}
        /\ UNCHANGED <<freed, ref, currentConnectionId, alive, calls, shots, late>>
    BY <1>3 DEF C!DisconnectReceivers, C!history
  <2>3. Frees(orphaned \cup {first})
    BY <2>2 DEF Frees
  <2> QED
    BY <2>1, <2>2, <2>3, RemovalKeeps
<1>4. CASE first = C!None
  <2>1. /\ currentConnectionId' = 0 /\ alive' = alive \ {Sender} /\ C!Deref /\ C!Returns(t)
        /\ C!list' = C!list /\ C!history' = C!history
    BY <1>4 DEF C!DisconnectReceivers
  <2>2. C!Connected = {}
    BY <1>4, ConnectionTyped DEF ConnectionsInv, Linked, After, C!None
  <2>3. /\ Frees(orphaned) /\ ref' = ref - 1
        /\ freed' # freed => \A u \in Thread : \A i \in DOMAIN calls[u] : ~Walks(calls[u][i])
    BY <1>2, <2>1, NobodyWalks DEF C!Deref, Frees, ConnectionsInv
  <2> QED
    BY <1>1, <2>1, <2>2, <2>3, ObjectGoes
<1> QED
  BY <1>3, <1>4

LEMMA DestroyKeeps ==
  ASSUME ConnectionsInv, NEW t \in Thread, NEW o \in Object, C!Destroy(t, o)
  PROVE  ConnectionsInv'
<1>1. PICK g : g = C!Destruction(o) /\ C!Calls(t, g)
  BY DEF C!Destroy
<1>2. g \in Frame /\ g.call = "destroy" /\ g.of = o
  BY <1>1 DEF C!Destruction, Frame, DestructionFrame
<1>3. FrameOK(g) /\ ~Walks(g)
  BY <1>2 DEF FrameOK, Walks
<1>4. PICK s, k : /\ Moves(t, s, k) /\ Len(s) = k /\ s[k] = g /\ Len(calls[t]) = k - 1
                  /\ k > 1 => calls[t][k - 1].call = "emit" /\ calls[t][k - 1].at = "slot"
  BY <1>1, <1>2, CallMoves DEF ConnectionsInv
<1>5. k \in Nat \ {0} /\ ref \in Nat
  BY <1>4 DEF Moves, ConnectionsInv, ConnectionsTypeOK
<1>6. /\ C!list' = C!list /\ UNCHANGED <<orphaned, freed, ref, currentConnectionId, alive>>
      /\ conn' = conn /\ C!history' = C!history
      /\ thread[o] = t /\ o \in alive
      /\ o = Sender => \A u \in Thread \ {t} : calls[u] = <<>>
  BY DEF C!Destroy, C!memory, C!list
<1>7. Frees(orphaned) /\ HistoryOK'
  BY <1>6, HistoryStays DEF Frees, ConnectionsInv
<1>8. CASE o # Sender
  <2>1. Leaving => Unwinding(t, g)
    BY <1>2 DEF Unwinding
  <2> QED
    BY <1>2, <1>3, <1>4, <1>5, <1>6, <1>7, <1>8, <2>1, CallStep
<1>9. CASE o = Sender
  <2>1. ListStep
    BY <1>6 DEF ListStep
  <2>2. FramesOK'
    <3>1. FrameOK(g)'
      BY <1>2, <1>3, <2>1, FrameStays DEF ConnectionsInv
    <3>2. \A u \in Thread : \A i \in DOMAIN calls[u] :
             (u # t \/ i # k) /\ calls[u][i].call = "destroy" => calls[u][i].of \in alive'
      BY <1>6 DEF ConnectionsInv, FramesOK
    <3> QED
      BY <1>2, <1>4, <1>6, <2>1, <3>1, <3>2, FramesMove DEF ConnectionsInv
  <2>3. LeftAlone'
    <3>1. PICK new : new = calls'
      OBVIOUS
    <3>2. ASSUME NEW u \in Thread, NEW i \in DOMAIN new[u]
          PROVE  Unwinding(u, new[u][i])
      <4>1. CASE u = t /\ i = k
        BY <1>2, <1>4, <3>1, <3>2, <4>1, MovedCalls DEF ConnectionsInv, Unwinding
      <4>2. CASE u # t \/ i # k
        <5>1. i \in DOMAIN calls[u] /\ new[u][i] = calls[u][i]
          BY <1>4, <3>1, <3>2, <4>2, MovedCalls DEF ConnectionsInv
        <5>2. u = t
          BY <1>6, <1>9, <5>1
        <5>3. i \in 1..k - 1
          BY <1>4, <1>5, <5>1, <5>2 DEF ConnectionsInv, ConnectionsTypeOK
        <5>4. i < k - 1 \/ (i = k - 1 /\ k > 1)
          BY <1>5, <5>3
        <5>5. calls[t][i].call = "emit" /\ calls[t][i].at = "slot"
          BY <1>4, <5>1, <5>2, <5>4 DEF ConnectionsInv, FramesOK
        <5> QED
          BY <1>6, <1>9, <5>1, <5>2, <5>5 DEF Unwinding
      <4> QED
        BY <4>1, <4>2
    <3> QED
      BY <3>1, <3>2 DEF LeftAlone, Unwinding
  <2>4. ReferencesAreCounted'
    <3>1. /\ IsFiniteSet(Walkers') /\ Cardinality(Walkers) \in Nat /\ Cardinality(Walkers') \in Nat
          /\ Cardinality(Walkers') =
                Cardinality(Walkers) + (IF Len(s) = k /\ Walks(s[k]) THEN 1 ELSE 0)
                                     - (IF Len(calls[t]) = k /\ Walks(calls[t][k]) THEN 1 ELSE 0)
      BY <1>4, WalkersMove DEF ReferencesAreCounted, ConnectionsInv
    <3>2. Len(calls[t]) # k /\ ~Walks(s[k])
      BY <1>3, <1>4, <1>5
    <3>3. Cardinality(Walkers') = Cardinality(Walkers)
      BY <3>1, <3>2
    <3> QED
      BY <1>6, <3>1, <3>3 DEF ReferencesAreCounted, ConnectionsInv
  <2>5. calls' \in [Thread -> Seq(Frame)]
    BY <1>4, MovedCalls DEF ConnectionsInv
  <2>6. ConnectionsTypeOK'
    BY <1>6, <2>5 DEF ConnectionsTypeOK, ConnectionsInv
  <2>7. C!Connected' = C!Connected /\ first' = first /\ last' = last
    BY <1>6 DEF C!Connected, C!list
  <2>8. Linked' /\ GoneIsEmpty'
    BY <1>6, <2>7 DEF Linked, GoneIsEmpty, ConnectionsInv
  <2>9. Parted' /\ LinksLead'
    BY <1>6, <1>7, FreeingKeeps DEF ConnectionsInv
  <2> QED
    BY <1>7, <2>2, <2>3, <2>4, <2>6, <2>8, <2>9 DEF ConnectionsInv
<1> QED
  BY <1>8, <1>9

-----------------------------------------------------------------------------
(* The invariant, and what follows from it.                                *)

LEMMA InitOK ==
  ASSUME C!Init
  PROVE  ConnectionsInv
<1>. USE DEF C!Init, C!None
<1>1. C!Connected = {} /\ DOMAIN conn = {} /\ Len(conn) = 0 /\ conn \in Seq(Connection)
  BY DEF C!Connected
<1>2. \A t \in Thread : calls[t] = <<>> /\ DOMAIN calls[t] = {}
  OBVIOUS
<1>3. ConnectionsTypeOK
  <2>1. calls \in [Thread -> Seq(Frame)]
    OBVIOUS
  <2>2. MaxConnections \in Nat
    BY ObjectsAssumption DEF C!ConnectionsAssumption
  <2> QED
    BY <1>1, <2>1, <2>2 DEF ConnectionsTypeOK, Object
<1>4. Linked /\ Parted /\ LinksLead /\ GoneIsEmpty
  BY <1>1 DEF Linked, After, Before, Parted, LinksLead, GoneIsEmpty
<1>5. FramesOK /\ LeftAlone
  BY <1>2 DEF FramesOK, LeftAlone
<1>6. ReferencesAreCounted
  <2>1. Walkers = {}
    BY <1>2, WalkersAre
  <2>2. IsFiniteSet(Walkers) /\ Cardinality(Walkers) = 0
    BY <2>1, FS_EmptySet
  <2> QED
    BY <2>2 DEF ReferencesAreCounted
<1>7. HistoryOK
  <2>1. shots \in [1..MaxConnections -> {0, 1}] /\ \A c \in 1..MaxConnections : shots[c] = 0
    OBVIOUS
  <2> QED
    BY <2>1 DEF HistoryOK
<1> QED
  BY <1>3, <1>4, <1>5, <1>6, <1>7 DEF ConnectionsInv

LEMMA StutterKeeps ==
  ASSUME ConnectionsInv, UNCHANGED C!vars
  PROVE  ConnectionsInv'
<1>1. /\ UNCHANGED <<first, last, conn, orphaned, freed, ref, currentConnectionId, alive, calls, shots, late>>
  BY DEF C!vars, C!list, C!memory, C!history
<1>2. C!Connected' = C!Connected /\ Walkers' = Walkers
  BY <1>1 DEF C!Connected, Walkers, Walks
<1>3. ConnectionsTypeOK' /\ Linked' /\ Parted' /\ LinksLead' /\ GoneIsEmpty' /\ HistoryOK'
  BY <1>1, <1>2
  DEF ConnectionsInv, ConnectionsTypeOK, Linked, Parted, LinksLead, GoneIsEmpty, HistoryOK
<1>4. ListStep
  BY <1>1 DEF ListStep
<1>5. FramesOK' /\ LeftAlone' /\ ReferencesAreCounted'
  BY <1>1, <1>4, ListStepKeepsCalls DEF ConnectionsInv
<1> QED
  BY <1>3, <1>5 DEF ConnectionsInv

LEMMA NextKeeps ==
  ASSUME ConnectionsInv, [C!Next]_(C!vars)
  PROVE  ConnectionsInv'
<1>1. CASE UNCHANGED C!vars
  BY <1>1, StutterKeeps
<1>2. CASE C!Next
  <2>. SUFFICES ASSUME NEW t \in Thread,
                       \/ C!Emit(t) \/ C!Activate(t) \/ C!CleanUp(t)
                       \/ \E r \in Listener :
                            C!DisconnectReceiver(t, r) \/ \E single \in BOOLEAN : C!Connect(t, r, single)
                       \/ \E c \in DOMAIN conn : C!Disconnect(t, c)
                       \/ C!See(t) \/ C!RemoveSeen(t) \/ C!SeenAll(t)
                       \/ \E o \in Listener \cup {Sender} : C!Destroy(t, o)
                       \/ C!DisconnectSender(t) \/ C!DisconnectReceivers(t)
                PROVE  ConnectionsInv'
    BY <1>2 DEF C!Next
  <2>1. CASE C!Emit(t)
    BY <2>1, EmitKeeps
  <2>2. CASE C!Activate(t)
    <3>1. CASE C!First(t)
      BY <3>1, FirstKeeps
    <3>2. CASE C!Visit(t)
      BY <3>2, VisitKeeps
    <3>3. CASE C!Claim(t)
      BY <3>3, ClaimKeeps
    <3>4. CASE C!Queue(t)
      BY <3>4, QueueKeeps
    <3>5. CASE C!Post(t)
      BY <3>5, PostKeeps
    <3>6. CASE C!SlotReturns(t)
      BY <3>6, SlotReturnsKeeps
    <3>7. CASE C!Advance(t)
      BY <3>7, AdvanceKeeps
    <3>8. CASE C!EmitEnd(t)
      BY <3>8, EmitEndKeeps
    <3> QED
      BY <2>2, <3>1, <3>2, <3>3, <3>4, <3>5, <3>6, <3>7, <3>8 DEF C!Activate
  <2>3. CASE C!CleanUp(t)
    BY <2>3, CleanUpKeeps
  <2>4. CASE \E r \in Listener : C!DisconnectReceiver(t, r)
    BY <2>4, DisconnectReceiverKeeps
  <2>5. CASE \E r \in Listener, single \in BOOLEAN : C!Connect(t, r, single)
    BY <2>5, ConnectKeeps
  <2>6. CASE \E c \in DOMAIN conn : C!Disconnect(t, c)
    BY <2>6, DisconnectKeeps
  <2>7. CASE C!See(t) \/ C!RemoveSeen(t) \/ C!SeenAll(t)
    BY <2>7, SeeKeeps, RemoveSeenKeeps, SeenAllKeeps
  <2>8. CASE \E o \in Listener \cup {Sender} : C!Destroy(t, o)
    BY <2>8, DestroyKeeps DEF Object
  <2>9. CASE C!DisconnectSender(t) \/ C!DisconnectReceivers(t)
    BY <2>9, DisconnectSenderKeeps, DisconnectReceiversKeeps
  <2> QED
    BY <2>1, <2>2, <2>3, <2>4, <2>5, <2>6, <2>7, <2>8, <2>9
<1> QED
  BY <1>1, <1>2

\* The inductive invariant of the connections of a signal (qobject.cpp): their
\* list, the references that keep removed ones, and every emission,
\* disconnection and destruction under way.
THEOREM ConnectionsInvariant == C!Spec => []ConnectionsInv
<1>1. C!Init => ConnectionsInv
  BY InitOK
<1>2. ConnectionsInv /\ [C!Next]_(C!vars) => ConnectionsInv'
  BY NextKeeps
<1> QED
  BY <1>1, <1>2, PTL DEF C!Spec

\* A call, by where it is on its stack.
LEMMA FrameIs ==
  ASSUME ConnectionsInv, NEW f \in C!Frames
  PROVE  \E t \in Thread : \E i \in DOMAIN calls[t] : f = calls[t][i] /\ f \in Frame /\ FrameOK(f)
<1>1. PICK t \in Thread : f \in C!ToSet(calls[t])
  BY DEF C!Frames
<1>2. PICK i \in DOMAIN calls[t] : f = calls[t][i]
  BY <1>1 DEF C!ToSet
<1> QED
  BY <1>2 DEF ConnectionsInv, ConnectionsTypeOK, FramesOK

LEMMA UsesNothingFreed ==
  ASSUME ConnectionsInv
  PROVE  NothingFreedIsUsed
<1>1. C!ListIsLinked
  BY ListIs DEF ConnectionsInv
<1>2. ASSUME NEW f \in C!Frames
      PROVE  /\ f.call # "destroy" /\ f.cur # C!None => {f.cur, conn[f.cur].next} \cap freed = {}
             /\ f.call = "emit" /\ f.at = "clean" => Sender \in alive
  <2>1. PICK t \in Thread : \E i \in DOMAIN calls[t] : f = calls[t][i] /\ f \in Frame /\ FrameOK(f)
    BY <1>2, FrameIs
  <2>2. PICK i \in DOMAIN calls[t] : f = calls[t][i] /\ f \in Frame /\ FrameOK(f)
    BY <2>1
  <2>3. ASSUME f.call # "destroy", f.cur # C!None
        PROVE  {f.cur, conn[f.cur].next} \cap freed = {}
    <3>1. Walks(f)
      <4>1. f.call = "emit" \/ f.call = "disconnect"
        BY <2>2, <2>3 DEF Frame, EmissionFrame, DisconnectionFrame, DestructionFrame
      <4> QED
        BY <2>2, <2>3, <4>1 DEF FrameOK, EmissionOK, Standing, Walks
    <3>2. f.cur \in DOMAIN conn \ freed
      BY <2>2, <2>3, <3>1 DEF FrameOK
    <3>3. conn[f.cur].next \notin freed
      <4>1. 0 \notin freed
        BY ConnectionTyped DEF ConnectionsInv, ConnectionsTypeOK
      <4> QED
        BY <3>2, <4>1 DEF ConnectionsInv, LinksLead, C!None
    <3> QED
      BY <3>2, <3>3
  <2>4. ASSUME f.call = "emit", f.at = "clean"
        PROVE  Sender \in alive
    <3>1. ~Leaving
      BY <2>2, <2>4 DEF ConnectionsInv, LeftAlone
    <3> QED
      BY <3>1 DEF Leaving
  <2> QED
    BY <2>3, <2>4
<1> QED
  BY <1>1, <1>2 DEF NothingFreedIsUsed, C!NothingFreedIsUsed

LEMMA CallsWhatItShould ==
  ASSUME ConnectionsInv
  PROVE  EmissionsAreExact
<1>1. ASSUME NEW f \in C!Frames, f.call = "emit", f.at \in {"end", "clean"}
      PROVE  {c \in f.known \cap C!Connected : c <= f.highest} \subseteq f.called /\ f.called \subseteq f.known
  <2>1. EmissionOK(f)
    BY <1>1, FrameIs DEF FrameOK
  <2> QED
    BY <1>1, <2>1 DEF EmissionOK, Behind
<1>2. \A c \in DOMAIN conn : shots[c] <= 1
  <2>1. DOMAIN conn \subseteq 1..MaxConnections
    BY ConnectionTyped, ObjectsAssumption DEF ConnectionsInv, ConnectionsTypeOK, C!ConnectionsAssumption
  <2> QED
    BY <2>1 DEF ConnectionsInv, HistoryOK
<1>3. \A c \in late : conn[c].single
  BY DEF ConnectionsInv, HistoryOK
<1> QED
  BY <1>1, <1>2, <1>3 DEF EmissionsAreExact, C!EmissionsAreExact

\* Whoever walks the connections of a signal stands on one that has not been
\* freed, and the next one has not been either, whatever slots and other threads
\* remove (cleanOrphanedConnections and the reference of doActivate, qobject.cpp).
THEOREM NothingFreedIsUsedAlways == C!Spec => []NothingFreedIsUsed
BY ConnectionsInvariant, UsesNothingFreed, PTL

\* An emission calls what was connected when it began and is when it ends, and
\* nothing made later; a single shot is fired once; what is posted to an object
\* that is gone comes from a single shot (doActivate, qobject.cpp).
THEOREM EmissionsAreExactAlways == C!Spec => []EmissionsAreExact
BY ConnectionsInvariant, CallsWhatItShould, PTL

-----------------------------------------------------------------------------
(* The list of posted events.                                              *)

EventElement(n) == [event : 0..n, priority : Priority]

Pendings(l) == {l[k].event : k \in {j \in DOMAIN l : l[j].event # 0}}

\* May a stand before b in the list?
Precedes(ev, a, b) ==
  a # b /\ (b < a /\ ev[a].to = ev[b].to /\ ev[a].priority = ev[b].priority => ev[b].deletes)

InPostingOrder(l, ev) ==
  \A j, k \in DOMAIN l :
    j < k /\ l[j].event # 0 /\ l[k].event # 0 => Precedes(ev, l[j].event, l[k].event)

HasPriorities(l, ev) ==
  \A j \in DOMAIN l : l[j].event # 0 => l[j].priority = ev[l[j].event].priority

\* Beyond b the list is sorted.
Sorted(l, b) ==
  \A j, k \in b + 1..Len(l) : j < k => l[j].priority >= l[k].priority

LEMMA ElementTyped ==
  ASSUME NEW n \in Nat, NEW y \in EventElement(n)
  PROVE  y.event \in 0..n /\ y.event \in Nat /\ y.priority \in Priority /\ y.priority \in Int
<1>1. y.event \in 0..n /\ y.priority \in Priority
  BY DEF EventElement
<1>2. Priority \subseteq Int
  BY EventsAssumption
<1>3. y.event \in Nat
  BY <1>1
<1>4. y.priority \in Int
  BY <1>1, <1>2, Zenon
<1> QED
  BY <1>1, <1>3, <1>4

\* s is l with x at m, where it belongs beyond b.
Inserted(l, b, x, m, s) ==
  /\ m \in b + 1..Len(l) + 1
  /\ Len(s) = Len(l) + 1 /\ s[m] = x
  /\ \A k \in 1..m - 1 : s[k] = l[k]
  /\ \A k \in m + 1..Len(l) + 1 : s[k] = l[k - 1]
  /\ \A k \in b + 1..m - 1 : l[k].priority >= x.priority
  /\ \A k \in m..Len(l) : l[k].priority < x.priority

LEMMA NotZero ==
  ASSUME NEW n \in Nat, NEW k \in 0..n, k # 0
  PROVE  k \in 1..n
OBVIOUS

HasAt(l, m, x, s) ==
  /\ Len(s) = Len(l) + 1 /\ s[m] = x
  /\ \A k \in 1..m - 1 : s[k] = l[k]
  /\ \A k \in m + 1..Len(l) + 1 : s[k] = l[k - 1]

LEMMA InsertAtIs ==
  ASSUME NEW X, NEW l \in Seq(X), NEW x \in X, NEW m \in 1..Len(l), NEW s, s = InsertAt(l, m, x)
  PROVE  s \in Seq(X) /\ HasAt(l, m, x, s)
<1>1. PICK p : p = SubSeq(l, 1, m - 1)
  OBVIOUS
<1>2. p \in Seq(X) /\ Len(p) = m - 1 /\ \A k \in 1..m - 1 : p[k] = l[k]
  BY <1>1
<1>3. PICK q : q = SubSeq(l, m, Len(l))
  OBVIOUS
<1>4. q \in Seq(X) /\ Len(q) = Len(l) - m + 1 /\ \A k \in 1..Len(q) : q[k] = l[m + k - 1]
  BY <1>3
<1>5. PICK r : r = p \o <<x>>
  OBVIOUS
<1>6. r \in Seq(X) /\ Len(r) = m /\ r[m] = x /\ \A k \in 1..m - 1 : r[k] = l[k]
  <2>1. r \in Seq(X) /\ Len(r) = m
    BY <1>2, <1>5
  <2> QED
    BY <1>2, <1>5, <2>1
<1>7. s = r \o q
  BY <1>1, <1>3, <1>5 DEF InsertAt
<1>8. s \in Seq(X) /\ Len(s) = Len(l) + 1
  <2>1. m \in Nat /\ Len(l) \in Nat /\ Len(q) \in Nat /\ m + (Len(l) - m + 1) = Len(l) + 1
    BY <1>4
  <2>2. s \in Seq(X) /\ Len(s) = Len(r) + Len(q)
    BY <1>4, <1>6, <1>7
  <2> QED
    BY <1>4, <1>6, <2>1, <2>2
<1>9. /\ \A k \in 1..m : s[k] = r[k]
      /\ \A k \in m + 1..Len(l) + 1 : s[k] = q[k - m]
  BY <1>4, <1>6, <1>7, SMTT(40)
<1>10. ASSUME NEW k \in m + 1..Len(l) + 1
       PROVE  s[k] = l[k - 1]
  <2>1. k - m \in 1..Len(q) /\ m + (k - m) - 1 = k - 1
    BY <1>4
  <2> QED
    BY <1>4, <1>9, <2>1
<1>11. s[m] = x /\ \A k \in 1..m - 1 : s[k] = l[k]
  BY <1>6, <1>9
<1> QED
  BY <1>8, <1>10, <1>11 DEF HasAt

LEMMA HasLeast ==
  ASSUME NEW S \in SUBSET Nat, S # {}
  PROVE  \E m \in S : \A j \in S : m <= j
<1>1. PICK m \in S : \A j \in S : <<j, m>> \notin OpToRel(<, Nat)
  BY WFMin, NatLessThanWellFounded, Zenon
<1>2. \A j \in S : ~(j < m)
  BY <1>1 DEF OpToRel
<1> QED
  BY <1>2

LEMMA AddEventInserts ==
  ASSUME NEW n \in Nat, NEW l \in Seq(EventElement(n)), NEW x \in EventElement(n),
         insertionOffset \in 0..Len(l), Sorted(l, insertionOffset)
  PROVE  /\ AddEvent(l, x) \in Seq(EventElement(n))
         /\ \E m : Inserted(l, insertionOffset, x, m, AddEvent(l, x))
<1>. DEFINE b == insertionOffset
            lower == {j \in b + 1..Len(l) : l[j].priority < x.priority}
<1>1. b \in Nat /\ Len(l) \in Nat /\ b <= Len(l)
  OBVIOUS
<1>2. \A k \in 1..Len(l) : l[k].priority \in Int
  <2>1. \A k \in 1..Len(l) : l[k] \in EventElement(n)
    OBVIOUS
  <2> QED
    BY <2>1, EventsAssumption DEF EventElement
<1>3. x.priority \in Int
  BY EventsAssumption DEF EventElement
<1>4. CASE \A k \in b + 1..Len(l) : l[k].priority >= x.priority
  <2>1. l = <<>> \/ Last(l).priority >= x.priority \/ lower = {}
    BY <1>1, <1>2, <1>3, <1>4
  <2>2. AddEvent(l, x) = Append(l, x)
    BY <2>1 DEF AddEvent
  <2>3. Inserted(l, b, x, Len(l) + 1, Append(l, x))
    BY <1>1, <1>4 DEF Inserted
  <2>4. Append(l, x) \in Seq(EventElement(n))
    OBVIOUS
  <2> QED
    BY <2>2, <2>3, <2>4
<1>5. CASE \E k \in b + 1..Len(l) : ~(l[k].priority >= x.priority)
  <2>1. PICK k \in b + 1..Len(l) : l[k].priority < x.priority
    BY <1>1, <1>2, <1>3, <1>5
  <2>2. k \in lower /\ lower \subseteq Nat
    BY <1>1, <2>1
  <2>3. PICK m \in lower : \A j \in lower : m <= j
    BY <2>2, HasLeast
  <2>4. Min(lower) = m
    BY <2>2, <2>3 DEF Min
  <2>5. m \in b + 1..Len(l) /\ l[m].priority < x.priority
    BY <2>3
  <2>6. \A j \in b + 1..m - 1 : l[j].priority >= x.priority
    <3>1. SUFFICES ASSUME NEW j \in b + 1..m - 1
                   PROVE  l[j].priority >= x.priority
      OBVIOUS
    <3>2. j \in b + 1..Len(l) /\ j \in 1..Len(l) /\ ~(m <= j)
      BY <1>1, <2>5
    <3>3. j \notin lower
      BY <2>3, <3>2
    <3>4. ~(l[j].priority < x.priority)
      BY <3>2, <3>3
    <3> QED
      BY <1>2, <1>3, <3>2, <3>4
  <2>7. \A j \in m..Len(l) : l[j].priority < x.priority
    BY <1>1, <1>2, <1>3, <2>5 DEF Sorted
  <2>8. l # <<>> /\ ~(Last(l).priority >= x.priority)
    BY <1>1, <1>2, <1>3, <2>5, <2>7 DEF Last
  <2>9. AddEvent(l, x) = InsertAt(l, m, x)
    BY <2>2, <2>4, <2>8 DEF AddEvent
  <2>10. m \in 1..Len(l) /\ m \in b + 1..Len(l) + 1
    BY <1>1, <2>5
  <2>11. PICK s : s = InsertAt(l, m, x)
    OBVIOUS
  <2>12. /\ s \in Seq(EventElement(n)) /\ Len(s) = Len(l) + 1 /\ s[m] = x
         /\ \A i \in 1..m - 1 : s[i] = l[i]
         /\ \A i \in m + 1..Len(l) + 1 : s[i] = l[i - 1]
    <3>1. PICK X : X = EventElement(n)
      OBVIOUS
    <3>2. l \in Seq(X) /\ x \in X /\ m \in 1..Len(l)
      BY <2>10, <3>1
    <3>3. s \in Seq(X) /\ HasAt(l, m, x, s)
      BY <2>11, <3>2, InsertAtIs
    <3> QED
      BY <3>1, <3>3 DEF HasAt
  <2>13. Inserted(l, b, x, m, s)
    BY <2>6, <2>7, <2>10, <2>12 DEF Inserted
  <2> QED
    BY <2>9, <2>11, <2>12, <2>13
<1> QED
  BY <1>4, <1>5

LEMMA InsertedKeeps ==
  ASSUME NEW n \in Nat, NEW l \in Seq(EventElement(n)), NEW x \in EventElement(n),
         NEW ev, NEW b \in 0..Len(l), NEW m, NEW s \in Seq(EventElement(n)),
         Inserted(l, b, x, m, s),
         x.event # 0, x.priority = ev[x.event].priority, x.event \notin Pendings(l),
         ev[x.event].deletes \/ \A a \in Pendings(l) : a < x.event,
         Sorted(l, b), HasPriorities(l, ev), InPostingOrder(l, ev)
  PROVE  /\ Sorted(s, b) /\ HasPriorities(s, ev) /\ InPostingOrder(s, ev)
         /\ Pendings(s) = Pendings(l) \cup {x.event}
         /\ \A k \in 1..b : s[k] = l[k]
<1>1. /\ b \in Nat /\ Len(l) \in Nat /\ b <= Len(l) /\ m \in Nat /\ b < m /\ m <= Len(l) + 1
      /\ DOMAIN l = 1..Len(l) /\ DOMAIN s = 1..Len(l) + 1
  BY DEF Inserted
<1>2. /\ \A k \in 1..Len(l) : l[k].priority \in Int /\ l[k].event \in Nat
      /\ x.priority \in Int /\ x.event \in Nat
  <2>1. \A k \in 1..Len(l) : l[k] \in EventElement(n)
    OBVIOUS
  <2> QED
    BY <2>1, ElementTyped
<1>3. PICK old : old = [k \in 1..Len(l) + 1 |-> IF k < m THEN k ELSE k - 1]
  OBVIOUS
<1>4. \A k \in 1..Len(l) + 1 : k # m =>
        /\ old[k] \in 1..Len(l) /\ s[k] = l[old[k]]
        /\ k < m <=> old[k] < m
        /\ k > m => old[k] >= m
        /\ k > b => old[k] > b
  BY <1>1, <1>3 DEF Inserted
<1>5. \A j, k \in 1..Len(l) + 1 : j < k /\ j # m /\ k # m => old[j] < old[k]
  BY <1>1, <1>3
<1>6. Sorted(s, b)
  <2>1. SUFFICES ASSUME NEW j \in b + 1..Len(l) + 1, NEW k \in b + 1..Len(l) + 1, j < k
                 PROVE  s[j].priority >= s[k].priority
    BY DEF Sorted, Inserted
  <2>2. CASE j = m
    <3>1. old[k] \in m..Len(l) /\ s[k] = l[old[k]]
      BY <1>1, <1>4, <2>1, <2>2
    <3> QED
      BY <1>1, <1>2, <2>2, <3>1, SMTT(40) DEF Inserted
  <2>3. CASE k = m
    <3>1. old[j] \in b + 1..m - 1 /\ s[j] = l[old[j]]
      BY <1>1, <1>4, <2>1, <2>3, SMTT(40)
    <3> QED
      BY <1>1, <1>2, <2>3, <3>1 DEF Inserted
  <2>4. CASE j # m /\ k # m
    <3>1. /\ old[j] \in b + 1..Len(l) /\ old[k] \in b + 1..Len(l) /\ old[j] < old[k]
          /\ s[j] = l[old[j]] /\ s[k] = l[old[k]]
      BY <1>1, <1>4, <1>5, <2>1, <2>4
    <3> QED
      BY <3>1 DEF Sorted
  <2> QED
    BY <2>2, <2>3, <2>4
<1>7. HasPriorities(s, ev)
  <2>1. SUFFICES ASSUME NEW j \in 1..Len(l) + 1, s[j].event # 0
                 PROVE  s[j].priority = ev[s[j].event].priority
    BY <1>1 DEF HasPriorities
  <2>2. CASE j = m
    BY <2>2 DEF Inserted
  <2>3. CASE j # m
    BY <1>1, <1>4, <2>1, <2>3, SMTT(40) DEF HasPriorities
  <2> QED
    BY <2>2, <2>3
<1>8. InPostingOrder(s, ev)
  <2>1. SUFFICES ASSUME NEW j \in 1..Len(l) + 1, NEW k \in 1..Len(l) + 1, j < k,
                        s[j].event # 0, s[k].event # 0
                 PROVE  Precedes(ev, s[j].event, s[k].event)
    BY <1>1 DEF InPostingOrder
  <2>2. CASE j = m
    <3>1. old[k] \in m..Len(l) /\ s[k] = l[old[k]] /\ s[j] = x
      BY <1>1, <1>4, <2>1, <2>2 DEF Inserted
    <3>2. old[k] \in 1..Len(l)
      BY <1>1, <3>1
    <3>3. s[k].event \in Pendings(l)
      BY <1>1, <2>1, <3>1, <3>2 DEF Pendings
    <3>4. ev[s[k].event].priority < x.priority
      BY <1>1, <2>1, <3>1, <3>2, SMTT(40) DEF Inserted, HasPriorities
    <3>5. ev[s[k].event].priority # x.priority
      <4>1. ev[s[k].event].priority \in Int
        BY <1>1, <1>2, <2>1, <3>1, <3>2 DEF HasPriorities
      <4> QED
        BY <1>2, <3>4, <4>1
    <3> QED
      BY <3>1, <3>3, <3>5 DEF Precedes
  <2>3. CASE k = m
    <3>1. old[j] \in 1..Len(l) /\ s[j] = l[old[j]] /\ s[k] = x
      BY <1>1, <1>4, <2>1, <2>3 DEF Inserted
    <3>2. s[j].event \in Pendings(l) /\ s[j].event \in Nat
      BY <1>1, <1>2, <2>1, <3>1 DEF Pendings
    <3> QED
      BY <1>2, <3>1, <3>2, SMTT(40) DEF Precedes
  <2>4. CASE j # m /\ k # m
    <3>1. /\ old[j] \in 1..Len(l) /\ old[k] \in 1..Len(l) /\ old[j] < old[k]
          /\ s[j] = l[old[j]] /\ s[k] = l[old[k]]
      BY <1>1, <1>4, <1>5, <2>1, <2>4
    <3> QED
      BY <1>1, <2>1, <3>1 DEF InPostingOrder
  <2> QED
    BY <2>2, <2>3, <2>4
<1>9. Pendings(s) = Pendings(l) \cup {x.event}
  <2>1. ASSUME NEW e \in Pendings(s)
        PROVE  e \in Pendings(l) \cup {x.event}
    <3>1. PICK k \in 1..Len(l) + 1 : s[k].event # 0 /\ e = s[k].event
      BY <1>1 DEF Pendings
    <3>2. CASE k = m
      BY <3>1, <3>2 DEF Inserted
    <3>3. CASE k # m
      BY <1>1, <1>4, <3>1, <3>3 DEF Pendings
    <3> QED
      BY <3>2, <3>3
  <2>2. x.event \in Pendings(s)
    BY <1>1 DEF Pendings, Inserted
  <2>3. ASSUME NEW e \in Pendings(l)
        PROVE  e \in Pendings(s)
    <3>1. PICK i \in 1..Len(l) : l[i].event # 0 /\ e = l[i].event
      BY <1>1 DEF Pendings
    <3>2. CASE i < m
      <4>1. i \in 1..m - 1 /\ i \in DOMAIN s
        BY <1>1, <3>2
      <4> QED
        BY <3>1, <4>1 DEF Pendings, Inserted
    <3>3. CASE i >= m
      <4>1. i + 1 \in m + 1..Len(l) + 1 /\ i + 1 \in DOMAIN s /\ (i + 1) - 1 = i
        BY <1>1, <3>3
      <4>2. s[i + 1] = l[i]
        BY <4>1 DEF Inserted
      <4> QED
        BY <3>1, <4>1, <4>2 DEF Pendings
    <3> QED
      BY <1>1, <3>2, <3>3
  <2> QED
    BY <2>1, <2>2, <2>3
<1>10. \A k \in 1..b : s[k] = l[k]
  BY <1>1 DEF Inserted
<1> QED
  BY <1>6, <1>7, <1>8, <1>9, <1>10

LEMMA CompactedIs ==
  ASSUME NEW X, NEW l \in Seq(X), NEW K \in SUBSET DOMAIN l, NEW s, s = Compacted(l, K)
  PROVE  /\ s \in Seq(X)
         /\ \E g \in [DOMAIN s -> K] :
              /\ \A j, k \in DOMAIN s : j < k => g[j] < g[k]
              /\ \A k \in DOMAIN s : s[k] = l[g[k]]
              /\ \A i \in K : \E k \in DOMAIN s : g[k] = i
<1>1. K \subseteq Nat /\ IsFiniteSet(K)
  <2>1. Len(l) \in Nat /\ DOMAIN l = 1..Len(l)
    OBVIOUS
  <2>2. IsFiniteSet(1..Len(l))
    BY <2>1, FS_Interval
  <2> QED
    BY <2>1, <2>2, FS_Subset
<1>2. PICK N : N = Cardinality(K) /\ N \in Nat
  BY <1>1, FS_CardinalityType
<1>3. PICK below : below = [k \in K |-> {j \in K : j <= k}]
  OBVIOUS
<1>4. PICK rank : rank = [k \in K |-> Cardinality(below[k])]
  OBVIOUS
<1>5. \A k \in K : /\ below[k] \in SUBSET K /\ IsFiniteSet(below[k]) /\ k \in below[k]
                   /\ rank[k] = Cardinality(below[k])
  <2>1. \A k \in K : below[k] \in SUBSET K /\ k \in below[k] /\ rank[k] = Cardinality(below[k])
    BY <1>1, <1>3, <1>4
  <2> QED
    BY <1>1, <2>1, FS_Subset
<1>6. \A k \in K : rank[k] \in 1..N
  <2>1. SUFFICES ASSUME NEW k \in K
                 PROVE  rank[k] \in 1..N
    OBVIOUS
  <2>2. rank[k] \in Nat /\ rank[k] <= N
    BY <1>1, <1>2, <1>5, FS_CardinalityType, FS_Subset
  <2>3. rank[k] # 0
    BY <1>5, FS_EmptySet
  <2> QED
    BY <1>2, <2>2, <2>3
<1>7. \A j, k \in K : j < k => rank[j] < rank[k]
  <2>1. SUFFICES ASSUME NEW j \in K, NEW k \in K, j < k
                 PROVE  rank[j] < rank[k]
    OBVIOUS
  <2>2. below[j] \in SUBSET below[k]
    BY <1>1, <1>3, <2>1
  <2>3. k \notin below[j]
    BY <1>1, <1>3, <2>1
  <2>4. below[j] # below[k]
    BY <1>5, <2>3
  <2>5. rank[j] <= rank[k] /\ rank[j] # rank[k]
    BY <1>5, <2>2, <2>4, FS_Subset
  <2>6. rank[j] \in 1..N /\ rank[k] \in 1..N
    BY <1>6
  <2> QED
    BY <1>2, <2>5, <2>6
<1>8. rank \in Injection(K, 1..N)
  <2>1. rank \in [K -> 1..N]
    BY <1>4, <1>6
  <2>2. \A j, k \in K : rank[j] = rank[k] => j = k
    <3>1. SUFFICES ASSUME NEW j \in K, NEW k \in K, j # k
                   PROVE  rank[j] # rank[k]
      OBVIOUS
    <3>2. j \in Nat /\ k \in Nat /\ rank[j] \in 1..N /\ rank[k] \in 1..N
      BY <1>1, <1>6
    <3>3. rank[j] < rank[k] \/ rank[k] < rank[j]
      BY <1>7, <3>1, <3>2
    <3> QED
      BY <1>2, <3>2, <3>3
  <2> QED
    BY <2>1, <2>2 DEF Injection, IsInjective
<1>9. rank \in Surjection(K, 1..N)
  <2>1. IsFiniteSet(1..N) /\ Cardinality(1..N) = N
    BY <1>2, FS_Interval
  <2> QED
    BY <1>2, <1>8, <2>1, FS_Injection
<1>10. \A n \in 1..N : \E k \in K : rank[k] = n
  BY <1>9 DEF Surjection
<1>11. PICK g : g = [n \in 1..N |-> CHOOSE k \in K : Cardinality({j \in K : j <= k}) = n]
  OBVIOUS
<1>12. \A n \in 1..N : g[n] \in K /\ rank[g[n]] = n
  <2>1. SUFFICES ASSUME NEW n \in 1..N
                 PROVE  g[n] \in K /\ rank[g[n]] = n
    OBVIOUS
  <2>2. \A k \in K : rank[k] = Cardinality({j \in K : j <= k})
    BY <1>3, <1>4
  <2>3. g[n] = CHOOSE k \in K : Cardinality({j \in K : j <= k}) = n
    BY <1>11
  <2>4. \E k \in K : Cardinality({j \in K : j <= k}) = n
    BY <1>10, <2>2
  <2> QED
    BY <2>2, <2>3, <2>4
<1>13. s = [n \in 1..N |-> l[g[n]]]
  BY <1>2, <1>11 DEF Compacted
<1>14. s \in Seq(X) /\ DOMAIN s = 1..N
  <2>1. \A n \in 1..N : l[g[n]] \in X
    BY <1>12
  <2> QED
    BY <1>2, <1>13, <2>1
<1>15. \A j, k \in 1..N : j < k => g[j] < g[k]
  <2>1. SUFFICES ASSUME NEW j \in 1..N, NEW k \in 1..N, j < k
                 PROVE  g[j] < g[k]
    OBVIOUS
  <2>2. PICK a \in K, c \in K : a = g[j] /\ c = g[k] /\ rank[a] = j /\ rank[c] = k
    BY <1>12
  <2>3. a \in Nat /\ c \in Nat /\ a # c /\ ~(c < a)
    BY <1>1, <1>2, <1>7, <2>1, <2>2
  <2> QED
    BY <2>2, <2>3
<1>16. \A i \in K : g[rank[i]] = i /\ rank[i] \in 1..N
  BY <1>6, <1>8, <1>12 DEF Injection, IsInjective
<1>17. PICK h : h = [n \in 1..N |-> g[n]]
  OBVIOUS
<1>18. h \in [1..N -> K] /\ \A k \in 1..N : h[k] = g[k]
  BY <1>12, <1>17
<1>19. h \in [DOMAIN s -> K]
  BY <1>14, <1>18
<1>20. \A j, k \in DOMAIN s : j < k => h[j] < h[k]
  BY <1>14, <1>15, <1>18
<1>21. \A k \in DOMAIN s : s[k] = l[h[k]]
  BY <1>13, <1>14, <1>18
<1>22. \A i \in K : \E k \in DOMAIN s : h[k] = i
  BY <1>14, <1>16, <1>18
<1>23. \E f \in [DOMAIN s -> K] :
         /\ \A j, k \in DOMAIN s : j < k => f[j] < f[k]
         /\ \A k \in DOMAIN s : s[k] = l[f[k]]
         /\ \A i \in K : \E k \in DOMAIN s : f[k] = i
  <2>1. WITNESS h \in [DOMAIN s -> K]
  <2> QED
    BY <1>20, <1>21, <1>22
<1> QED
  BY <1>14, <1>23

SameKinds(ev, ev2) ==
  \A e \in DOMAIN ev :
    /\ e \in DOMAIN ev2
    /\ ev2[e].to = ev[e].to /\ ev2[e].priority = ev[e].priority /\ ev2[e].deletes = ev[e].deletes

LEMMA KindsKeep ==
  ASSUME NEW ev, NEW ev2, SameKinds(ev, ev2), NEW l, Pendings(l) \subseteq DOMAIN ev,
         HasPriorities(l, ev), InPostingOrder(l, ev)
  PROVE  HasPriorities(l, ev2) /\ InPostingOrder(l, ev2)
<1>1. \A k \in DOMAIN l : l[k].event # 0 => l[k].event \in DOMAIN ev
  BY DEF Pendings
<1>2. HasPriorities(l, ev2)
  BY <1>1 DEF HasPriorities, SameKinds
<1>3. InPostingOrder(l, ev2)
  BY <1>1 DEF InPostingOrder, SameKinds, Precedes
<1> QED
  BY <1>2, <1>3

\* s is l with the elements T emptied.
Emptied(l, T, s) ==
  s = [k \in DOMAIN l |-> IF k \in T THEN [l[k] EXCEPT !.event = 0] ELSE l[k]]

\* G are the events that are taken out of a sound list.
Emptying(n, l, T, s, G, ev, b) ==
  /\ n \in Nat /\ l \in Seq(EventElement(n)) /\ T \in SUBSET DOMAIN l /\ b \in Nat
  /\ Emptied(l, T, s) /\ G = {l[k].event : k \in T}
  /\ Sorted(l, b) /\ HasPriorities(l, ev) /\ InPostingOrder(l, ev)

LEMMA EmptiedKeeps ==
  ASSUME NEW n, NEW l, NEW T, NEW s, NEW G, NEW ev, NEW b, Emptying(n, l, T, s, G, ev, b)
  PROVE  /\ s \in Seq(EventElement(n)) /\ Len(s) = Len(l)
         /\ Sorted(s, b) /\ HasPriorities(s, ev) /\ InPostingOrder(s, ev)
         /\ Pendings(s) = Pendings(l) \ G
         /\ \A k \in DOMAIN l : s[k].event = IF k \in T THEN 0 ELSE l[k].event
<1>. USE DEF Emptying
<1>1. /\ Len(l) \in Nat /\ DOMAIN l = 1..Len(l)
      /\ \A k \in 1..Len(l) : l[k] \in EventElement(n) /\ l[k].event \in Nat
  BY ElementTyped
<1>2. \A k \in 1..Len(l) : /\ [l[k] EXCEPT !.event = 0] \in EventElement(n)
                           /\ [l[k] EXCEPT !.event = 0].event = 0
                           /\ [l[k] EXCEPT !.event = 0].priority = l[k].priority
  BY <1>1 DEF EventElement
<1>3. /\ DOMAIN s = 1..Len(l) /\ \A k \in 1..Len(l) : s[k] \in EventElement(n)
      /\ s = [k \in 1..Len(l) |-> s[k]]
  BY <1>1, <1>2 DEF Emptied
<1>4. s \in Seq(EventElement(n)) /\ Len(s) = Len(l)
  BY <1>1, <1>3
<1>5. \A k \in 1..Len(l) : /\ s[k].event = IF k \in T THEN 0 ELSE l[k].event
                           /\ s[k].priority = l[k].priority
  BY <1>1, <1>2 DEF Emptied
<1>6. Sorted(s, b)
  <2>1. \A k \in b + 1..Len(l) : k \in 1..Len(l)
    BY <1>1
  <2> QED
    BY <1>4, <1>5, <2>1 DEF Sorted
<1>7. HasPriorities(s, ev)
  BY <1>1, <1>3, <1>5, SMTT(40) DEF HasPriorities
<1>8. Pendings(s) = Pendings(l) \ G
  <2>1. ASSUME NEW e \in Pendings(s)
        PROVE  e \in Pendings(l) /\ \A k \in T : l[k].event # e
    <3>1. PICK j \in 1..Len(l) : s[j].event # 0 /\ e = s[j].event
      BY <1>3 DEF Pendings
    <3>2. j \notin T /\ e = l[j].event /\ e # 0
      BY <1>5, <3>1
    <3>3. ASSUME NEW k \in T, l[k].event = e
          PROVE  FALSE
      <4>1. k \in 1..Len(l) /\ k # j
        BY <1>1, <3>2
      <4>2. k < j \/ j < k
        BY <1>1, <4>1
      <4> QED
        BY <1>1, <3>2, <3>3, <4>1, <4>2 DEF InPostingOrder, Precedes
    <3> QED
      BY <1>1, <3>2, <3>3 DEF Pendings
  <2>2. ASSUME NEW e \in Pendings(l), \A k \in T : l[k].event # e
        PROVE  e \in Pendings(s)
    <3>1. PICK j \in 1..Len(l) : l[j].event # 0 /\ e = l[j].event
      BY <1>1 DEF Pendings
    <3> QED
      BY <1>3, <1>5, <2>2, <3>1 DEF Pendings
  <2> QED
    BY <2>1, <2>2
<1>9. InPostingOrder(s, ev)
  <2>1. SUFFICES ASSUME NEW j \in 1..Len(l), NEW k \in 1..Len(l), j < k,
                        s[j].event # 0, s[k].event # 0
                 PROVE  Precedes(ev, s[j].event, s[k].event)
    BY <1>3 DEF InPostingOrder
  <2>2. s[j].event = l[j].event /\ s[k].event = l[k].event
    BY <1>5, <2>1
  <2> QED
    BY <1>1, <2>1, <2>2 DEF InPostingOrder
<1> QED
  BY <1>1, <1>4, <1>5, <1>6, <1>7, <1>8, <1>9

-----------------------------------------------------------------------------
(* What the queue of posted events keeps to.                               *)

PostedEvent ==
  [to : Receiver, priority : Priority, deletes : BOOLEAN, level : Nat,
   fate : {"queued", "removed", "handled", "overtook"}]

Waiting(ev, r) == {e \in DOMAIN ev : ev[e].fate = "queued" /\ ev[e].to = r}

QueueTypeOK ==
  /\ events \in Seq(PostedEvent)
  /\ list \in Seq(EventElement(Len(events)))
  /\ startOffset \in Nat /\ insertionOffset \in Nat
  /\ startOffset <= insertionOffset /\ insertionOffset <= Len(list)
  /\ postedEvents \in [Receiver -> Nat]

ListOK ==
  /\ \A j \in 1..startOffset : list[j].event = 0
  /\ Sorted(list, insertionOffset)
  /\ HasPriorities(list, events) /\ InPostingOrder(list, events)
  /\ Pendings(list) = {e \in DOMAIN events : events[e].fate = "queued"}

PostsAreCounted == \A r \in Receiver : postedEvents[r] = Cardinality(Waiting(events, r))

QueueOK == QueueTypeOK /\ ListOK /\ PostsAreCounted /\ InOrder

\* A step changes no event but its fate, and delivers or takes out what is in
\* front of the insertion offset.
FrontStays ==
  /\ SameKinds(events, events')
  /\ insertionOffset <= insertionOffset'
  /\ \A j \in 1..insertionOffset : list'[j].event \in {0, list[j].event}

LEMMA QueueTyped ==
  ASSUME QueueTypeOK
  PROVE  /\ Len(events) \in Nat /\ DOMAIN events = 1..Len(events)
         /\ \A e \in DOMAIN events : events[e] \in PostedEvent
         /\ Len(list) \in Nat /\ DOMAIN list = 1..Len(list)
         /\ \A k \in DOMAIN list : /\ list[k] \in EventElement(Len(events))
                                   /\ list[k].event \in 0..Len(events)
                                   /\ list[k].priority \in Int
<1>1. Len(events) \in Nat /\ DOMAIN events = 1..Len(events)
  BY DEF QueueTypeOK
<1>2. \A e \in DOMAIN events : events[e] \in PostedEvent
  BY DEF QueueTypeOK
<1>3. PICK n \in Nat : n = Len(events)
  BY <1>1, Zenon
<1>4. list \in Seq(EventElement(n))
  BY <1>3 DEF QueueTypeOK
<1>5. Len(list) \in Nat /\ DOMAIN list = 1..Len(list) /\ \A k \in DOMAIN list : list[k] \in EventElement(n)
  BY <1>4
<1> QED
  BY <1>1, <1>2, <1>3, <1>5, ElementTyped

LEMMA WaitingIs ==
  ASSUME NEW ev, NEW n \in Nat, DOMAIN ev = 1..n, NEW r
  PROVE  /\ Waiting(ev, r) \subseteq 1..n /\ IsFiniteSet(Waiting(ev, r))
         /\ Cardinality(Waiting(ev, r)) \in Nat
<1>1. Waiting(ev, r) \subseteq 1..n
  BY DEF Waiting
<1>2. IsFiniteSet(1..n)
  BY FS_Interval
<1>3. IsFiniteSet(Waiting(ev, r))
  BY <1>1, <1>2, FS_Subset
<1> QED
  BY <1>1, <1>3, FS_CardinalityType

\* postEvent
LEMMA PostKeepsQueue ==
  ASSUME QueueOK, NEW e \in PostedEvent, e.fate = "queued", Post(e)
  PROVE  QueueOK' /\ FrontStays /\ events' = Append(events, e) /\ UNCHANGED startOffset
<1>. USE DEF QueueOK
<1>1. PICK n \in Nat : n = Len(events) /\ DOMAIN events = 1..n
  BY QueueTyped
<1>2. PICK ev : ev = Append(events, e)
  OBVIOUS
<1>3. /\ ev \in Seq(PostedEvent) /\ Len(ev) = n + 1 /\ DOMAIN ev = 1..n + 1 /\ ev[n + 1] = e
      /\ \A k \in 1..n : ev[k] = events[k]
  BY <1>1, <1>2 DEF QueueTypeOK
<1>4. events' = ev
  BY <1>2 DEF Post
<1>5. PICK x : x = [event |-> n + 1, priority |-> e.priority]
  OBVIOUS
<1>6. x \in EventElement(n + 1) /\ x.event = n + 1 /\ x.priority = e.priority
  BY <1>5 DEF EventElement, PostedEvent
<1>7. list \in Seq(EventElement(n + 1)) /\ Len(list) \in Nat
  <2>1. EventElement(n) \subseteq EventElement(n + 1)
    BY DEF EventElement
  <2>2. list \in Seq(EventElement(n)) /\ list \in [1..Len(list) -> EventElement(n)] /\ Len(list) \in Nat
    BY <1>1 DEF QueueTypeOK
  <2>3. list \in [1..Len(list) -> EventElement(n + 1)]
    BY <2>1, <2>2
  <2> QED
    BY <2>2, <2>3
<1>8. Pendings(list) \subseteq 1..n
  BY <1>1 DEF ListOK
<1>9. SameKinds(events, ev)
  BY <1>1, <1>3 DEF SameKinds
<1>10. HasPriorities(list, ev) /\ InPostingOrder(list, ev)
  BY <1>1, <1>8, <1>9, KindsKeep DEF ListOK
<1>11. Sorted(list, insertionOffset) /\ insertionOffset \in 0..Len(list)
  BY <1>7 DEF ListOK, QueueTypeOK
<1>12. PICK s : s = AddEvent(list, x)
  OBVIOUS
<1>13. PICK m : s \in Seq(EventElement(n + 1)) /\ Inserted(list, insertionOffset, x, m, s)
  BY <1>6, <1>7, <1>11, <1>12, AddEventInserts
<1>14. /\ x.event # 0 /\ x.priority = ev[x.event].priority /\ x.event \notin Pendings(list)
       /\ \A a \in Pendings(list) : a < x.event
  BY <1>3, <1>6, <1>8
<1>15. /\ Sorted(s, insertionOffset) /\ HasPriorities(s, ev) /\ InPostingOrder(s, ev)
       /\ Pendings(s) = Pendings(list) \cup {n + 1}
       /\ \A k \in 1..insertionOffset : s[k] = list[k]
  BY <1>6, <1>7, <1>10, <1>11, <1>13, <1>14, InsertedKeeps
<1>16. list' = s /\ Len(s) = Len(list) + 1
  BY <1>1, <1>5, <1>12, <1>13 DEF Post, Inserted
<1>17. UNCHANGED <<startOffset, insertionOffset>>
  BY DEF Post
<1>18. FrontStays
  BY <1>4, <1>9, <1>11, <1>15, <1>16, <1>17 DEF FrontStays, QueueTypeOK
<1>19. ListOK'
  <2>1. (\A j \in 1..startOffset : list[j].event = 0)'
    <3>1. \A j \in 1..startOffset : j \in 1..insertionOffset /\ s[j] = list[j]
      BY <1>15 DEF QueueTypeOK
    <3> QED
      BY <1>16, <1>17, <3>1 DEF ListOK
  <2>2. Pendings(s) = {k \in DOMAIN ev : ev[k].fate = "queued"}
    BY <1>1, <1>3, <1>15 DEF ListOK
  <2> QED
    BY <1>4, <1>15, <1>16, <1>17, <2>1, <2>2 DEF ListOK
<1>20. QueueTypeOK'
  <2>1. postedEvents' \in [Receiver -> Nat]
    <3>1. e.to \in Receiver
      BY DEF PostedEvent
    <3> QED
      BY <3>1 DEF Post, QueueTypeOK
  <2>2. list' \in Seq(EventElement(Len(events'))) /\ insertionOffset' <= Len(list')
    BY <1>3, <1>4, <1>7, <1>11, <1>13, <1>16, <1>17
  <2> QED
    BY <1>3, <1>4, <1>17, <2>1, <2>2 DEF QueueTypeOK
<1>21. PostsAreCounted'
  <2>1. SUFFICES ASSUME NEW r \in Receiver
                 PROVE  postedEvents'[r] = Cardinality(Waiting(ev, r))
    BY <1>4 DEF PostsAreCounted
  <2>2. PICK W : W = Waiting(events, r)
    OBVIOUS
  <2>3. W \subseteq 1..n /\ IsFiniteSet(W) /\ postedEvents[r] = Cardinality(W)
    BY <1>1, <2>2, WaitingIs DEF PostsAreCounted
  <2>4. CASE e.to = r
    <3>1. Waiting(ev, r) = W \cup {n + 1}
      BY <1>1, <1>3, <2>2, <2>4 DEF Waiting
    <3>2. Cardinality(W \cup {n + 1}) = Cardinality(W) + 1
      BY <2>3, FS_AddElement, SMTT(40)
    <3> QED
      BY <2>3, <2>4, <3>1, <3>2 DEF Post, QueueTypeOK
  <2>5. CASE e.to # r
    <3>1. Waiting(ev, r) = W
      BY <1>1, <1>3, <2>2, <2>5 DEF Waiting
    <3> QED
      BY <2>3, <2>5, <3>1 DEF Post, QueueTypeOK
  <2> QED
    BY <2>4, <2>5
<1>22. InOrder'
  <2>1. SUFFICES ASSUME NEW a \in 1..n + 1, NEW b \in 1..n + 1, IsBefore(a, b)'
                 PROVE  ev[b].fate # "handled"
    BY <1>3, <1>4 DEF InOrder
  <2>2. CASE b = n + 1
    BY <1>3, <2>2
  <2>3. CASE b # n + 1
    <3>1. a \in 1..n /\ b \in 1..n
      BY <1>1, <2>1, <2>3 DEF IsBefore
    <3> QED
      BY <1>1, <1>3, <1>4, <2>1, <3>1 DEF InOrder, IsBefore
  <2> QED
    BY <2>2, <2>3
<1> QED
  BY <1>2, <1>4, <1>17, <1>18, <1>19, <1>20, <1>21, <1>22

\* The elements T, events of r, leave the list, and meet a fate; the start moves on
\* at most over one of them.
Takes(r, T, fate) ==
  LET gone == {list[k].event : k \in T}
  IN  /\ \A k \in T : IsPending(list[k]) /\ Target(list[k]) = r
      /\ fate \in {"removed", "handled", "overtook"}
      /\ postedEvents' = [postedEvents EXCEPT ![r] = @ - Cardinality(gone)]
      /\ events' = [e \in DOMAIN events |-> IF e \in gone THEN [events[e] EXCEPT !.fate = fate] ELSE events[e]]
      /\ \/ Emptied(list, T, list')
         \/ insertionOffset = 0 /\ list' = Compacted(list, DOMAIN list \ T)
      /\ UNCHANGED insertionOffset
      /\ \/ UNCHANGED startOffset
         \/ startOffset' = startOffset + 1 /\ startOffset < insertionOffset /\ startOffset + 1 \in T

LEMMA TakingIs ==
  ASSUME QueueOK, NEW r \in Receiver, NEW T \in SUBSET DOMAIN list,
         NEW fate, Takes(r, T, fate),
         NEW n, n = Len(events), NEW G, G = {list[k].event : k \in T}
  PROVE  /\ list' \in Seq(EventElement(n)) /\ insertionOffset <= Len(list')
         /\ Sorted(list', insertionOffset)
         /\ HasPriorities(list', events) /\ InPostingOrder(list', events)
         /\ Pendings(list') = Pendings(list) \ G
         /\ \A j \in 1..insertionOffset : list'[j].event = IF j \in T THEN 0 ELSE list[j].event
<1>. USE DEF QueueOK
<1>1. /\ n \in Nat /\ list \in Seq(EventElement(n)) /\ DOMAIN list = 1..Len(list) /\ Len(list) \in Nat
      /\ insertionOffset \in Nat /\ insertionOffset <= Len(list)
  BY QueueTyped DEF QueueTypeOK
<1>2. /\ Sorted(list, insertionOffset)
      /\ HasPriorities(list, events) /\ InPostingOrder(list, events)
  BY DEF ListOK
<1>3. CASE Emptied(list, T, list')
  <2>1. PICK s : s = list'
    OBVIOUS
  <2>2. PICK l, b, es : l = list /\ b = insertionOffset /\ es = events
    OBVIOUS
  <2>3. Emptying(n, l, T, s, G, es, b)
    BY <1>1, <1>2, <1>3, <2>1, <2>2 DEF Emptying
  <2>5. /\ s \in Seq(EventElement(n)) /\ Len(s) = Len(l)
        /\ Sorted(s, b) /\ HasPriorities(s, es) /\ InPostingOrder(s, es)
        /\ Pendings(s) = Pendings(l) \ G
        /\ \A k \in DOMAIN l : s[k].event = IF k \in T THEN 0 ELSE l[k].event
    BY <2>3, EmptiedKeeps
  <2>4. \A j \in 1..insertionOffset : j \in DOMAIN list
    BY <1>1
  <2> QED
    BY <1>1, <2>1, <2>2, <2>4, <2>5
<1>4. CASE insertionOffset = 0 /\ list' = Compacted(list, DOMAIN list \ T)
  <2>1. PICK s : s = list'
    OBVIOUS
  <2>2. PICK K \in SUBSET DOMAIN list : K = DOMAIN list \ T
    OBVIOUS
  <2>3. s = Compacted(list, K)
    BY <1>4, <2>1, <2>2
  <2>4. /\ s \in Seq(EventElement(n))
        /\ \E g \in [DOMAIN s -> K] :
             /\ \A j, k \in DOMAIN s : j < k => g[j] < g[k]
             /\ \A k \in DOMAIN s : s[k] = list[g[k]]
             /\ \A i \in K : \E k \in DOMAIN s : g[k] = i
    BY <1>1, <2>3, CompactedIs, SMTT(40)
  <2>5. PICK g \in [DOMAIN s -> K] :
             /\ \A j, k \in DOMAIN s : j < k => g[j] < g[k]
             /\ \A k \in DOMAIN s : s[k] = list[g[k]]
             /\ \A i \in K : \E k \in DOMAIN s : g[k] = i
    BY <2>4
  <2>6. DOMAIN s = 1..Len(s) /\ Len(s) \in Nat
    BY <2>4
  <2>7. Sorted(s, 0)
    <3>1. SUFFICES ASSUME NEW j \in 1..Len(s), NEW k \in 1..Len(s), j < k
                   PROVE  s[j].priority >= s[k].priority
      BY <2>6 DEF Sorted
    <3>2. g[j] \in 1..Len(list) /\ g[k] \in 1..Len(list) /\ g[j] < g[k]
      BY <1>1, <2>2, <2>5, <2>6, <3>1
    <3>3. \A a, c \in 1..Len(list) : a < c => list[a].priority >= list[c].priority
      BY <1>1, <1>2, <1>4 DEF Sorted
    <3> QED
      BY <2>5, <2>6, <3>2, <3>3
  <2>8. HasPriorities(s, events)
    <3>1. SUFFICES ASSUME NEW k \in DOMAIN s, s[k].event # 0
                   PROVE  s[k].priority = events[s[k].event].priority
      BY DEF HasPriorities
    <3>2. g[k] \in DOMAIN list /\ s[k] = list[g[k]]
      BY <2>2, <2>5
    <3> QED
      BY <1>2, <3>1, <3>2 DEF HasPriorities
  <2>9. InPostingOrder(s, events)
    <3>1. SUFFICES ASSUME NEW j \in DOMAIN s, NEW k \in DOMAIN s, j < k, s[j].event # 0, s[k].event # 0
                   PROVE  Precedes(events, s[j].event, s[k].event)
      BY DEF InPostingOrder
    <3>2. /\ g[j] \in DOMAIN list /\ s[j] = list[g[j]] /\ g[k] \in DOMAIN list /\ s[k] = list[g[k]]
          /\ g[j] < g[k]
      BY <2>2, <2>5, <3>1
    <3> QED
      BY <1>2, <3>1, <3>2 DEF InPostingOrder
  <2>10. Pendings(s) = Pendings(list) \ G
    <3>1. ASSUME NEW e \in Pendings(s)
          PROVE  e \in Pendings(list) /\ \A k \in T : list[k].event # e
      <4>1. PICK k \in DOMAIN s : s[k].event # 0 /\ e = s[k].event
        BY DEF Pendings
      <4>2. PICK i : i \in DOMAIN list /\ i \notin T /\ e = list[i].event /\ e # 0
        BY <2>2, <2>5, <4>1
      <4>3. ASSUME NEW j \in T, list[j].event = e
            PROVE  FALSE
        <5>1. i \in Nat /\ j \in Nat /\ i # j /\ j \in DOMAIN list
          BY <1>1, <4>2
        <5>2. i < j \/ j < i
          BY <5>1
        <5> QED
          BY <1>2, <4>2, <4>3, <5>1, <5>2 DEF InPostingOrder, Precedes
      <4> QED
        BY <4>2, <4>3 DEF Pendings
    <3>2. ASSUME NEW e \in Pendings(list), \A k \in T : list[k].event # e
          PROVE  e \in Pendings(s)
      <4>1. PICK i \in DOMAIN list : list[i].event # 0 /\ e = list[i].event
        BY DEF Pendings
      <4>2. i \in K
        BY <2>2, <3>2, <4>1
      <4>3. PICK k \in DOMAIN s : g[k] = i
        BY <2>5, <4>2
      <4> QED
        BY <2>5, <4>1, <4>3 DEF Pendings
    <3> QED
      BY <3>1, <3>2
  <2>11. insertionOffset <= Len(s) /\ Sorted(s, insertionOffset)
    BY <1>4, <2>6, <2>7
  <2>12. \A j \in 1..insertionOffset : s[j].event = IF j \in T THEN 0 ELSE list[j].event
    BY <1>4
  <2> QED
    BY <2>1, <2>4, <2>8, <2>9, <2>10, <2>11, <2>12
<1> QED
  BY <1>3, <1>4 DEF Takes

\* If T is handled, nothing is queued before it.
InTurn(T, fate) ==
  fate = "handled" => \A k \in T, a \in DOMAIN events : ~IsBefore(a, list[k].event)

\* The queue is kept, and only T has met its fate.
Taken(T, fate) ==
  /\ QueueOK' /\ FrontStays /\ DOMAIN events' = DOMAIN events
  /\ \A e \in DOMAIN events :
       IF \E k \in T : list[k].event = e
       THEN events'[e].fate = fate /\ events[e].fate = "queued" ELSE events'[e] = events[e]

LEMMA TakingKeepsQueue ==
  ASSUME QueueOK, NEW r \in Receiver, NEW T \in SUBSET DOMAIN list, NEW fate, Takes(r, T, fate),
         InTurn(T, fate)
  PROVE  Taken(T, fate)
<1>. USE DEF QueueOK, InTurn, Taken
<1>1. PICK n \in Nat : n = Len(events) /\ DOMAIN events = 1..n /\ \A e \in 1..n : events[e] \in PostedEvent
  BY QueueTyped
<1>2. PICK G : G = {list[k].event : k \in T}
  OBVIOUS
<1>3. PICK ev : ev = events'
  OBVIOUS
<1>4. ev = [e \in 1..n |-> IF e \in G THEN [events[e] EXCEPT !.fate = fate] ELSE events[e]]
  BY <1>1, <1>2, <1>3 DEF Takes
<1>5. \A e \in 1..n : LET f == [events[e] EXCEPT !.fate = fate]
                     IN  /\ f \in PostedEvent /\ f.fate = fate /\ f.to = events[e].to
                         /\ f.priority = events[e].priority /\ f.deletes = events[e].deletes
  BY <1>1, SMTT(40) DEF PostedEvent, Takes
<1>6. /\ DOMAIN ev = 1..n /\ \A e \in 1..n : ev[e] \in PostedEvent
      /\ \A e \in 1..n : /\ ev[e].fate = IF e \in G THEN fate ELSE events[e].fate
                         /\ ev[e].to = events[e].to /\ ev[e].priority = events[e].priority
                         /\ ev[e].deletes = events[e].deletes
                         /\ e \notin G => ev[e] = events[e]
  BY <1>1, <1>4, <1>5
<1>7. ev \in Seq(PostedEvent) /\ Len(ev) = n
  <2>1. ev = [e \in 1..n |-> ev[e]]
    BY <1>4
  <2> QED
    BY <1>1, <1>6, <2>1
<1>8. SameKinds(events, ev)
  BY <1>1, <1>6 DEF SameKinds
<1>9. PICK s : s = list'
  OBVIOUS
<1>10. /\ s \in Seq(EventElement(n)) /\ insertionOffset <= Len(s)
       /\ Sorted(s, insertionOffset)
       /\ HasPriorities(s, events) /\ InPostingOrder(s, events)
       /\ Pendings(s) = Pendings(list) \ G
       /\ \A j \in 1..insertionOffset : s[j].event = IF j \in T THEN 0 ELSE list[j].event
  BY <1>1, <1>2, <1>9, TakingIs
<1>11. Pendings(list) = {e \in 1..n : events[e].fate = "queued"}
  BY <1>1 DEF ListOK
<1>12. G \subseteq Pendings(list) /\ \A e \in G : events[e].to = r
  BY <1>2 DEF Takes, IsPending, Target, Pendings
<1>13. HasPriorities(s, ev) /\ InPostingOrder(s, ev)
  BY <1>1, <1>8, <1>10, <1>11, KindsKeep
<1>14. /\ UNCHANGED insertionOffset
       /\ startOffset' \in Nat /\ startOffset' <= insertionOffset
       /\ \A j \in 1..startOffset' : j \in 1..insertionOffset /\ (j \in T \/ j \in 1..startOffset)
  BY DEF Takes, QueueTypeOK
<1>15. ListOK'
  <2>1. (\A j \in 1..startOffset : list[j].event = 0)'
    <3>1. \A j \in 1..startOffset : list[j].event = 0
      BY DEF ListOK
    <3>2. \A j \in 1..startOffset' : s[j].event = 0
      BY <1>10, <1>14, <3>1
    <3> QED
      BY <1>9, <3>2
  <2>2. Pendings(s) = {e \in DOMAIN ev : ev[e].fate = "queued"}
    BY <1>6, <1>10, <1>11 DEF Takes
  <2> QED
    BY <1>3, <1>9, <1>10, <1>13, <1>14, <2>1, <2>2 DEF ListOK
<1>16. PostsAreCounted'
  <2>1. SUFFICES ASSUME NEW q \in Receiver
                 PROVE  postedEvents'[q] = Cardinality(Waiting(ev, q))
    BY <1>3 DEF PostsAreCounted
  <2>2. PICK W : W = Waiting(events, q)
    OBVIOUS
  <2>3. W \subseteq 1..n /\ IsFiniteSet(W) /\ postedEvents[q] = Cardinality(W) /\ Cardinality(W) \in Nat
    BY <1>1, <2>2, WaitingIs DEF PostsAreCounted
  <2>4. postedEvents' = [postedEvents EXCEPT ![r] = @ - Cardinality(G)]
    BY <1>2 DEF Takes
  <2>5. CASE q = r
    <3>1. Waiting(ev, q) = W \ G /\ G \in SUBSET W
      BY <1>1, <1>6, <1>11, <1>12, <2>2, <2>5 DEF Waiting, Takes
    <3>2. IsFiniteSet(G) /\ Cardinality(W \ G) = Cardinality(W) - Cardinality(G)
      <4>1. IsFiniteSet(G)
        BY <2>3, <3>1, FS_Subset
      <4>2. Cardinality(W \ G) = Cardinality(W) - Cardinality(W \cap G)
        BY <2>3, FS_Difference
      <4>3. W \cap G = G
        BY <3>1
      <4> QED
        BY <4>1, <4>2, <4>3
    <3> QED
      BY <2>3, <2>4, <2>5, <3>1, <3>2 DEF QueueTypeOK
  <2>6. CASE q # r
    <3>1. Waiting(ev, q) = W
      BY <1>1, <1>6, <1>12, <2>2, <2>6 DEF Waiting
    <3> QED
      BY <2>3, <2>4, <2>6, <3>1 DEF QueueTypeOK
  <2> QED
    BY <2>5, <2>6
<1>17. QueueTypeOK'
  <2>1. postedEvents' \in [Receiver -> Nat]
    <3>1. DOMAIN postedEvents' = Receiver /\ postedEvents' = [q \in Receiver |-> postedEvents'[q]]
      BY DEF Takes, QueueTypeOK
    <3>2. \A q \in Receiver : postedEvents'[q] \in Nat
      <4>1. SUFFICES ASSUME NEW q \in Receiver
                     PROVE  postedEvents'[q] \in Nat
        OBVIOUS
      <4>2. Cardinality(Waiting(ev, q)) \in Nat
        BY <1>6, WaitingIs
      <4> QED
        BY <1>3, <1>16, <4>2 DEF PostsAreCounted
    <3> QED
      BY <3>1, <3>2
  <2> QED
    BY <1>3, <1>7, <1>9, <1>10, <1>14, <2>1 DEF QueueTypeOK
<1>18. InOrder'
  <2>1. SUFFICES ASSUME NEW a \in 1..n, NEW e \in 1..n, IsBefore(a, e)'
                 PROVE  ev[e].fate # "handled"
    BY <1>3, <1>6 DEF InOrder
  <2>2. IsBefore(a, e)
    BY <1>3, <1>6, <2>1 DEF IsBefore, Takes
  <2>3. CASE e \in G
    <3>1. PICK k \in T : e = list[k].event
      BY <1>2, <2>3
    <3> QED
      BY <1>1, <1>6, <2>2, <2>3, <3>1
  <2>4. CASE e \notin G
    BY <1>1, <1>6, <2>2, <2>4 DEF InOrder
  <2> QED
    BY <2>3, <2>4
<1>19. FrontStays
  BY <1>3, <1>8, <1>9, <1>10, <1>14 DEF FrontStays, QueueTypeOK
<1>20. \A e \in 1..n : (\E k \in T : list[k].event = e) <=> e \in G
  BY <1>2
<1>21. QueueOK'
  BY <1>15, <1>16, <1>17, <1>18
<1>22. \A e \in 1..n :
         IF \E k \in T : list[k].event = e
         THEN ev[e].fate = fate /\ events[e].fate = "queued" ELSE ev[e] = events[e]
  BY <1>6, <1>11, <1>12, <1>20
<1> QED
  BY <1>1, <1>3, <1>6, <1>14, <1>19, <1>21, <1>22

-----------------------------------------------------------------------------
(* The stack of calls.                                                     *)

SendFrame ==
  [call : {"send"}, at : {"enter", "next"}, to : Receiver \cup {All}, i : Nat, ahead : BOOLEAN]

ProcessFrame ==
  [call : {"process"}, at : {"begin", "sent", "interrupt", "poll", "read", "clear"},
   wait : BOOLEAN, disturbed : BOOLEAN]

ExecFrame == [call : {"exec"}, at : {"enter", "loop", "leave", "left"}]

NotifyFrame(n) == [call : {"notify"}, at : {"handler"}, event : 1..n]

CallFrame(n) == SendFrame \cup ProcessFrame \cup ExecFrame \cup NotifyFrame(n)

\* Handlers run in sends, a send is on top until it walks the list, and one for a
\* single receiver is inside one for all.
FrameSound(s, k) ==
  /\ s[k].call = "notify" => k > 1 /\ s[k - 1].call = "send"
  /\ s[k].call = "send" => s[k].at = "next" \/ k = Len(s)
  /\ s[k].call = "send" /\ s[k].to # All =>
       \E j \in 1..k - 1 : s[j].call = "send" /\ s[j].to = All

StackSound(s, n) == s \in Seq(CallFrame(n)) /\ \A k \in 1..Len(s) : FrameSound(s, k)

LEMMA FrameTyped ==
  ASSUME NEW n, NEW f \in CallFrame(n)
  PROVE  /\ f.call = "send" => f \in SendFrame /\ f.at \in {"enter", "next"} /\ f.to \in Receiver \cup {All} /\ f.i \in Nat
         /\ f.call = "process" => f \in ProcessFrame
         /\ f.call = "exec" => f \in ExecFrame
         /\ f.call = "notify" => f \in NotifyFrame(n) /\ f.event \in 1..n
         /\ f.call \in {"send", "process", "exec", "notify"}
BY DEF CallFrame, SendFrame, ProcessFrame, ExecFrame, NotifyFrame

LEMMA StackTyped ==
  ASSUME NEW s, NEW n, StackSound(s, n)
  PROVE  /\ s \in Seq(CallFrame(n)) /\ Len(s) \in Nat /\ DOMAIN s = 1..Len(s)
         /\ \A k \in 1..Len(s) : s[k] \in CallFrame(n)
         /\ s # <<>> => Len(s) \in 1..Len(s)
BY DEF StackSound

LEMMA FrontIs ==
  ASSUME NEW X, NEW s \in Seq(X), s # <<>>, NEW t, t = Front(s)
  PROVE  t \in Seq(X) /\ Len(t) = Len(s) - 1 /\ \A k \in 1..Len(s) - 1 : t[k] = s[k]
<1>1. PICK m : m = Len(s) - 1
  OBVIOUS
<1>2. m \in Nat /\ m <= Len(s)
  BY <1>1
<1>3. t = SubSeq(s, 1, m)
  BY <1>1 DEF Front
<1>4. t \in Seq(X) /\ Len(t) = m
  BY <1>2, <1>3
<1>5. \A k \in 1..m : t[k] = s[k]
  BY <1>2, <1>3
<1> QED
  BY <1>1, <1>4, <1>5

\* May f be called on top of s?
MayCall(s, n, f) ==
  /\ StackSound(s, n) /\ f \in CallFrame(n)
  /\ s # <<>> /\ s[Len(s)].call = "send" => s[Len(s)].at = "next"
  /\ f.call = "notify" => s # <<>> /\ s[Len(s)].call = "send"
  /\ f.call = "send" /\ f.to # All => \E j \in 1..Len(s) : s[j].call = "send" /\ s[j].to = All

Pushed(s, f, t) ==
  Len(t) = Len(s) + 1 /\ t[Len(s) + 1] = f /\ \A k \in 1..Len(s) : t[k] = s[k]

LEMMA PushKeepsSound ==
  ASSUME NEW s, NEW n, NEW f, MayCall(s, n, f), NEW t, t = Append(s, f)
  PROVE  StackSound(t, n) /\ Pushed(s, f, t)
<1>. USE DEF MayCall
<1>1. Len(s) \in Nat /\ s \in Seq(CallFrame(n)) /\ (s # <<>> => Len(s) > 0)
  BY DEF StackSound
<1>2. /\ t \in Seq(CallFrame(n)) /\ Len(t) = Len(s) + 1 /\ t[Len(s) + 1] = f
      /\ \A k \in 1..Len(s) : t[k] = s[k]
  BY <1>1
<1>3. ASSUME NEW k \in 1..Len(s) + 1
      PROVE  FrameSound(t, k)
  <2>1. CASE k = Len(s) + 1
    <3>1. t[k] = f /\ k = Len(t) /\ k - 1 = Len(s)
      BY <1>1, <1>2, <2>1
    <3>2. f.call = "notify" => k > 1 /\ t[k - 1].call = "send"
      <4>1. SUFFICES ASSUME f.call = "notify"
                     PROVE  k > 1 /\ t[k - 1].call = "send"
        OBVIOUS
      <4>2. Len(s) > 0 /\ s[Len(s)].call = "send"
        BY <1>1, <4>1
      <4>3. Len(s) \in 1..Len(s)
        BY <1>1, <4>2
      <4> QED
        BY <1>1, <1>2, <3>1, <4>2, <4>3
    <3> QED
      BY <1>1, <1>2, <3>1, <3>2, Zenon DEF FrameSound
  <2>2. CASE k # Len(s) + 1
    <3>1. k \in 1..Len(s) /\ t[k] = s[k] /\ \A j \in 1..k - 1 : j \in 1..Len(s) /\ t[j] = s[j]
      BY <1>1, <1>2, <2>2
    <3>2. FrameSound(s, k)
      BY <3>1 DEF StackSound
    <3>3. s[k].call = "send" => s[k].at = "next"
      BY <1>1, <3>1, <3>2 DEF FrameSound
    <3>4. s[k].call = "notify" => k > 1 /\ t[k - 1].call = "send"
      BY <1>1, <3>1, <3>2 DEF FrameSound
    <3>5. s[k].call = "send" /\ s[k].to # All => \E j \in 1..k - 1 : t[j].call = "send" /\ t[j].to = All
      BY <3>1, <3>2 DEF FrameSound
    <3> QED
      BY <3>1, <3>3, <3>4, <3>5 DEF FrameSound
  <2> QED
    BY <2>1, <2>2, SMTT(40)
<1> QED
  BY <1>2, <1>3 DEF StackSound, Pushed

LEMMA PopKeepsSound ==
  ASSUME NEW s, NEW n, StackSound(s, n), s # <<>>, NEW t, t = Front(s)
  PROVE  /\ StackSound(t, n) /\ Len(t) = Len(s) - 1
         /\ \A k \in 1..Len(t) : k \in 1..Len(s) /\ t[k] = s[k]
<1>1. Len(s) \in Nat \ {0} /\ s \in Seq(CallFrame(n))
  BY DEF StackSound
<1>2. /\ t \in Seq(CallFrame(n)) /\ Len(t) = Len(s) - 1
      /\ \A k \in 1..Len(s) - 1 : t[k] = s[k]
  BY <1>1, FrontIs
<1>3. ASSUME NEW k \in 1..Len(s) - 1
      PROVE  FrameSound(t, k)
  <2>1. k \in 1..Len(s) /\ k # Len(s) /\ t[k] = s[k] /\ \A j \in 1..k - 1 : j \in 1..Len(s) /\ t[j] = s[j]
    BY <1>1, <1>2
  <2>2. FrameSound(s, k)
    BY <2>1 DEF StackSound
  <2>3. s[k].call = "send" => s[k].at = "next"
    BY <2>1, <2>2 DEF FrameSound
  <2>4. s[k].call = "notify" => k > 1 /\ t[k - 1].call = "send"
    BY <1>1, <2>1, <2>2 DEF FrameSound
  <2>5. s[k].call = "send" /\ s[k].to # All => \E j \in 1..k - 1 : t[j].call = "send" /\ t[j].to = All
    BY <2>1, <2>2 DEF FrameSound
  <2> QED
    BY <2>1, <2>3, <2>4, <2>5 DEF FrameSound
<1> QED
  BY <1>1, <1>2, <1>3 DEF StackSound

\* Frames change, but not what they call.
LEMMA LikeKeepsSound ==
  ASSUME NEW s, NEW n, StackSound(s, n), NEW t \in Seq(CallFrame(n)), Len(t) = Len(s),
         \A k \in 1..Len(s) :
           /\ t[k].call = s[k].call
           /\ s[k].call = "send" => t[k].to = s[k].to /\ (t[k].at = s[k].at \/ k = Len(s))
  PROVE  StackSound(t, n)
<1>1. Len(s) \in Nat
  BY DEF StackSound
<1>2. ASSUME NEW k \in 1..Len(s)
      PROVE  FrameSound(t, k)
  <2>1. FrameSound(s, k)
    BY DEF StackSound
  <2>2. \A j \in 1..k - 1 : j \in 1..Len(s)
    BY <1>1
  <2>3. k > 1 => k - 1 \in 1..Len(s)
    BY <1>1
  <2>4. t[k].call = "notify" => k > 1 /\ t[k - 1].call = "send"
    BY <2>1, <2>3 DEF FrameSound
  <2>5. t[k].call = "send" => t[k].at = "next" \/ k = Len(t)
    BY <2>1 DEF FrameSound
  <2>6. t[k].call = "send" /\ t[k].to # All => \E j \in 1..k - 1 : t[j].call = "send" /\ t[j].to = All
    <3>1. SUFFICES ASSUME t[k].call = "send", t[k].to # All
                   PROVE  \E j \in 1..k - 1 : t[j].call = "send" /\ t[j].to = All
      OBVIOUS
    <3>2. PICK j \in 1..k - 1 : s[j].call = "send" /\ s[j].to = All
      BY <2>1, <3>1 DEF FrameSound
    <3> QED
      BY <2>2, <3>2
  <2> QED
    BY <2>4, <2>5, <2>6 DEF FrameSound
<1> QED
  BY <1>2 DEF StackSound

LEMMA GrowKeepsSound ==
  ASSUME NEW s, NEW n \in Nat, NEW m \in Nat, n <= m, StackSound(s, n)
  PROVE  StackSound(s, m)
<1>1. \A f : f \in CallFrame(n) => f \in CallFrame(m)
  <2>1. SUFFICES ASSUME NEW f \in CallFrame(n)
                 PROVE  f \in CallFrame(m)
    OBVIOUS
  <2>2. CASE f \in NotifyFrame(n)
    <3>1. f \in NotifyFrame(m)
      BY <2>2 DEF NotifyFrame
    <3> QED
      BY <3>1 DEF CallFrame
  <2>3. CASE f \notin NotifyFrame(n)
    BY <2>3 DEF CallFrame
  <2> QED
    BY <2>2, <2>3
<1>2. Len(s) \in Nat /\ s \in Seq(CallFrame(n))
  BY DEF StackSound
<1>3. \A k \in 1..Len(s) : s[k] \in CallFrame(n)
  BY <1>2
<1>4. \A k \in 1..Len(s) : s[k] \in CallFrame(m)
  BY <1>1, <1>3
<1>5. PICK Y : Y = CallFrame(m)
  OBVIOUS
<1>6. s = [k \in 1..Len(s) |-> s[k]]
  BY <1>2
<1>7. s \in [1..Len(s) -> Y]
  BY <1>4, <1>5, <1>6
<1>8. s \in Seq(CallFrame(m))
  BY <1>2, <1>5, <1>7
<1> QED
  BY <1>8 DEF StackSound

-----------------------------------------------------------------------------
(* What calls and queue keep to together.                                  *)

SendsAll(f) == f.call = "send" /\ f.at = "next" /\ f.to = All

SendsOne(f) == f.call = "send" /\ f.at = "next" /\ f.to # All /\ ~f.ahead

\* A send for one receiver leaves nothing but deletions of it behind its index.
FrontIsSent(f) ==
  SendsOne(f) =>
    /\ f.i <= insertionOffset
    /\ \A j \in 1..f.i : list[j].event # 0 /\ events[list[j].event].to = f.to => events[list[j].event].deletes

SendsOK == \A k \in 1..Len(stack) : FrontIsSent(stack[k])

\* Nothing waits in front while nobody sends for all.
IdleOK == (\A k \in 1..Len(stack) : ~SendsAll(stack[k])) => insertionOffset = 0

\* What is posted to a deleted object goes with it.
DeadOK ==
  \A e \in DOMAIN events :
    events[e].fate = "queued" =>
      events[e].to \notin Deleted \/ (Destroying /\ events[e].to = events[Last(stack).event].to)

EventsSound == QueueOK /\ StackSound(stack, Len(events)) /\ SendsOK /\ IdleOK /\ DeadOK

\* A step delivers nothing, and posts to the living.
Calm ==
  /\ SameKinds(events, events')
  /\ \A e \in DOMAIN events' :
       IF e \in DOMAIN events
       THEN events'[e].fate = events[e].fate \/ (events'[e].fate = "removed" /\ events[e].fate = "queued")
       ELSE events'[e].fate = "queued" /\ events'[e].to \in Live

\* A step begins no walk of the list, and ends none for all.
StackKeeps ==
  /\ \A k \in 1..Len(stack') : SendsOne(stack'[k]) => \E j \in 1..Len(stack) : stack'[k] = stack[j]
  /\ (\E k \in 1..Len(stack) : SendsAll(stack[k])) => \E k \in 1..Len(stack') : SendsAll(stack'[k])

LEMMA FrontIsSentStays ==
  ASSUME QueueOK, FrontStays, insertionOffset' \in Nat, NEW n, NEW f \in CallFrame(n), FrontIsSent(f)
  PROVE  FrontIsSent(f)'
<1>1. SUFFICES ASSUME SendsOne(f)
               PROVE  /\ f.i <= insertionOffset'
                      /\ \A j \in 1..f.i : list'[j].event # 0 /\ events'[list'[j].event].to = f.to
                           => events'[list'[j].event].deletes
  BY DEF FrontIsSent
<1>2. f.i \in Nat /\ f.i <= insertionOffset /\ insertionOffset \in Nat
  BY <1>1, FrameTyped DEF FrontIsSent, SendsOne, QueueOK, QueueTypeOK
<1>3. f.i <= insertionOffset'
  BY <1>2 DEF FrontStays
<1>4. ASSUME NEW j \in 1..f.i, list'[j].event # 0, events'[list'[j].event].to = f.to
      PROVE  events'[list'[j].event].deletes
  <2>1. j \in 1..insertionOffset /\ list'[j].event = list[j].event
    BY <1>2, <1>4 DEF FrontStays
  <2>2. j \in DOMAIN list /\ list[j].event \in 1..Len(events) /\ DOMAIN events = 1..Len(events)
    BY <1>4, <2>1, QueueTyped DEF QueueOK, QueueTypeOK
  <2> QED
    BY <1>1, <1>4, <2>1, <2>2 DEF FrontIsSent, FrontStays, SameKinds
<1> QED
  BY <1>3, <1>4

LEMMA SendsStay ==
  ASSUME QueueOK, StackSound(stack, Len(events)), SendsOK, FrontStays, StackKeeps, insertionOffset' \in Nat
  PROVE  SendsOK'
<1>1. SUFFICES ASSUME NEW k \in 1..Len(stack')
               PROVE  FrontIsSent(stack[k])'
  BY DEF SendsOK
<1>2. CASE SendsOne(stack'[k])
  <2>1. PICK j \in 1..Len(stack) : stack'[k] = stack[j]
    BY <1>1, <1>2 DEF StackKeeps
  <2>2. PICK f : f = stack[j]
    OBVIOUS
  <2>3. f \in CallFrame(Len(events)) /\ FrontIsSent(f)
    BY <2>2, StackTyped DEF SendsOK
  <2>4. FrontIsSent(f)'
    BY <2>3, FrontIsSentStays
  <2> QED
    BY <2>1, <2>2, <2>4 DEF FrontIsSent
<1>3. CASE ~SendsOne(stack'[k])
  BY <1>3 DEF FrontIsSent
<1> QED
  BY <1>2, <1>3

LEMMA DeletedStays ==
  ASSUME QueueOK, Calm
  PROVE  Deleted' = Deleted
<1>1. \A e \in DOMAIN events : /\ e \in DOMAIN events' /\ events'[e].deletes = events[e].deletes
                               /\ events'[e].to = events[e].to
                               /\ events'[e].fate \in Handled <=> events[e].fate \in Handled
  BY DEF Calm, SameKinds, Handled
<1>2. \A e \in DOMAIN events' : e \notin DOMAIN events => events'[e].fate \notin Handled
  BY DEF Calm, Handled
<1>3. PICK A : A = {e \in DOMAIN events : events[e].deletes /\ events[e].fate \in Handled}
  OBVIOUS
<1>4. A = {e \in DOMAIN events' : events'[e].deletes /\ events'[e].fate \in Handled}
  BY <1>1, <1>2, <1>3
<1>5. Deleted = {events[e].to : e \in A} /\ Deleted' = {events'[e].to : e \in A}
  BY <1>3, <1>4 DEF Deleted, Handled
<1> QED
  BY <1>1, <1>3, <1>5

LEMMA DeadStays ==
  ASSUME QueueOK, StackSound(stack, Len(events)), DeadOK, Calm, UNCHANGED stack \/ ~Destroying
  PROVE  DeadOK'
<1>1. Deleted' = Deleted
  BY DeletedStays
<1>2. SUFFICES ASSUME NEW e \in DOMAIN events', events'[e].fate = "queued", events'[e].to \in Deleted
               PROVE  (Destroying /\ events[e].to = events[Last(stack).event].to)'
  BY <1>1 DEF DeadOK
<1>3. e \in DOMAIN events /\ events[e].fate = "queued" /\ events'[e].to = events[e].to
  BY <1>2 DEF Calm, SameKinds, Live
<1>4. Destroying /\ events[e].to = events[Last(stack).event].to
  BY <1>2, <1>3 DEF DeadOK
<1>5. Last(stack).event \in DOMAIN events
  <2>1. stack # <<>> /\ stack[Len(stack)].call = "notify" /\ Last(stack) = stack[Len(stack)]
    BY <1>4 DEF Destroying, At, Last
  <2>2. stack[Len(stack)] \in CallFrame(Len(events))
    BY <2>1, StackTyped
  <2>3. stack[Len(stack)].event \in 1..Len(events)
    BY <2>1, <2>2, FrameTyped
  <2> QED
    BY <2>1, <2>3, QueueTyped DEF QueueOK
<1>6. UNCHANGED stack
  BY <1>4
<1> QED
  BY <1>3, <1>4, <1>5, <1>6 DEF Destroying, At, Calm, SameKinds

\* A step that only posts, takes out or calls.
LEMMA CalmKeeps ==
  ASSUME EventsSound, QueueOK', FrontStays, UNCHANGED insertionOffset, Calm, StackKeeps,
         UNCHANGED stack \/ ~Destroying, StackSound(stack, Len(events))'
  PROVE  EventsSound'
<1>1. insertionOffset' \in Nat
  BY DEF EventsSound, QueueOK, QueueTypeOK
<1>2. SendsOK'
  BY <1>1, SendsStay DEF EventsSound
<1>3. DeadOK'
  BY DeadStays DEF EventsSound
<1>4. IdleOK'
  BY DEF EventsSound, IdleOK, StackKeeps
<1> QED
  BY <1>2, <1>3, <1>4 DEF EventsSound

LEMMA CallsKeep ==
  ASSUME EventsSound, UNCHANGED queue, StackKeeps, UNCHANGED stack \/ ~Destroying,
         StackSound(stack', Len(events))
  PROVE  EventsSound'
<1>1. UNCHANGED <<list, startOffset, insertionOffset, postedEvents, events>>
  BY DEF queue
<1>2. QueueOK'
  BY <1>1 DEF EventsSound, QueueOK, QueueTypeOK, ListOK, PostsAreCounted, InOrder, IsBefore
<1>3. FrontStays
  <2>1. insertionOffset \in Nat
    BY DEF EventsSound, QueueOK, QueueTypeOK
  <2> QED
    BY <1>1, <2>1 DEF FrontStays, SameKinds
<1>4. Calm
  BY <1>1 DEF Calm, SameKinds
<1> QED
  BY <1>1, <1>2, <1>3, <1>4, CalmKeeps

LEMMA StackSame ==
  ASSUME UNCHANGED stack
  PROVE  StackKeeps
BY DEF StackKeeps

\* A call begins.
LEMMA PushKeeps ==
  ASSUME EventsSound, UNCHANGED queue, ~Destroying, NEW f \in CallFrame(Len(events)),
         stack # <<>> /\ Last(stack).call = "send" => Last(stack).at = "next",
         f.call # "notify", f.call = "send" => f.at = "enter",
         f.call = "send" /\ f.to # All => \E j \in 1..Len(stack) : stack[j].call = "send" /\ stack[j].to = All,
         stack' = Append(stack, f)
  PROVE  EventsSound'
<1>1. PICK n, s, t : n = Len(events) /\ s = stack /\ t = stack'
  OBVIOUS
<1>2. StackSound(s, n) /\ Len(s) \in Nat
  BY <1>1, StackTyped DEF EventsSound
<1>3. StackSound(t, n) /\ Len(t) = Len(s) + 1 /\ t[Len(s) + 1] = f /\ \A k \in 1..Len(s) : t[k] = s[k]
  <2>1. MayCall(s, n, f)
    BY <1>1, <1>2 DEF Last, MayCall
  <2>2. t = Append(s, f)
    BY <1>1
  <2>3. StackSound(t, n) /\ Pushed(s, f, t)
    BY <2>1, <2>2, PushKeepsSound
  <2> QED
    BY <2>3 DEF Pushed
<1>4. StackKeeps
  <2>1. \A k \in 1..Len(t) : k = Len(s) + 1 \/ k \in 1..Len(s)
    BY <1>2, <1>3
  <2>2. \A k \in 1..Len(s) : k \in 1..Len(t)
    BY <1>2, <1>3
  <2>3. ~SendsOne(f)
    BY DEF SendsOne
  <2> QED
    BY <1>1, <1>3, <2>1, <2>2, <2>3 DEF StackKeeps
<1> QED
  BY <1>1, <1>3, <1>4, CallsKeep

\* A call that does not walk the list for all returns.
LEMMA PopKeeps ==
  ASSUME EventsSound, UNCHANGED queue, ~Destroying, stack # <<>>, ~SendsAll(Last(stack)), stack' = Front(stack)
  PROVE  EventsSound'
<1>1. PICK n, s, t : n = Len(events) /\ s = stack /\ t = stack'
  OBVIOUS
<1>2. StackSound(s, n) /\ Len(s) \in Nat /\ Len(s) \in 1..Len(s)
  BY <1>1, StackTyped DEF EventsSound
<1>3. StackSound(t, n) /\ Len(t) = Len(s) - 1 /\ \A k \in 1..Len(t) : k \in 1..Len(s) /\ t[k] = s[k]
  BY <1>1, <1>2, PopKeepsSound
<1>4. StackKeeps
  <2>1. \A k \in 1..Len(s) : k = Len(s) \/ k \in 1..Len(t)
    BY <1>2, <1>3
  <2>2. ~SendsAll(s[Len(s)])
    BY <1>1 DEF Last
  <2> QED
    BY <1>1, <1>3, <2>1, <2>2 DEF StackKeeps
<1> QED
  BY <1>1, <1>3, <1>4, CallsKeep

\* The call on top, which is no send, goes on.
LEMMA GoKeeps ==
  ASSUME EventsSound, UNCHANGED queue, ~Destroying, stack # <<>>, Last(stack).call # "send",
         NEW f \in CallFrame(Len(events)), f.call = Last(stack).call,
         stack' = [stack EXCEPT ![Len(stack)] = f]
  PROVE  EventsSound'
<1>1. PICK n, s, t : n = Len(events) /\ s = stack /\ t = stack'
  OBVIOUS
<1>2. StackSound(s, n) /\ Len(s) \in Nat /\ Len(s) \in 1..Len(s) /\ s \in Seq(CallFrame(n))
  BY <1>1, StackTyped DEF EventsSound
<1>3. /\ t \in Seq(CallFrame(n)) /\ Len(t) = Len(s) /\ t[Len(s)] = f
      /\ \A k \in 1..Len(s) : k # Len(s) => t[k] = s[k]
  BY <1>1, <1>2
<1>4. s[Len(s)].call # "send" /\ f.call = s[Len(s)].call
  BY <1>1 DEF Last
<1>5. StackSound(t, n)
  BY <1>2, <1>3, <1>4, LikeKeepsSound, SMTT(40)
<1>6. StackKeeps
  <2>1. ~SendsOne(f) /\ ~SendsAll(s[Len(s)])
    BY <1>4 DEF SendsOne, SendsAll
  <2> QED
    BY <1>1, <1>2, <1>3, <2>1, Zenon DEF StackKeeps
<1> QED
  BY <1>1, <1>5, <1>6, CallsKeep

-----------------------------------------------------------------------------
(* sendPostedEvents.                                                       *)

LEMMA SameQueue ==
  ASSUME QueueOK, UNCHANGED <<list, startOffset, insertionOffset, postedEvents, events>>
  PROVE  QueueOK' /\ FrontStays
<1>1. insertionOffset \in Nat
  BY DEF QueueOK, QueueTypeOK
<1>2. FrontStays
  BY <1>1 DEF FrontStays, SameKinds
<1> QED
  BY <1>2 DEF QueueOK, QueueTypeOK, ListOK, PostsAreCounted, InOrder, IsBefore

LEMMA SameEvents ==
  ASSUME UNCHANGED events
  PROVE  Calm /\ SameKinds(events, events')
BY DEF Calm, SameKinds

\* The call on top of the stack.
Top(s, n, f) == StackSound(s, n) /\ s # <<>> /\ f = s[Len(s)]

LEMMA TopTyped ==
  ASSUME NEW s, NEW n, NEW f, Top(s, n, f)
  PROVE  /\ StackSound(s, n) /\ s \in Seq(CallFrame(n)) /\ Len(s) \in Nat /\ Len(s) \in 1..Len(s)
         /\ f \in CallFrame(n) /\ FrameSound(s, Len(s))
BY StackTyped DEF Top, StackSound

\* A send goes on to g.
TopSet(s, g, t) == t = [s EXCEPT ![Len(s)] = g]

LEMMA SendGoes ==
  ASSUME NEW s, NEW n, NEW f, Top(s, n, f), f.call = "send", NEW g \in CallFrame(n),
         g.call = "send", g.to = f.to, NEW t, TopSet(s, g, t)
  PROVE  /\ StackSound(t, n) /\ Len(t) = Len(s) /\ t[Len(s)] = g
         /\ \A k \in 1..Len(s) : k # Len(s) => t[k] = s[k]
<1>1. /\ StackSound(s, n) /\ s \in Seq(CallFrame(n)) /\ Len(s) \in Nat /\ Len(s) \in 1..Len(s)
  BY TopTyped
<1>2. /\ t \in Seq(CallFrame(n)) /\ Len(t) = Len(s) /\ t[Len(s)] = g
      /\ \A k \in 1..Len(s) : k # Len(s) => t[k] = s[k]
  BY <1>1 DEF TopSet
<1>3. s[Len(s)].call = "send" /\ s[Len(s)].to = g.to
  BY DEF Top
<1>4. StackSound(t, n)
  BY <1>1, <1>2, <1>3, LikeKeepsSound
<1> QED
  BY <1>2, <1>4

\* Beneath a call there is nobody but walks of the list.
LEMMA BeneathOne ==
  ASSUME NEW s, NEW n, NEW f, Top(s, n, f), f.call = "send", f.to # All
  PROVE  \E j \in 1..Len(s) : j # Len(s) /\ SendsAll(s[j])
<1>1. StackSound(s, n) /\ Len(s) \in Nat /\ Len(s) \in 1..Len(s) /\ FrameSound(s, Len(s))
  BY TopTyped
<1>2. PICK j \in 1..Len(s) - 1 : s[j].call = "send" /\ s[j].to = All
  BY <1>1 DEF FrameSound, Top
<1>3. j \in 1..Len(s) /\ j # Len(s) /\ FrameSound(s, j)
  BY <1>1 DEF StackSound
<1> QED
  BY <1>2, <1>3 DEF FrameSound, SendsAll

LEMMA SendEnterKeeps ==
  ASSUME EventsSound, SendEnter
  PROVE  EventsSound'
<1>1. PICK s, n, f : s = stack /\ n = Len(events) /\ f = Last(stack)
  OBVIOUS
<1>2. s # <<>> /\ f.call = "send" /\ f.at = "enter" /\ ~Destroying /\ f = s[Len(s)]
  BY <1>1 DEF SendEnter, At, Destroying, Last
<1>3. Top(s, n, f)
  BY <1>1, <1>2 DEF EventsSound, Top
<1>4. UNCHANGED <<list, startOffset, postedEvents, deleteLaterCalled, events>>
  BY DEF SendEnter
<1>5. CASE list = <<>> \/ (f.to # All /\ postedEvents[f.to] = 0)
  <2>1. Returns /\ UNCHANGED insertionOffset
    BY <1>1, <1>5 DEF SendEnter
  <2>2. ~SendsAll(f)
    BY <1>2 DEF SendsAll
  <2> QED
    BY <1>1, <1>2, <1>4, <2>1, <2>2, PopKeeps DEF Returns, queue
<1>6. CASE ~(list = <<>> \/ (f.to # All /\ postedEvents[f.to] = 0))
  <2>1. /\ insertionOffset' = Len(list)
        /\ stack' = [s EXCEPT ![Len(s)].at = "next", ![Len(s)].i = IF f.to = All THEN 0 ELSE startOffset]
    BY <1>1, <1>6 DEF SendEnter
  <2>2. PICK g : g = [f EXCEPT !.at = "next", !.i = IF f.to = All THEN 0 ELSE startOffset]
    OBVIOUS
  <2>3. startOffset \in Nat /\ insertionOffset \in Nat /\ Len(list) \in Nat
        /\ startOffset <= insertionOffset /\ insertionOffset <= Len(list)
    BY DEF EventsSound, QueueOK, QueueTypeOK
  <2>4. f \in SendFrame
    BY <1>2, <1>3, TopTyped, FrameTyped
  <2>5. /\ g \in SendFrame /\ g.call = "send" /\ g.at = "next" /\ g.to = f.to
        /\ g.i = IF f.to = All THEN 0 ELSE startOffset
    BY <2>2, <2>3, <2>4 DEF SendFrame
  <2>6. g \in CallFrame(n)
    BY <2>5 DEF CallFrame
  <2>7. PICK t : t = stack'
    OBVIOUS
  <2>8. TopSet(s, g, t)
    <3>1. s \in Seq(CallFrame(n)) /\ Len(s) \in 1..Len(s)
      BY <1>3, TopTyped
    <3> QED
      BY <1>2, <2>1, <2>2, <2>7, <3>1 DEF TopSet
  <2>9. /\ StackSound(t, n) /\ Len(t) = Len(s) /\ t[Len(s)] = g
        /\ \A k \in 1..Len(s) : k # Len(s) => t[k] = s[k]
    BY <1>2, <1>3, <2>5, <2>6, <2>8, SendGoes
  <2>10. QueueOK'
    <3>1. Sorted(list, Len(list))
      BY <2>3 DEF Sorted
    <3>2. QueueTypeOK'
      BY <1>4, <2>1, <2>3 DEF EventsSound, QueueOK, QueueTypeOK
    <3>3. ListOK'
      BY <1>4, <2>1, <3>1 DEF EventsSound, QueueOK, ListOK
    <3>4. PostsAreCounted' /\ InOrder'
      BY <1>4 DEF EventsSound, QueueOK, PostsAreCounted, InOrder, IsBefore
    <3> QED
      BY <3>2, <3>3, <3>4 DEF QueueOK
  <2>11. FrontStays
    BY <1>4, <2>1, <2>3, SameEvents DEF FrontStays
  <2>12. SendsOK'
    <3>1. SUFFICES ASSUME NEW k \in 1..Len(t)
                   PROVE  FrontIsSent(t[k])'
      BY <2>7 DEF SendsOK
    <3>2. CASE k = Len(s)
      <4>1. SUFFICES ASSUME SendsOne(g)
                     PROVE  /\ g.i <= Len(list)
                            /\ \A j \in 1..g.i : list[j].event = 0
        BY <1>4, <2>1, <2>9, <3>2 DEF FrontIsSent
      <4>2. g.i = startOffset
        BY <2>5, <4>1 DEF SendsOne
      <4> QED
        BY <2>3, <4>2 DEF EventsSound, QueueOK, ListOK
    <3>3. CASE k # Len(s)
      <4>1. PICK h : h = s[k]
        OBVIOUS
      <4>2. t[k] = h /\ h \in CallFrame(n) /\ FrontIsSent(h)
        BY <1>1, <1>3, <2>9, <3>1, <3>3, <4>1, TopTyped DEF EventsSound, SendsOK
      <4>3. FrontIsSent(h)'
        BY <2>1, <2>3, <2>11, <4>2, FrontIsSentStays DEF EventsSound
      <4> QED
        BY <4>2, <4>3
    <3> QED
      BY <3>2, <3>3
  <2>13. IdleOK'
    <3>1. SUFFICES \E k \in 1..Len(t) : SendsAll(t[k])
      BY <2>7 DEF IdleOK
    <3>2. CASE f.to = All
      <4>1. SendsAll(g) /\ Len(s) \in 1..Len(s)
        BY <1>3, <2>5, <3>2, TopTyped DEF SendsAll
      <4> QED
        BY <2>9, <4>1
    <3>3. CASE f.to # All
      BY <1>2, <1>3, <2>9, <3>3, BeneathOne
    <3> QED
      BY <3>2, <3>3
  <2>14. DeadOK'
    BY <1>2, <1>4, SameEvents, DeadStays DEF EventsSound
  <2> QED
    BY <1>1, <1>4, <2>7, <2>9, <2>10, <2>12, <2>13, <2>14 DEF EventsSound
<1> QED
  BY <1>5, <1>6

\* What a send that has an element before it looks at.
LEMMA NextIs ==
  ASSUME QueueOK, HasNext, Index \in Nat
  PROVE  /\ Index + 1 \in DOMAIN list /\ Index + 1 \in 1..insertionOffset
         /\ list[Index + 1] \in EventElement(Len(events)) /\ list[Index + 1].event \in 0..Len(events)
         /\ insertionOffset \in Nat /\ insertionOffset <= Len(list) /\ Len(list) \in Nat
         /\ DOMAIN list = 1..Len(list)
<1>1. insertionOffset \in Nat /\ insertionOffset <= Len(list) /\ Len(list) \in Nat /\ DOMAIN list = 1..Len(list)
  BY QueueTyped DEF QueueOK, QueueTypeOK
<1>2. Index + 1 \in 1..insertionOffset /\ Index + 1 \in DOMAIN list
  BY <1>1 DEF HasNext
<1>3. list[Index + 1] \in EventElement(Len(events)) /\ list[Index + 1].event \in 0..Len(events)
  BY <1>2, QueueTyped DEF QueueOK
<1> QED
  BY <1>1, <1>2, <1>3

\* The element x behind the index i, a deletion that waits, goes to the end of the list.
Requeues(i, x, l) ==
  /\ i + 1 \in DOMAIN list /\ i < insertionOffset /\ x = list[i + 1]
  /\ x.event # 0 /\ events[x.event].deletes
  /\ l = [list EXCEPT ![i + 1].event = 0] /\ list' = AddEvent(l, x)
  /\ UNCHANGED <<insertionOffset, postedEvents, events>>
  /\ UNCHANGED startOffset \/ (i = startOffset /\ startOffset' = startOffset + 1)

LEMMA RequeueKeepsQueue ==
  ASSUME QueueOK, NEW i \in Nat, NEW x, NEW l, Requeues(i, x, l)
  PROVE  QueueOK' /\ FrontStays
<1>. USE DEF QueueOK
<1>1. PICK n, ev : n = Len(events) /\ ev = events
  OBVIOUS
<1>2. /\ n \in Nat /\ list \in Seq(EventElement(n)) /\ Len(list) \in Nat /\ DOMAIN list = 1..Len(list)
      /\ x \in EventElement(n) /\ DOMAIN ev = 1..n /\ x.event \in 1..n
      /\ insertionOffset \in Nat /\ insertionOffset <= Len(list) /\ startOffset \in Nat
      /\ startOffset <= insertionOffset
  <2>1. /\ n \in Nat /\ Len(list) \in Nat /\ DOMAIN list = 1..Len(list)
        /\ x \in EventElement(n) /\ DOMAIN ev = 1..n /\ x.event \in 0..n /\ x.event # 0
    BY <1>1, QueueTyped DEF Requeues
  <2>2. list \in Seq(EventElement(n))
    BY <1>1 DEF QueueTypeOK
  <2> QED
    BY <2>1, <2>2 DEF QueueTypeOK
<1>3. PICK b : b = insertionOffset
  OBVIOUS
<1>4. PICK T : T = {i + 1}
  OBVIOUS
<1>5. PICK m, G : m = list /\ G = {m[k].event : k \in T}
  OBVIOUS
<1>6. G = {x.event}
  BY <1>4, <1>5 DEF Requeues
<1>7. Emptied(m, T, l)
  BY <1>2, <1>4, <1>5 DEF Emptied, Requeues
<1>8. Emptying(n, m, T, l, G, ev, b)
  <2>1. Sorted(m, b) /\ HasPriorities(m, ev) /\ InPostingOrder(m, ev)
    BY <1>1, <1>3, <1>5 DEF ListOK
  <2>2. n \in Nat /\ m \in Seq(EventElement(n)) /\ T \in SUBSET DOMAIN m /\ b \in Nat
    BY <1>2, <1>3, <1>4, <1>5 DEF Requeues
  <2> QED
    BY <1>5, <1>7, <2>1, <2>2 DEF Emptying
<1>9. /\ l \in Seq(EventElement(n)) /\ Len(l) = Len(m)
      /\ Sorted(l, b) /\ HasPriorities(l, ev) /\ InPostingOrder(l, ev)
      /\ Pendings(l) = Pendings(m) \ G
      /\ \A k \in DOMAIN m : l[k].event = IF k \in T THEN 0 ELSE m[k].event
  BY <1>8, EmptiedKeeps
<1>10. insertionOffset \in 0..Len(l) /\ Sorted(l, insertionOffset)
  BY <1>2, <1>3, <1>5, <1>9
<1>11. PICK s : s = AddEvent(l, x)
  OBVIOUS
<1>12. PICK p : s \in Seq(EventElement(n)) /\ Inserted(l, insertionOffset, x, p, s)
  BY <1>2, <1>9, <1>10, <1>11, AddEventInserts
<1>13. x.priority = ev[x.event].priority /\ ev[x.event].deletes /\ x.event # 0 /\ x.event \notin Pendings(l)
  BY <1>1, <1>2, <1>6, <1>9 DEF ListOK, HasPriorities, Requeues
<1>14. /\ Sorted(s, b) /\ HasPriorities(s, ev) /\ InPostingOrder(s, ev)
       /\ Pendings(s) = Pendings(l) \cup {x.event}
       /\ \A k \in 1..b : s[k] = l[k]
  <2>1. Inserted(l, b, x, p, s) /\ b \in 0..Len(l) /\ s \in Seq(EventElement(n))
    BY <1>3, <1>10, <1>12
  <2>2. n \in Nat /\ l \in Seq(EventElement(n)) /\ x \in EventElement(n)
    BY <1>2, <1>9
  <2>3. Sorted(l, b) /\ HasPriorities(l, ev) /\ InPostingOrder(l, ev)
    BY <1>9
  <2>4. ev[x.event].deletes \/ \A a \in Pendings(l) : a < x.event
    BY <1>13
  <2> QED
    BY <1>13, <2>1, <2>2, <2>3, <2>4, InsertedKeeps
<1>15. list' = s /\ Len(s) = Len(list) + 1
  BY <1>5, <1>9, <1>11, <1>12 DEF Inserted, Requeues
<1>16. x.event \in Pendings(m)
  BY <1>2, <1>5 DEF Pendings, Requeues
<1>17. Pendings(s) = Pendings(list)
  BY <1>5, <1>6, <1>9, <1>14, <1>16
<1>18. \A k \in 1..b : s[k].event = IF k = i + 1 THEN 0 ELSE list[k].event
  <2>1. \A k \in 1..b : k \in DOMAIN m
    BY <1>2, <1>3, <1>5
  <2> QED
    BY <1>4, <1>5, <1>9, <1>14, <2>1
<1>19. startOffset' \in Nat /\ startOffset' <= b /\ \A j \in 1..startOffset' : s[j].event = 0
  <2>1. \A j \in 1..startOffset : list[j].event = 0
    BY DEF ListOK
  <2>2. CASE UNCHANGED startOffset
    BY <1>2, <1>3, <1>18, <2>1, <2>2
  <2>3. CASE i = startOffset /\ startOffset' = startOffset + 1
    BY <1>2, <1>3, <1>18, <2>1, <2>3, SMTT(40) DEF Requeues
  <2> QED
    BY <2>2, <2>3 DEF Requeues
<1>20. ListOK'
  <2>1. Pendings(s) = {e \in DOMAIN ev : ev[e].fate = "queued"}
    BY <1>1, <1>17 DEF ListOK
  <2> QED
    BY <1>1, <1>3, <1>14, <1>15, <1>19, <2>1 DEF ListOK, Requeues
<1>21. QueueTypeOK'
  BY <1>1, <1>2, <1>3, <1>12, <1>15, <1>19 DEF QueueTypeOK, Requeues
<1>22. PostsAreCounted' /\ InOrder'
  BY DEF PostsAreCounted, InOrder, IsBefore, Requeues
<1>23. FrontStays
  BY <1>2, <1>3, <1>15, <1>18, SameEvents DEF FrontStays, Requeues
<1> QED
  BY <1>20, <1>21, <1>22, <1>23

\* The index of the send on top, f, moves on: what SendsOK asks of the stack then.
Moved(f) == IF f.to = All THEN f ELSE [f EXCEPT !.i = @ + 1]

LEMMA MovedIs ==
  ASSUME NEW n, NEW f \in CallFrame(n), f.call = "send", NEW g, g = Moved(f)
  PROVE  /\ g \in CallFrame(n) /\ g.call = "send" /\ g.at = f.at /\ g.to = f.to /\ g.ahead = f.ahead
         /\ f.to # All => g.i = f.i + 1
<1>1. f \in SendFrame
  BY FrameTyped
<1>2. /\ g \in SendFrame /\ g.call = "send" /\ g.at = f.at /\ g.to = f.to /\ g.ahead = f.ahead
      /\ f.to # All => g.i = f.i + 1
  BY <1>1 DEF Moved, SendFrame
<1> QED
  BY <1>2 DEF CallFrame

\* A walk has gone over an element that is delivered, a deletion or not for it.
LEMMA MovedFront ==
  ASSUME QueueOK, FrontStays, insertionOffset' \in Nat, NEW n, NEW f \in CallFrame(n), FrontIsSent(f),
         f.call = "send", NEW g, g = Moved(f),
         f.to # All => /\ f.i < insertionOffset
                       /\ LET x == list'[f.i + 1]
                          IN  x.event # 0 /\ events'[x.event].to = f.to => events'[x.event].deletes
  PROVE  FrontIsSent(g)'
<1>1. FrontIsSent(f)'
  BY FrontIsSentStays
<1>2. SUFFICES ASSUME SendsOne(g)
               PROVE  /\ g.i <= insertionOffset'
                      /\ \A j \in 1..g.i : list'[j].event # 0 /\ events'[list'[j].event].to = g.to
                           => events'[list'[j].event].deletes
  BY DEF FrontIsSent
<1>3. g.to # All /\ g.to = f.to /\ g.i = f.i + 1 /\ SendsOne(f)
  BY <1>2, MovedIs DEF SendsOne
<1>4. f.i \in Nat
  BY FrameTyped
<1>5. g.i <= insertionOffset'
  <2>1. insertionOffset \in Nat /\ insertionOffset <= insertionOffset' /\ f.i < insertionOffset
    BY <1>3 DEF QueueOK, QueueTypeOK, FrontStays
  <2> QED
    BY <1>3, <1>4, <2>1
<1>6. ASSUME NEW j \in 1..g.i, list'[j].event # 0, events'[list'[j].event].to = g.to
      PROVE  events'[list'[j].event].deletes
  <2>1. CASE j = g.i
    BY <1>3, <1>6, <2>1
  <2>2. CASE j # g.i
    <3>1. j \in 1..f.i
      BY <1>3, <1>4, <2>2
    <3> QED
      BY <1>1, <1>3, <1>6, <3>1 DEF FrontIsSent
  <2> QED
    BY <2>1, <2>2
<1> QED
  BY <1>5, <1>6

LEMMA SendsMove ==
  ASSUME EventsSound, QueueOK', FrontStays, NEW s, s = stack, NEW n, n = Len(events),
         NEW t, t = stack', NEW g, Len(s) \in Nat, Len(t) = Len(s), t[Len(s)] = g,
         \A k \in 1..Len(s) : k # Len(s) => t[k] = s[k],
         FrontIsSent(g)'
  PROVE  SendsOK'
<1>1. SUFFICES ASSUME NEW k \in 1..Len(t)
               PROVE  FrontIsSent(t[k])'
  BY DEF SendsOK
<1>2. CASE k = Len(s)
  BY <1>2
<1>3. CASE k # Len(s)
  <2>1. PICK h : h = s[k]
    OBVIOUS
  <2>2. t[k] = h /\ h \in CallFrame(n) /\ FrontIsSent(h)
    BY <1>1, <1>3, <2>1, StackTyped DEF EventsSound, SendsOK
  <2>3. insertionOffset' \in Nat
    BY DEF QueueOK, QueueTypeOK
  <2>4. FrontIsSent(h)'
    BY <2>2, <2>3, FrontIsSentStays DEF EventsSound
  <2> QED
    BY <2>2, <2>4
<1> QED
  BY <1>2, <1>3

LEMMA SendSkipKeeps ==
  ASSUME EventsSound, SendSkip
  PROVE  EventsSound'
<1>1. PICK s, n, f, t : s = stack /\ n = Len(events) /\ f = Last(stack) /\ t = stack'
  OBVIOUS
<1>2. s # <<>> /\ f.call = "send" /\ f.at = "next" /\ ~Destroying /\ f = s[Len(s)]
  BY <1>1 DEF SendSkip, At, Destroying, Last
<1>3. Top(s, n, f)
  BY <1>1, <1>2 DEF EventsSound, Top
<1>4. /\ s \in Seq(CallFrame(n)) /\ Len(s) \in Nat /\ Len(s) \in 1..Len(s) /\ f \in CallFrame(n)
      /\ f.i \in Nat
  BY <1>2, <1>3, TopTyped, FrameTyped
<1>5. PICK i : i = Index
  OBVIOUS
<1>6. i \in Nat /\ i < insertionOffset /\ HasNext /\ i = IF f.to = All THEN startOffset ELSE f.i
  <2>1. i = IF f.to = All THEN startOffset ELSE f.i
    BY <1>1, <1>5 DEF Index
  <2>2. startOffset \in Nat
    BY DEF EventsSound, QueueOK, QueueTypeOK
  <2>3. HasNext /\ i < insertionOffset
    BY <1>5 DEF SendSkip, HasNext
  <2> QED
    BY <1>4, <2>1, <2>2, <2>3
<1>7. PICK x : x = list[i + 1]
  OBVIOUS
<1>8. /\ i + 1 \in DOMAIN list /\ i + 1 \in 1..insertionOffset /\ insertionOffset \in Nat
  BY <1>5, <1>6, NextIs DEF EventsSound
<1>9. UNCHANGED <<insertionOffset, postedEvents, events>>
  BY DEF SendSkip
<1>10. PICK g : g = Moved(f)
  OBVIOUS
<1>11. /\ g \in CallFrame(n) /\ g.call = "send" /\ g.at = f.at /\ g.to = f.to
  BY <1>2, <1>4, <1>10, MovedIs
<1>12. /\ TopSet(s, g, t)
       /\ IF f.to = All THEN startOffset' = startOffset + 1 ELSE UNCHANGED startOffset
  <2>1. Advance(s)
    BY <1>1 DEF SendSkip
  <2>2. CASE f.to = All
    <3>1. t = s /\ startOffset' = startOffset + 1
      BY <1>1, <2>1, <2>2 DEF Advance
    <3>2. g = f
      BY <1>10, <2>2 DEF Moved
    <3>3. s = [s EXCEPT ![Len(s)] = f]
      BY <1>2, <1>4
    <3> QED
      BY <2>2, <3>1, <3>2, <3>3 DEF TopSet
  <2>3. CASE f.to # All
    <3>1. t = [s EXCEPT ![Len(s)].i = @ + 1] /\ UNCHANGED startOffset
      BY <1>1, <2>1, <2>3 DEF Advance
    <3>2. g = [f EXCEPT !.i = @ + 1]
      BY <1>10, <2>3 DEF Moved
    <3> QED
      BY <1>2, <1>4, <2>3, <3>1, <3>2 DEF TopSet
  <2> QED
    BY <2>2, <2>3
<1>13. /\ StackSound(t, n) /\ Len(t) = Len(s) /\ t[Len(s)] = g
       /\ \A k \in 1..Len(s) : k # Len(s) => t[k] = s[k]
  BY <1>2, <1>3, <1>11, <1>12, SendGoes
<1>14. /\ QueueOK' /\ FrontStays
       /\ f.to # All => UNCHANGED list /\ (x.event # 0 /\ events[x.event].to = f.to => events[x.event].deletes)
  <2>1. CASE f.to = All /\ x.event # 0
    <3>1. events[x.event].deletes /\ list' = AddEvent(Nulled, x)
      BY <1>1, <1>5, <1>7, <2>1 DEF SendSkip, IsPending
    <3>2. Nulled = [list EXCEPT ![i + 1].event = 0]
      BY <1>5 DEF Nulled
    <3>3. PICK l : l = [list EXCEPT ![i + 1].event = 0]
      OBVIOUS
    <3>4. Requeues(i, x, l)
      BY <1>6, <1>7, <1>8, <1>9, <1>12, <2>1, <3>1, <3>2, <3>3 DEF Requeues
    <3> QED
      BY <1>6, <2>1, <3>4, RequeueKeepsQueue DEF EventsSound
  <2>2. CASE f.to = All /\ x.event = 0
    <3>1. UNCHANGED list /\ startOffset' = startOffset + 1 /\ i = startOffset
      BY <1>1, <1>5, <1>6, <1>7, <1>12, <2>2 DEF SendSkip, IsPending
    <3>2. startOffset' \in Nat /\ startOffset' <= insertionOffset /\ \A j \in 1..startOffset' : list[j].event = 0
      <4>1. \A j \in 1..startOffset : list[j].event = 0
        BY DEF EventsSound, QueueOK, ListOK
      <4> QED
        BY <1>6, <1>7, <1>8, <2>2, <3>1, <4>1
    <3>3. QueueOK'
      BY <1>9, <3>1, <3>2 DEF EventsSound, QueueOK, QueueTypeOK, ListOK, PostsAreCounted, InOrder, IsBefore
    <3>4. FrontStays
      BY <1>8, <1>9, <3>1, SameEvents DEF FrontStays
    <3> QED
      BY <2>2, <3>3, <3>4
  <2>3. CASE f.to # All
    <3>1. UNCHANGED list /\ UNCHANGED startOffset
      BY <1>1, <1>12, <2>3 DEF SendSkip
    <3>2. QueueOK' /\ FrontStays
      BY <1>9, <3>1, SameQueue DEF EventsSound
    <3>3. x.event # 0 /\ events[x.event].to = f.to => events[x.event].deletes
      BY <1>1, <1>5, <1>7, <2>3 DEF SendSkip, IsPending, Target
    <3> QED
      BY <3>1, <3>2, <3>3
  <2> QED
    BY <2>1, <2>2, <2>3
<1>15. FrontIsSent(g)'
  <2>1. FrontIsSent(f)
    BY <1>1, <1>2, <1>4 DEF EventsSound, SendsOK
  <2>2. f.to # All => /\ f.i < insertionOffset
                      /\ LET y == list'[f.i + 1]
                         IN  y.event # 0 /\ events'[y.event].to = f.to => events'[y.event].deletes
    BY <1>6, <1>7, <1>9, <1>14
  <2>3. insertionOffset' \in Nat
    BY <1>8, <1>9
  <2> QED
    BY <1>2, <1>4, <1>10, <1>14, <2>1, <2>2, <2>3, MovedFront DEF EventsSound
<1>16. SendsOK'
  BY <1>1, <1>4, <1>13, <1>14, <1>15, SendsMove
<1>17. DeadOK'
  BY <1>2, <1>9, SameEvents, DeadStays DEF EventsSound
<1>18. IdleOK'
  <2>1. SendsAll(g) <=> SendsAll(f)
    BY <1>2, <1>11 DEF SendsAll
  <2>2. SUFFICES ASSUME \A k \in 1..Len(t) : ~SendsAll(t[k])
                 PROVE  insertionOffset = 0
    BY <1>1, <1>9 DEF IdleOK
  <2>3. \A k \in 1..Len(s) : ~SendsAll(s[k])
    BY <1>2, <1>4, <1>13, <2>1, <2>2
  <2> QED
    BY <1>1, <2>3 DEF EventsSound, IdleOK
<1> QED
  BY <1>1, <1>9, <1>13, <1>14, <1>16, <1>17, <1>18 DEF EventsSound

\* The event e behind the index i is delivered to r.
Delivers(i, e, r, f) ==
  /\ i \in Nat /\ i + 1 \in DOMAIN list /\ i < insertionOffset
  /\ i = (IF f.to = All THEN startOffset ELSE f.i)
  /\ e = list[i + 1].event /\ e # 0 /\ r = events[e].to /\ f.to \in {All, r}
  /\ postedEvents' = [postedEvents EXCEPT ![r] = @ - 1]
  /\ list' = [list EXCEPT ![i + 1].event = 0]
  /\ events' = [events EXCEPT ![e].fate = IF f.ahead THEN "overtook" ELSE "handled"]
  /\ UNCHANGED insertionOffset
  /\ IF f.to = All THEN startOffset' = startOffset + 1 ELSE UNCHANGED startOffset

LEMMA DeliveryKeepsQueue ==
  ASSUME QueueOK, NEW i, NEW e, NEW r, NEW n, NEW f \in CallFrame(n), f.call = "send", f.at = "next",
         FrontIsSent(f), Delivers(i, e, r, f)
  PROVE  /\ QueueOK' /\ FrontStays /\ DOMAIN events' = DOMAIN events /\ e \in DOMAIN events
         /\ events[e].fate = "queued" /\ events'[e].fate \in Handled
         /\ \A a \in DOMAIN events : a # e => events'[a] = events[a]
<1>1. PICK m, ev : m = Len(events) /\ ev = events
  OBVIOUS
<1>2. /\ m \in Nat /\ DOMAIN events = 1..m /\ i + 1 \in DOMAIN list /\ DOMAIN list = 1..Len(list)
      /\ Len(list) \in Nat /\ e \in 1..m /\ events[e] \in PostedEvent /\ i \in Nat
  <2>1. e \in 0..m /\ e # 0
    BY <1>1, QueueTyped DEF QueueOK, Delivers
  <2>2. /\ m \in Nat /\ DOMAIN events = 1..m /\ i + 1 \in DOMAIN list /\ DOMAIN list = 1..Len(list)
        /\ Len(list) \in Nat
    BY <1>1, QueueTyped DEF QueueOK, Delivers
  <2>3. e \in 1..m
    BY <2>1, <2>2, NotZero, SMTT(40)
  <2> QED
    BY <2>2, <2>3, QueueTyped DEF QueueOK, Delivers
<1>3. r \in Receiver
  BY <1>2 DEF PostedEvent, Delivers
<1>4. PICK fate : fate = IF f.ahead THEN "overtook" ELSE "handled"
  OBVIOUS
<1>5. PICK T : T = {i + 1}
  OBVIOUS
<1>6. {list[k].event : k \in T} = {e} /\ Cardinality({e}) = 1
  BY <1>5, FS_Singleton DEF Delivers
<1>7. Takes(r, T, fate)
  <2>1. \A k \in T : IsPending(list[k]) /\ Target(list[k]) = r
    BY <1>5 DEF IsPending, Target, Delivers
  <2>2. fate \in {"removed", "handled", "overtook"}
    BY <1>4
  <2>3. postedEvents' = [postedEvents EXCEPT ![r] = @ - Cardinality({e})]
    BY <1>6, Zenon DEF Delivers
  <2>4. events' = [a \in DOMAIN events |-> IF a \in {e} THEN [events[a] EXCEPT !.fate = fate] ELSE events[a]]
    BY <1>2, <1>4, Zenon DEF Delivers
  <2>5. Emptied(list, T, list')
    <3>1. list' = [list EXCEPT ![i + 1].event = 0]
      BY DEF Delivers
    <3>2. list' = [k \in DOMAIN list |-> IF k = i + 1 THEN [list[k] EXCEPT !.event = 0] ELSE list[k]]
      BY <1>2, <3>1
    <3> QED
      BY <1>5, <3>2 DEF Emptied
  <2>6. /\ UNCHANGED insertionOffset
        /\ \/ UNCHANGED startOffset
           \/ startOffset' = startOffset + 1 /\ startOffset < insertionOffset /\ startOffset + 1 \in T
    BY <1>5 DEF Delivers
  <2> QED
    BY <1>6, <2>1, <2>2, <2>3, <2>4, <2>5, <2>6 DEF Takes
<1>8. ASSUME fate = "handled", NEW a \in DOMAIN events, IsBefore(a, e)
      PROVE  FALSE
  <2>1. a < e /\ events[a].fate = "queued" /\ ~events[a].deletes
        /\ events[a].to = events[e].to /\ events[a].priority = events[e].priority
    BY <1>8 DEF IsBefore
  <2>2. a \in Pendings(list)
    BY <2>1 DEF QueueOK, ListOK
  <2>3. PICK j \in DOMAIN list : list[j].event # 0 /\ list[j].event = a
    BY <2>2 DEF Pendings
  <2>4. CASE j > i + 1
    <3>1. Precedes(events, e, a)
      BY <1>2, <2>3, <2>4 DEF QueueOK, ListOK, InPostingOrder, Delivers
    <3> QED
      BY <2>1, <3>1, SMTT(40) DEF Precedes
  <2>5. CASE j = i + 1
    <3>1. a = e
      BY <2>3, <2>5 DEF Delivers
    <3> QED
      BY <1>2, <2>1, <3>1
  <2>6. CASE j < i + 1 /\ f.to = All
    <3>1. j \in 1..startOffset
      BY <1>2, <2>6 DEF Delivers
    <3> QED
      BY <2>3, <3>1 DEF QueueOK, ListOK
  <2>7. CASE j < i + 1 /\ f.to # All
    <3>1. ~f.ahead
      BY <1>4, <1>8
    <3>2. SendsOne(f) /\ f.to = events[a].to
      BY <2>1, <2>7, <3>1, SMTT(40) DEF SendsOne, Delivers
    <3>3. j \in 1..f.i
      BY <1>2, <2>7 DEF Delivers
    <3> QED
      BY <2>1, <2>3, <3>2, <3>3 DEF FrontIsSent
  <2>8. j \in Nat
    BY <1>2
  <2> QED
    BY <1>2, <2>4, <2>5, <2>6, <2>7, <2>8
<1>9. InTurn(T, fate)
  BY <1>5, <1>8 DEF InTurn, Delivers
<1>10. T \in SUBSET DOMAIN list
  BY <1>2, <1>5
<1>11. /\ QueueOK' /\ FrontStays /\ DOMAIN events' = DOMAIN events
       /\ \A a \in DOMAIN events :
            IF \E k \in T : list[k].event = a
            THEN events'[a].fate = fate /\ events[a].fate = "queued" ELSE events'[a] = events[a]
  <2>1. Taken(T, fate)
    BY <1>3, <1>7, <1>9, <1>10, TakingKeepsQueue, Zenon
  <2> QED
    BY <2>1 DEF Taken
<1>12. \A a : (\E k \in T : list[k].event = a) <=> a = e
  BY <1>5 DEF Delivers
<1>13. fate \in Handled
  BY <1>4 DEF Handled
<1>14. e \in DOMAIN events /\ \A a \in DOMAIN events : a # e => events'[a] = events[a]
  BY <1>2, <1>11, <1>12
<1>15. events'[e].fate = fate /\ events[e].fate = "queued"
  BY <1>11, <1>12, <1>14
<1> QED
  BY <1>11, <1>13, <1>14, <1>15

LEMMA DeliveryDead ==
  ASSUME DeadOK, ~Destroying, NEW e, DOMAIN events' = DOMAIN events, e \in DOMAIN events,
         SameKinds(events, events'), events'[e].fate \in Handled,
         \A a \in DOMAIN events : a # e => events'[a] = events[a],
         stack' # <<>>, Last(stack') = Notify(e)
  PROVE  DeadOK'
<1>1. SUFFICES ASSUME NEW a \in DOMAIN events, events'[a].fate = "queued", events'[a].to \in Deleted'
               PROVE  (Destroying /\ events[a].to = events[Last(stack).event].to)'
  BY DEF DeadOK
<1>2. a # e /\ events'[a] = events[a]
  BY <1>1 DEF Handled
<1>3. events[a].to \notin Deleted
  BY <1>1, <1>2 DEF DeadOK
<1>4. PICK c \in DOMAIN events : events'[c].deletes /\ events'[c].fate \in Handled /\ events'[c].to = events[a].to
  BY <1>1, <1>2 DEF Deleted, Handled
<1>5. c = e
  <2>1. SUFFICES ASSUME c # e
                 PROVE  FALSE
    OBVIOUS
  <2>2. events[c].deletes /\ events[c].fate \in Handled /\ events[c].to = events[a].to
    BY <1>4, <2>1
  <2> QED
    BY <1>3, <2>2 DEF Deleted
<1>6. Last(stack') = Notify(e) /\ Last(stack').event = e /\ Last(stack').call = "notify" /\ Last(stack').at = "handler"
  BY DEF Notify
<1> QED
  BY <1>2, <1>4, <1>5, <1>6 DEF Destroying, At

LEMMA SendDeliverKeeps ==
  ASSUME EventsSound, SendDeliver
  PROVE  EventsSound'
<1>1. PICK s, n, f, t : s = stack /\ n = Len(events) /\ f = Last(stack) /\ t = stack'
  OBVIOUS
<1>2. s # <<>> /\ f.call = "send" /\ f.at = "next" /\ ~Destroying /\ f = s[Len(s)]
  BY <1>1 DEF SendDeliver, At, Destroying, Last
<1>3. Top(s, n, f)
  BY <1>1, <1>2 DEF EventsSound, Top
<1>4. /\ StackSound(s, n) /\ s \in Seq(CallFrame(n)) /\ Len(s) \in Nat /\ Len(s) \in 1..Len(s)
      /\ f \in CallFrame(n) /\ f.i \in Nat
  BY <1>2, <1>3, TopTyped, FrameTyped
<1>5. PICK i : i = Index
  OBVIOUS
<1>6. i \in Nat /\ i < insertionOffset /\ HasNext /\ i = IF f.to = All THEN startOffset ELSE f.i
  <2>1. i = IF f.to = All THEN startOffset ELSE f.i
    BY <1>1, <1>5 DEF Index
  <2>2. startOffset \in Nat
    BY DEF EventsSound, QueueOK, QueueTypeOK
  <2>3. HasNext /\ i < insertionOffset
    BY <1>5 DEF SendDeliver, HasNext
  <2> QED
    BY <1>4, <2>1, <2>2, <2>3
<1>7. PICK e : e = list[i + 1].event
  OBVIOUS
<1>8. i + 1 \in DOMAIN list /\ insertionOffset \in Nat
  BY <1>5, <1>6, NextIs DEF EventsSound
<1>9. PICK r : r = events[e].to
  OBVIOUS
<1>10. PICK g, h, u : g = Moved(f) /\ h = Notify(e) /\ u = Append(s, h)
  OBVIOUS
<1>11. /\ g \in CallFrame(n) /\ g.call = "send" /\ g.at = f.at /\ g.to = f.to
  BY <1>2, <1>4, <1>10, MovedIs
<1>12. Advance(Append(stack, Notify(e)))
  BY <1>5, <1>7 DEF SendDeliver
<1>13. IF f.to = All THEN startOffset' = startOffset + 1 ELSE UNCHANGED startOffset
  BY <1>1, <1>12 DEF Advance
<1>14. Delivers(i, e, r, f)
  <2>1. /\ e # 0 /\ f.to \in {All, r} /\ postedEvents' = [postedEvents EXCEPT ![r] = @ - 1]
        /\ events' = [events EXCEPT ![e].fate = IF f.ahead THEN "overtook" ELSE "handled"]
        /\ UNCHANGED insertionOffset
    BY <1>1, <1>5, <1>7, <1>9 DEF SendDeliver, IsPending, Target
  <2>2. list' = [list EXCEPT ![i + 1].event = 0]
    BY <1>5 DEF SendDeliver, Nulled
  <2> QED
    BY <1>6, <1>7, <1>8, <1>9, <1>13, <2>1, <2>2 DEF Delivers
<1>15. FrontIsSent(f)
  BY <1>1, <1>2, <1>4 DEF EventsSound, SendsOK
<1>16. /\ QueueOK' /\ FrontStays /\ DOMAIN events' = DOMAIN events /\ e \in DOMAIN events
       /\ events[e].fate = "queued" /\ events'[e].fate \in Handled
       /\ \A a \in DOMAIN events : a # e => events'[a] = events[a]
  BY <1>2, <1>4, <1>14, <1>15, DeliveryKeepsQueue DEF EventsSound
<1>17. Len(events') = n /\ n \in Nat /\ DOMAIN events = 1..n
  BY <1>1, <1>16, QueueTyped DEF EventsSound, QueueOK, QueueTypeOK
<1>18. h \in CallFrame(n) /\ h.call = "notify"
  BY <1>10, <1>16, <1>17 DEF CallFrame, NotifyFrame, Notify
<1>19. StackSound(u, n) /\ Pushed(s, h, u)
  <2>1. MayCall(s, n, h)
    BY <1>2, <1>4, <1>18 DEF MayCall
  <2> QED
    BY <1>10, <2>1, PushKeepsSound
<1>20. /\ u \in Seq(CallFrame(n)) /\ Len(u) = Len(s) + 1 /\ u[Len(s) + 1] = h
       /\ \A k \in 1..Len(s) : u[k] = s[k]
  BY <1>19 DEF Pushed, StackSound
<1>21. /\ t \in Seq(CallFrame(n)) /\ Len(t) = Len(s) + 1 /\ t[Len(s)] = g /\ t[Len(s) + 1] = h
       /\ \A k \in 1..Len(s) : k # Len(s) => t[k] = s[k]
  <2>1. CASE f.to = All
    <3>1. t = u
      BY <1>1, <1>10, <1>12, <2>1 DEF Advance
    <3>2. g = f
      BY <1>10, <2>1 DEF Moved
    <3> QED
      BY <1>2, <1>4, <1>20, <3>1, <3>2
  <2>2. CASE f.to # All
    <3>1. t = [u EXCEPT ![Len(s)].i = @ + 1]
      BY <1>1, <1>10, <1>12, <2>2 DEF Advance
    <3>2. g = [f EXCEPT !.i = @ + 1] /\ u[Len(s)] = f
      BY <1>2, <1>4, <1>10, <1>20, <2>2 DEF Moved
    <3>3. Len(s) \in 1..Len(u) /\ Len(u) \in Nat
      BY <1>4, <1>20
    <3>4. t = [u EXCEPT ![Len(s)] = g]
      BY <3>1, <3>2
    <3> QED
      BY <1>4, <1>11, <1>20, <3>3, <3>4
  <2> QED
    BY <2>1, <2>2
<1>22. StackSound(t, n)
  <2>1. Len(t) = Len(u)
    BY <1>20, <1>21
  <2>2. ASSUME NEW k \in 1..Len(u)
        PROVE  /\ t[k].call = u[k].call
               /\ u[k].call = "send" => t[k].to = u[k].to /\ (t[k].at = u[k].at \/ k = Len(u))
    <3>1. CASE k = Len(s)
      BY <1>2, <1>4, <1>11, <1>20, <1>21, <3>1
    <3>2. CASE k = Len(s) + 1
      BY <1>18, <1>20, <1>21, <3>2
    <3>3. CASE k # Len(s) /\ k # Len(s) + 1
      <4>1. k \in 1..Len(s)
        BY <1>4, <1>20, <3>3
      <4> QED
        BY <1>20, <1>21, <3>3, <4>1
    <3> QED
      BY <3>1, <3>2, <3>3
  <2> QED
    BY <1>19, <1>21, <2>1, <2>2, LikeKeepsSound
<1>23. FrontIsSent(g)'
  <2>1. f.to # All => /\ f.i < insertionOffset
                      /\ LET y == list'[f.i + 1]
                         IN  y.event # 0 /\ events'[y.event].to = f.to => events'[y.event].deletes
    <3>1. SUFFICES ASSUME f.to # All
                   PROVE  f.i < insertionOffset /\ list'[f.i + 1].event = 0
      OBVIOUS
    <3>2. i = f.i
      BY <1>6, <3>1
    <3>3. i + 1 \in 1..insertionOffset
      BY <1>6, <1>8
    <3>4. list' = [list EXCEPT ![i + 1].event = 0] /\ list[i + 1] \in EventElement(Len(events))
      BY <1>14, <1>5, <1>6, NextIs DEF Delivers, EventsSound
    <3>5. list'[i + 1].event = 0
      BY <1>8, <3>4 DEF EventElement
    <3> QED
      BY <1>6, <3>2, <3>5
  <2>2. insertionOffset' \in Nat
    BY <1>8, <1>14 DEF Delivers
  <2> QED
    BY <1>2, <1>4, <1>10, <1>15, <1>16, <2>1, <2>2, MovedFront DEF EventsSound
<1>24. SendsOK'
  <2>1. SUFFICES ASSUME NEW k \in 1..Len(t)
                 PROVE  FrontIsSent(t[k])'
    BY <1>1 DEF SendsOK
  <2>2. CASE k = Len(s)
    BY <1>21, <1>23, <2>2
  <2>3. CASE k = Len(s) + 1
    BY <1>18, <1>21, <2>3 DEF FrontIsSent, SendsOne
  <2>4. CASE k # Len(s) /\ k # Len(s) + 1
    <3>1. k \in 1..Len(s)
      BY <1>4, <1>21, <2>1, <2>4
    <3>2. PICK v : v = s[k]
      OBVIOUS
    <3>3. t[k] = v /\ v \in CallFrame(n) /\ FrontIsSent(v)
      BY <1>1, <1>4, <1>21, <2>4, <3>1, <3>2, StackTyped, SMTT(40) DEF EventsSound, SendsOK
    <3>4. insertionOffset' \in Nat
      BY <1>8, <1>14 DEF Delivers
    <3>5. FrontIsSent(v)'
      BY <1>16, <3>3, <3>4, FrontIsSentStays DEF EventsSound
    <3> QED
      BY <3>3, <3>5
  <2> QED
    BY <2>2, <2>3, <2>4
<1>25. DeadOK'
  <2>1. t # <<>> /\ Last(t) = h
    BY <1>4, <1>21 DEF Last
  <2>2. SameKinds(events, events')
    BY <1>16 DEF FrontStays
  <2> QED
    BY <1>1, <1>2, <1>10, <1>16, <2>1, <2>2, DeliveryDead DEF EventsSound
<1>26. IdleOK'
  <2>1. SendsAll(g) <=> SendsAll(f)
    BY <1>2, <1>11 DEF SendsAll
  <2>2. UNCHANGED insertionOffset
    BY <1>14 DEF Delivers
  <2>3. SUFFICES ASSUME \A k \in 1..Len(t) : ~SendsAll(t[k])
                 PROVE  insertionOffset = 0
    BY <1>1, <2>2 DEF IdleOK
  <2>4. \A k \in 1..Len(s) : k \in 1..Len(t)
    BY <1>4, <1>21
  <2>5. \A k \in 1..Len(s) : ~SendsAll(s[k])
    BY <1>2, <1>4, <1>21, <2>1, <2>3, <2>4
  <2> QED
    BY <1>1, <2>5 DEF EventsSound, IdleOK
<1> QED
  BY <1>1, <1>16, <1>17, <1>22, <1>24, <1>25, <1>26 DEF EventsSound

\* A send for all ends.
CleansUp(b) ==
  /\ b = startOffset /\ startOffset = insertionOffset
  /\ list' = SubSeq(list, b + 1, Len(list)) /\ insertionOffset' = 0 /\ startOffset' = 0
  /\ UNCHANGED <<postedEvents, events>>

TailOf(X, l, b, s) ==
  l \in Seq(X) /\ b \in Nat /\ b <= Len(l) /\ s = SubSeq(l, b + 1, Len(l))

LEMMA TailIs ==
  ASSUME NEW X, NEW l, NEW b, NEW s, TailOf(X, l, b, s)
  PROVE  s \in Seq(X) /\ Len(s) = Len(l) - b /\ \A k \in 1..Len(l) - b : s[k] = l[b + k]
<1>. USE DEF TailOf
<1>1. PICK m, c : m = b + 1 /\ c = Len(l)
  OBVIOUS
<1>2. m \in Nat /\ c \in Nat /\ m > 0 /\ m <= c + 1 /\ c - m + 1 = Len(l) - b
  BY <1>1
<1>3. s = SubSeq(l, m, c)
  BY <1>1
<1>4. s \in Seq(X) /\ Len(s) = c - m + 1
  BY <1>1, <1>2, <1>3
<1>5. \A k \in 1..c - m + 1 : s[k] = l[m + k - 1]
  BY <1>1, <1>2, <1>3
<1>6. ASSUME NEW k \in 1..Len(l) - b
      PROVE  s[k] = l[b + k]
  <2>1. k \in 1..c - m + 1 /\ m + k - 1 = b + k
    BY <1>1, <1>2
  <2> QED
    BY <1>5, <2>1
<1> QED
  BY <1>2, <1>4, <1>6

\* What it leaves of the list.
LEMMA TailKeepsQueue ==
  ASSUME QueueOK, NEW b, CleansUp(b)
  PROVE  QueueOK'
<1>1. PICK n, l, s, ev : n = Len(events) /\ l = list /\ s = list' /\ ev = events
  OBVIOUS
<1>2. /\ n \in Nat /\ l \in Seq(EventElement(n)) /\ Len(l) \in Nat /\ DOMAIN l = 1..Len(l)
      /\ b \in Nat /\ b <= Len(l)
  BY <1>1, QueueTyped DEF QueueOK, QueueTypeOK, CleansUp
<1>3. s = SubSeq(l, b + 1, Len(l))
  BY <1>1 DEF CleansUp
<1>14. /\ s \in Seq(EventElement(n)) /\ Len(s) = Len(l) - b
       /\ \A k \in 1..Len(l) - b : s[k] = l[b + k]
  <2>1. PICK X : X = EventElement(n)
    OBVIOUS
  <2>2. TailOf(X, l, b, s)
    BY <1>2, <1>3, <2>1 DEF TailOf
  <2> QED
    BY <2>1, <2>2, TailIs
<1>4. s \in Seq(EventElement(n)) /\ Len(s) = Len(l) - b /\ DOMAIN s = 1..Len(l) - b
  BY <1>2, <1>14
<1>5. \A k \in 1..Len(l) - b : s[k] = l[b + k] /\ b + k \in b + 1..Len(l) /\ b + k \in DOMAIN l
  BY <1>2, <1>14
<1>6. Sorted(l, b) /\ HasPriorities(l, ev) /\ InPostingOrder(l, ev) /\ \A j \in 1..b : l[j].event = 0
  BY <1>1 DEF QueueOK, ListOK, CleansUp
<1>7. Sorted(s, 0)
  <2>1. SUFFICES ASSUME NEW j \in 1..Len(s), NEW k \in 1..Len(s), j < k
                 PROVE  s[j].priority >= s[k].priority
    BY DEF Sorted
  <2>2. b + j < b + k /\ b + j \in b + 1..Len(l) /\ b + k \in b + 1..Len(l)
    BY <1>2, <1>4, <1>5, <2>1
  <2> QED
    BY <1>4, <1>5, <1>6, <2>2 DEF Sorted
<1>8. HasPriorities(s, ev)
  BY <1>4, <1>5, <1>6 DEF HasPriorities
<1>9. InPostingOrder(s, ev)
  <2>1. SUFFICES ASSUME NEW j \in DOMAIN s, NEW k \in DOMAIN s, j < k, s[j].event # 0, s[k].event # 0
                 PROVE  Precedes(ev, s[j].event, s[k].event)
    BY DEF InPostingOrder
  <2>2. b + j < b + k /\ b + j \in DOMAIN l /\ b + k \in DOMAIN l /\ s[j] = l[b + j] /\ s[k] = l[b + k]
    <3>1. j \in 1..Len(l) - b /\ k \in 1..Len(l) - b
      BY <1>4, <2>1
    <3>2. b + j < b + k
      BY <1>2, <2>1, <3>1
    <3> QED
      BY <1>5, <3>1, <3>2
  <2> QED
    BY <1>6, <2>1, <2>2 DEF InPostingOrder
<1>10. Pendings(s) = Pendings(l)
  <2>1. \A e \in Pendings(s) : e \in Pendings(l)
    BY <1>4, <1>5 DEF Pendings
  <2>2. ASSUME NEW e \in Pendings(l)
        PROVE  e \in Pendings(s)
    <3>1. PICK j \in DOMAIN l : l[j].event # 0 /\ e = l[j].event
      BY DEF Pendings
    <3>2. j - b \in 1..Len(l) - b /\ b + (j - b) = j
      BY <1>2, <1>6, <3>1
    <3> QED
      BY <1>4, <1>5, <3>1, <3>2 DEF Pendings
  <2> QED
    BY <2>1, <2>2
<1>11. ListOK'
  BY <1>1, <1>7, <1>8, <1>9, <1>10 DEF QueueOK, ListOK, CleansUp
<1>12. QueueTypeOK'
  <2>1. /\ Len(events') = n /\ list' \in Seq(EventElement(n)) /\ Len(list') \in Nat
        /\ UNCHANGED <<postedEvents, events>> /\ insertionOffset' = 0 /\ startOffset' = 0
    BY <1>1, <1>4 DEF CleansUp
  <2> QED
    BY <2>1 DEF QueueOK, QueueTypeOK
<1>13. PostsAreCounted' /\ InOrder'
  <2>1. UNCHANGED <<postedEvents, events>>
    BY DEF CleansUp
  <2> QED
    BY <2>1 DEF QueueOK, PostsAreCounted, InOrder, IsBefore
<1> QED
  BY <1>11, <1>12, <1>13 DEF QueueOK

LEMMA AheadIs ==
  ASSUME NEW n, NEW f \in CallFrame(n), NEW g, g = Ahead(f)
  PROVE  /\ g \in CallFrame(n) /\ g.call = f.call /\ ~SendsOne(g)
         /\ f.call = "send" => g.to = f.to /\ g.at = f.at
<1>1. CASE f.call = "send" /\ f.to # All
  <2>1. f \in SendFrame
    BY <1>1, FrameTyped
  <2>2. g = [f EXCEPT !.ahead = TRUE]
    BY <1>1 DEF Ahead
  <2>3. g \in SendFrame /\ g.call = "send" /\ g.to = f.to /\ g.at = f.at /\ g.ahead
    BY <1>1, <2>1, <2>2 DEF SendFrame
  <2> QED
    BY <1>1, <2>3 DEF CallFrame, SendsOne
<1>2. CASE ~(f.call = "send" /\ f.to # All)
  <2>1. g = f
    BY <1>2 DEF Ahead
  <2> QED
    BY <1>2, <2>1 DEF SendsOne
<1> QED
  BY <1>1, <1>2

LEMMA SendEndKeeps ==
  ASSUME EventsSound, SendEnd
  PROVE  EventsSound'
<1>1. PICK s, n, f, t : s = stack /\ n = Len(events) /\ f = Last(stack) /\ t = stack'
  OBVIOUS
<1>2. s # <<>> /\ f.call = "send" /\ f.at = "next" /\ ~Destroying /\ f = s[Len(s)]
  BY <1>1 DEF SendEnd, At, Destroying, Last
<1>3. UNCHANGED <<postedEvents, deleteLaterCalled, events>>
  BY DEF SendEnd
<1>4. CASE f.to # All
  <2>1. UNCHANGED <<list, insertionOffset, startOffset>> /\ Returns
    BY <1>1, <1>4 DEF SendEnd
  <2>2. ~SendsAll(f)
    BY <1>4 DEF SendsAll
  <2> QED
    BY <1>1, <1>2, <1>3, <2>1, <2>2, PopKeeps DEF Returns, queue
<1>5. CASE f.to = All
  <2>1. PICK b : b = startOffset
    OBVIOUS
  <2>2. /\ list' = SubSeq(list, b + 1, Len(list)) /\ insertionOffset' = insertionOffset - b
        /\ startOffset' = 0 /\ t = [k \in 1..Len(s) - 1 |-> Ahead(s[k])]
    BY <1>1, <1>5, <2>1 DEF SendEnd
  <2>3. b = insertionOffset /\ b \in Nat
    <3>1. ~(startOffset < Len(list) /\ startOffset < insertionOffset)
      BY <1>1, <1>5 DEF SendEnd, HasNext, Index
    <3>2. /\ startOffset \in Nat /\ insertionOffset \in Nat /\ startOffset <= insertionOffset
          /\ insertionOffset <= Len(list) /\ Len(list) \in Nat
      BY QueueTyped DEF EventsSound, QueueOK, QueueTypeOK
    <3> QED
      BY <2>1, <3>1, <3>2
  <2>4. insertionOffset' = 0
    BY <2>2, <2>3
  <2>5. CleansUp(b)
    BY <1>3, <2>1, <2>2, <2>3, <2>4 DEF CleansUp
  <2>6. QueueOK'
    BY <2>5, TailKeepsQueue DEF EventsSound
  <2>7. StackSound(s, n) /\ s \in Seq(CallFrame(n)) /\ Len(s) \in Nat /\ \A k \in 1..Len(s) : s[k] \in CallFrame(n)
    BY <1>1, StackTyped DEF EventsSound
  <2>8. PICK u : u = Front(s)
    OBVIOUS
  <2>9. StackSound(u, n) /\ Len(u) = Len(s) - 1 /\ \A k \in 1..Len(u) : k \in 1..Len(s) /\ u[k] = s[k]
    BY <1>2, <2>7, <2>8, PopKeepsSound
  <2>10. \A k \in 1..Len(u) : t[k] = Ahead(u[k]) /\ u[k] \in CallFrame(n)
    BY <2>2, <2>7, <2>9
  <2>11. \A k \in 1..Len(u) :
           /\ t[k] \in CallFrame(n) /\ t[k].call = u[k].call /\ ~SendsOne(t[k])
           /\ u[k].call = "send" => t[k].to = u[k].to /\ t[k].at = u[k].at
    BY <2>10, AheadIs
  <2>12. t \in Seq(CallFrame(n)) /\ Len(t) = Len(u)
    <3>1. PICK m : m = Len(u)
      OBVIOUS
    <3>2. m \in Nat /\ t = [k \in 1..m |-> t[k]]
      BY <2>2, <2>7, <2>9, <3>1, StackTyped
    <3>3. \A k \in 1..m : t[k] \in CallFrame(n)
      BY <2>11, <3>1
    <3>4. t \in Seq(CallFrame(n)) /\ Len(t) = m
      BY <3>2, <3>3
    <3> QED
      BY <3>1, <3>4
  <2>13. StackSound(t, n)
    BY <2>9, <2>11, <2>12, LikeKeepsSound
  <2>14. SendsOK'
    BY <1>1, <2>11, <2>12 DEF SendsOK, FrontIsSent
  <2>15. IdleOK'
    BY <2>4 DEF IdleOK
  <2>16. DeadOK'
    BY <1>2, <1>3, SameEvents, DeadStays DEF EventsSound
  <2> QED
    BY <1>1, <1>3, <2>6, <2>13, <2>14, <2>15, <2>16 DEF EventsSound
<1> QED
  BY <1>4, <1>5

-----------------------------------------------------------------------------
(* removePostedEvents, and the destruction of an object.                   *)

LEMMA RemovalIsTaking ==
  ASSUME QueueOK, NEW r \in Receiver, NEW depth, depth = 0 => insertionOffset = 0,
         RemovePostedEvents(r, TRUE, depth) \/ RemovePostedEvents(r, FALSE, depth)
  PROVE  /\ QueueOK' /\ FrontStays /\ Calm /\ UNCHANGED insertionOffset
         /\ RemovePostedEvents(r, TRUE, depth) =>
              \A e \in DOMAIN events' : events'[e].fate = "queued" => events'[e].to # r
<1>1. PICK T \in SUBSET DOMAIN list :
        /\ Takes(r, T, "removed")
        /\ RemovePostedEvents(r, TRUE, depth) =>
             \A k \in DOMAIN list : IsPending(list[k]) /\ Target(list[k]) = r => k \in T
  <2>1. CASE RemovePostedEvents(r, TRUE, depth)
    <3>1. PICK T : T = {k \in DOMAIN list : IsPending(list[k]) /\ Target(list[k]) = r}
      OBVIOUS
    <3>2. PICK U : U = {k \in DOMAIN list : /\ IsPending(list[k]) /\ Target(list[k]) = r
                                            /\ TRUE \/ ~events[list[k].event].deletes}
      OBVIOUS
    <3>3. T = U
      BY <3>1, <3>2
    <3>4. PICK G : G = {list[k].event : k \in T}
      OBVIOUS
    <3>5. /\ postedEvents' = [postedEvents EXCEPT ![r] = @ - Cardinality(G)]
          /\ events' = [e \in DOMAIN events |-> IF e \in G THEN [events[e] EXCEPT !.fate = "removed"] ELSE events[e]]
          /\ IF depth = 0 THEN list' = Compacted(list, DOMAIN list \ T)
             ELSE list' = [k \in DOMAIN list |-> IF k \in T THEN [list[k] EXCEPT !.event = 0] ELSE list[k]]
          /\ UNCHANGED <<startOffset, insertionOffset>>
      BY <2>1, <3>2, <3>3, <3>4 DEF RemovePostedEvents
    <3>6. Takes(r, T, "removed")
      BY <3>1, <3>4, <3>5 DEF Takes, Emptied
    <3> QED
      BY <3>1, <3>6
  <2>2. CASE ~RemovePostedEvents(r, TRUE, depth) /\ RemovePostedEvents(r, FALSE, depth)
    <3>1. PICK T : T = {k \in DOMAIN list : /\ IsPending(list[k]) /\ Target(list[k]) = r
                                            /\ ~events[list[k].event].deletes}
      OBVIOUS
    <3>2. PICK U : U = {k \in DOMAIN list : /\ IsPending(list[k]) /\ Target(list[k]) = r
                                            /\ FALSE \/ ~events[list[k].event].deletes}
      OBVIOUS
    <3>3. T = U
      BY <3>1, <3>2
    <3>4. PICK G : G = {list[k].event : k \in T}
      OBVIOUS
    <3>5. /\ postedEvents' = [postedEvents EXCEPT ![r] = @ - Cardinality(G)]
          /\ events' = [e \in DOMAIN events |-> IF e \in G THEN [events[e] EXCEPT !.fate = "removed"] ELSE events[e]]
          /\ IF depth = 0 THEN list' = Compacted(list, DOMAIN list \ T)
             ELSE list' = [k \in DOMAIN list |-> IF k \in T THEN [list[k] EXCEPT !.event = 0] ELSE list[k]]
          /\ UNCHANGED <<startOffset, insertionOffset>>
      BY <2>2, <3>2, <3>3, <3>4 DEF RemovePostedEvents
    <3>6. Takes(r, T, "removed")
      BY <3>1, <3>4, <3>5 DEF Takes, Emptied
    <3> QED
      BY <2>2, <3>1, <3>6
  <2> QED
    BY <2>1, <2>2
<1>2. /\ QueueOK' /\ FrontStays /\ DOMAIN events' = DOMAIN events
      /\ \A e \in DOMAIN events :
           IF \E k \in T : list[k].event = e
           THEN events'[e].fate = "removed" /\ events[e].fate = "queued" ELSE events'[e] = events[e]
  <2>1. PICK fate : fate = "removed"
    OBVIOUS
  <2>2. Takes(r, T, fate) /\ InTurn(T, fate)
    BY <1>1, <2>1 DEF InTurn
  <2>3. Taken(T, fate)
    BY <2>2, TakingKeepsQueue, Zenon
  <2> QED
    BY <2>1, <2>3 DEF Taken
<1>3. SameKinds(events, events')
  BY <1>2 DEF FrontStays
<1>4. Calm
  BY <1>2, <1>3 DEF Calm
<1>5. UNCHANGED insertionOffset
  BY <1>1 DEF Takes
<1>6. ASSUME RemovePostedEvents(r, TRUE, depth), NEW e \in DOMAIN events', events'[e].fate = "queued"
      PROVE  events'[e].to # r
  <2>1. e \in DOMAIN events /\ events'[e] = events[e] /\ ~\E k \in T : list[k].event = e
    BY <1>2, <1>6
  <2>2. e \in Pendings(list)
    BY <1>6, <2>1 DEF QueueOK, ListOK
  <2>3. PICK k \in DOMAIN list : list[k].event # 0 /\ list[k].event = e
    BY <2>2 DEF Pendings
  <2>4. events[e].to # r
    BY <1>1, <1>6, <2>1, <2>3 DEF IsPending, Target
  <2> QED
    BY <2>1, <2>4
<1> QED
  BY <1>2, <1>4, <1>5, <1>6

LEMMA FramesAreFinite ==
  ASSUME NEW n, StackSound(stack, n), NEW S, NEW P, P \in SUBSET Frames(S)
  PROVE  IsFiniteSet(P) /\ Cardinality(P) \in Nat /\ (Cardinality(P) = 0 => P = {})
<1>1. Len(stack) \in Nat /\ DOMAIN stack = 1..Len(stack)
  BY StackTyped
<1>2. P \subseteq 1..Len(stack)
  BY <1>1 DEF Frames
<1>3. IsFiniteSet(1..Len(stack))
  BY <1>1, FS_Interval
<1>4. IsFiniteSet(P)
  BY <1>2, <1>3, FS_Subset
<1> QED
  BY <1>4, FS_CardinalityType, FS_EmptySet

LEMMA LevelsAreNat ==
  ASSUME EventsSound
  PROVE  loopLevel \in Nat /\ scopeLevel \in Nat /\ loopLevel + scopeLevel \in Nat
<1>1. StackSound(stack, Len(events))
  BY DEF EventsSound
<1>2. PICK P : P = {k \in Frames({"exec"}) : stack[k].at # "enter"}
  OBVIOUS
<1>3. loopLevel \in Nat
  BY <1>1, <1>2, FramesAreFinite DEF loopLevel
<1>4. PICK Q : Q = Frames({"notify"})
  OBVIOUS
<1>5. scopeLevel \in Nat
  BY <1>1, <1>4, FramesAreFinite DEF scopeLevel
<1> QED
  BY <1>3, <1>5

\* A handler runs inside a send.
LEMMA HandlersAreSent ==
  ASSUME EventsSound, At("notify", "handler")
  PROVE  recursion # 0
<1>1. PICK s, n, f : s = stack /\ n = Len(events) /\ f = stack[Len(stack)]
  OBVIOUS
<1>2. StackSound(s, n) /\ s # <<>> /\ f.call = "notify"
  BY <1>1 DEF EventsSound, At, Last
<1>3. Top(s, n, f)
  BY <1>1, <1>2 DEF Top
<1>4. Len(s) \in Nat /\ Len(s) \in 1..Len(s) /\ FrameSound(s, Len(s)) /\ DOMAIN s = 1..Len(s)
  BY <1>2, <1>3, TopTyped, StackTyped
<1>5. Len(s) - 1 \in DOMAIN s /\ s[Len(s) - 1].call = "send"
  BY <1>1, <1>2, <1>4 DEF FrameSound
<1>6. PICK P : P = Frames({"send"})
  OBVIOUS
<1>7. Len(s) - 1 \in P
  BY <1>1, <1>5, <1>6 DEF Frames
<1>8. Cardinality(P) = 0 => P = {}
  BY <1>1, <1>2, <1>6, FramesAreFinite
<1> QED
  BY <1>6, <1>7, <1>8 DEF recursion

\* Nobody walks the list.
LEMMA NobodySends ==
  ASSUME EventsSound, NEW depth,
         depth \in {recursion, Cardinality({k \in Frames({"send"}) : stack[k].at # "enter"})}, depth = 0
  PROVE  insertionOffset = 0
<1>1. PICK P : P = {k \in Frames({"send"}) : stack[k].at # "enter"}
  OBVIOUS
<1>2. PICK Q : Q = Frames({"send"})
  OBVIOUS
<1>3. StackSound(stack, Len(events)) /\ DOMAIN stack = 1..Len(stack)
  BY StackTyped DEF EventsSound
<1>4. (Cardinality(P) = 0 => P = {}) /\ (Cardinality(Q) = 0 => Q = {})
  BY <1>1, <1>2, <1>3, FramesAreFinite
<1>5. P = {}
  BY <1>1, <1>2, <1>4 DEF recursion
<1>6. \A k \in 1..Len(stack) : ~SendsAll(stack[k])
  BY <1>1, <1>3, <1>5 DEF Frames, SendsAll
<1> QED
  BY <1>6 DEF EventsSound, IdleOK

\* An event is posted to an object that lives.
LEMMA PostingKeeps ==
  ASSUME EventsSound, NEW l \in Nat, PostOrdinary \/ DeleteLater(l), UNCHANGED stack
  PROVE  EventsSound' /\ canWait' = FALSE
<1>1. PICK e \in PostedEvent : e.fate = "queued" /\ e.to \in Live /\ Post(e)
  <2>1. Live \subseteq Receiver
    BY DEF Live
  <2>2. CASE PostOrdinary
    <3>1. PICK e \in Ordinary : Post(e)
      BY <2>2 DEF PostOrdinary
    <3>2. PICK D1, D2 : D1 = {FALSE} /\ D2 = BOOLEAN
      OBVIOUS
    <3>3. \A d \in D1 : d \in D2
      BY <3>2, Zenon
    <3>4. e \in [to : Live, priority : Priority, deletes : D1, level : {0}, fate : {"queued"}]
      BY <3>1, <3>2 DEF Ordinary
    <3>5. e \in [to : Receiver, priority : Priority, deletes : D2, level : Nat,
                 fate : {"queued", "removed", "handled", "overtook"}]
      BY <2>1, <3>3, <3>4
    <3>6. e \in PostedEvent /\ e.fate = "queued" /\ e.to \in Live
      BY <3>2, <3>4, <3>5 DEF PostedEvent
    <3> QED
      BY <3>1, <3>6
  <2>3. CASE DeleteLater(l)
    <3>1. PICK r \in Live : Post(DeferredDelete(r, l))
      BY <2>3 DEF DeleteLater
    <3>2. PICK e : e = DeferredDelete(r, l)
      OBVIOUS
    <3>3. e \in PostedEvent /\ e.fate = "queued" /\ e.to \in Live
      BY <2>1, <3>2, EventsAssumption DEF DeferredDelete, PostedEvent
    <3> QED
      BY <3>1, <3>2, <3>3
  <2> QED
    BY <2>2, <2>3
<1>2. QueueOK' /\ FrontStays /\ events' = Append(events, e)
  BY <1>1, PostKeepsQueue DEF EventsSound
<1>3. PICK n : n = Len(events)
  OBVIOUS
<1>4. n \in Nat /\ DOMAIN events = 1..n /\ Len(events') = n + 1 /\ DOMAIN events' = 1..n + 1
      /\ events'[n + 1] = e /\ \A a \in 1..n : events'[a] = events[a]
  <2>1. events \in Seq(PostedEvent)
    BY DEF EventsSound, QueueOK, QueueTypeOK
  <2> QED
    BY <1>2, <1>3, <2>1
<1>5. Calm
  <2>1. SameKinds(events, events')
    BY <1>2 DEF FrontStays
  <2>2. \A a \in DOMAIN events' : a \in DOMAIN events \/ events'[a] = e
    BY <1>4
  <2> QED
    BY <1>1, <1>4, <2>1, <2>2 DEF Calm
<1>6. UNCHANGED insertionOffset /\ canWait' = FALSE
  BY <1>1 DEF Post
<1>7. StackSound(stack, Len(events))'
  BY <1>3, <1>4, GrowKeepsSound DEF EventsSound
<1> QED
  BY <1>2, <1>5, <1>6, <1>7, StackSame, CalmKeeps

LEMMA RemovingKeeps ==
  ASSUME EventsSound, NEW r \in Live, NEW depth, RemovePostedEvents(r, FALSE, depth), UNCHANGED stack,
         depth = 0 => insertionOffset = 0
  PROVE  EventsSound'
<1>1. r \in Receiver
  BY DEF Live
<1>2. QueueOK' /\ FrontStays /\ Calm /\ UNCHANGED insertionOffset
  BY <1>1, RemovalIsTaking DEF EventsSound
<1>3. StackSound(stack, Len(events))'
  <2>1. Len(events') = Len(events)
    BY QueueTyped DEF EventsSound, QueueOK, RemovePostedEvents, QueueTypeOK
  <2> QED
    BY <2>1 DEF EventsSound
<1> QED
  BY <1>2, <1>3, StackSame, CalmKeeps

LEMMA DestroyIsSound ==
  ASSUME EventsSound, Destroy
  PROVE  EventsSound'
<1>1. PICK s, n, f, t : s = stack /\ n = Len(events) /\ f = Last(stack) /\ t = stack'
  OBVIOUS
<1>2. s # <<>> /\ f.call = "notify" /\ f = s[Len(s)] /\ At("notify", "handler")
  BY <1>1 DEF Destroy, Destroying, At, Last
<1>3. Top(s, n, f)
  BY <1>1, <1>2 DEF EventsSound, Top
<1>4. f \in CallFrame(n) /\ f.event \in 1..n /\ StackSound(s, n) /\ Len(s) \in Nat
  BY <1>2, <1>3, TopTyped, FrameTyped
<1>5. PICK r : r = events[f.event].to
  OBVIOUS
<1>6. r \in Receiver /\ DOMAIN events = 1..n
  BY <1>1, <1>4, <1>5, QueueTyped DEF EventsSound, QueueOK, PostedEvent
<1>7. RemovePostedEvents(r, TRUE, recursion)
  BY <1>1, <1>5 DEF Destroy
<1>8. recursion # 0
  BY <1>2, HandlersAreSent
<1>9. /\ QueueOK' /\ FrontStays /\ Calm /\ UNCHANGED insertionOffset
      /\ \A e \in DOMAIN events' : events'[e].fate = "queued" => events'[e].to # r
  BY <1>6, <1>7, <1>8, RemovalIsTaking DEF EventsSound
<1>10. DOMAIN events' = 1..n /\ Len(events') = n
  BY <1>1, <1>6, <1>7, <1>9, QueueTyped DEF EventsSound, QueueOK, RemovePostedEvents, QueueTypeOK
<1>11. t = Front(s)
  BY <1>1 DEF Destroy, Returns
<1>12. StackSound(t, n) /\ Len(t) = Len(s) - 1 /\ \A k \in 1..Len(t) : k \in 1..Len(s) /\ t[k] = s[k]
  BY <1>2, <1>4, <1>11, PopKeepsSound
<1>13. StackKeeps
  <2>1. \A k \in 1..Len(s) : k = Len(s) \/ k \in 1..Len(t)
    BY <1>4, <1>12
  <2>2. ~SendsAll(s[Len(s)])
    BY <1>2 DEF SendsAll
  <2> QED
    BY <1>1, <1>12, <2>1, <2>2 DEF StackKeeps
<1>14. SendsOK'
  <2>1. insertionOffset' \in Nat
    BY <1>9 DEF QueueOK, QueueTypeOK
  <2> QED
    BY <1>9, <1>13, <2>1, SendsStay DEF EventsSound
<1>15. IdleOK'
  BY <1>9, <1>13 DEF EventsSound, IdleOK, StackKeeps
<1>16. DeadOK'
  <2>1. Deleted' = Deleted
    BY <1>9, DeletedStays DEF EventsSound
  <2>2. SUFFICES ASSUME NEW e \in DOMAIN events', events'[e].fate = "queued"
                 PROVE  events'[e].to \notin Deleted
    BY <2>1 DEF DeadOK
  <2>3. e \in DOMAIN events /\ events[e].fate = "queued" /\ events[e].to = events'[e].to /\ events'[e].to # r
    BY <1>6, <1>9, <1>10, <2>2 DEF Calm, SameKinds
  <2> QED
    BY <1>1, <1>5, <2>3 DEF EventsSound, DeadOK
<1> QED
  BY <1>1, <1>9, <1>10, <1>12, <1>14, <1>15, <1>16 DEF EventsSound

-----------------------------------------------------------------------------
(* Loops, processEvents, handlers and other threads.                       *)

\* The call on top, by name.
LEMMA OnTop ==
  ASSUME EventsSound, NEW call, NEW at, At(call, at), NEW f, f = Last(stack)
  PROVE  /\ stack # <<>> /\ f \in CallFrame(Len(events)) /\ f.call = call /\ f.at = at
         /\ f = stack[Len(stack)] /\ Len(stack) \in 1..Len(stack) /\ DOMAIN stack = 1..Len(stack)
         /\ Len(stack) \in Nat
         /\ call # "notify" => ~Destroying
<1>1. stack # <<>> /\ f.call = call /\ f.at = at /\ f = stack[Len(stack)]
  BY DEF At, Last
<1>2. StackSound(stack, Len(events))
  BY DEF EventsSound
<1>3. /\ Len(stack) \in 1..Len(stack) /\ f \in CallFrame(Len(events)) /\ DOMAIN stack = 1..Len(stack)
      /\ Len(stack) \in Nat
  BY <1>1, <1>2, StackTyped
<1>4. call # "notify" => ~Destroying
  BY DEF Destroying, At
<1> QED
  BY <1>1, <1>3, <1>4

LEMMA GoingKeeps ==
  ASSUME EventsSound, NEW call \in {"process", "exec"}, NEW at, At(call, at), NEW to, Goes(to), UNCHANGED queue,
         call = "process" => to \in {"begin", "sent", "interrupt", "poll", "read", "clear"},
         call = "exec" => to \in {"enter", "loop", "leave", "left"}
  PROVE  EventsSound'
<1>1. PICK f : f = Last(stack)
  OBVIOUS
<1>2. /\ stack # <<>> /\ f \in CallFrame(Len(events)) /\ f.call = call /\ f.at = at
      /\ f = stack[Len(stack)] /\ Len(stack) \in 1..Len(stack) /\ DOMAIN stack = 1..Len(stack)
      /\ ~Destroying
  BY <1>1, OnTop
<1>3. PICK g : g = [f EXCEPT !.at = to]
  OBVIOUS
<1>4. g \in CallFrame(Len(events)) /\ g.call = f.call
  <2>1. CASE call = "process"
    <3>1. f \in ProcessFrame
      BY <1>2, <2>1, FrameTyped
    <3>2. g \in ProcessFrame /\ g.call = f.call
      BY <1>3, <2>1, <3>1 DEF ProcessFrame
    <3> QED
      BY <3>2 DEF CallFrame
  <2>2. CASE call = "exec"
    <3>1. f \in ExecFrame
      BY <1>2, <2>2, FrameTyped
    <3>2. g \in ExecFrame /\ g.call = f.call
      BY <1>3, <2>2, <3>1 DEF ExecFrame
    <3> QED
      BY <3>2 DEF CallFrame
  <2> QED
    BY <2>1, <2>2
<1>5. stack' = [stack EXCEPT ![Len(stack)] = g]
  BY <1>2, <1>3 DEF Goes
<1> QED
  BY <1>1, <1>2, <1>4, <1>5, GoKeeps

LEMMA ReturningKeeps ==
  ASSUME EventsSound, NEW call \in {"process", "exec", "notify"}, NEW at, At(call, at), Returns, UNCHANGED queue,
         ~Destroying
  PROVE  EventsSound'
<1>1. PICK f : f = Last(stack)
  OBVIOUS
<1>2. stack # <<>> /\ f.call = call
  BY <1>1, OnTop
<1>3. ~SendsAll(f)
  BY <1>2 DEF SendsAll
<1> QED
  BY <1>1, <1>2, <1>3, PopKeeps DEF Returns

LEMMA ProcessBeginKeeps ==
  ASSUME EventsSound, ProcessBegin
  PROVE  EventsSound'
<1>1. PICK s, n, f, t : s = stack /\ n = Len(events) /\ f = Last(stack) /\ t = stack'
  OBVIOUS
<1>2. /\ s # <<>> /\ f \in CallFrame(n) /\ f.call = "process" /\ f = s[Len(s)]
      /\ Len(s) \in 1..Len(s) /\ DOMAIN s = 1..Len(s) /\ Len(s) \in Nat /\ ~Destroying
  BY <1>1, OnTop DEF ProcessBegin
<1>3. StackSound(s, n) /\ \A k \in 1..Len(s) : s[k] \in CallFrame(n)
  BY <1>1, StackTyped DEF EventsSound
<1>4. PICK u : u = [k \in 1..Len(s) |->
                     IF k = Len(s) THEN [s[k] EXCEPT !.at = "sent"]
                     ELSE IF s[k].call = "process" THEN [s[k] EXCEPT !.disturbed = TRUE]
                     ELSE s[k]]
  OBVIOUS
<1>5. PICK h : h = SendPostedEvents(All)
  OBVIOUS
<1>6. t = Append(u, h)
  BY <1>1, <1>2, <1>4, <1>5 DEF ProcessBegin
<1>7. ASSUME NEW k \in 1..Len(s)
      PROVE  /\ u[k] \in CallFrame(n) /\ u[k].call = s[k].call
             /\ s[k].call = "process" \/ u[k] = s[k]
  <2>1. CASE s[k].call = "process"
    <3>1. s[k] \in ProcessFrame
      BY <1>3, <2>1, FrameTyped
    <3>2. \/ u[k] = [s[k] EXCEPT !.at = "sent"]
          \/ u[k] = [s[k] EXCEPT !.disturbed = TRUE]
      BY <1>4, <2>1
    <3>3. u[k] \in ProcessFrame /\ u[k].call = s[k].call
      BY <2>1, <3>1, <3>2 DEF ProcessFrame
    <3> QED
      BY <2>1, <3>3 DEF CallFrame
  <2>2. CASE s[k].call # "process"
    BY <1>2, <1>3, <1>4, <2>2
  <2> QED
    BY <2>1, <2>2
<1>8. u \in Seq(CallFrame(n)) /\ Len(u) = Len(s)
  <2>1. PICK m : m = Len(s)
    OBVIOUS
  <2>2. m \in Nat /\ u = [k \in 1..m |-> u[k]] /\ \A k \in 1..m : u[k] \in CallFrame(n)
    BY <1>2, <1>4, <1>7, <2>1
  <2>3. u \in Seq(CallFrame(n)) /\ Len(u) = m
    BY <2>2
  <2> QED
    BY <2>1, <2>3
<1>9. StackSound(u, n)
  <2>1. \A k \in 1..Len(s) : s[k].call = "send" => u[k] = s[k]
    BY <1>7
  <2> QED
    BY <1>3, <1>7, <1>8, <2>1, LikeKeepsSound
<1>10. h \in CallFrame(n) /\ h.call = "send" /\ h.at = "enter" /\ h.to = All
  BY <1>5 DEF SendPostedEvents, CallFrame, SendFrame
<1>11. StackSound(t, n) /\ Pushed(u, h, t)
  <2>1. u[Len(u)].call = "process"
    BY <1>2, <1>7, <1>8
  <2>2. MayCall(u, n, h)
    BY <1>9, <1>10, <2>1 DEF MayCall
  <2> QED
    BY <1>6, <2>2, PushKeepsSound
<1>12. Len(t) = Len(s) + 1 /\ t[Len(s) + 1] = h /\ \A k \in 1..Len(s) : t[k] = u[k]
  BY <1>8, <1>11 DEF Pushed
<1>13. StackKeeps
  <2>1. ASSUME NEW k \in 1..Len(t), SendsOne(t[k])
        PROVE  \E j \in 1..Len(s) : t[k] = s[j]
    <3>1. k # Len(s) + 1
      BY <1>10, <1>12, <2>1 DEF SendsOne
    <3>2. k \in 1..Len(s) /\ t[k] = u[k]
      BY <1>2, <1>12, <3>1
    <3>3. u[k] = s[k]
      BY <1>7, <2>1, <3>2 DEF SendsOne
    <3> QED
      BY <3>2, <3>3
  <2>2. ASSUME NEW k \in 1..Len(s), SendsAll(s[k])
        PROVE  k \in 1..Len(t) /\ SendsAll(t[k])
    <3>1. u[k] = s[k]
      BY <1>7, <2>2 DEF SendsAll
    <3> QED
      BY <1>2, <1>12, <2>2, <3>1
  <2> QED
    BY <1>1, <2>1, <2>2 DEF StackKeeps
<1>14. UNCHANGED queue
  BY DEF ProcessBegin
<1> QED
  BY <1>1, <1>2, <1>11, <1>13, <1>14, CallsKeep

LEMMA ProcessKeeps ==
  ASSUME EventsSound, Process
  PROVE  EventsSound'
<1>1. ASSUME ProcessCanWait
      PROVE  EventsSound'
  <2>1. PICK f : f = Last(stack)
    OBVIOUS
  <2>2. /\ stack # <<>> /\ f \in CallFrame(Len(events)) /\ f.call = "process" /\ f.at = "sent"
        /\ f = stack[Len(stack)] /\ Len(stack) \in 1..Len(stack) /\ DOMAIN stack = 1..Len(stack)
        /\ ~Destroying
    BY <1>1, <2>1, OnTop DEF ProcessCanWait
  <2>3. f \in ProcessFrame
    BY <2>2, FrameTyped
  <2>4. PICK w : w = (f.wait /\ canWait)
    OBVIOUS
  <2>5. w \in BOOLEAN
    BY <2>4
  <2>6. PICK g : g = [f EXCEPT !.at = "interrupt", !.wait = w]
    OBVIOUS
  <2>7. g \in ProcessFrame /\ g.call = f.call
    BY <2>2, <2>3, <2>5, <2>6 DEF ProcessFrame
  <2>8. g \in CallFrame(Len(events))
    BY <2>7 DEF CallFrame
  <2>9. stack' = [stack EXCEPT ![Len(stack)] = g]
    BY <1>1, <2>2, <2>4, <2>6 DEF ProcessCanWait
  <2>10. UNCHANGED queue
    BY <1>1 DEF ProcessCanWait
  <2> QED
    BY <2>1, <2>2, <2>7, <2>8, <2>9, <2>10, GoKeeps
<1>2. ASSUME ProcessInterrupted \/ Poll \/ Check
      PROVE  EventsSound'
  <2>1. PICK at : At("process", at) /\ UNCHANGED queue
    BY <1>2 DEF ProcessInterrupted, Poll, Check
  <2>2. Returns \/ Goes("poll") \/ Goes("read") \/ Goes("clear")
    BY <1>2 DEF ProcessInterrupted, Poll, Check
  <2>3. PICK f : f = Last(stack)
    OBVIOUS
  <2>4. ~Destroying
    BY <2>1, <2>3, OnTop
  <2>5. CASE Returns
    BY <2>1, <2>4, <2>5, ReturningKeeps
  <2>6. CASE \E to \in {"poll", "read", "clear"} : Goes(to)
    <3>1. PICK to \in {"poll", "read", "clear"} : Goes(to)
      BY <2>6
    <3> QED
      BY <2>1, <3>1, GoingKeeps
  <2> QED
    BY <2>2, <2>5, <2>6
<1> QED
  BY <1>1, <1>2, ProcessBeginKeeps DEF Process

\* A call of exec or processEvents begins.
LEMMA CallingKeeps ==
  ASSUME EventsSound, UNCHANGED queue, ~Destroying, NEW f \in ProcessFrame \cup ExecFrame, Calls(f),
         stack # <<>> => Last(stack).call # "send"
  PROVE  EventsSound'
<1>1. f \in CallFrame(Len(events)) /\ f.call # "send" /\ f.call # "notify"
  BY DEF CallFrame, ProcessFrame, ExecFrame
<1> QED
  BY <1>1, PushKeeps DEF Calls

LEMMA ExecIsFrame == Exec \in ProcessFrame \cup ExecFrame
BY DEF Exec, ExecFrame

LEMMA ProcessIsFrame ==
  ASSUME NEW wait \in BOOLEAN
  PROVE  ProcessEvents(wait) \in ProcessFrame \cup ExecFrame
BY DEF ProcessEvents, ProcessFrame

LEMMA LoopsKeep ==
  ASSUME EventsSound, ThreadExec \/ ExecEnter \/ ExecLoop \/ ExecLeave \/ ThreadExecEnd
  PROVE  EventsSound'
<1>1. UNCHANGED queue
  BY DEF ThreadExec, ExecEnter, ExecLoop, ExecLeave, ThreadExecEnd
<1>2. CASE ThreadExec
  <2>1. stack = <<>> /\ (UNCHANGED stack \/ Calls(Exec))
    BY <1>2 DEF ThreadExec
  <2>2. ~Destroying
    BY <2>1 DEF Destroying, At
  <2>3. CASE UNCHANGED stack
    <3>1. StackSound(stack', Len(events))
      BY <2>3 DEF EventsSound
    <3> QED
      BY <1>1, <2>3, <3>1, StackSame, CallsKeep
  <2>4. CASE Calls(Exec)
    <3>1. PICK f \in ProcessFrame \cup ExecFrame : f = Exec
      BY ExecIsFrame
    <3> QED
      BY <1>1, <2>1, <2>2, <2>4, <3>1, CallingKeeps
  <2> QED
    BY <2>1, <2>3, <2>4
<1>3. CASE ExecEnter \/ ExecLoop \/ ExecLeave \/ ThreadExecEnd
  <2>1. PICK at : At("exec", at)
    BY <1>3 DEF ExecEnter, ExecLoop, ExecLeave, ThreadExecEnd
  <2>2. PICK f : f = Last(stack)
    OBVIOUS
  <2>3. ~Destroying /\ f.call = "exec"
    BY <2>1, <2>2, OnTop
  <2>4. \/ Returns \/ Goes("left") \/ Goes("loop") \/ Goes("leave") \/ Calls(ProcessEvents(TRUE))
    BY <1>3 DEF ExecEnter, ExecLoop, ExecLeave, ThreadExecEnd
  <2>5. CASE Returns
    BY <1>1, <2>1, <2>3, <2>5, ReturningKeeps
  <2>6. CASE \E to \in {"left", "loop", "leave"} : Goes(to)
    <3>1. PICK to \in {"left", "loop", "leave"} : Goes(to)
      BY <2>6
    <3> QED
      BY <1>1, <2>1, <3>1, GoingKeeps
  <2>7. CASE Calls(ProcessEvents(TRUE))
    <3>1. PICK g \in ProcessFrame \cup ExecFrame : g = ProcessEvents(TRUE)
      BY ProcessIsFrame
    <3> QED
      BY <1>1, <2>2, <2>3, <2>7, <3>1, CallingKeeps
  <2> QED
    BY <2>4, <2>5, <2>6, <2>7, Zenon
<1> QED
  BY <1>2, <1>3

LEMMA QueueOnlyStays ==
  ASSUME EventsSound, UNCHANGED <<queue, stack>>
  PROVE  EventsSound'
<1>1. StackSound(stack', Len(events)) /\ UNCHANGED queue /\ UNCHANGED stack
  BY DEF EventsSound
<1> QED
  BY <1>1, StackSame, CallsKeep

LEMMA HandlersKeep ==
  ASSUME EventsSound, Handler
  PROVE  EventsSound'
<1>1. ASSUME InHandler
      PROVE  /\ At("notify", "handler") /\ ~Destroying /\ stack # <<>>
             /\ Last(stack).call = "notify" /\ recursion # 0
  BY <1>1, HandlersAreSent DEF InHandler, Destroying, At
<1>2. CASE HandlerPosts
  <2>1. PICK l \in Nat : l = loopLevel + scopeLevel
    BY LevelsAreNat
  <2>2. (PostOrdinary \/ DeleteLater(l)) /\ UNCHANGED stack
    BY <1>2, <2>1 DEF HandlerPosts
  <2> QED
    BY <2>2, PostingKeeps
<1>3. CASE HandlerRemoves
  <2>1. PICK r \in Live : RemovePostedEvents(r, FALSE, recursion)
    BY <1>3 DEF HandlerRemoves
  <2>2. UNCHANGED stack /\ recursion # 0
    BY <1>1, <1>3 DEF HandlerRemoves
  <2>3. PICK depth : depth = recursion
    OBVIOUS
  <2>4. RemovePostedEvents(r, FALSE, depth) /\ depth # 0
    BY <2>1, <2>2, <2>3
  <2> QED
    BY <2>2, <2>4, RemovingKeeps
<1>4. CASE HandlerCalls
  <2>1. InHandler /\ UNCHANGED queue
    BY <1>4 DEF HandlerCalls
  <2>2. \/ \E r \in Live \cup {All} : Calls(SendPostedEvents(r))
        \/ Calls(ProcessEvents(FALSE))
        \/ Calls(Exec)
    BY <1>4 DEF HandlerCalls
  <2>3. CASE \E r \in Live \cup {All} : Calls(SendPostedEvents(r))
    <3>1. PICK r \in Live \cup {All} : Calls(SendPostedEvents(r))
      BY <2>3
    <3>2. PICK f : f = SendPostedEvents(r)
      OBVIOUS
    <3>3. /\ f \in CallFrame(Len(events)) /\ f.call = "send" /\ f.at = "enter" /\ f.call # "notify"
      BY <3>2 DEF SendPostedEvents, CallFrame, SendFrame, Live
    <3>4. \E j \in 1..Len(stack) : stack[j].call = "send" /\ stack[j].to = All
      <4>1. PICK s, n, g : s = stack /\ n = Len(events) /\ g = stack[Len(stack)]
        OBVIOUS
      <4>2. Top(s, n, g) /\ g.call = "notify"
        BY <1>1, <2>1, <4>1 DEF EventsSound, Top, Last
      <4>3. StackSound(s, n) /\ Len(s) \in Nat /\ Len(s) \in 1..Len(s) /\ FrameSound(s, Len(s)) /\ g = s[Len(s)]
        BY <4>1, <4>2, TopTyped
      <4>4. PICK k : k = Len(s) - 1
        OBVIOUS
      <4>5. k \in 1..Len(s) /\ s[k].call = "send"
        BY <4>2, <4>3, <4>4 DEF FrameSound
      <4>6. CASE s[k].to = All
        BY <4>1, <4>5, <4>6
      <4>7. CASE s[k].to # All
        <5>1. FrameSound(s, k)
          BY <4>3, <4>5 DEF StackSound
        <5>2. PICK j \in 1..k - 1 : s[j].call = "send" /\ s[j].to = All
          BY <4>5, <4>7, <5>1 DEF FrameSound
        <5>3. j \in 1..Len(s)
          BY <4>3, <4>4
        <5> QED
          BY <4>1, <5>2, <5>3
      <4> QED
        BY <4>6, <4>7
    <3> QED
      BY <1>1, <2>1, <3>1, <3>2, <3>3, <3>4, PushKeeps DEF Calls
  <2>4. CASE Calls(ProcessEvents(FALSE)) \/ Calls(Exec)
    <3>1. PICK f \in ProcessFrame \cup ExecFrame : Calls(f)
      BY <2>4, ExecIsFrame, ProcessIsFrame
    <3> QED
      BY <1>1, <2>1, <3>1, CallingKeeps
  <2> QED
    BY <2>2, <2>3, <2>4
<1>5. CASE HandlerExits
  BY <1>5, QueueOnlyStays DEF HandlerExits
<1>6. CASE HandlerReturns
  <2>1. InHandler /\ Returns /\ UNCHANGED queue
    BY <1>6 DEF HandlerReturns
  <2> QED
    BY <1>1, <2>1, ReturningKeeps
<1> QED
  BY <1>2, <1>3, <1>4, <1>5, <1>6, DestroyIsSound DEF Handler

LEMMA OtherThreadsKeep ==
  ASSUME EventsSound, Quit \/ \E q \in Poster : PosterPosts(q) \/ PosterWakes(q) \/ PosterRemoves(q)
  PROVE  EventsSound'
<1>1. CASE Quit
  BY <1>1, QueueOnlyStays DEF Quit, QuitBegin, QuitExits, QuitInterrupts, QuitWakes
<1>2. ASSUME NEW q \in Poster, PosterPosts(q)
      PROVE  EventsSound'
  <2>1. (PostOrdinary \/ DeleteLater(0)) /\ UNCHANGED stack
    BY <1>2 DEF PosterPosts
  <2>2. PICK l \in Nat : l = 0
    OBVIOUS
  <2>3. PostOrdinary \/ DeleteLater(l)
    BY <2>1, <2>2
  <2> QED
    BY <2>1, <2>3, PostingKeeps
<1>3. ASSUME NEW q \in Poster, PosterWakes(q)
      PROVE  EventsSound'
  BY <1>3, QueueOnlyStays DEF PosterWakes
<1>4. ASSUME NEW q \in Poster, PosterRemoves(q)
      PROVE  EventsSound'
  <2>1. PICK r \in Live, depth \in {recursion, Cardinality({k \in Frames({"send"}) : stack[k].at # "enter"})} :
          RemovePostedEvents(r, FALSE, depth)
    BY <1>4 DEF PosterRemoves
  <2>2. UNCHANGED stack
    BY <1>4 DEF PosterRemoves
  <2>3. depth = 0 => insertionOffset = 0
    BY <2>1, NobodySends
  <2> QED
    BY <2>1, <2>2, <2>3, RemovingKeeps
<1> QED
  BY <1>1, <1>2, <1>3, <1>4

OthersTyped ==
  /\ canWait \in BOOLEAN /\ interrupt \in BOOLEAN /\ wakeUps \in BOOLEAN /\ eventfd \in BOOLEAN
  /\ exited \in BOOLEAN /\ quitNow \in BOOLEAN /\ exit \in [1..MaxLoops -> BOOLEAN]
  /\ poster \in [Poster -> {"idle", "wake", "write"}]

LEMMA ThreadIsTyped ==
  ASSUME OthersTyped, EventsSound, ThreadExec \/ ThreadStep \/ Handler, UNCHANGED poster
  PROVE  OthersTyped'
<1>. USE DEF OthersTyped
<1>1. CASE Send
  <2>1. canWait' \in BOOLEAN
    BY <1>1 DEF Send, SendEnter, SendSkip, SendDeliver, SendEnd
  <2>2. wakeUps' \in BOOLEAN /\ eventfd' \in BOOLEAN
    BY <1>1 DEF Send, SendEnter, SendSkip, SendDeliver, SendEnd, WakeUp, pipe
  <2>3. UNCHANGED <<interrupt, exited, quitNow, exit>>
    BY <1>1 DEF Send, SendEnter, SendSkip, SendDeliver, SendEnd, loops
  <2> QED
    BY <2>1, <2>2, <2>3
<1>2. CASE Process
  <2>1. UNCHANGED <<canWait, exited, quitNow, exit>>
    BY <1>2 DEF Process, ProcessBegin, ProcessCanWait, ProcessInterrupted, Poll, Check, loops
  <2>2. interrupt' \in BOOLEAN /\ wakeUps' \in BOOLEAN /\ eventfd' \in BOOLEAN
    BY <1>2 DEF Process, ProcessBegin, ProcessCanWait, ProcessInterrupted, Poll, Check, pipe
  <2> QED
    BY <2>1, <2>2
<1>3. CASE ThreadExec \/ ExecEnter \/ ExecLoop \/ ExecLeave \/ ThreadExecEnd
  <2>1. UNCHANGED <<canWait, interrupt, wakeUps, eventfd>>
    BY <1>3 DEF ThreadExec, ExecEnter, ExecLoop, ExecLeave, ThreadExecEnd, pipe
  <2>2. exited' \in BOOLEAN /\ quitNow' \in BOOLEAN
    BY <1>3 DEF ThreadExec, ExecEnter, ExecLoop, ExecLeave, ThreadExecEnd, loops
  <2>3. exit' \in [1..MaxLoops -> BOOLEAN]
    BY <1>3 DEF ThreadExec, ExecEnter, ExecLoop, ExecLeave, ThreadExecEnd, loops
  <2> QED
    BY <2>1, <2>2, <2>3
<1>4. CASE Handler
  <2>1. CASE HandlerPosts
    <3>1. UNCHANGED <<interrupt, exited, quitNow, exit>> /\ WakeUp
      BY <2>1 DEF HandlerPosts, loops
    <3>2. canWait' = FALSE
      <4>1. PICK l : l = loopLevel + scopeLevel
        OBVIOUS
      <4>2. PostOrdinary \/ DeleteLater(l)
        BY <2>1, <4>1 DEF HandlerPosts
      <4> QED
        BY <4>2 DEF PostOrdinary, DeleteLater, Post
    <3>3. wakeUps' \in BOOLEAN /\ eventfd' \in BOOLEAN
      BY <3>1 DEF WakeUp
    <3> QED
      BY <3>1, <3>2, <3>3
  <2>2. CASE HandlerExits
    <3>1. UNCHANGED <<canWait, exited, quitNow>> /\ WakeUp /\ interrupt' = TRUE
      BY <2>2 DEF HandlerExits
    <3>2. exit' \in [1..MaxLoops -> BOOLEAN]
      BY <2>2 DEF HandlerExits
    <3>3. wakeUps' \in BOOLEAN /\ eventfd' \in BOOLEAN
      BY <3>1 DEF WakeUp
    <3> QED
      BY <3>1, <3>2, <3>3
  <2>3. CASE HandlerRemoves \/ HandlerCalls \/ HandlerReturns \/ Destroy
    BY <2>3 DEF HandlerRemoves, HandlerCalls, HandlerReturns, Destroy, pipe, loops
  <2> QED
    BY <1>4, <2>1, <2>2, <2>3 DEF Handler
<1> QED
  BY <1>1, <1>2, <1>3, <1>4 DEF ThreadStep

LEMMA OthersAreTyped ==
  ASSUME OthersTyped, Quit \/ \E q \in Poster : PosterPosts(q) \/ PosterWakes(q) \/ PosterRemoves(q)
  PROVE  OthersTyped'
<1>. USE DEF OthersTyped
<1>1. CASE Quit
  <2>1. UNCHANGED <<canWait, poster>>
    BY <1>1 DEF Quit, QuitBegin, QuitExits, QuitInterrupts, QuitWakes
  <2>2. interrupt' \in BOOLEAN /\ wakeUps' \in BOOLEAN /\ eventfd' \in BOOLEAN
    BY <1>1 DEF Quit, QuitBegin, QuitExits, QuitInterrupts, QuitWakes, pipe
  <2>3. exited' \in BOOLEAN /\ quitNow' \in BOOLEAN /\ exit' \in [1..MaxLoops -> BOOLEAN]
    BY <1>1 DEF Quit, QuitBegin, QuitExits, QuitInterrupts, QuitWakes, loops
  <2> QED
    BY <2>1, <2>2, <2>3
<1>2. ASSUME NEW q \in Poster, PosterPosts(q)
      PROVE  OthersTyped'
  <2>1. UNCHANGED <<interrupt, wakeUps, eventfd, exited, quitNow, exit>> /\ (PostOrdinary \/ DeleteLater(0))
    BY <1>2 DEF PosterPosts, pipe, loops
  <2>2. canWait' = FALSE
    BY <2>1 DEF PostOrdinary, DeleteLater, Post
  <2>3. poster' \in [Poster -> {"idle", "wake", "write"}]
    BY <1>2 DEF PosterPosts
  <2> QED
    BY <2>1, <2>2, <2>3
<1>3. ASSUME NEW q \in Poster, PosterWakes(q)
      PROVE  OthersTyped'
  <2>1. UNCHANGED <<canWait, interrupt, exited, quitNow, exit>> /\ wakeUps' \in BOOLEAN /\ eventfd' \in BOOLEAN
    BY <1>3 DEF PosterWakes, loops
  <2>2. poster' \in [Poster -> {"idle", "wake", "write"}]
    BY <1>3 DEF PosterWakes
  <2> QED
    BY <2>1, <2>2
<1>4. ASSUME NEW q \in Poster, PosterRemoves(q)
      PROVE  OthersTyped'
  BY <1>4 DEF PosterRemoves, pipe, loops
<1> QED
  BY <1>1, <1>2, <1>3, <1>4

EventsInv == EventsSound /\ OthersTyped

LEMMA EventsInit ==
  ASSUME Init
  PROVE  EventsInv
<1>. USE DEF Init
<1>1. /\ Len(events) = 0 /\ DOMAIN events = {} /\ Len(list) = 0 /\ DOMAIN list = {}
      /\ events \in Seq(PostedEvent) /\ list \in Seq(EventElement(Len(events)))
  OBVIOUS
<1>2. QueueTypeOK
  BY <1>1 DEF QueueTypeOK
<1>3. ListOK
  BY <1>1 DEF ListOK, Sorted, HasPriorities, InPostingOrder, Pendings
<1>4. PostsAreCounted
  <2>1. SUFFICES ASSUME NEW r \in Receiver
                 PROVE  postedEvents[r] = Cardinality(Waiting(events, r))
    BY DEF PostsAreCounted
  <2>2. Waiting(events, r) = {}
    BY <1>1 DEF Waiting
  <2> QED
    BY <2>2, FS_EmptySet
<1>5. InOrder
  BY <1>1 DEF InOrder
<1>6. StackSound(stack, Len(events)) /\ Len(stack) = 0
  BY DEF StackSound
<1>7. SendsOK /\ IdleOK /\ DeadOK
  BY <1>1, <1>6 DEF SendsOK, IdleOK, DeadOK
<1>8. OthersTyped
  BY DEF OthersTyped
<1> QED
  BY <1>2, <1>3, <1>4, <1>5, <1>6, <1>7, <1>8 DEF EventsInv, EventsSound, QueueOK

LEMMA EventsNext ==
  ASSUME EventsInv, [Next]_vars
  PROVE  EventsInv'
<1>. USE DEF EventsInv
<1>1. CASE (ThreadExec \/ ThreadStep \/ Handler) /\ UNCHANGED <<poster, quitter>>
  <2>1. CASE Send
    BY <2>1, SendEnterKeeps, SendSkipKeeps, SendDeliverKeeps, SendEndKeeps, <1>1, ThreadIsTyped DEF Send
  <2>2. CASE Process
    BY <2>2, ProcessKeeps, <1>1, ThreadIsTyped
  <2>3. CASE ThreadExec \/ ExecEnter \/ ExecLoop \/ ExecLeave \/ ThreadExecEnd
    BY <2>3, LoopsKeep, <1>1, ThreadIsTyped
  <2>4. CASE Handler
    BY <2>4, HandlersKeep, <1>1, ThreadIsTyped
  <2> QED
    BY <1>1, <2>1, <2>2, <2>3, <2>4 DEF ThreadStep
<1>2. CASE Quit \/ \E q \in Poster : PosterPosts(q) \/ PosterWakes(q) \/ PosterRemoves(q)
  BY <1>2, OtherThreadsKeep, OthersAreTyped
<1>3. CASE UNCHANGED vars
  <2>1. EventsSound'
    BY <1>3, QueueOnlyStays DEF vars
  <2>2. OthersTyped'
    BY <1>3 DEF vars, pipe, loops, OthersTyped
  <2> QED
    BY <2>1, <2>2
<1> QED
  BY <1>1, <1>2, <1>3 DEF Next

LEMMA EventsImplied ==
  ASSUME EventsInv
  PROVE  EventsAreDelivered
<1>. USE DEF EventsInv, EventsSound, QueueOK
<1>1. PICK n : n = Len(events)
  OBVIOUS
<1>2. /\ n \in Nat /\ DOMAIN events = 1..n /\ DOMAIN list = 1..Len(list) /\ Len(list) \in Nat
      /\ list \in Seq(EventElement(n))
  BY <1>1, QueueTyped DEF QueueTypeOK
<1>3. EventsTypeOK
  BY <1>1, <1>2 DEF EventsTypeOK, OthersTyped, QueueTypeOK, EventElement
<1>4. Queued = Pendings(list)
  BY DEF Queued, Pendings, IsPending
<1>5. Queued = {e \in DOMAIN events : events[e].fate = "queued"}
  BY <1>4 DEF ListOK
<1>6. \A j, k \in DOMAIN list : j # k /\ IsPending(list[j]) => list[j].event # list[k].event
  <2>1. SUFFICES ASSUME NEW j \in DOMAIN list, NEW k \in DOMAIN list, j # k, list[j].event # 0,
                        list[j].event = list[k].event
                 PROVE  FALSE
    BY DEF IsPending
  <2>2. j < k \/ k < j
    BY <1>2, <2>1
  <2> QED
    BY <2>1, <2>2 DEF ListOK, InPostingOrder, Precedes
<1>7. \A r \in Receiver : postedEvents[r] = Cardinality({e \in Queued : events[e].to = r})
  <2>1. SUFFICES ASSUME NEW r \in Receiver
                 PROVE  postedEvents[r] = Cardinality({e \in Queued : events[e].to = r})
    OBVIOUS
  <2>2. {e \in Queued : events[e].to = r} = Waiting(events, r)
    BY <1>5 DEF Waiting
  <2> QED
    BY <2>2 DEF PostsAreCounted
<1>8. \A e \in Queued : events[e].to \in Live \/ Destroying
  <2>1. SUFFICES ASSUME NEW e \in Queued
                 PROVE  events[e].to \in Live \/ Destroying
    OBVIOUS
  <2>2. e \in DOMAIN events /\ events[e].fate = "queued"
    BY <1>5
  <2>3. events[e].to \in Receiver
    BY <2>2, QueueTyped DEF PostedEvent
  <2> QED
    BY <2>2, <2>3 DEF DeadOK, Live
<1>9. NoneLost
  BY <1>5, <1>6, <1>7, <1>8 DEF NoneLost
<1> QED
  BY <1>3, <1>9 DEF EventsAreDelivered

\* However calls of the thread nest and whatever handlers and other threads post and
\* remove, every event is delivered once or removed, those of one object and
\* priority in the order in which they were posted as long as no send for all ends
\* inside a send for that object; and nothing is left for a deleted object.
THEOREM EventsAreDeliveredAlways == Spec => []EventsAreDelivered
<1>1. Init => EventsInv
  BY EventsInit
<1>2. EventsInv /\ [Next]_vars => EventsInv'
  BY EventsNext
<1>3. EventsInv => EventsAreDelivered
  BY EventsImplied
<1> QED
  BY <1>1, <1>2, <1>3, PTL DEF Spec

-----------------------------------------------------------------------------
(* How the calls of a thread nest while it waits.                          *)

Same(f, g) ==
  /\ g.call = f.call /\ g.at = f.at
  /\ f.call = "send" => g.to = f.to
  /\ f.call = "process" => g.wait = f.wait /\ g.disturbed = f.disturbed

Kept(s, t, m) == \A k \in 1..m : Same(s[k], t[k])

Pops(s, t) == Len(s) > 0 /\ Len(t) = Len(s) - 1 /\ Kept(s, t, Len(t))

Turned(f, g) ==
  /\ g.call = f.call
  /\ f.call = "send" => g.to = f.to
  /\ f.call = "process" => f.at # "begin" /\ (g.wait => f.wait) /\ g.disturbed = f.disturbed
  /\ f.call = "exec" => g.at # "enter"

Turns(s, t) ==
  Len(s) > 0 /\ Len(t) = Len(s) /\ Kept(s, t, Len(s) - 1) /\ Turned(s[Len(s)], t[Len(s)])

Loops(s) == {k \in 1..Len(s) : s[k].call = "exec" /\ s[k].at # "enter"}

Grows(s, t) ==
  /\ Len(t) = Len(s) + 1 /\ Kept(s, t, Len(s))
  /\ Len(s) > 0 => s[Len(s)].call # "process" /\ (s[Len(s)].call = "exec" => s[Len(s)].at = "loop")
  /\ t[Len(t)].call = "process" =>
       t[Len(t)].at = "begin" /\ (t[Len(t)].wait => Len(s) > 0 /\ s[Len(s)].call = "exec")
  /\ t[Len(t)].call = "exec" => t[Len(t)].at = "enter" /\ Cardinality(Loops(s)) < MaxLoops

Disturbed(f, g) ==
  /\ g.call = f.call /\ g.at = f.at
  /\ f.call = "send" => g.to = f.to
  /\ f.call = "process" => g.wait = f.wait /\ g.disturbed

Begins(s, t) ==
  /\ Len(s) > 0 /\ Len(t) = Len(s) + 1
  /\ \A k \in 1..Len(s) - 1 : Disturbed(s[k], t[k])
  /\ s[Len(s)].call = "process" /\ t[Len(s)].call = "process" /\ t[Len(s)].at = "sent"
  /\ t[Len(s)].wait = s[Len(s)].wait /\ t[Len(s)].disturbed = s[Len(s)].disturbed
  /\ t[Len(t)].call = "send" /\ t[Len(t)].to = All

Shape(s, t) == t = s \/ Pops(s, t) \/ Turns(s, t) \/ Grows(s, t) \/ Begins(s, t)

\* A processEvents that has called a handler is in its send for all; one that may
\* wait was called by a loop; and none has run inside another that is undisturbed.
NestingAt(s, k) ==
  /\ s[k].call = "process" /\ k < Len(s) =>
       s[k].at = "sent" /\ s[k + 1].call = "send" /\ s[k + 1].to = All
  /\ s[k].call = "process" /\ s[k].wait => k > 1 /\ s[k - 1].call = "exec" /\ s[k - 1].at = "loop"
  /\ s[k].call = "process" /\ s[k].at # "begin" =>
       \A j \in 1..k - 1 : s[j].call = "process" => s[j].disturbed
  /\ s[k].call = "exec" /\ k < Len(s) => s[k].at = "loop"

Nesting(s) == \A k \in 1..Len(s) : NestingAt(s, k)

LEMMA PopsNest ==
  ASSUME NEW s, NEW t, Len(s) \in Nat, Len(t) \in Nat, Nesting(s), Pops(s, t)
  PROVE  Nesting(t)
<1>1. SUFFICES ASSUME NEW k \in 1..Len(t)
               PROVE  NestingAt(t, k)
  BY DEF Nesting
<1>2. PICK n, m : n = Len(s) /\ m = Len(t)
  OBVIOUS
<1>3. n \in Nat /\ m \in Nat /\ m = n - 1 /\ k \in 1..m
  BY <1>2 DEF Pops
<1>4. /\ k \in 1..n /\ k < n /\ k + 1 \in 1..n /\ (k < m => k + 1 \in 1..m) /\ (k > 1 => k - 1 \in 1..m)
      /\ \A j \in 1..k - 1 : j \in 1..m
  BY <1>3
<1>5. NestingAt(s, k)
  BY <1>2, <1>4 DEF Nesting
<1>6. \A j \in 1..m : Same(s[j], t[j])
  BY <1>2 DEF Pops, Kept
<1>7. Same(s[k], t[k]) /\ (k < m => Same(s[k + 1], t[k + 1])) /\ (k > 1 => Same(s[k - 1], t[k - 1]))
  BY <1>3, <1>4, <1>6
<1>8. t[k].call = "process" /\ t[k].at # "begin" => \A j \in 1..k - 1 : t[j].call = "process" => t[j].disturbed
  BY <1>4, <1>5, <1>6, <1>7, SMTT(40) DEF NestingAt, Same
<1> QED
  BY <1>2, <1>4, <1>5, <1>7, <1>8 DEF NestingAt, Same

LEMMA TurnsNest ==
  ASSUME NEW s, NEW t, Len(s) \in Nat, Len(t) \in Nat, Nesting(s), Turns(s, t)
  PROVE  Nesting(t)
<1>1. SUFFICES ASSUME NEW k \in 1..Len(t)
               PROVE  NestingAt(t, k)
  BY DEF Nesting
<1>2. PICK n : n = Len(s) /\ n = Len(t)
  BY DEF Turns
<1>3. n \in Nat /\ k \in 1..n /\ n > 0
  BY <1>2
<1>4. /\ k < n => k \in 1..n - 1 /\ k + 1 \in 1..n
      /\ ~(k < n) => k = n
      /\ k > 1 => k - 1 \in 1..n - 1
      /\ \A j \in 1..k - 1 : j \in 1..n - 1
  BY <1>3
<1>5. NestingAt(s, k)
  BY <1>2, <1>3 DEF Nesting
<1>6. \A j \in 1..n - 1 : Same(s[j], t[j])
  BY <1>2 DEF Turns, Kept
<1>7. Turned(s[n], t[n])
  BY <1>2 DEF Turns
<1>8. CASE k < n
  <2>1. Same(s[k], t[k]) /\ (k > 1 => Same(s[k - 1], t[k - 1]))
    BY <1>4, <1>6, <1>8
  <2>2. t[k + 1].call = s[k + 1].call /\ (s[k + 1].call = "send" => t[k + 1].to = s[k + 1].to)
    <3>1. CASE k + 1 = n
      BY <1>7, <3>1 DEF Turned
    <3>2. CASE k + 1 # n
      <4>1. k + 1 \in 1..n - 1
        BY <1>3, <1>8, <3>2
      <4> QED
        BY <1>6, <4>1 DEF Same
    <3> QED
      BY <3>1, <3>2
  <2>3. t[k].call = "process" /\ t[k].at # "begin" => \A j \in 1..k - 1 : t[j].call = "process" => t[j].disturbed
    BY <1>4, <1>5, <1>6, <2>1 DEF NestingAt, Same
  <2> QED
    BY <1>2, <1>5, <1>8, <2>1, <2>2, <2>3 DEF NestingAt, Same
<1>9. CASE k = n
  <2>1. Turned(s[k], t[k]) /\ ~(k < n) /\ (k > 1 => Same(s[k - 1], t[k - 1]))
    BY <1>3, <1>4, <1>6, <1>7, <1>9
  <2>2. t[k].call = "process" => \A j \in 1..k - 1 : t[j].call = "process" => t[j].disturbed
    BY <1>4, <1>5, <1>6, <2>1 DEF NestingAt, Same, Turned
  <2> QED
    BY <1>2, <1>5, <2>1, <2>2 DEF NestingAt, Same, Turned
<1> QED
  BY <1>4, <1>8, <1>9

LEMMA GrowsNest ==
  ASSUME NEW s, NEW t, Len(s) \in Nat, Len(t) \in Nat, Nesting(s), Grows(s, t)
  PROVE  Nesting(t)
<1>1. SUFFICES ASSUME NEW k \in 1..Len(t)
               PROVE  NestingAt(t, k)
  BY DEF Nesting
<1>2. PICK n, m : n = Len(s) /\ m = Len(t)
  OBVIOUS
<1>3. n \in Nat /\ m = n + 1 /\ k \in 1..m
  BY <1>2 DEF Grows
<1>4. \A j \in 1..n : Same(s[j], t[j])
  BY <1>2 DEF Grows, Kept
<1>5. /\ n > 0 => s[n].call # "process" /\ (s[n].call = "exec" => s[n].at = "loop")
      /\ t[m].call = "process" => t[m].at = "begin" /\ (t[m].wait => n > 0 /\ s[n].call = "exec")
      /\ t[m].call = "exec" => t[m].at = "enter"
  BY <1>2 DEF Grows
<1>6. CASE k = m
  <2>1. ~(k < m) /\ k - 1 = n /\ (n > 0 => k > 1 /\ n \in 1..n)
    BY <1>3, <1>6
  <2>2. t[k].call = "process" /\ t[k].wait => k > 1 /\ t[k - 1].call = "exec" /\ t[k - 1].at = "loop"
    BY <1>4, <1>5, <1>6, <2>1 DEF Same
  <2> QED
    BY <1>2, <1>5, <1>6, <2>1, <2>2 DEF NestingAt
<1>7. CASE k # m
  <2>1. /\ k \in 1..n /\ (k < n => k + 1 \in 1..n) /\ (~(k < n) => k = n /\ n > 0) /\ (k > 1 => k - 1 \in 1..n)
        /\ \A j \in 1..k - 1 : j \in 1..n
    BY <1>3, <1>7
  <2>2. NestingAt(s, k)
    BY <1>2, <2>1 DEF Nesting
  <2>3. Same(s[k], t[k]) /\ (k < n => Same(s[k + 1], t[k + 1])) /\ (k > 1 => Same(s[k - 1], t[k - 1]))
    BY <1>4, <2>1
  <2>4. t[k].call = "process" => k < n
    BY <1>5, <2>1, <2>3 DEF Same
  <2>5. t[k].call = "process" /\ t[k].at # "begin" => \A j \in 1..k - 1 : t[j].call = "process" => t[j].disturbed
    BY <1>4, <2>1, <2>2, <2>3 DEF NestingAt, Same
  <2>6. t[k].call = "exec" => t[k].at = "loop"
    BY <1>2, <1>5, <2>1, <2>2, <2>3 DEF NestingAt, Same
  <2> QED
    BY <1>2, <2>2, <2>3, <2>4, <2>5, <2>6 DEF NestingAt, Same
<1> QED
  BY <1>6, <1>7

LEMMA BeginsNest ==
  ASSUME NEW s, NEW t, Len(s) \in Nat, Len(t) \in Nat, Nesting(s), Begins(s, t)
  PROVE  Nesting(t)
<1>1. SUFFICES ASSUME NEW k \in 1..Len(t)
               PROVE  NestingAt(t, k)
  BY DEF Nesting
<1>2. PICK n, m : n = Len(s) /\ m = Len(t)
  OBVIOUS
<1>3. n \in Nat /\ n > 0 /\ m = n + 1 /\ k \in 1..m
  BY <1>2 DEF Begins
<1>4. \A j \in 1..n - 1 : Disturbed(s[j], t[j])
  BY <1>2 DEF Begins
<1>5. /\ s[n].call = "process" /\ t[n].call = "process" /\ t[n].at = "sent" /\ t[n].wait = s[n].wait
      /\ t[n].disturbed = s[n].disturbed /\ t[m].call = "send" /\ t[m].to = All
  BY <1>2 DEF Begins
<1>6. CASE k = m
  BY <1>2, <1>5, <1>6 DEF NestingAt
<1>7. CASE k = n
  <2>1. n \in 1..n /\ k < m /\ k + 1 = m /\ k # m /\ (k > 1 => k - 1 \in 1..n - 1)
    BY <1>3, <1>7
  <2>2. NestingAt(s, n)
    BY <1>2, <2>1 DEF Nesting
  <2>3. t[k].wait => k > 1 /\ t[k - 1].call = "exec" /\ t[k - 1].at = "loop"
    BY <1>4, <1>5, <1>7, <2>1, <2>2 DEF NestingAt, Disturbed
  <2>4. \A j \in 1..k - 1 : t[j].call = "process" => t[j].disturbed
    BY <1>4, <1>7 DEF Disturbed
  <2> QED
    BY <1>2, <1>5, <1>7, <2>1, <2>3, <2>4 DEF NestingAt
<1>8. CASE k # m /\ k # n
  <2>1. /\ k \in 1..n /\ k \in 1..n - 1 /\ k < n /\ (k > 1 => k - 1 \in 1..n - 1)
        /\ \A j \in 1..k - 1 : j \in 1..n - 1
    BY <1>3, <1>8
  <2>2. NestingAt(s, k)
    BY <1>2, <2>1 DEF Nesting
  <2>3. Disturbed(s[k], t[k]) /\ (k > 1 => Disturbed(s[k - 1], t[k - 1]))
    BY <1>4, <2>1
  <2>4. t[k + 1].call = s[k + 1].call /\ (s[k + 1].call = "send" => t[k + 1].to = s[k + 1].to)
    <3>1. CASE k + 1 = n
      BY <1>5, <3>1
    <3>2. CASE k + 1 # n
      <4>1. k + 1 \in 1..n - 1
        BY <1>3, <2>1, <3>2
      <4> QED
        BY <1>4, <4>1 DEF Disturbed
    <3> QED
      BY <3>1, <3>2
  <2>5. \A j \in 1..k - 1 : t[j].call = "process" => t[j].disturbed
    BY <1>4, <2>1 DEF Disturbed
  <2> QED
    BY <1>2, <2>1, <2>2, <2>3, <2>4, <2>5 DEF NestingAt, Disturbed
<1> QED
  BY <1>6, <1>7, <1>8

LEMMA ShapesNest ==
  ASSUME NEW s, NEW t, Len(s) \in Nat, Len(t) \in Nat, Nesting(s), Shape(s, t)
  PROVE  Nesting(t)
BY PopsNest, TurnsNest, GrowsNest, BeginsNest DEF Shape

-----------------------------------------------------------------------------
(* The loops of a thread, and the loop that a call of processEvents serves. *)

\* The bound of loops, which a loop that is about to begin respects as well.
Fits(s) ==
  /\ Cardinality(Loops(s)) <= MaxLoops
  /\ Len(s) > 0 /\ s[Len(s)].call = "exec" /\ s[Len(s)].at = "enter" => Cardinality(Loops(s)) < MaxLoops

LoopsBelow(s, k) == {j \in 1..k - 1 : s[j].call = "exec" /\ s[j].at # "enter"}

LevelAt(s, k) == Cardinality(LoopsBelow(s, k))

\* May f block in poll with nothing but its own loop to look after?
Awaits(f) == f.call = "process" /\ f.wait /\ ~f.disturbed

LEMMA LoopsAreFinite ==
  ASSUME NEW s, Len(s) \in Nat
  PROVE  /\ IsFiniteSet(Loops(s)) /\ Cardinality(Loops(s)) \in Nat
         /\ \A k \in 1..Len(s) : LevelAt(s, k) \in Nat /\ LevelAt(s, k) <= Cardinality(Loops(s))
<1>1. PICK n : n = Len(s)
  OBVIOUS
<1>2. IsFiniteSet(1..n)
  BY <1>1, FS_Interval
<1>3. IsFiniteSet(Loops(s)) /\ Cardinality(Loops(s)) \in Nat
  <2>1. Loops(s) \subseteq 1..n
    BY <1>1 DEF Loops
  <2> QED
    BY <1>2, <2>1, FS_Subset, FS_CardinalityType
<1>4. ASSUME NEW k \in 1..n
      PROVE  LevelAt(s, k) \in Nat /\ LevelAt(s, k) <= Cardinality(Loops(s))
  <2>1. PICK P : P = LoopsBelow(s, k)
    OBVIOUS
  <2>2. P \subseteq Loops(s)
    BY <1>1, <2>1 DEF Loops, LoopsBelow
  <2>3. IsFiniteSet(P) /\ Cardinality(P) <= Cardinality(Loops(s)) /\ Cardinality(P) \in Nat
    BY <1>3, <2>2, FS_Subset, FS_CardinalityType
  <2> QED
    BY <2>1, <2>3 DEF LevelAt
<1> QED
  BY <1>1, <1>3, <1>4

\* A call that may block is at the level of a loop.
LEMMA LevelIs ==
  ASSUME NEW s, Len(s) \in Nat, Nesting(s), Fits(s), MaxLoops \in Nat, NEW k \in 1..Len(s), Awaits(s[k])
  PROVE  LevelAt(s, k) \in 1..MaxLoops
<1>1. LevelAt(s, k) \in Nat /\ LevelAt(s, k) <= Cardinality(Loops(s)) /\ Cardinality(Loops(s)) \in Nat
  BY LoopsAreFinite
<1>2. LevelAt(s, k) <= MaxLoops
  BY <1>1 DEF Fits
<1>3. LevelAt(s, k) # 0
  <2>1. k > 1 /\ s[k - 1].call = "exec" /\ s[k - 1].at = "loop"
    BY DEF Nesting, NestingAt, Awaits
  <2>2. PICK P : P = LoopsBelow(s, k)
    OBVIOUS
  <2>3. k - 1 \in P
    BY <2>1, <2>2 DEF LoopsBelow
  <2>4. IsFiniteSet(P)
    <3>1. IsFiniteSet(1..k - 1)
      BY FS_Interval
    <3>2. P \subseteq 1..k - 1
      BY <2>2 DEF LoopsBelow
    <3> QED
      BY <3>1, <3>2, FS_Subset
  <2>5. Cardinality(P) # 0
    BY <2>3, <2>4, FS_EmptySet
  <2> QED
    BY <2>2, <2>5 DEF LevelAt
<1> QED
  BY <1>1, <1>2, <1>3

\* Beneath what is kept the level is the same.
LEMMA LevelStays ==
  ASSUME NEW s, NEW t, NEW k \in Nat,
         \A j \in 1..k - 1 : t[j].call = s[j].call /\ (s[j].call = "exec" => t[j].at = s[j].at)
  PROVE  LevelAt(t, k) = LevelAt(s, k)
<1>1. LoopsBelow(t, k) = LoopsBelow(s, k)
  BY DEF LoopsBelow
<1> QED
  BY <1>1 DEF LevelAt

LEMMA ShapesFit ==
  ASSUME NEW s, NEW t, Len(s) \in Nat, Len(t) \in Nat, MaxLoops \in Nat \ {0},
         Nesting(s), Fits(s), Shape(s, t)
  PROVE  Fits(t)
<1>1. PICK n, m : n = Len(s) /\ m = Len(t)
  OBVIOUS
<1>2. PICK P, Q : P = Loops(s) /\ Q = Loops(t)
  OBVIOUS
<1>3. IsFiniteSet(P) /\ Cardinality(P) \in Nat /\ Cardinality(P) <= MaxLoops
  BY <1>2, LoopsAreFinite DEF Fits
<1>4. IsFiniteSet(Q) /\ Cardinality(Q) \in Nat
  BY <1>2, LoopsAreFinite
<1>5. /\ \A k : k \in P <=> k \in 1..n /\ s[k].call = "exec" /\ s[k].at # "enter"
      /\ \A k : k \in Q <=> k \in 1..m /\ t[k].call = "exec" /\ t[k].at # "enter"
  BY <1>1, <1>2 DEF Loops
<1>6. SUFFICES /\ Cardinality(Q) <= MaxLoops
               /\ m > 0 /\ t[m].call = "exec" /\ t[m].at = "enter" => Cardinality(Q) < MaxLoops
  BY <1>1, <1>2 DEF Fits
<1>7. CASE t = s
  BY <1>1, <1>2, <1>3, <1>7 DEF Fits
<1>8. CASE Pops(s, t)
  <2>1. n \in Nat /\ m = n - 1 /\ n > 0 /\ m \in Nat
    BY <1>1, <1>8 DEF Pops
  <2>2. \A k \in 1..m : Same(s[k], t[k]) /\ k \in 1..n /\ k < n
    BY <1>1, <1>8, <2>1 DEF Pops, Kept
  <2>3. Q \subseteq P
    BY <1>5, <2>2 DEF Same
  <2>4. Cardinality(Q) <= Cardinality(P)
    BY <1>3, <2>3, FS_Subset
  <2>5. ~(m > 0 /\ t[m].call = "exec" /\ t[m].at = "enter")
    <3>1. SUFFICES ASSUME m > 0, t[m].call = "exec", t[m].at = "enter"
                   PROVE  FALSE
      OBVIOUS
    <3>2. m \in 1..m
      BY <2>1, <3>1
    <3>3. NestingAt(s, m) /\ m < Len(s) /\ s[m].call = "exec" /\ s[m].at = "enter"
      BY <1>1, <2>2, <3>1, <3>2 DEF Nesting, Same
    <3> QED
      BY <3>3 DEF NestingAt
  <2> QED
    BY <1>3, <1>4, <2>4, <2>5
<1>9. CASE Turns(s, t)
  <2>1. n \in Nat /\ m = n /\ n > 0 /\ n \in 1..n
    BY <1>1, <1>9 DEF Turns
  <2>2. /\ \A k \in 1..n - 1 : Same(s[k], t[k])
        /\ Turned(s[n], t[n])
    BY <1>1, <1>9 DEF Turns, Kept
  <2>3. \A k \in 1..n : k # n => Same(s[k], t[k])
    BY <2>1, <2>2
  <2>4. CASE s[n].call = "exec" /\ s[n].at = "enter"
    <3>1. Q = P \cup {n} /\ n \notin P
      BY <1>5, <2>1, <2>2, <2>3, <2>4, SMTT(40) DEF Same, Turned
    <3>2. Cardinality(Q) = Cardinality(P) + 1
      BY <1>3, <3>1, FS_AddElement
    <3>3. Cardinality(P) < MaxLoops
      BY <1>1, <1>2, <2>1, <2>4 DEF Fits
    <3>4. t[m].at # "enter"
      BY <2>1, <2>2, <2>4 DEF Turned
    <3> QED
      BY <1>3, <3>2, <3>3, <3>4
  <2>5. CASE ~(s[n].call = "exec" /\ s[n].at = "enter")
    <3>1. Q = P
      <4>1. Q \subseteq P
        BY <1>5, <2>1, <2>2, <2>3, <2>5 DEF Same, Turned
      <4>2. P \subseteq Q
        BY <1>5, <2>1, <2>2, <2>3, <2>5 DEF Same, Turned
      <4> QED
        BY <4>1, <4>2
    <3>2. ~(t[m].call = "exec" /\ t[m].at = "enter")
      BY <2>1, <2>2, <2>5 DEF Turned
    <3> QED
      BY <1>3, <3>1, <3>2
  <2> QED
    BY <2>4, <2>5
<1>10. CASE Grows(s, t)
  <2>1. n \in Nat /\ m = n + 1 /\ m \in 1..m
    BY <1>1, <1>10 DEF Grows
  <2>2. \A k \in 1..n : Same(s[k], t[k])
    BY <1>1, <1>10 DEF Grows, Kept
  <2>3. t[m].call = "exec" => t[m].at = "enter" /\ Cardinality(P) < MaxLoops
    BY <1>1, <1>2, <1>10 DEF Grows
  <2>4. \A k : k \in 1..m <=> k \in 1..n \/ k = m
    BY <2>1
  <2>5. Q = P
    <3>1. Q \subseteq P
      BY <1>5, <2>2, <2>3, <2>4 DEF Same
    <3>2. P \subseteq Q
      BY <1>5, <2>2, <2>3, <2>4 DEF Same
    <3> QED
      BY <3>1, <3>2
  <2> QED
    BY <1>3, <2>3, <2>5
<1>11. CASE Begins(s, t)
  <2>1. n \in Nat /\ m = n + 1 /\ n > 0 /\ \A k : k \in 1..m <=> k \in 1..n - 1 \/ k = n \/ k = m
    BY <1>1, <1>11 DEF Begins
  <2>2. \A k : k \in 1..n <=> k \in 1..n - 1 \/ k = n
    BY <2>1
  <2>3. /\ \A k \in 1..n - 1 : Disturbed(s[k], t[k])
        /\ s[n].call = "process" /\ t[n].call = "process" /\ t[m].call = "send"
    BY <1>1, <1>11 DEF Begins
  <2>4. Q = P
    <3>1. Q \subseteq P
      <4>1. SUFFICES ASSUME NEW k \in Q
                     PROVE  k \in P
        OBVIOUS
      <4>2. k \in 1..n - 1
        BY <1>5, <2>1, <2>3
      <4> QED
        BY <1>5, <2>2, <2>3, <4>2 DEF Disturbed
    <3>2. P \subseteq Q
      <4>1. SUFFICES ASSUME NEW k \in P
                     PROVE  k \in Q
        OBVIOUS
      <4>2. k \in 1..n - 1
        BY <1>5, <2>2, <2>3
      <4>3. k \in 1..m /\ s[k].call = "exec" /\ s[k].at # "enter"
        BY <1>5, <2>1, <4>2
      <4>4. t[k].call = "exec" /\ t[k].at # "enter"
        BY <2>3, <4>2, <4>3 DEF Disturbed
      <4> QED
        BY <1>5, <4>3, <4>4
    <3> QED
      BY <3>1, <3>2
  <2> QED
    BY <1>3, <2>3, <2>4
<1> QED
  BY <1>7, <1>8, <1>9, <1>10, <1>11 DEF Shape

\* A call that may block has been there before, and its loop with it.
LEMMA AwaitsOld ==
  ASSUME NEW s, NEW t, Len(s) \in Nat, Len(t) \in Nat, Shape(s, t), NEW k \in 1..Len(t), Awaits(t[k]),
         Grows(s, t) => k # Len(t)
  PROVE  k \in 1..Len(s) /\ Awaits(s[k]) /\ LevelAt(t, k) = LevelAt(s, k)
<1>1. PICK n, m : n = Len(s) /\ m = Len(t)
  OBVIOUS
<1>2. n \in Nat /\ m \in Nat /\ k \in 1..m /\ k \in Nat
  BY <1>1
<1>3. SUFFICES /\ k \in 1..n /\ Awaits(s[k])
               /\ \A j \in 1..k - 1 : t[j].call = s[j].call /\ (s[j].call = "exec" => t[j].at = s[j].at)
  BY <1>1, <1>2, LevelStays
<1>4. CASE t = s
  BY <1>1, <1>4
<1>5. CASE Pops(s, t) \/ (Grows(s, t) /\ k # m)
  <2>1. (m = n - 1 \/ (m = n + 1 /\ k # m)) /\ \A j \in 1..n : j \in 1..m => Same(s[j], t[j])
    <3>1. CASE Pops(s, t)
      BY <1>1, <1>2, <3>1 DEF Pops, Kept
    <3>2. CASE Grows(s, t) /\ k # m
      BY <1>1, <1>2, <3>2 DEF Grows, Kept
    <3> QED
      BY <1>5, <3>1, <3>2
  <2>2. k \in 1..n /\ \A j \in 1..k : j \in 1..n /\ j \in 1..m
    BY <1>2, <2>1
  <2>3. /\ Same(s[k], t[k])
        /\ \A j \in 1..k - 1 : Same(s[j], t[j])
    BY <1>2, <2>1, <2>2
  <2> QED
    BY <2>2, <2>3 DEF Same, Awaits
<1>6. CASE Turns(s, t)
  <2>1. m = n /\ (k # n => k \in 1..n - 1) /\ \A j \in 1..k - 1 : j \in 1..n - 1
    BY <1>1, <1>2, <1>6 DEF Turns
  <2>2. /\ \A j \in 1..n - 1 : Same(s[j], t[j])
        /\ Turned(s[n], t[n])
    BY <1>1, <1>6 DEF Turns, Kept
  <2>3. Awaits(s[k])
    <3>1. CASE k = n
      BY <2>2, <3>1 DEF Turned, Awaits
    <3>2. CASE k # n
      BY <2>1, <2>2, <3>2 DEF Same, Awaits
    <3> QED
      BY <3>1, <3>2
  <2> QED
    BY <1>2, <2>1, <2>2, <2>3 DEF Same
<1>7. CASE Begins(s, t)
  <2>1. n > 0 /\ m = n + 1 /\ \A j \in 1..n - 1 : Disturbed(s[j], t[j])
    BY <1>1, <1>7 DEF Begins
  <2>2. /\ s[n].call = "process" /\ t[n].call = "process" /\ t[n].wait = s[n].wait
        /\ t[n].disturbed = s[n].disturbed /\ t[m].call = "send"
    BY <1>1, <1>7 DEF Begins
  <2>3. k # m
    BY <2>2 DEF Awaits
  <2>4. k = n
    <3>1. SUFFICES ASSUME k # n
                   PROVE  FALSE
      OBVIOUS
    <3>2. k \in 1..n - 1
      BY <1>2, <2>1, <2>3, <3>1
    <3> QED
      BY <2>1, <3>2 DEF Disturbed, Awaits
  <2>5. k \in 1..n /\ Awaits(s[k])
    BY <1>2, <2>2, <2>4 DEF Awaits
  <2> QED
    BY <2>1, <2>4, <2>5 DEF Disturbed
<1> QED
  BY <1>1, <1>4, <1>5, <1>6, <1>7 DEF Shape

-----------------------------------------------------------------------------
(* Every step moves the stack in one of these ways.                        *)

LEMMA StackIs ==
  ASSUME EventsSound
  PROVE  /\ Len(stack) \in Nat /\ DOMAIN stack = 1..Len(stack) /\ stack \in Seq(CallFrame(Len(events)))
         /\ \A k \in 1..Len(stack) : stack[k] \in CallFrame(Len(events))
         /\ stack # <<>> <=> Len(stack) > 0
         /\ Len(stack) > 0 => Len(stack) \in 1..Len(stack) /\ Last(stack) = stack[Len(stack)]
<1>1. StackSound(stack, Len(events))
  BY DEF EventsSound
<1>2. /\ Len(stack) \in Nat /\ DOMAIN stack = 1..Len(stack) /\ stack \in Seq(CallFrame(Len(events)))
      /\ \A k \in 1..Len(stack) : stack[k] \in CallFrame(Len(events))
  BY <1>1, StackTyped
<1> QED
  BY <1>2 DEF Last

LEMMA LevelOfLoops ==
  ASSUME EventsSound
  PROVE  loopLevel = Cardinality(Loops(stack))
<1>1. {k \in Frames({"exec"}) : stack[k].at # "enter"} = Loops(stack)
  BY StackIs DEF Frames, Loops
<1> QED
  BY <1>1 DEF loopLevel

LEMMA ReturnPops ==
  ASSUME EventsSound, stack # <<>>, Returns
  PROVE  Pops(stack, stack')
<1>1. PICK X, s, t : X = CallFrame(Len(events)) /\ s = stack /\ t = stack'
  OBVIOUS
<1>2. s \in Seq(X) /\ s # <<>> /\ t = Front(s) /\ Len(s) \in Nat /\ Len(s) > 0
  BY <1>1, StackIs DEF Returns
<1>3. Len(t) = Len(s) - 1 /\ \A k \in 1..Len(s) - 1 : t[k] = s[k]
  BY <1>2, FrontIs
<1> QED
  BY <1>1, <1>2, <1>3 DEF Pops, Kept, Same

OnlyTopIs(s, g, t) == Len(t) = Len(s) /\ t[Len(s)] = g /\ \A k \in 1..Len(s) - 1 : t[k] = s[k]

LEMMA SetLast ==
  ASSUME NEW X, NEW s, NEW g, NEW t, s \in Seq(X), Len(s) \in 1..Len(s), TopSet(s, g, t)
  PROVE  OnlyTopIs(s, g, t)
<1>1. PICK m : m = Len(s)
  OBVIOUS
<1>2. m \in Nat /\ DOMAIN s = 1..m /\ t = [s EXCEPT ![m] = g] /\ m \in 1..m
  BY <1>1 DEF TopSet
<1>3. DOMAIN t = 1..m /\ t[m] = g
  BY <1>2
<1>4. \A k \in 1..m - 1 : t[k] = s[k]
  BY <1>2
<1>5. Len(t) = m
  BY <1>1, <1>2, SMTT(40)
<1> QED
  BY <1>1, <1>3, <1>4, <1>5 DEF OnlyTopIs

\* The top of the stack becomes g.
LEMMA TopTurns ==
  ASSUME EventsSound, stack # <<>>, NEW g, stack' = [stack EXCEPT ![Len(stack)] = g],
         Turned(stack[Len(stack)], g)
  PROVE  Turns(stack, stack')
<1>1. PICK X, s, t : X = CallFrame(Len(events)) /\ s = stack /\ t = stack'
  OBVIOUS
<1>2. s \in Seq(X) /\ Len(s) \in Nat /\ Len(s) > 0 /\ Len(s) \in 1..Len(s) /\ DOMAIN s = 1..Len(s)
  BY <1>1, StackIs
<1>3. t = [s EXCEPT ![Len(s)] = g]
  BY <1>1
<1>4. TopSet(s, g, t)
  BY <1>3 DEF TopSet
<1>5. OnlyTopIs(s, g, t)
  BY <1>2, <1>4, SetLast, Zenon
<1> QED
  BY <1>1, <1>2, <1>5, Zenon DEF OnlyTopIs, Turns, Kept, Same

LEMMA GoTurns ==
  ASSUME EventsSound, NEW call \in {"process", "exec"}, NEW at, At(call, at), NEW to, Goes(to),
         call = "process" => at # "begin",
         call = "exec" => to # "enter"
  PROVE  Turns(stack, stack')
<1>1. PICK f : f = Last(stack)
  OBVIOUS
<1>2. /\ stack # <<>> /\ f \in CallFrame(Len(events)) /\ f.call = call /\ f.at = at
      /\ f = stack[Len(stack)] /\ Len(stack) \in 1..Len(stack) /\ DOMAIN stack = 1..Len(stack)
  BY <1>1, OnTop
<1>3. PICK g : g = [f EXCEPT !.at = to]
  OBVIOUS
<1>4. stack' = [stack EXCEPT ![Len(stack)] = g]
  BY <1>2, <1>3 DEF Goes
<1>5. f \in ProcessFrame \cup ExecFrame
  BY <1>2, FrameTyped
<1>6. Turned(f, g)
  BY <1>2, <1>3, <1>5 DEF Turned, ProcessFrame, ExecFrame
<1> QED
  BY <1>2, <1>4, <1>6, TopTurns

LEMMA CallGrows ==
  ASSUME EventsSound, NEW f, Calls(f),
         stack # <<>> =>
           Last(stack).call # "process" /\ (Last(stack).call = "exec" => Last(stack).at = "loop"),
         f.call = "process" => f.at = "begin" /\ (f.wait => stack # <<>> /\ Last(stack).call = "exec"),
         f.call = "exec" => f.at = "enter" /\ loopLevel < MaxLoops
  PROVE  Grows(stack, stack') /\ stack'[Len(stack')] = f
<1>1. PICK X, s, t : X = CallFrame(Len(events)) /\ s = stack /\ t = stack'
  OBVIOUS
<1>2. s \in Seq(X) /\ Len(s) \in Nat /\ t = Append(s, f)
  BY <1>1, StackIs DEF Calls
<1>3. Len(t) = Len(s) + 1 /\ t[Len(t)] = f /\ \A k \in 1..Len(s) : t[k] = s[k]
  BY <1>2
<1>4. Kept(s, t, Len(s))
  BY <1>3 DEF Kept, Same
<1>5. /\ Len(s) > 0 => s[Len(s)].call # "process" /\ (s[Len(s)].call = "exec" => s[Len(s)].at = "loop")
      /\ f.call = "process" => f.at = "begin" /\ (f.wait => Len(s) > 0 /\ s[Len(s)].call = "exec")
      /\ f.call = "exec" => f.at = "enter" /\ Cardinality(Loops(s)) < MaxLoops
  BY <1>1, StackIs, LevelOfLoops
<1> QED
  BY <1>1, <1>3, <1>4, <1>5 DEF Grows

\* A loop that calls processEvents has not been told to exit.
NewLoops ==
  Grows(stack, stack') /\ Awaits(stack'[Len(stack')]) => ~exit[loopLevel] /\ UNCHANGED exit

LEMMA NotNew ==
  ASSUME Pops(stack, stack') \/ Turns(stack, stack') \/ stack' = stack \/ Begins(stack, stack'),
         EventsSound, Len(stack') \in Nat
  PROVE  NewLoops
<1>1. PICK n, m : n = Len(stack) /\ m = Len(stack')
  OBVIOUS
<1>2. n \in Nat
  BY <1>1, StackIs
<1>3. CASE Pops(stack, stack') \/ Turns(stack, stack') \/ stack' = stack
  BY <1>1, <1>2, <1>3 DEF NewLoops, Grows, Pops, Turns
<1>4. CASE Begins(stack, stack')
  BY <1>4 DEF NewLoops, Begins, Awaits
<1> QED
  BY <1>3, <1>4

LEMMA SendShapes ==
  ASSUME EventsSound, EventsSound', Send
  PROVE  Shape(stack, stack') /\ NewLoops
<1>1. PICK s, n, f, t : s = stack /\ n = Len(events) /\ f = Last(stack) /\ t = stack'
  OBVIOUS
<1>2. At("send", "enter") \/ At("send", "next")
  BY DEF Send, SendEnter, SendSkip, SendDeliver, SendEnd
<1>3. /\ s # <<>> /\ f \in CallFrame(n) /\ f.call = "send" /\ f = s[Len(s)] /\ Len(s) \in 1..Len(s)
      /\ DOMAIN s = 1..Len(s) /\ Len(s) \in Nat /\ Len(s) > 0 /\ s \in Seq(CallFrame(n)) /\ Len(t) \in Nat
  BY <1>1, <1>2, OnTop, StackIs, StackTyped DEF EventsSound
<1>4. f \in SendFrame
  BY <1>3, FrameTyped
<1>5. CASE Returns
  BY <1>1, <1>3, <1>5, ReturnPops, NotNew DEF Shape
<1>6. ASSUME NEW g, g.call = "send", g.to = f.to, t = [s EXCEPT ![Len(s)] = g]
      PROVE  Shape(stack, stack') /\ NewLoops
  <2>1. Turned(s[Len(s)], g)
    BY <1>3, <1>6 DEF Turned
  <2>2. Turns(stack, stack')
    BY <1>1, <1>3, <1>6, <2>1, TopTurns
  <2> QED
    BY <1>1, <1>3, <2>2, NotNew DEF Shape
<1>7. CASE SendEnter
  <2>1. CASE ~Returns
    <3>1. PICK b : t = [s EXCEPT ![Len(s)].at = "next", ![Len(s)].i = b]
      BY <1>1, <1>7, <2>1 DEF SendEnter
    <3>2. PICK g : g = [f EXCEPT !.at = "next", !.i = b]
      OBVIOUS
    <3>3. t = [s EXCEPT ![Len(s)] = g]
      BY <1>3, <3>1, <3>2
    <3>4. g.call = "send" /\ g.to = f.to
      BY <1>3, <1>4, <3>2 DEF SendFrame
    <3> QED
      BY <1>6, <3>3, <3>4
  <2> QED
    BY <1>5, <2>1
<1>8. CASE SendSkip
  <2>1. Advance(s)
    BY <1>1, <1>8 DEF SendSkip
  <2>2. CASE f.to = All
    <3>1. t = s
      BY <1>1, <2>1, <2>2 DEF Advance
    <3> QED
      BY <1>1, <1>3, <3>1, NotNew DEF Shape
  <2>3. CASE f.to # All
    <3>1. t = [s EXCEPT ![Len(s)].i = @ + 1]
      BY <1>1, <2>1, <2>3 DEF Advance
    <3>2. PICK g : g = [f EXCEPT !.i = @ + 1]
      OBVIOUS
    <3>3. t = [s EXCEPT ![Len(s)] = g]
      BY <1>3, <3>1, <3>2
    <3>4. g.call = "send" /\ g.to = f.to
      BY <1>3, <1>4, <3>2 DEF SendFrame
    <3> QED
      BY <1>6, <3>3, <3>4
  <2> QED
    BY <2>2, <2>3
<1>9. CASE SendDeliver
  <2>1. PICK e, h : h = Notify(e) /\ Advance(Append(s, h))
    BY <1>1, <1>9 DEF SendDeliver
  <2>2. PICK u : u = Append(s, h)
    OBVIOUS
  <2>3. Len(u) = Len(s) + 1 /\ u[Len(s) + 1] = h /\ \A k \in 1..Len(s) : u[k] = s[k]
    BY <1>3, <2>2
  <2>4. DOMAIN u = 1..Len(s) + 1
    BY <1>3, <2>2
  <2>5. t = u \/ t = [u EXCEPT ![Len(s)].i = @ + 1]
    BY <1>1, <2>1, <2>2 DEF Advance
  <2>6. Len(t) = Len(s) + 1
    <3>1. DOMAIN t = 1..Len(s) + 1
      BY <2>4, <2>5
    <3>2. stack' \in Seq(CallFrame(Len(events'))) /\ Len(stack') \in Nat /\ DOMAIN stack' = 1..Len(stack')
      BY StackTyped DEF EventsSound
    <3> QED
      BY <1>1, <1>3, <3>1, <3>2
  <2>7. t[Len(s) + 1] = h
    BY <1>3, <2>3, <2>4, <2>5, SMTT(40)
  <2>8. \A k \in 1..Len(s) : Same(s[k], t[k])
    <3>1. \A k \in 1..Len(s) : k # Len(s) => t[k] = s[k]
      BY <2>3, <2>4, <2>5
    <3>2. t[Len(s)] = f \/ t[Len(s)] = [f EXCEPT !.i = @ + 1]
      BY <1>3, <2>3, <2>4, <2>5
    <3>3. Same(f, t[Len(s)])
      BY <1>3, <1>4, <3>2 DEF Same, SendFrame
    <3> QED
      BY <1>3, <3>1, <3>3, Zenon DEF Same
  <2>9. h.call = "notify"
    BY <2>1 DEF Notify
  <2>10. Grows(s, t) /\ t[Len(t)] = h
    BY <1>3, <2>6, <2>7, <2>8, <2>9 DEF Grows, Kept
  <2> QED
    BY <1>1, <2>9, <2>10 DEF Shape, NewLoops, Awaits
<1>10. CASE SendEnd
  <2>1. CASE ~Returns
    <3>1. t = [k \in 1..Len(s) - 1 |-> Ahead(s[k])]
      BY <1>1, <1>10, <2>1 DEF SendEnd
    <3>2. PICK m : m = Len(s) - 1
      OBVIOUS
    <3>3. m \in Nat /\ DOMAIN t = 1..m
      BY <1>3, <3>1, <3>2
    <3>4. Len(t) = m
      <4>1. stack' \in Seq(CallFrame(Len(events'))) /\ Len(stack') \in Nat /\ DOMAIN stack' = 1..Len(stack')
        BY StackTyped DEF EventsSound
      <4> QED
        BY <1>1, <3>3, <4>1
    <3>5. ASSUME NEW k \in 1..m
          PROVE  Same(s[k], t[k])
      <4>1. k \in 1..Len(s) /\ t[k] = Ahead(s[k])
        BY <1>3, <3>1, <3>2, <3>5
      <4>2. s[k] \in CallFrame(n) /\ (s[k].call = "send" => s[k] \in SendFrame)
        BY <1>3, <4>1, FrameTyped
      <4> QED
        BY <4>1, <4>2 DEF Ahead, Same, SendFrame
    <3>6. Pops(s, t)
      BY <1>3, <3>2, <3>4, <3>5 DEF Pops, Kept
    <3> QED
      BY <1>1, <1>3, <3>6, NotNew DEF Shape
  <2> QED
    BY <1>5, <2>1
<1> QED
  BY <1>7, <1>8, <1>9, <1>10 DEF Send

LEMMA Appended ==
  ASSUME NEW m \in Nat, NEW u, u = [k \in 1..m |-> u[k]], NEW h, NEW t, t = Append(u, h)
  PROVE  Len(t) = m + 1 /\ t[m + 1] = h /\ \A k \in 1..m : t[k] = u[k]
<1>1. PICK X : X = {u[k] : k \in 1..m}
  OBVIOUS
<1>2. u \in [1..m -> X]
  BY <1>1
<1>3. u \in Seq(X) /\ Len(u) = m
  BY <1>2
<1> QED
  BY <1>3

LEMMA ProcessBegins ==
  ASSUME EventsSound, ProcessBegin
  PROVE  Begins(stack, stack')
<1>1. PICK s, n, f, t, m : s = stack /\ n = Len(events) /\ f = Last(stack) /\ t = stack' /\ m = Len(stack)
  OBVIOUS
<1>2. /\ s # <<>> /\ f \in CallFrame(n) /\ f.call = "process" /\ f = s[m]
      /\ m \in 1..m /\ DOMAIN s = 1..m /\ m \in Nat /\ m = Len(s) /\ m > 0
  BY <1>1, OnTop DEF ProcessBegin
<1>3. \A k \in 1..m : s[k] \in CallFrame(n)
  BY <1>1, StackIs
<1>4. PICK u : u = [k \in 1..m |->
                     IF k = m THEN [s[k] EXCEPT !.at = "sent"]
                     ELSE IF s[k].call = "process" THEN [s[k] EXCEPT !.disturbed = TRUE]
                     ELSE s[k]]
  OBVIOUS
<1>5. PICK h : h = SendPostedEvents(All)
  OBVIOUS
<1>6. t = Append(u, h)
  BY <1>1, <1>2, <1>4, <1>5 DEF ProcessBegin
<1>7. Len(t) = m + 1 /\ t[m + 1] = h /\ \A k \in 1..m : t[k] = u[k]
  <2>1. u = [k \in 1..m |-> u[k]]
    BY <1>4
  <2> QED
    BY <1>2, <1>6, <2>1, Appended
<1>8. ASSUME NEW k \in 1..m - 1
      PROVE  Disturbed(s[k], t[k])
  <2>1. k \in 1..m /\ k # m
    <3>1. m \in Nat
      BY <1>2
    <3> QED
      BY <3>1
  <2>2. CASE s[k].call = "process"
    <3>1. s[k] \in ProcessFrame
      BY <1>3, <2>1, <2>2, FrameTyped
    <3>2. t[k] = [s[k] EXCEPT !.disturbed = TRUE]
      BY <1>4, <1>7, <2>1, <2>2
    <3> QED
      BY <2>2, <3>1, <3>2 DEF ProcessFrame, Disturbed
  <2>3. CASE s[k].call # "process"
    <3>1. t[k] = s[k]
      BY <1>4, <1>7, <2>1, <2>3
    <3> QED
      BY <2>3, <3>1 DEF Disturbed
  <2> QED
    BY <2>2, <2>3
<1>9. t[m].call = "process" /\ t[m].at = "sent" /\ t[m].wait = f.wait /\ t[m].disturbed = f.disturbed
  <2>1. t[m] = [f EXCEPT !.at = "sent"]
    BY <1>2, <1>4, <1>7
  <2>2. f \in ProcessFrame
    BY <1>2, FrameTyped
  <2> QED
    BY <2>1, <2>2 DEF ProcessFrame
<1>10. h.call = "send" /\ h.to = All
  BY <1>5 DEF SendPostedEvents
<1> QED
  BY <1>1, <1>2, <1>7, <1>8, <1>9, <1>10 DEF Begins

LEMMA ProcessShapes ==
  ASSUME EventsSound, EventsSound', Process
  PROVE  Shape(stack, stack') /\ NewLoops
<1>1. Len(stack') \in Nat
  BY StackTyped DEF EventsSound
<1>2. CASE ProcessBegin
  BY <1>1, <1>2, ProcessBegins, NotNew DEF Shape
<1>3. CASE ProcessCanWait
  <2>1. PICK f : f = Last(stack)
    OBVIOUS
  <2>2. /\ stack # <<>> /\ f \in CallFrame(Len(events)) /\ f.call = "process" /\ f.at = "sent"
        /\ f = stack[Len(stack)] /\ Len(stack) \in 1..Len(stack) /\ DOMAIN stack = 1..Len(stack)
    BY <1>3, <2>1, OnTop DEF ProcessCanWait
  <2>3. f \in ProcessFrame
    BY <2>2, FrameTyped
  <2>4. PICK w : w = (f.wait /\ canWait)
    OBVIOUS
  <2>5. PICK g : g = [f EXCEPT !.at = "interrupt", !.wait = w]
    OBVIOUS
  <2>6. g.call = "process" /\ (g.wait => f.wait) /\ g.disturbed = f.disturbed
    BY <2>2, <2>3, <2>4, <2>5 DEF ProcessFrame
  <2>7. stack' = [stack EXCEPT ![Len(stack)] = g]
    BY <1>3, <2>2, <2>4, <2>5 DEF ProcessCanWait
  <2>8. Turned(stack[Len(stack)], g)
    BY <2>2, <2>6 DEF Turned
  <2>9. Turns(stack, stack')
    BY <2>2, <2>7, <2>8, TopTurns
  <2> QED
    BY <1>1, <2>9, NotNew DEF Shape
<1>4. CASE ProcessInterrupted \/ Poll \/ Check
  <2>1. PICK call, at : call \in {"process", "exec"} /\ call = "process" /\ at # "begin" /\ At(call, at)
    BY <1>4 DEF ProcessInterrupted, Poll, Check
  <2>2. stack # <<>>
    BY <2>1 DEF At
  <2>3. CASE Returns
    BY <1>1, <2>2, <2>3, ReturnPops, NotNew DEF Shape
  <2>4. CASE ~Returns
    <3>1. PICK to : Goes(to)
      BY <1>4, <2>4 DEF ProcessInterrupted, Poll, Check
    <3>2. Turns(stack, stack')
      BY <2>1, <3>1, GoTurns
    <3> QED
      BY <1>1, <3>2, NotNew DEF Shape
  <2> QED
    BY <2>3, <2>4
<1> QED
  BY <1>2, <1>3, <1>4 DEF Process

LEMMA LoopShapes ==
  ASSUME EventsSound, EventsSound', ThreadExec \/ ExecEnter \/ ExecLoop \/ ExecLeave \/ ThreadExecEnd
  PROVE  Shape(stack, stack') /\ NewLoops
<1>1. Len(stack') \in Nat
  BY StackTyped DEF EventsSound
<1>2. CASE ThreadExec
  <2>1. CASE UNCHANGED stack
    BY <1>1, <2>1, NotNew DEF Shape
  <2>2. CASE ~UNCHANGED stack
    <3>1. stack = <<>> /\ Calls(Exec)
      BY <1>2, <2>2 DEF ThreadExec
    <3>2. PICK f : f = Exec
      OBVIOUS
    <3>3. f.call = "exec" /\ f.at = "enter"
      BY <3>2 DEF Exec
    <3>4. loopLevel < MaxLoops
      <4>1. Loops(stack) = {}
        BY <3>1, StackIs DEF Loops
      <4>2. loopLevel = 0
        BY <4>1, LevelOfLoops, FS_EmptySet
      <4> QED
        BY <4>2, EventsAssumption
    <3>5. Grows(stack, stack') /\ stack'[Len(stack')] = f
      BY <3>1, <3>2, <3>3, <3>4, CallGrows
    <3> QED
      BY <3>3, <3>5 DEF Shape, NewLoops, Awaits
  <2> QED
    BY <2>1, <2>2
<1>3. CASE ExecEnter \/ ExecLoop \/ ExecLeave \/ ThreadExecEnd
  <2>1. PICK call, at : call \in {"process", "exec"} /\ call = "exec" /\ At(call, at)
    BY <1>3 DEF ExecEnter, ExecLoop, ExecLeave, ThreadExecEnd
  <2>2. stack # <<>> /\ Last(stack).call = "exec"
    BY <2>1 DEF At
  <2>3. \/ Returns \/ Goes("left") \/ Goes("loop") \/ Goes("leave") \/ Calls(ProcessEvents(TRUE))
    BY <1>3 DEF ExecEnter, ExecLoop, ExecLeave, ThreadExecEnd
  <2>4. CASE Returns
    BY <1>1, <2>2, <2>4, ReturnPops, NotNew DEF Shape
  <2>5. ASSUME NEW to \in {"left", "loop", "leave"}, Goes(to)
        PROVE  Shape(stack, stack') /\ NewLoops
    <3>1. Turns(stack, stack')
      BY <2>1, <2>5, GoTurns
    <3> QED
      BY <1>1, <3>1, NotNew DEF Shape
  <2>6. CASE ~(Returns \/ Goes("left") \/ Goes("loop") \/ Goes("leave"))
    <3>1. ExecLoop /\ Calls(ProcessEvents(TRUE))
      BY <1>3, <2>3, <2>6 DEF ExecEnter, ExecLeave, ThreadExecEnd
    <3>2. ~exit[loopLevel] /\ UNCHANGED exit /\ At("exec", "loop")
      BY <2>6, <3>1 DEF ExecLoop, loops
    <3>3. PICK f : f = ProcessEvents(TRUE)
      BY Zenon
    <3>4. f.call = "process" /\ f.at = "begin"
      BY <3>3 DEF ProcessEvents
    <3>5. Last(stack).at = "loop"
      BY <3>2 DEF At
    <3>6. Grows(stack, stack')
      BY <2>2, <3>1, <3>3, <3>4, <3>5, CallGrows
    <3> QED
      BY <3>2, <3>6 DEF Shape, NewLoops
  <2> QED
    BY <2>3, <2>4, <2>5, <2>6
<1> QED
  BY <1>2, <1>3

LEMMA HandlerShapes ==
  ASSUME EventsSound, EventsSound', Handler
  PROVE  Shape(stack, stack') /\ NewLoops
<1>1. Len(stack') \in Nat
  BY StackTyped DEF EventsSound
<1>2. CASE HandlerPosts \/ HandlerRemoves \/ HandlerExits
  <2>1. UNCHANGED stack
    BY <1>2 DEF HandlerPosts, HandlerRemoves, HandlerExits
  <2> QED
    BY <1>1, <2>1, NotNew DEF Shape
<1>3. CASE HandlerReturns \/ Destroy
  <2>1. stack # <<>> /\ Returns
    BY <1>3 DEF HandlerReturns, Destroy, InHandler, Destroying, At
  <2> QED
    BY <1>1, <2>1, ReturnPops, NotNew DEF Shape
<1>4. CASE HandlerCalls
  <2>1. stack # <<>> /\ Last(stack).call = "notify"
    BY <1>4 DEF HandlerCalls, InHandler, At
  <2>2. PICK f : /\ Calls(f)
                 /\ f.call = "process" => f.at = "begin" /\ ~f.wait
                 /\ f.call = "exec" => f.at = "enter" /\ loopLevel < MaxLoops
    <3>1. CASE \E r \in Live \cup {All} : Calls(SendPostedEvents(r))
      <4>1. PICK r : Calls(SendPostedEvents(r))
        BY <3>1
      <4>2. PICK f : f = SendPostedEvents(r)
        OBVIOUS
      <4>3. f.call = "send"
        BY <4>2 DEF SendPostedEvents
      <4> QED
        BY <4>1, <4>2, <4>3
    <3>2. CASE Calls(ProcessEvents(FALSE))
      <4>1. PICK f : f = ProcessEvents(FALSE)
        BY Zenon
      <4>2. f.call = "process" /\ f.at = "begin" /\ ~f.wait
        BY <4>1 DEF ProcessEvents
      <4> QED
        BY <3>2, <4>1, <4>2
    <3>3. CASE loopLevel < MaxLoops /\ Calls(Exec)
      <4>1. PICK f : f = Exec
        OBVIOUS
      <4>2. f.call = "exec" /\ f.at = "enter"
        BY <4>1 DEF Exec
      <4> QED
        BY <3>3, <4>1, <4>2
    <3> QED
      BY <1>4, <3>1, <3>2, <3>3 DEF HandlerCalls
  <2>3. Grows(stack, stack') /\ stack'[Len(stack')] = f
    BY <2>1, <2>2, CallGrows
  <2> QED
    BY <2>2, <2>3 DEF Shape, NewLoops, Awaits
<1> QED
  BY <1>2, <1>3, <1>4 DEF Handler

OthersStep == Quit \/ \E q \in Poster : PosterPosts(q) \/ PosterWakes(q) \/ PosterRemoves(q)

LEMMA StepShapes ==
  ASSUME EventsSound, EventsSound', ThreadExec \/ ThreadStep \/ Handler \/ OthersStep
  PROVE  Shape(stack, stack') /\ NewLoops
<1>1. CASE ThreadExec \/ ThreadStep \/ Handler
  BY <1>1, SendShapes, ProcessShapes, LoopShapes, HandlerShapes DEF ThreadStep
<1>2. CASE OthersStep
  <2>1. UNCHANGED stack
    BY <1>2 DEF OthersStep, Quit, QuitBegin, QuitExits, QuitInterrupts, QuitWakes, PosterPosts, PosterWakes,
                PosterRemoves
  <2>2. Len(stack') \in Nat
    BY StackTyped DEF EventsSound
  <2> QED
    BY <2>1, <2>2, NotNew DEF Shape
<1> QED
  BY <1>1, <1>2

-----------------------------------------------------------------------------
(* While a thread may wait, only deletions stand behind the insertion      *)
(* offset.                                                                 *)

BehindOffset ==
  canWait => \A k \in insertionOffset + 1..Len(list) : list[k].event # 0 => events[list[k].event].deletes

\* What comes to stand there stood there before or is a deletion.
LateStays(l, b, s, c, ev) ==
  \A k \in c + 1..Len(s) :
    s[k].event # 0 => ev[s[k].event].deletes \/ \E j \in b + 1..Len(l) : l[j].event = s[k].event

LateKeeps == LateStays(list, insertionOffset, list', insertionOffset', events') /\ SameKinds(events, events')

LEMMA BehindStays ==
  ASSUME QueueOK, BehindOffset, LateKeeps, canWait' => canWait
  PROVE  BehindOffset'
<1>1. SUFFICES ASSUME canWait', NEW k \in insertionOffset' + 1..Len(list'), list'[k].event # 0
               PROVE  events'[list'[k].event].deletes
  BY DEF BehindOffset
<1>2. CASE \E j \in insertionOffset + 1..Len(list) : list[j].event = list'[k].event
  <2>1. PICK j \in insertionOffset + 1..Len(list) : list[j].event = list'[k].event
    BY <1>2
  <2>2. PICK e : e = list[j].event
    OBVIOUS
  <2>3. e # 0 /\ events[e].deletes
    BY <1>1, <2>1, <2>2 DEF BehindOffset
  <2>4. j \in DOMAIN list
    <3>1. insertionOffset \in Nat /\ Len(list) \in Nat /\ DOMAIN list = 1..Len(list)
      BY QueueTyped DEF QueueOK, QueueTypeOK
    <3> QED
      BY <2>1, <3>1
  <2>5. e \in DOMAIN events
    BY <2>2, <2>3, <2>4, QueueTyped DEF QueueOK
  <2>6. events'[e].deletes
    BY <2>3, <2>5 DEF LateKeeps, SameKinds
  <2> QED
    BY <2>1, <2>2, <2>6
<1>3. CASE ~\E j \in insertionOffset + 1..Len(list) : list[j].event = list'[k].event
  BY <1>1, <1>3 DEF LateKeeps, LateStays
<1> QED
  BY <1>2, <1>3

LEMMA SameLate ==
  ASSUME UNCHANGED <<list, insertionOffset, events>>
  PROVE  LateKeeps
BY DEF LateKeeps, LateStays, SameKinds

\* Elements are emptied.
LEMMA EmptiedLate ==
  ASSUME NEW n, NEW l \in Seq(EventElement(n)), NEW T \in SUBSET DOMAIN l, NEW s, Emptied(l, T, s), NEW b \in Nat,
         NEW ev
  PROVE  LateStays(l, b, s, b, ev)
<1>1. DOMAIN l = 1..Len(l) /\ Len(l) \in Nat
  OBVIOUS
<1>2. \A k \in DOMAIN l : l[k] \in EventElement(n)
  OBVIOUS
<1>3. DOMAIN s = 1..Len(l) /\ Len(s) = Len(l)
  BY <1>1 DEF Emptied
<1>4. SUFFICES ASSUME NEW k \in b + 1..Len(s), s[k].event # 0
               PROVE  l[k].event = s[k].event
  BY <1>3 DEF LateStays
<1>5. k \in DOMAIN l
  BY <1>1, <1>3
<1>6. CASE k \in T
  <2>1. s[k] = [l[k] EXCEPT !.event = 0]
    BY <1>5, <1>6 DEF Emptied
  <2>2. s[k].event = 0
    BY <1>2, <1>5, <2>1 DEF EventElement
  <2> QED
    BY <1>4, <2>2
<1>7. CASE k \notin T
  BY <1>5, <1>7 DEF Emptied
<1> QED
  BY <1>6, <1>7

\* A deletion is inserted.
LEMMA InsertedLate ==
  ASSUME NEW l, NEW m, NEW b \in Nat, NEW x, NEW p, NEW s, Inserted(m, b, x, p, s), Len(m) \in Nat, NEW ev,
         LateStays(l, b, m, b, ev), ev[x.event].deletes
  PROVE  LateStays(l, b, s, b, ev)
<1>1. SUFFICES ASSUME NEW k \in b + 1..Len(s), s[k].event # 0
               PROVE  ev[s[k].event].deletes \/ \E j \in b + 1..Len(l) : l[j].event = s[k].event
  BY DEF LateStays
<1>2. PICK c : c = Len(m)
  OBVIOUS
<1>3. p \in b + 1..c + 1 /\ Len(s) = c + 1 /\ c \in Nat
  BY <1>2 DEF Inserted
<1>4. CASE k = p
  BY <1>4 DEF Inserted
<1>5. CASE k # p
  <2>1. PICK j \in b + 1..c : s[k] = m[j]
    <3>1. CASE k < p
      <4>1. k \in b + 1..c /\ k \in 1..p - 1
        BY <1>3, <3>1
      <4> QED
        BY <4>1 DEF Inserted
    <3>2. CASE ~(k < p)
      <4>1. k - 1 \in b + 1..c /\ k \in p + 1..c + 1
        BY <1>3, <1>5, <3>2
      <4> QED
        BY <1>2, <4>1 DEF Inserted
    <3> QED
      BY <3>1, <3>2
  <2> QED
    BY <1>1, <1>2, <2>1 DEF LateStays
<1> QED
  BY <1>4, <1>5

\* sendPostedEvents
LEMMA SendLate ==
  ASSUME EventsSound, BehindOffset, Send
  PROVE  BehindOffset'
<1>1. QueueOK /\ insertionOffset \in Nat /\ Len(list) \in Nat
  BY QueueTyped DEF EventsSound, QueueOK, QueueTypeOK
<1>2. CASE SendEnter
  <2>1. UNCHANGED <<list, events>>
    BY <1>2 DEF SendEnter
  <2>2. (canWait' = (list = <<>>) /\ UNCHANGED insertionOffset) \/ insertionOffset' = Len(list)
    BY <1>2 DEF SendEnter
  <2>3. CASE insertionOffset' = Len(list)
    BY <1>1, <2>1, <2>3 DEF BehindOffset
  <2>4. CASE canWait' = (list = <<>>) /\ UNCHANGED insertionOffset
    <3>1. list = <<>> => \A k \in insertionOffset + 1..Len(list) : FALSE
      BY <1>1
    <3> QED
      BY <2>1, <2>4, <3>1 DEF BehindOffset
  <2> QED
    BY <2>2, <2>3, <2>4
<1>3. CASE SendEnd
  <2>1. UNCHANGED <<events, canWait>>
    BY <1>3 DEF SendEnd
  <2>2. LateKeeps
    <3>1. CASE Last(stack).to # All
      <4>1. UNCHANGED <<list, insertionOffset>>
        BY <1>3, <3>1 DEF SendEnd
      <4> QED
        BY <2>1, <4>1, SameLate
    <3>2. CASE Last(stack).to = All
      <4>1. PICK b, n, l, s, X : b = startOffset /\ n = Len(events) /\ l = list /\ s = list' /\ X = EventElement(n)
        OBVIOUS
      <4>2. s = SubSeq(l, b + 1, Len(l)) /\ insertionOffset' = insertionOffset - b
        BY <1>3, <3>2, <4>1 DEF SendEnd
      <4>3. TailOf(X, l, b, s)
        BY <4>1, <4>2, <1>1 DEF TailOf, QueueOK, QueueTypeOK
      <4>4. s \in Seq(X) /\ Len(s) = Len(l) - b /\ \A k \in 1..Len(l) - b : s[k] = l[b + k]
        BY <4>3, TailIs
      <4>5. b \in Nat /\ b <= insertionOffset
        BY <1>1, <4>1 DEF QueueOK, QueueTypeOK
      <4>6. PICK c, d : c = insertionOffset /\ d = insertionOffset'
        OBVIOUS
      <4>7. LateStays(l, c, s, d, events')
        <5>1. SUFFICES ASSUME NEW k \in d + 1..Len(s)
                       PROVE  \E j \in c + 1..Len(l) : l[j].event = s[k].event
          BY DEF LateStays
        <5>2. k \in 1..Len(l) - b /\ b + k \in c + 1..Len(l)
          BY <1>1, <4>1, <4>2, <4>4, <4>5, <4>6
        <5> QED
          BY <4>4, <5>2
      <4> QED
        BY <2>1, <4>1, <4>6, <4>7 DEF LateKeeps, SameKinds
    <3> QED
      BY <3>1, <3>2
  <2> QED
    BY <1>1, <2>1, <2>2, BehindStays
<1>4. CASE SendSkip \/ SendDeliver
  <2>1. PICK i, n, l, x : i = Index /\ n = Len(events) /\ l = list /\ x = list[i + 1]
    OBVIOUS
  <2>2. At("send", "next") /\ HasNext /\ (canWait' => canWait) /\ UNCHANGED insertionOffset
    <3>1. At("send", "next") /\ HasNext /\ UNCHANGED insertionOffset
      BY <1>4 DEF SendSkip, SendDeliver
    <3>2. canWait' => canWait
      BY <1>4, Zenon DEF SendSkip, SendDeliver
    <3> QED
      BY <3>1, <3>2
  <2>3. i \in Nat
    <3>1. PICK f : f = Last(stack)
      OBVIOUS
    <3>2. f \in CallFrame(n) /\ f.call = "send"
      BY <2>1, <2>2, <3>1, OnTop
    <3>3. f.i \in Nat
      BY <3>2, FrameTyped
    <3> QED
      BY <1>1, <2>1, <3>1, <3>3 DEF Index, QueueOK, QueueTypeOK
  <2>4. /\ i + 1 \in DOMAIN l /\ i + 1 \in 1..insertionOffset /\ x \in EventElement(n)
        /\ l \in Seq(EventElement(n)) /\ n \in Nat /\ DOMAIN l = 1..Len(l) /\ Len(l) \in Nat
        /\ insertionOffset <= Len(l)
    BY <1>1, <2>1, <2>2, <2>3, NextIs, QueueTyped DEF QueueOK, QueueTypeOK
  <2>5. PICK T, m : T = {i + 1} /\ m = Nulled
    OBVIOUS
  <2>6. Emptied(l, T, m)
    <3>1. m = [l EXCEPT ![i + 1].event = 0]
      BY <2>1, <2>5 DEF Nulled
    <3> QED
      BY <2>4, <2>5, <3>1 DEF Emptied
  <2>7. SameKinds(events, events')
    <3>1. CASE UNCHANGED events
      BY <3>1 DEF SameKinds
    <3>2. CASE ~UNCHANGED events
      <4>1. PICK e, fate : events' = [events EXCEPT ![e].fate = fate]
        BY <1>4, <3>2 DEF SendSkip, SendDeliver
      <4>2. \A a \in DOMAIN events : events[a] \in PostedEvent
        BY <1>1, QueueTyped DEF QueueOK
      <4>3. \A a \in DOMAIN events : events'[a] = events[a] \/ events'[a] = [events[a] EXCEPT !.fate = fate]
        BY <4>1
      <4> QED
        BY <4>1, <4>2, <4>3 DEF SameKinds, PostedEvent
    <3> QED
      BY <3>1, <3>2
  <2>8. CASE list' = m
    <3>1. LateStays(l, insertionOffset, m, insertionOffset, events')
      BY <1>1, <2>4, <2>5, <2>6, EmptiedLate
    <3>2. LateKeeps
      BY <2>1, <2>2, <2>7, <2>8, <3>1 DEF LateKeeps
    <3> QED
      BY <1>1, <2>2, <3>2, BehindStays
  <2>9. CASE SendSkip /\ UNCHANGED list
    <3>1. UNCHANGED events
      BY <2>9 DEF SendSkip
    <3> QED
      BY <1>1, <2>2, <2>9, <3>1, SameLate, BehindStays
  <2>10. CASE SendSkip /\ ~UNCHANGED list
    <3>1. /\ list' = AddEvent(m, x) /\ x.event # 0 /\ events[x.event].deletes /\ UNCHANGED events
      BY <2>1, <2>5, <2>10 DEF SendSkip, IsPending
    <3>2. PICK s, b : s = list' /\ b = insertionOffset
      OBVIOUS
    <3>3. m \in Seq(EventElement(n)) /\ Len(m) = Len(l) /\ Sorted(m, b)
      <4>1. Sorted(l, b)
        BY <1>1, <2>1, <3>2 DEF QueueOK, ListOK
      <4>2. HasPriorities(l, events) /\ InPostingOrder(l, events)
        BY <1>1, <2>1 DEF QueueOK, ListOK
      <4>3. PICK G, ev : G = {l[k].event : k \in T} /\ ev = events
        OBVIOUS
      <4>4. Emptying(n, l, T, m, G, ev, b)
        BY <1>1, <2>4, <2>5, <2>6, <3>2, <4>1, <4>2, <4>3 DEF Emptying
      <4> QED
        BY <2>4, <4>4, EmptiedKeeps
    <3>4. PICK p : s \in Seq(EventElement(n)) /\ Inserted(m, b, x, p, s)
      BY <1>1, <2>4, <3>1, <3>2, <3>3, AddEventInserts
    <3>5. LateStays(l, b, m, b, events)
      BY <1>1, <2>4, <2>5, <2>6, <3>2, EmptiedLate
    <3>6. LateStays(l, b, s, b, events)
      BY <1>1, <2>4, <3>1, <3>2, <3>3, <3>4, <3>5, InsertedLate
    <3>7. LateKeeps
      BY <2>1, <2>2, <2>7, <3>1, <3>2, <3>6 DEF LateKeeps
    <3> QED
      BY <1>1, <2>2, <3>7, BehindStays
  <2>11. SendDeliver => list' = m
    BY <2>5 DEF SendDeliver
  <2> QED
    BY <1>4, <2>8, <2>9, <2>10, <2>11
<1> QED
  BY <1>2, <1>3, <1>4 DEF Send
\* Events are taken out.
LEMMA RemovalLate ==
  ASSUME EventsSound, BehindOffset, NEW r \in Receiver, NEW all \in BOOLEAN, NEW depth, RemovePostedEvents(r, all, depth),
         depth = 0 => insertionOffset = 0, UNCHANGED canWait
  PROVE  BehindOffset'
<1>1. QueueOK /\ insertionOffset \in Nat
  BY DEF EventsSound, QueueOK, QueueTypeOK
<1>2. PICK n, l, T : /\ n = Len(events) /\ l = list
                     /\ T = {k \in DOMAIN list : /\ IsPending(list[k]) /\ Target(list[k]) = r
                                                 /\ all \/ ~events[list[k].event].deletes}
  OBVIOUS
<1>3. PICK gone : gone = {list[k].event : k \in T}
  OBVIOUS
<1>4. /\ events' = [e \in DOMAIN events |-> IF e \in gone THEN [events[e] EXCEPT !.fate = "removed"] ELSE events[e]]
      /\ IF depth = 0 THEN list' = Compacted(l, DOMAIN l \ T) ELSE Emptied(l, T, list')
      /\ UNCHANGED insertionOffset
  BY <1>2, <1>3 DEF RemovePostedEvents, Emptied
<1>5. l \in Seq(EventElement(n)) /\ T \in SUBSET DOMAIN l
  BY <1>1, <1>2 DEF QueueOK, QueueTypeOK
<1>6. SameKinds(events, events')
  <2>1. \A a \in DOMAIN events : events[a] \in PostedEvent
    BY <1>1, QueueTyped DEF QueueOK
  <2>2. \A a \in DOMAIN events : events'[a] = events[a] \/ events'[a] = [events[a] EXCEPT !.fate = "removed"]
    BY <1>4
  <2> QED
    BY <1>4, <2>1, <2>2 DEF SameKinds, PostedEvent
<1>7. PICK s, ev : s = list' /\ ev = events'
  OBVIOUS
<1>8. LateStays(l, insertionOffset, s, insertionOffset, ev)
  <2>1. CASE depth = 0
    <3>1. s = Compacted(l, DOMAIN l \ T) /\ insertionOffset = 0
      BY <1>4, <1>7, <2>1
    <3>2. PICK K, X : K = DOMAIN l \ T /\ X = EventElement(n)
      OBVIOUS
    <3>3. s \in Seq(X) /\ \E g \in [DOMAIN s -> K] : \A k \in DOMAIN s : s[k] = l[g[k]]
      <4>1. K \in SUBSET DOMAIN l /\ s = Compacted(l, K) /\ l \in Seq(X)
        BY <1>5, <3>1, <3>2
      <4>2. /\ s \in Seq(X)
            /\ \E g \in [DOMAIN s -> K] :
                 /\ \A j, k \in DOMAIN s : j < k => g[j] < g[k]
                 /\ \A k \in DOMAIN s : s[k] = l[g[k]]
                 /\ \A i \in K : \E k \in DOMAIN s : g[k] = i
        BY <4>1, CompactedIs
      <4> QED
        BY <4>2
    <3>4. DOMAIN s = 1..Len(s) /\ DOMAIN l = 1..Len(l)
      BY <1>5, <3>3
    <3>5. \A k \in 1..Len(s) : \E j \in 1..Len(l) : l[j].event = s[k].event
      BY <3>2, <3>3, <3>4
    <3>6. insertionOffset + 1 = 1
      BY <3>1
    <3> QED
      BY <3>5, <3>6 DEF LateStays
  <2>2. CASE depth # 0
    BY <1>1, <1>4, <1>5, <1>7, <2>2, EmptiedLate
  <2> QED
    BY <2>1, <2>2
<1>9. LateKeeps
  BY <1>2, <1>4, <1>6, <1>7, <1>8 DEF LateKeeps
<1> QED
  BY <1>1, <1>9, BehindStays

LEMMA BehindNext ==
  ASSUME EventsSound, BehindOffset, ThreadExec \/ ThreadStep \/ Handler \/ OthersStep
  PROVE  BehindOffset'
<1>1. QueueOK
  BY DEF EventsSound
<1>2. CASE UNCHANGED <<queue, canWait>>
  BY <1>1, <1>2, SameLate, BehindStays DEF queue
<1>3. CASE canWait' = FALSE
  BY <1>3 DEF BehindOffset
<1>4. ASSUME NEW l, PostOrdinary \/ DeleteLater(l)
      PROVE  canWait' = FALSE
  BY <1>4 DEF PostOrdinary, DeleteLater, Post
<1>5. CASE Process \/ ThreadExec \/ ExecEnter \/ ExecLoop \/ ExecLeave \/ ThreadExecEnd
  <2>1. UNCHANGED <<queue, canWait>>
    BY <1>5 DEF Process, ProcessBegin, ProcessCanWait, ProcessInterrupted, Poll, Check, ThreadExec, ExecEnter, ExecLoop,
                ExecLeave, ThreadExecEnd
  <2> QED
    BY <1>2, <2>1
<1>6. CASE Handler
  <2>1. CASE HandlerPosts
    <3>1. PICK l : PostOrdinary \/ DeleteLater(l)
      BY <2>1 DEF HandlerPosts
    <3> QED
      BY <1>3, <1>4, <3>1, Zenon
  <2>2. CASE HandlerRemoves
    <3>1. PICK r \in Live : RemovePostedEvents(r, FALSE, recursion)
      BY <2>2 DEF HandlerRemoves
    <3>2. UNCHANGED canWait /\ recursion # 0
      BY <2>2, HandlersAreSent DEF HandlerRemoves, InHandler
    <3>3. PICK depth, all : depth = recursion /\ all = FALSE
      OBVIOUS
    <3>4. RemovePostedEvents(r, all, depth) /\ depth # 0 /\ r \in Receiver /\ all \in BOOLEAN
      BY <3>1, <3>2, <3>3 DEF Live
    <3> QED
      BY <3>2, <3>4, RemovalLate
  <2>3. CASE Destroy
    <3>1. PICK r, depth, all : r = events[Last(stack).event].to /\ depth = recursion /\ all = TRUE
      OBVIOUS
    <3>2. At("notify", "handler") /\ UNCHANGED canWait
      BY <2>3 DEF Destroy, Destroying
    <3>3. RemovePostedEvents(r, all, depth) /\ depth # 0 /\ all \in BOOLEAN
      BY <2>3, <3>1, <3>2, HandlersAreSent DEF Destroy
    <3>4. r \in Receiver
      <4>1. PICK f : f = Last(stack)
        OBVIOUS
      <4>2. f \in CallFrame(Len(events)) /\ f.call = "notify"
        BY <3>2, <4>1, OnTop
      <4>3. f.event \in DOMAIN events
        BY <1>1, <4>2, FrameTyped, QueueTyped DEF QueueOK
      <4>4. events[f.event] \in PostedEvent
        BY <1>1, <4>3, QueueTyped DEF QueueOK
      <4> QED
        BY <3>1, <4>1, <4>4 DEF PostedEvent
    <3> QED
      BY <3>2, <3>3, <3>4, RemovalLate
  <2>4. CASE HandlerCalls \/ HandlerExits \/ HandlerReturns
    <3>1. UNCHANGED <<queue, canWait>>
      BY <2>4 DEF HandlerCalls, HandlerExits, HandlerReturns
    <3> QED
      BY <1>2, <3>1
  <2> QED
    BY <1>6, <2>1, <2>2, <2>3, <2>4 DEF Handler
<1>7. CASE OthersStep
  <2>1. CASE Quit
    <3>1. UNCHANGED <<queue, canWait>>
      BY <2>1 DEF Quit, QuitBegin, QuitExits, QuitInterrupts, QuitWakes
    <3> QED
      BY <1>2, <3>1
  <2>2. ASSUME NEW q \in Poster, PosterPosts(q)
        PROVE  BehindOffset'
    <3>1. PICK l : PostOrdinary \/ DeleteLater(l)
      BY <2>2 DEF PosterPosts
    <3> QED
      BY <1>3, <1>4, <3>1
  <2>3. ASSUME NEW q \in Poster, PosterWakes(q)
        PROVE  BehindOffset'
    <3>1. UNCHANGED <<queue, canWait>>
      BY <2>3 DEF PosterWakes
    <3> QED
      BY <1>2, <3>1
  <2>4. ASSUME NEW q \in Poster, PosterRemoves(q)
        PROVE  BehindOffset'
    <3>1. PICK r \in Live, depth \in {recursion, Cardinality({k \in Frames({"send"}) : stack[k].at # "enter"})} :
            RemovePostedEvents(r, FALSE, depth)
      BY <2>4 DEF PosterRemoves
    <3>2. UNCHANGED canWait /\ r \in Receiver
      BY <2>4 DEF PosterRemoves, Live
    <3>3. depth = 0 => insertionOffset = 0
      BY <3>1, NobodySends
    <3>4. PICK all : all = FALSE
      OBVIOUS
    <3>5. RemovePostedEvents(r, all, depth) /\ all \in BOOLEAN
      BY <3>1, <3>4
    <3> QED
      BY <3>2, <3>3, <3>5, RemovalLate
  <2> QED
    BY <1>7, <2>1, <2>2, <2>3, <2>4 DEF OthersStep
<1> QED
  BY <1>5, <1>6, <1>7, SendLate DEF ThreadStep

-----------------------------------------------------------------------------
(* Nobody blocks in vain.                                                  *)

QuitterTyped == quitter \in [at : {"idle", "exit", "interrupt", "wake", "write"}, loop : Nat]

\* Nothing stands in front once processEvents has sent what was posted.
Sent == At("process", "sent") => insertionOffset = 0

\* A thread that is about to block has been or will be woken for what is posted to it.
Posts ==
  stack # <<>> /\ Last(stack).call = "process" /\ Last(stack).at \in {"interrupt", "poll"} /\ Last(stack).wait
    => \/ wakeUps \/ \E q \in Poster : poster[q] = "wake"
       \/ \A e \in DOMAIN events : events[e].fate = "queued" => events[e].deletes

\* Who counts a wakeup writes the eventfd, and who reads it forgets the count.
Wakes ==
  wakeUps /\ ~eventfd =>
    (\E q \in Poster : poster[q] = "write") \/ quitter.at = "write" \/ At("process", "clear")

\* A call that may block in a loop that was told to exit has been or will be woken.
Held == wakeUps \/ quitter.at \in {"interrupt", "wake"}

Exits == \A k \in 1..Len(stack) : Awaits(stack[k]) /\ exit[LevelAt(stack, k)] => Held

BlockInv ==
  /\ EventsInv /\ Nesting(stack) /\ Fits(stack) /\ QuitterTyped
  /\ BehindOffset /\ Sent /\ Posts /\ Wakes /\ Exits

\* Whose turn it is.
LEMMA Actors ==
  /\ Send => stack # <<>> /\ Last(stack).call = "send"
  /\ Process => stack # <<>> /\ Last(stack).call = "process"
  /\ ThreadExec => stack = <<>>
  /\ ExecEnter \/ ExecLoop \/ ExecLeave \/ ThreadExecEnd => stack # <<>> /\ Last(stack).call = "exec"
  /\ Handler => stack # <<>> /\ Last(stack).call = "notify"
<1>1. Send => stack # <<>> /\ Last(stack).call = "send"
  BY DEF At, Send, SendEnter, SendSkip, SendDeliver, SendEnd
<1>2. Process => stack # <<>> /\ Last(stack).call = "process"
  BY DEF At, Process, ProcessBegin, ProcessCanWait, ProcessInterrupted, Poll, Check
<1>3. ThreadExec => stack = <<>>
  BY DEF ThreadExec
<1>4. ExecEnter \/ ExecLoop \/ ExecLeave \/ ThreadExecEnd => stack # <<>> /\ Last(stack).call = "exec"
  BY DEF At, ExecEnter, ExecLoop, ExecLeave, ThreadExecEnd
<1>5. Handler => stack # <<>> /\ Last(stack).call = "notify"
  BY DEF At, Handler, HandlerPosts, HandlerRemoves, HandlerCalls, HandlerExits, HandlerReturns, Destroy, InHandler,
         Destroying
<1> QED
  BY <1>1, <1>2, <1>3, <1>4, <1>5

LEMMA OthersAct ==
  ASSUME OthersStep
  PROVE  UNCHANGED <<stack, insertionOffset>>
<1>1. CASE Quit
  BY <1>1 DEF Quit, QuitBegin, QuitExits, QuitInterrupts, QuitWakes, queue
<1>2. ASSUME NEW q \in Poster, PosterPosts(q)
      PROVE  UNCHANGED <<stack, insertionOffset>>
  <2>1. UNCHANGED stack /\ (PostOrdinary \/ DeleteLater(0))
    BY <1>2 DEF PosterPosts
  <2> QED
    BY <2>1 DEF PostOrdinary, DeleteLater, Post
<1>3. ASSUME NEW q \in Poster, PosterWakes(q)
      PROVE  UNCHANGED <<stack, insertionOffset>>
  BY <1>3 DEF PosterWakes, queue
<1>4. ASSUME NEW q \in Poster, PosterRemoves(q)
      PROVE  UNCHANGED <<stack, insertionOffset>>
  BY <1>4 DEF PosterRemoves, RemovePostedEvents
<1> QED
  BY <1>1, <1>2, <1>3, <1>4 DEF OthersStep

\* How a call of processEvents comes to be on top after a step.
LEMMA TopStays ==
  ASSUME EventsSound, EventsSound', Nesting(stack), Shape(stack, stack'),
         stack' # <<>>, Last(stack').call = "process", Last(stack').at # "begin"
  PROVE  /\ stack # <<>>
         /\ \/ Last(stack).call = "process" /\ ~Pops(stack, stack')
            \/ /\ Last(stack').at = "sent" /\ Pops(stack, stack')
               /\ Last(stack).call = "send" /\ Last(stack).to = All
<1>1. PICK s, t, n, m : s = stack /\ t = stack' /\ n = Len(stack) /\ m = Len(stack')
  OBVIOUS
<1>2. n \in Nat /\ m \in Nat /\ (s # <<>> <=> n > 0) /\ (n > 0 => Last(stack) = s[n])
  BY <1>1, StackIs
<1>3. m > 0 /\ m \in 1..m /\ Last(stack') = t[m] /\ n = Len(s) /\ m = Len(t)
  <2>1. m \in Nat /\ (t # <<>> => m \in 1..m)
    BY <1>1, StackTyped DEF EventsSound
  <2> QED
    BY <1>1, <2>1 DEF Last
<1>4. t[m].call = "process" /\ t[m].at # "begin"
  BY <1>3
<1>5. CASE t = s
  BY <1>1, <1>2, <1>3, <1>4, <1>5 DEF Pops
<1>6. CASE Pops(s, t)
  <2>1. n > 0 /\ m = n - 1 /\ Same(s[m], t[m])
    BY <1>3, <1>6 DEF Pops, Kept
  <2>2. m \in 1..n /\ m < n /\ m + 1 = n
    BY <1>2, <1>3, <2>1
  <2>3. NestingAt(s, m)
    BY <1>1, <2>2 DEF Nesting
  <2>4. s[m].at = "sent" /\ s[n].call = "send" /\ s[n].to = All
    BY <1>3, <1>4, <2>1, <2>2, <2>3 DEF NestingAt, Same
  <2> QED
    BY <1>1, <1>2, <1>3, <1>6, <2>1, <2>4 DEF Same
<1>7. CASE Turns(s, t)
  <2>1. n > 0 /\ m = n /\ t[m].call = s[n].call
    BY <1>3, <1>7 DEF Turns, Turned
  <2> QED
    BY <1>1, <1>2, <1>3, <1>4, <2>1 DEF Pops
<1>8. CASE Grows(s, t)
  BY <1>3, <1>4, <1>8 DEF Grows
<1>9. CASE Begins(s, t)
  BY <1>3, <1>4, <1>9 DEF Begins
<1> QED
  BY <1>1, <1>5, <1>6, <1>7, <1>8, <1>9 DEF Shape

LEMMA GoesTop ==
  ASSUME EventsSound, EventsSound', stack # <<>>, Last(stack).call = "process", NEW to, Goes(to)
  PROVE  /\ Last(stack').at = to /\ Last(stack').wait = Last(stack).wait
         /\ Len(stack') = Len(stack)
<1>1. PICK s, t, n, m, f : s = stack /\ t = stack' /\ n = Len(stack) /\ m = Len(stack') /\ f = Last(stack)
  OBVIOUS
<1>2. n \in Nat /\ DOMAIN s = 1..n /\ n \in 1..n /\ f = s[n] /\ f \in CallFrame(Len(events))
  BY <1>1, StackIs
<1>3. f \in ProcessFrame
  BY <1>1, <1>2, FrameTyped
<1>4. t = [s EXCEPT ![n].at = to]
  BY <1>1 DEF Goes
<1>5. DOMAIN t = 1..n /\ t[n] = [f EXCEPT !.at = to]
  BY <1>2, <1>4
<1>6. m \in Nat /\ DOMAIN t = 1..m
  BY <1>1, StackTyped DEF EventsSound
<1>7. m = n
  BY <1>2, <1>5, <1>6
<1>8. Last(stack') = t[n]
  BY <1>1, <1>7 DEF Last
<1> QED
  BY <1>1, <1>3, <1>5, <1>7, <1>8 DEF ProcessFrame

\* What a call of processEvents goes on to.
LEMMA ProcessTop ==
  ASSUME EventsSound, EventsSound', Process, stack' # <<>>, ~Pops(stack, stack'), Last(stack').call = "process"
  PROVE  \/ ProcessCanWait /\ Last(stack').at = "interrupt" /\ (Last(stack').wait => canWait)
         \/ /\ ProcessInterrupted /\ Last(stack').at = "poll"
            /\ Last(stack').wait => Last(stack).wait
         \/ Last(stack').at \in {"read", "clear"}
<1>1. stack # <<>> /\ Last(stack).call = "process"
  BY Actors
<1>2. CASE ProcessBegin
  <2>1. Begins(stack, stack')
    BY <1>2, ProcessBegins
  <2>2. Last(stack') = stack'[Len(stack')]
    BY DEF Last
  <2> QED
    BY <2>1, <2>2 DEF Begins
<1>3. CASE ProcessCanWait
  <2>1. PICK s, t, n, m, f : s = stack /\ t = stack' /\ n = Len(stack) /\ m = Len(stack') /\ f = Last(stack)
    OBVIOUS
  <2>2. n \in Nat /\ DOMAIN s = 1..n /\ n \in 1..n /\ f = s[n] /\ f \in CallFrame(Len(events))
    BY <1>1, <2>1, StackIs
  <2>3. f \in ProcessFrame
    BY <1>1, <2>1, <2>2, FrameTyped
  <2>4. PICK w : w = (f.wait /\ canWait)
    OBVIOUS
  <2>5. t = [s EXCEPT ![n].at = "interrupt", ![n].wait = @ /\ canWait]
    BY <1>3, <2>1 DEF ProcessCanWait
  <2>6. DOMAIN t = 1..n /\ t[n] = [f EXCEPT !.at = "interrupt", !.wait = w]
    BY <2>2, <2>4, <2>5
  <2>7. m \in Nat /\ DOMAIN t = 1..m
    BY <2>1, StackTyped DEF EventsSound
  <2>8. m = n
    BY <2>2, <2>6, <2>7
  <2>9. Last(stack') = t[n]
    BY <2>1, <2>8 DEF Last
  <2>10. Last(stack').at = "interrupt" /\ Last(stack').wait = w
    BY <2>3, <2>6, <2>9 DEF ProcessFrame
  <2> QED
    BY <1>3, <2>4, <2>10
<1>4. CASE ProcessInterrupted
  <2>1. ~Returns
    BY <1>1, ReturnPops
  <2>2. Goes("poll")
    BY <1>4, <2>1 DEF ProcessInterrupted
  <2> QED
    BY <1>1, <1>4, <2>2, GoesTop
<1>5. CASE Poll \/ Check
  <2>1. ~Returns
    BY <1>1, ReturnPops
  <2>2. Goes("read") \/ Goes("clear")
    BY <1>5, <2>1 DEF Poll, Check
  <2> QED
    BY <1>1, <2>2, GoesTop
<1> QED
  BY <1>2, <1>3, <1>4, <1>5 DEF Process

LEMMA SentNext ==
  ASSUME EventsSound, EventsSound', Nesting(stack), Shape(stack, stack'), Sent,
         ThreadExec \/ ThreadStep \/ Handler \/ OthersStep
  PROVE  Sent'
<1>1. SUFFICES ASSUME stack' # <<>>, Last(stack').call = "process", Last(stack').at = "sent"
               PROVE  insertionOffset' = 0
  BY DEF Sent, At
<1>2. /\ stack # <<>>
      /\ \/ Last(stack).call = "process" /\ ~Pops(stack, stack')
         \/ Pops(stack, stack') /\ Last(stack).call = "send" /\ Last(stack).to = All
  BY <1>1, TopStays
<1>3. CASE OthersStep
  BY <1>1, <1>3, OthersAct DEF Sent, At
<1>4. CASE Last(stack).call = "process" /\ ~OthersStep
  <2>1. Process /\ ~Pops(stack, stack')
    BY <1>2, <1>4, Actors DEF ThreadStep
  <2> QED
    BY <1>1, <2>1, ProcessTop
<1>5. CASE Last(stack).call = "send" /\ ~OthersStep
  <2>1. Send /\ Pops(stack, stack') /\ Last(stack).to = All
    BY <1>2, <1>5, Actors DEF ThreadStep
  <2>2. /\ startOffset \in Nat /\ insertionOffset \in Nat /\ startOffset <= insertionOffset
        /\ insertionOffset <= Len(list) /\ Len(list) \in Nat
    BY QueueTyped DEF EventsSound, QueueOK, QueueTypeOK
  <2>3. PICK s, t, n, m : s = stack /\ t = stack' /\ n = Len(stack) /\ m = Len(stack')
    OBVIOUS
  <2>4. n \in Nat /\ DOMAIN s = 1..n /\ s \in Seq(CallFrame(Len(events)))
    BY <2>3, StackIs
  <2>5. n > 0 /\ m = n - 1 /\ DOMAIN t = 1..m
    <3>1. DOMAIN t = 1..m
      BY <2>3, StackTyped DEF EventsSound
    <3> QED
      BY <2>1, <2>3, <3>1 DEF Pops
  <2>6. DOMAIN t # 1..n /\ DOMAIN t # 1..n + 1
    <3>1. n \in 1..n /\ n \in 1..n + 1 /\ n \notin 1..m
      BY <2>4, <2>5
    <3> QED
      BY <2>5, <3>1
  <2>7. CASE SendEnter
    <3>1. CASE list = <<>>
      <4>1. UNCHANGED insertionOffset
        BY <2>7, <3>1 DEF SendEnter
      <4>2. insertionOffset = 0
        BY <2>2, <3>1
      <4> QED
        BY <4>1, <4>2
    <3>2. CASE list # <<>>
      <4>1. PICK i : t = [s EXCEPT ![Len(s)].at = "next", ![Len(s)].i = i]
        BY <2>1, <2>3, <2>7, <3>2 DEF SendEnter
      <4>2. DOMAIN t = DOMAIN s
        BY <4>1
      <4> QED
        BY <2>4, <2>6, <4>2
    <3> QED
      BY <3>1, <3>2
  <2>8. CASE SendSkip
    <3>1. t = s
      BY <2>1, <2>3, <2>8 DEF SendSkip, Advance
    <3> QED
      BY <2>4, <2>6, <3>1
  <2>9. CASE SendDeliver
    <3>1. PICK h : t = Append(s, h)
      BY <2>1, <2>3, <2>9 DEF SendDeliver, Advance
    <3>2. DOMAIN t = 1..n + 1
      BY <2>3, <2>4, <3>1
    <3> QED
      BY <2>6, <3>2
  <2>10. CASE SendEnd
    <3>1. insertionOffset' = insertionOffset - startOffset
      BY <2>1, <2>10 DEF SendEnd
    <3>2. ~(startOffset < Len(list) /\ startOffset < insertionOffset)
      BY <2>1, <2>10 DEF SendEnd, HasNext, Index
    <3> QED
      BY <2>2, <3>1, <3>2
  <2> QED
    BY <2>1, <2>7, <2>8, <2>9, <2>10 DEF Send
<1> QED
  BY <1>2, <1>3, <1>4, <1>5

\* What becomes of the pipe.
LEMMA PipeSteps ==
  ASSUME OthersTyped, ThreadExec \/ ThreadStep \/ Handler, ~Check
  PROVE  /\ UNCHANGED pipe \/ WakeUp
         /\ wakeUps => wakeUps'
         /\ eventfd => eventfd'
         /\ wakeUps' => wakeUps \/ eventfd'
<1>1. UNCHANGED pipe \/ WakeUp
  <2>1. CASE Send
    BY <2>1 DEF Send, SendEnter, SendSkip, SendDeliver, SendEnd
  <2>2. CASE Process
    BY <2>2 DEF Process, ProcessBegin, ProcessCanWait, ProcessInterrupted, Poll
  <2>3. CASE ThreadExec \/ ExecEnter \/ ExecLoop \/ ExecLeave \/ ThreadExecEnd
    BY <2>3 DEF ThreadExec, ExecEnter, ExecLoop, ExecLeave, ThreadExecEnd
  <2>4. CASE Handler
    BY <2>4 DEF Handler, HandlerPosts, HandlerRemoves, HandlerCalls, HandlerExits, HandlerReturns, Destroy
  <2> QED
    BY <2>1, <2>2, <2>3, <2>4 DEF ThreadStep
<1>2. CASE UNCHANGED pipe
  BY <1>2 DEF pipe
<1>3. CASE WakeUp
  BY <1>3, Zenon DEF WakeUp, OthersTyped
<1> QED
  BY <1>1, <1>2, <1>3

LEMMA CheckIs ==
  ASSUME EventsSound, EventsSound', Check
  PROVE  \/ /\ At("process", "read") /\ UNCHANGED wakeUps
            /\ stack' # <<>> /\ Last(stack').call = "process" /\ Last(stack').at = "clear"
         \/ At("process", "clear") /\ ~wakeUps' /\ Pops(stack, stack')
<1>1. stack # <<>> /\ Last(stack).call = "process"
  BY DEF Check, At
<1>2. CASE At("process", "read")
  <2>1. Goes("clear") /\ UNCHANGED wakeUps
    BY <1>2 DEF Check, At
  <2>2. Last(stack').at = "clear" /\ Len(stack') = Len(stack)
    BY <1>1, <2>1, GoesTop
  <2>3. PICK s, t, n : s = stack /\ t = stack' /\ n = Len(stack)
    OBVIOUS
  <2>4. n \in 1..n /\ n \in Nat /\ DOMAIN s = 1..n
    BY <1>1, <2>3, StackIs
  <2>5. t = [s EXCEPT ![n].at = "clear"] /\ Last(stack') = t[n] /\ Last(stack) = s[n] /\ s[n] \in CallFrame(Len(events))
    BY <1>1, <2>1, <2>2, <2>3, StackIs DEF Goes, Last
  <2>6. s[n] \in ProcessFrame
    BY <1>1, <2>5, FrameTyped
  <2>7. t[n].call = "process" /\ t # <<>>
    BY <2>4, <2>5, <2>6 DEF ProcessFrame
  <2> QED
    BY <1>2, <2>1, <2>2, <2>3, <2>5, <2>7
<1>3. CASE ~At("process", "read")
  <2>1. At("process", "clear") /\ wakeUps' = FALSE /\ Returns
    BY <1>3 DEF Check
  <2> QED
    BY <1>1, <2>1, ReturnPops
<1> QED
  BY <1>2, <1>3

LEMMA PostsAct ==
  ASSUME NEW q \in Poster, PosterPosts(q), OthersTyped
  PROVE  /\ poster[q] = "idle" /\ poster' = [poster EXCEPT ![q] = "wake"] /\ poster'[q] = "wake"
         /\ UNCHANGED <<wakeUps, eventfd, stack, exit, quitter>>
BY DEF PosterPosts, OthersTyped, pipe, loops

LEMMA WakesNext ==
  ASSUME EventsSound, EventsSound', OthersTyped, QuitterTyped, Wakes,
         \/ (ThreadExec \/ ThreadStep \/ Handler) /\ UNCHANGED <<poster, quitter>>
         \/ OthersStep
  PROVE  Wakes'
<1>1. SUFFICES ASSUME wakeUps', ~eventfd'
               PROVE  \/ \E q \in Poster : poster'[q] = "write"
                      \/ quitter'.at = "write"
                      \/ At("process", "clear")'
  BY DEF Wakes
<1>2. CASE Check
  <2>1. stack' # <<>> /\ Last(stack').call = "process" /\ Last(stack').at = "clear"
    BY <1>1, <1>2, CheckIs
  <2> QED
    BY <2>1 DEF At
<1>3. CASE (ThreadExec \/ ThreadStep \/ Handler) /\ ~Check /\ UNCHANGED <<poster, quitter>>
  <2>1. wakeUps /\ ~eventfd
    BY <1>1, <1>3, PipeSteps
  <2>2. ~At("process", "clear")
    <3>1. CASE Process
      BY <1>3, <3>1 DEF At, Process, ProcessBegin, ProcessCanWait, ProcessInterrupted, Poll
    <3>2. CASE ~Process
      BY <1>3, <3>2, Actors DEF At, ThreadStep
    <3> QED
      BY <3>1, <3>2
  <2> QED
    BY <1>3, <2>1, <2>2 DEF Wakes
<1>4. CASE OthersStep
  <2>1. UNCHANGED stack
    BY <1>4, OthersAct
  <2>2. At("process", "clear") => At("process", "clear")'
    BY <2>1 DEF At
  <2>3. ASSUME wakeUps, ~eventfd,
               \A q \in Poster : poster[q] = "write" => poster'[q] = "write",
               quitter.at = "write" => quitter'.at = "write"
        PROVE  \/ \E q \in Poster : poster'[q] = "write"
               \/ quitter'.at = "write"
               \/ At("process", "clear")'
    BY <2>2, <2>3, SMTT(40) DEF Wakes
  <2>4. CASE Quit
    <3>1. CASE QuitBegin
      BY <2>3, <3>1, <1>1 DEF QuitBegin, pipe
    <3>2. CASE QuitExits
      BY <2>3, <3>2, <1>1 DEF QuitExits, pipe
    <3>3. CASE QuitInterrupts
      BY <2>3, <3>3, <1>1 DEF QuitInterrupts, pipe
    <3>4. CASE QuitWakes
      <4>1. quitter.at = "wake" /\ UNCHANGED <<eventfd, poster>>
        BY <1>1, <3>4 DEF QuitWakes
      <4>2. CASE wakeUps
        BY <1>1, <2>3, <4>1, <4>2
      <4>3. CASE ~wakeUps
        <5>1. quitter' = [quitter EXCEPT !.at = "write"]
          BY <3>4, <4>1, <4>3 DEF QuitWakes
        <5> QED
          BY <5>1 DEF QuitterTyped
      <4> QED
        BY <4>2, <4>3
    <3> QED
      BY <2>4, <3>1, <3>2, <3>3, <3>4 DEF Quit
  <2>5. ASSUME NEW p \in Poster, PosterPosts(p)
        PROVE  \/ \E q \in Poster : poster'[q] = "write"
               \/ quitter'.at = "write"
               \/ At("process", "clear")'
    <3>1. /\ poster[p] = "idle" /\ poster' = [poster EXCEPT ![p] = "wake"]
          /\ UNCHANGED <<wakeUps, eventfd, quitter>>
      BY <2>5, PostsAct
    <3>2. poster \in [Poster -> {"idle", "wake", "write"}]
      BY DEF OthersTyped
    <3>3. \A q \in Poster : poster[q] = "write" => poster'[q] = "write"
      BY <3>1, <3>2
    <3> QED
      BY <1>1, <2>3, <3>1, <3>3
  <2>6. ASSUME NEW p \in Poster, PosterWakes(p)
        PROVE  \/ \E q \in Poster : poster'[q] = "write"
               \/ quitter'.at = "write"
               \/ At("process", "clear")'
    <3>1. /\ poster[p] = "wake" /\ UNCHANGED <<eventfd, quitter>>
          /\ poster' = [poster EXCEPT ![p] = IF wakeUps THEN "idle" ELSE "write"]
      BY <1>1, <2>6 DEF PosterWakes
    <3>2. poster \in [Poster -> {"idle", "wake", "write"}]
      BY DEF OthersTyped
    <3>3. CASE wakeUps
      <4>1. \A q \in Poster : poster[q] = "write" => poster'[q] = "write"
        BY <3>1, <3>2
      <4> QED
        BY <1>1, <2>3, <3>1, <3>3, <4>1
    <3>4. CASE ~wakeUps
      <4>1. poster'[p] = "write"
        BY <3>1, <3>2, <3>4
      <4> QED
        BY <4>1
    <3> QED
      BY <3>3, <3>4
  <2>7. ASSUME NEW p \in Poster, PosterRemoves(p)
        PROVE  \/ \E q \in Poster : poster'[q] = "write"
               \/ quitter'.at = "write"
               \/ At("process", "clear")'
    <3>1. UNCHANGED <<wakeUps, eventfd, poster, quitter>>
      BY <2>7 DEF PosterRemoves, pipe
    <3> QED
      BY <1>1, <2>3, <3>1
  <2> QED
    BY <1>4, <2>4, <2>5, <2>6, <2>7 DEF OthersStep
<1> QED
  BY <1>2, <1>3, <1>4

LEMMA QuitterIsTyped ==
  ASSUME QuitterTyped, UNCHANGED quitter \/ OthersStep
  PROVE  QuitterTyped'
<1>1. CASE UNCHANGED quitter
  BY <1>1 DEF QuitterTyped
<1>2. CASE ~UNCHANGED quitter
  <2>1. Quit
    BY <1>2 DEF OthersStep, PosterPosts, PosterWakes, PosterRemoves
  <2>2. QuitNextLoop => QuitterTyped'
    BY DEF QuitNextLoop, QuitterTyped
  <2> QED
    BY <1>2, <2>1, <2>2 DEF Quit, QuitBegin, QuitExits, QuitInterrupts, QuitWakes, QuitterTyped
<1> QED
  BY <1>1, <1>2

\* All that is queued is deletions.
OnlyDeletions == \A e \in DOMAIN events : events[e].fate = "queued" => events[e].deletes

LEMMA DeletionsStay ==
  ASSUME QueueOK, NEW r, NEW all, NEW depth, RemovePostedEvents(r, all, depth), OnlyDeletions
  PROVE  OnlyDeletions'
<1>1. PICK gone : events' = [e \in DOMAIN events |->
                              IF e \in gone THEN [events[e] EXCEPT !.fate = "removed"] ELSE events[e]]
  BY DEF RemovePostedEvents
<1>2. \A e \in DOMAIN events : events[e] \in PostedEvent
  BY QueueTyped DEF QueueOK
<1>3. SUFFICES ASSUME NEW e \in DOMAIN events, events'[e].fate = "queued"
               PROVE  events'[e].deletes
  BY <1>1 DEF OnlyDeletions
<1>4. events'[e] = events[e]
  BY <1>1, <1>2, <1>3 DEF PostedEvent
<1> QED
  BY <1>3, <1>4 DEF OnlyDeletions

LEMMA DeletionsAreLeft ==
  ASSUME QueueOK, BehindOffset, canWait, insertionOffset = 0
  PROVE  OnlyDeletions
<1>1. SUFFICES ASSUME NEW e \in DOMAIN events, events[e].fate = "queued"
               PROVE  events[e].deletes
  BY DEF OnlyDeletions
<1>2. e \in Pendings(list)
  BY <1>1 DEF QueueOK, ListOK
<1>3. PICK k \in DOMAIN list : list[k].event # 0 /\ list[k].event = e
  BY <1>2 DEF Pendings
<1>4. k \in insertionOffset + 1..Len(list)
  BY QueueTyped DEF QueueOK
<1> QED
  BY <1>3, <1>4 DEF BehindOffset

LEMMA PostsNext ==
  ASSUME EventsSound, EventsSound', OthersTyped, Nesting(stack), Shape(stack, stack'), Sent, BehindOffset, Posts,
         \/ (ThreadExec \/ ThreadStep \/ Handler) /\ UNCHANGED <<poster, quitter>>
         \/ OthersStep
  PROVE  Posts'
<1>1. SUFFICES ASSUME stack' # <<>>, Last(stack').call = "process", Last(stack').at \in {"interrupt", "poll"},
                      Last(stack').wait
               PROVE  wakeUps' \/ (\E q \in Poster : poster'[q] = "wake") \/ OnlyDeletions'
  BY DEF Posts, OnlyDeletions
<1>2. stack # <<>> /\ Last(stack).call = "process" /\ ~Pops(stack, stack')
  BY <1>1, TopStays
<1>3. Last(stack).at \in {"interrupt", "poll"} /\ Last(stack).wait =>
        wakeUps \/ (\E q \in Poster : poster[q] = "wake") \/ OnlyDeletions
  BY <1>2 DEF Posts, OnlyDeletions
<1>4. QueueOK
  BY DEF EventsSound
<1>5. CASE ~OthersStep
  <2>1. Process /\ UNCHANGED poster
    BY <1>2, <1>5, Actors DEF ThreadStep
  <2>2. CASE ProcessCanWait /\ (Last(stack').wait => canWait)
    <3>1. canWait /\ At("process", "sent") /\ UNCHANGED events
      BY <1>1, <2>2 DEF ProcessCanWait, queue
    <3>2. OnlyDeletions
      BY <1>4, <3>1, DeletionsAreLeft DEF Sent
    <3> QED
      BY <3>1, <3>2 DEF OnlyDeletions
  <2>3. CASE ProcessInterrupted /\ (Last(stack').wait => Last(stack).wait)
    <3>1. Last(stack).at = "interrupt" /\ UNCHANGED <<events, wakeUps>>
      BY <2>3 DEF ProcessInterrupted, At, queue, pipe
    <3> QED
      BY <1>1, <1>3, <2>1, <2>3, <3>1 DEF OnlyDeletions
  <2> QED
    BY <1>1, <1>2, <2>1, <2>2, <2>3, ProcessTop
<1>6. CASE OthersStep
  <2>1. UNCHANGED stack
    BY <1>6, OthersAct
  <2>2. wakeUps \/ (\E q \in Poster : poster[q] = "wake") \/ OnlyDeletions
    BY <1>1, <1>3, <2>1
  <2>3. CASE Quit
    <3>1. UNCHANGED <<events, poster>> /\ (wakeUps => wakeUps')
      BY <2>3 DEF Quit, QuitBegin, QuitExits, QuitInterrupts, QuitWakes, queue, pipe
    <3> QED
      BY <2>2, <3>1 DEF OnlyDeletions
  <2>4. ASSUME NEW p \in Poster, PosterPosts(p)
        PROVE  \E q \in Poster : poster'[q] = "wake"
    BY <2>4, PostsAct
  <2>5. ASSUME NEW p \in Poster, PosterWakes(p)
        PROVE  wakeUps' \/ (\E q \in Poster : poster'[q] = "wake") \/ OnlyDeletions'
    <3>1. UNCHANGED events
      BY <2>5 DEF PosterWakes, queue
    <3>2. CASE poster[p] = "wake"
      BY <2>5, <3>2 DEF PosterWakes
    <3>3. CASE poster[p] # "wake"
      <4>1. poster' = [poster EXCEPT ![p] = "idle"] /\ UNCHANGED wakeUps
        BY <2>5, <3>3 DEF PosterWakes
      <4>2. poster \in [Poster -> {"idle", "wake", "write"}]
        BY DEF OthersTyped
      <4>3. \A q \in Poster : poster[q] = "wake" => poster'[q] = "wake"
        BY <3>3, <4>1, <4>2
      <4> QED
        BY <2>2, <3>1, <4>1, <4>3 DEF OnlyDeletions
    <3> QED
      BY <3>2, <3>3
  <2>6. ASSUME NEW p \in Poster, PosterRemoves(p)
        PROVE  wakeUps' \/ (\E q \in Poster : poster'[q] = "wake") \/ OnlyDeletions'
    <3>1. PICK r, depth : RemovePostedEvents(r, FALSE, depth)
      BY <2>6 DEF PosterRemoves
    <3>2. UNCHANGED <<wakeUps, poster>>
      BY <2>6 DEF PosterRemoves, pipe
    <3>3. PICK all : all = FALSE
      OBVIOUS
    <3>4. RemovePostedEvents(r, all, depth)
      BY <3>1, <3>3
    <3>5. OnlyDeletions => OnlyDeletions'
      BY <1>4, <3>4, DeletionsStay
    <3> QED
      BY <2>2, <3>2, <3>5
  <2> QED
    BY <1>6, <2>3, <2>4, <2>5, <2>6 DEF OthersStep
<1> QED
  BY <1>5, <1>6

\* Who tells a loop to exit wakes the thread.
LEMMA ExitSteps ==
  ASSUME OthersTyped, QuitterTyped, NEW l \in 1..MaxLoops, exit'[l], ~exit[l],
         ThreadExec \/ ThreadStep \/ Handler \/ OthersStep
  PROVE  Held'
<1>1. ~UNCHANGED exit
  OBVIOUS
<1>2. exit \in [1..MaxLoops -> BOOLEAN]
  BY DEF OthersTyped
<1>3. CASE Send \/ Process \/ ThreadExec \/ ExecLoop \/ ThreadExecEnd
  BY <1>1, <1>3 DEF Send, SendEnter, SendSkip, SendDeliver, SendEnd, Process, ProcessBegin, ProcessCanWait,
                    ProcessInterrupted, Poll, Check, ThreadExec, ExecLoop, ThreadExecEnd, loops
<1>4. CASE ExecEnter \/ ExecLeave
  <2>1. PICK j : exit' = [exit EXCEPT ![j] = FALSE]
    BY <1>1, <1>4 DEF ExecEnter, ExecLeave
  <2> QED
    BY <1>2, <2>1
<1>5. CASE Handler
  <2>1. CASE HandlerExits
    BY <2>1 DEF HandlerExits, WakeUp, Held
  <2>2. CASE ~HandlerExits
    BY <1>1, <1>5, <2>2 DEF Handler, HandlerPosts, HandlerRemoves, HandlerCalls, HandlerReturns, Destroy, loops
  <2> QED
    BY <2>1, <2>2
<1>6. CASE OthersStep
  <2>1. CASE QuitExits
    BY <2>1 DEF QuitExits, QuitterTyped, Held
  <2>2. CASE ~QuitExits
    BY <1>1, <1>6, <2>2 DEF OthersStep, Quit, QuitBegin, QuitInterrupts, QuitWakes, PosterPosts, PosterWakes,
                            PosterRemoves, loops
  <2> QED
    BY <2>1, <2>2
<1> QED
  BY <1>3, <1>4, <1>5, <1>6 DEF ThreadStep

LEMMA HeldSteps ==
  ASSUME EventsSound, EventsSound', OthersTyped, QuitterTyped, Held,
         \/ (ThreadExec \/ ThreadStep \/ Handler) /\ UNCHANGED <<poster, quitter>>
         \/ OthersStep
  PROVE  Held' \/ (At("process", "clear") /\ Pops(stack, stack'))
<1>1. CASE (ThreadExec \/ ThreadStep \/ Handler) /\ UNCHANGED <<poster, quitter>>
  BY <1>1, CheckIs, PipeSteps DEF Held
<1>2. CASE Quit
  BY <1>2 DEF Quit, QuitBegin, QuitExits, QuitInterrupts, QuitWakes, QuitterTyped, Held, pipe
<1>3. CASE \E q \in Poster : PosterPosts(q) \/ PosterWakes(q) \/ PosterRemoves(q)
  <2>1. UNCHANGED quitter /\ (wakeUps' = TRUE \/ UNCHANGED wakeUps)
    BY <1>3 DEF PosterPosts, PosterWakes, PosterRemoves, pipe
  <2> QED
    BY <2>1 DEF Held
<1> QED
  BY <1>1, <1>2, <1>3 DEF OthersStep

\* The loop of the call on top.
LEMMA TopLevel ==
  ASSUME EventsSound, NEW t, NEW m \in Nat, m > 0, \A j \in 1..m - 1 : t[j].call = stack[j].call /\ t[j].at = stack[j].at,
         \/ m = Len(stack) + 1
         \/ m = Len(stack) /\ stack[m].call # "exec"
  PROVE  LevelAt(t, m) = loopLevel
<1>1. PICK n : n = Len(stack)
  OBVIOUS
<1>2. n \in Nat /\ (m = n + 1 \/ (m = n /\ stack[n].call # "exec"))
  BY <1>1, StackIs
<1>3. LoopsBelow(t, m) = Loops(stack)
  <2>1. LoopsBelow(t, m) \subseteq Loops(stack)
    <3>1. \A j \in 1..m - 1 : j \in 1..n
      BY <1>2
    <3> QED
      BY <1>1, <3>1 DEF LoopsBelow, Loops
  <2>2. Loops(stack) \subseteq LoopsBelow(t, m)
    <3>1. SUFFICES ASSUME NEW j \in 1..n, stack[j].call = "exec", stack[j].at # "enter"
                   PROVE  j \in LoopsBelow(t, m)
      BY <1>1 DEF Loops
    <3>2. j \in 1..m - 1
      BY <1>2, <3>1
    <3> QED
      BY <3>1, <3>2 DEF LoopsBelow
  <2> QED
    BY <2>1, <2>2
<1> QED
  BY <1>3, LevelOfLoops DEF LevelAt

LEMMA ExitsNext ==
  ASSUME EventsSound, EventsSound', OthersTyped, QuitterTyped, Nesting(stack), Fits(stack), Shape(stack, stack'),
         NewLoops, Exits,
         \/ (ThreadExec \/ ThreadStep \/ Handler) /\ UNCHANGED <<poster, quitter>>
         \/ OthersStep
  PROVE  Exits'
<1>1. SUFFICES ASSUME NEW k \in 1..Len(stack'), Awaits(stack'[k]), exit'[LevelAt(stack', k)]
               PROVE  Held'
  BY DEF Exits
<1>2. PICK s, t, n, m : s = stack /\ t = stack' /\ n = Len(stack) /\ m = Len(stack')
  OBVIOUS
<1>3. n \in Nat /\ m \in Nat /\ k \in 1..m /\ m > 0
  <2>1. n \in Nat /\ m \in Nat
    BY <1>2, StackIs, StackTyped DEF EventsSound
  <2> QED
    BY <1>2, <2>1
<1>4. CASE Grows(s, t) /\ k = m
  <2>1. ~exit[loopLevel] /\ UNCHANGED exit
    BY <1>1, <1>2, <1>4 DEF NewLoops
  <2>2. m = n + 1 /\ \A j \in 1..m - 1 : t[j].call = s[j].call /\ t[j].at = s[j].at
    <3>1. m = n + 1 /\ \A j \in 1..n : Same(s[j], t[j])
      BY <1>2, <1>4 DEF Grows, Kept
    <3> QED
      BY <1>3, <3>1 DEF Same
  <2>3. LevelAt(t, m) = loopLevel
    BY <1>2, <1>3, <2>2, TopLevel
  <2> QED
    BY <1>1, <1>2, <1>4, <2>1, <2>3
<1>5. CASE ~(Grows(s, t) /\ k = m)
  <2>1. k \in 1..n /\ Awaits(s[k]) /\ LevelAt(t, k) = LevelAt(s, k)
    BY <1>1, <1>2, <1>3, <1>5, AwaitsOld
  <2>2. PICK l : l = LevelAt(s, k)
    OBVIOUS
  <2>3. l \in 1..MaxLoops
    BY <1>2, <1>3, <2>1, <2>2, LevelIs, EventsAssumption
  <2>4. exit'[l]
    BY <1>1, <1>2, <2>1, <2>2
  <2>5. CASE ~exit[l]
    BY <2>3, <2>4, <2>5, ExitSteps
  <2>6. CASE exit[l]
    <3>1. Held
      BY <1>2, <2>1, <2>2, <2>6 DEF Exits
    <3>2. CASE At("process", "clear") /\ Pops(s, t)
      <4>1. n > 0 /\ m = n - 1
        BY <1>2, <3>2 DEF Pops
      <4>2. n \in 1..n /\ k \in 1..n - 1
        BY <1>3, <4>1
      <4>3. s[n].call = "process" /\ s[n].at = "clear"
        BY <1>2, <3>2, <4>1, StackIs DEF At
      <4>4. NestingAt(s, n)
        BY <1>2, <4>2 DEF Nesting
      <4>5. s[k].call = "process" => s[k].disturbed
        BY <4>2, <4>3, <4>4 DEF NestingAt
      <4> QED
        BY <2>1, <4>5 DEF Awaits
    <3> QED
      BY <1>2, <3>1, <3>2, HeldSteps
  <2> QED
    BY <2>5, <2>6
<1> QED
  BY <1>4, <1>5

LEMMA BlockInit ==
  ASSUME Init
  PROVE  BlockInv
<1>1. EventsInv
  BY EventsInit
<1>2. stack = <<>> /\ Len(stack) = 0 /\ insertionOffset = 0 /\ Len(list) = 0 /\ wakeUps = FALSE
      /\ quitter = [at |-> "idle", loop |-> 0]
  BY DEF Init
<1>3. Nesting(stack) /\ Exits
  BY <1>2 DEF Nesting, Exits
<1>4. Fits(stack)
  <2>1. Loops(stack) = {}
    BY <1>2 DEF Loops
  <2>2. Cardinality(Loops(stack)) = 0
    BY <2>1, FS_EmptySet
  <2> QED
    BY <1>2, <2>2, EventsAssumption DEF Fits
<1>5. QuitterTyped
  BY <1>2 DEF QuitterTyped
<1>6. BehindOffset /\ Sent /\ Posts /\ Wakes
  BY <1>2 DEF BehindOffset, Sent, Posts, Wakes, At
<1> QED
  BY <1>1, <1>3, <1>4, <1>5, <1>6 DEF BlockInv

LEMMA BlockNext ==
  ASSUME BlockInv, [Next]_vars
  PROVE  BlockInv'
<1>. USE DEF BlockInv
<1>1. EventsInv'
  BY EventsNext
<1>2. EventsSound /\ OthersTyped /\ EventsSound'
  BY <1>1 DEF EventsInv
<1>3. Len(stack) \in Nat /\ Len(stack') \in Nat
  BY <1>2, StackIs, StackTyped DEF EventsSound
<1>4. CASE \/ (ThreadExec \/ ThreadStep \/ Handler) /\ UNCHANGED <<poster, quitter>>
           \/ OthersStep
  <2>1. Shape(stack, stack') /\ NewLoops
    BY <1>2, <1>4, StepShapes
  <2>2. Nesting(stack')
    BY <1>3, <2>1, ShapesNest
  <2>3. Fits(stack')
    BY <1>3, <2>1, ShapesFit, EventsAssumption
  <2>4. QuitterTyped'
    BY <1>4, QuitterIsTyped
  <2>5. BehindOffset'
    BY <1>2, <1>4, BehindNext
  <2>6. Sent'
    BY <1>2, <1>4, <2>1, SentNext
  <2>7. Posts'
    BY <1>2, <1>4, <2>1, PostsNext
  <2>8. Wakes'
    BY <1>2, <1>4, WakesNext
  <2>9. Exits'
    BY <1>2, <1>4, <2>1, ExitsNext
  <2>10. Nesting(stack)' /\ Fits(stack)'
    BY <2>2, <2>3 DEF Nesting, NestingAt, Fits, Loops
  <2> QED
    BY <1>1, <2>4, <2>5, <2>6, <2>7, <2>8, <2>9, <2>10
<1>5. CASE UNCHANGED vars
  <2>1. UNCHANGED <<list, insertionOffset, events, canWait, wakeUps, eventfd, stack, exit, poster, quitter>>
    BY <1>5 DEF vars, queue, pipe, loops
  <2>2. Nesting(stack)' /\ Fits(stack)' /\ QuitterTyped'
    BY <2>1 DEF Nesting, NestingAt, Fits, Loops, QuitterTyped
  <2>3. BehindOffset' /\ Sent' /\ Posts' /\ Wakes'
    BY <2>1 DEF BehindOffset, Sent, Posts, Wakes, At
  <2>4. Exits'
    BY <2>1 DEF Exits, Held, Awaits, LevelAt, LoopsBelow
  <2> QED
    BY <1>1, <2>2, <2>3, <2>4
<1> QED
  BY <1>4, <1>5 DEF Next, OthersStep

LEMMA BlockImplied ==
  ASSUME BlockInv
  PROVE  NobodyBlocksBesideEvents
<1>. USE DEF BlockInv
<1>1. SUFFICES ASSUME Blocked, ~Others
               PROVE  /\ \A e \in Queued : events[e].deletes
                      /\ ~Last(stack).disturbed => ~ExitingLoop
  BY DEF NobodyBlocksBesideEvents
<1>2. At("process", "poll") /\ Last(stack).wait /\ ~eventfd /\ EventsSound
  BY <1>1 DEF Blocked, EventsInv
<1>3. quitter.at = "idle" /\ \A q \in Poster : poster[q] = "idle"
  BY <1>1 DEF Others
<1>4. ~wakeUps
  BY <1>2, <1>3 DEF Wakes, At
<1>5. \A e \in Queued : events[e].deletes
  <2>1. \A e \in DOMAIN events : events[e].fate = "queued" => events[e].deletes
    BY <1>2, <1>3, <1>4 DEF Posts, At
  <2>2. Queued = {e \in DOMAIN events : events[e].fate = "queued"}
    BY <1>2 DEF EventsSound, QueueOK, ListOK, Queued, Pendings, IsPending
  <2> QED
    BY <2>1, <2>2
<1>6. ASSUME ~Last(stack).disturbed
      PROVE  ~ExitingLoop
  <2>1. PICK s, n : s = stack /\ n = Len(stack)
    OBVIOUS
  <2>2. n \in Nat /\ n > 0 /\ n \in 1..n /\ Last(stack) = s[n] /\ s[n].call = "process"
    BY <1>2, <2>1, StackIs DEF At
  <2>3. Awaits(s[n])
    BY <1>2, <1>6, <2>2 DEF Awaits
  <2>4. LevelAt(s, n) = loopLevel
    BY <1>2, <2>1, <2>2, TopLevel
  <2>5. ~Held
    BY <1>3, <1>4 DEF Held
  <2> QED
    BY <2>1, <2>2, <2>3, <2>4, <2>5 DEF Exits, ExitingLoop
<1> QED
  BY <1>5, <1>6

\* Whatever handlers, other threads and nested calls do, and in whichever order the
\* steps of posting, waking, sending and quitting come, the thread never blocks in
\* poll beside an event that it could deliver, nor in a loop that was told to exit,
\* unless somebody is about to wake it; as long as no other processEvents has run
\* inside the one that blocks.
THEOREM NobodyBlocksBesideEventsAlways == Spec => []NobodyBlocksBesideEvents
<1>1. Init => BlockInv
  BY BlockInit
<1>2. BlockInv /\ [Next]_vars => BlockInv'
  BY BlockNext
<1>3. BlockInv => NobodyBlocksBesideEvents
  BY BlockImplied
<1> QED
  BY <1>1, <1>2, <1>3, PTL DEF Spec

=============================================================================
