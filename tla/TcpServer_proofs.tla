-------------------------- MODULE TcpServer_proofs --------------------------
(***************************************************************************)
(* The idle lists of a TcpServer, for any number of loops and connections  *)
(* and any idle times: every connection has its node where it belongs, and *)
(* as the lists are sorted by the time of the last read a tick finds the   *)
(* silent connections at their fronts.                                     *)
(*                                                                         *)
(* And the connections of an HttpServer, which is a TcpServer: for every   *)
(* sequence of requests and every way to cut its bytes, the requests are   *)
(* answered in their order.                                                *)
(***************************************************************************)
EXTENDS TcpServer, HttpServer, FiniteSetTheorems, WellFoundedInduction, TLAPS

Times == 0 .. Old
Nodes == [con : Conns, updated : Times]
Tasks == [what : {"addcon", "close"}, con : Conns]
States == {"none", "backlog", "leaked", "posted", "attached", "open", "closing", "gone"}

TypeOK ==
    /\ backlog \in Seq(Conns) /\ next \in Bases
    /\ con \in [Conns -> [st : States, base : Bases, idle : Idles, silent : Times]]
    /\ lists \in [Bases -> [Idles -> Seq(Nodes)]]
    /\ tasks \in [Bases -> Seq(Tasks)]
    /\ timed \subseteq Bases /\ due \subseteq Bases

\* A connection waits in the backlog once, and once for the loop it was dealt to.
Waiting ==
    /\ \A j, k \in DOMAIN backlog : backlog[j] = backlog[k] => j = k
    /\ \A k \in DOMAIN backlog : con[backlog[k]].st = "backlog"

AddconAt(b, k) == k \in DOMAIN tasks[b] /\ tasks[b][k].what = "addcon"

Posted ==
    /\ \A b \in Bases, k \in Nat : AddconAt(b, k) => con[tasks[b][k].con].st = "posted"
    /\ \A a, b \in Bases, j, k \in Nat :
          AddconAt(a, j) /\ AddconAt(b, k) /\ tasks[a][j].con = tasks[b][k].con => a = b /\ j = k

\* The nodes of a list are those of the connections in S, one for each, in the order
\* of their last reads, the oldest first.
Holds(l, S) ==
    /\ \A j, k \in DOMAIN l : l[j].con = l[k].con => j = k
    /\ {l[k].con : k \in DOMAIN l} = S

Sorted(l) == \A j, k \in DOMAIN l : j < k => l[j].updated >= l[k].updated

Fresh(l, f) == \A k \in DOMAIN l : l[k].updated = f[l[k].con].silent

Members(b, i) == {c \in Conns : Registered(c) /\ con[c].base = b /\ con[c].idle = i}

ListsHeld == \A b \in Bases, i \in Idles : Holds(lists[b][i], Members(b, i))
ListsSorted == \A b \in Bases, i \in Idles : Sorted(lists[b][i])
ListsFresh == \A b \in Bases, i \in Idles : Fresh(lists[b][i], con)
Lists == ListsHeld /\ ListsSorted /\ ListsFresh

\* The close of a connection that was called back is on its way.
Closing ==
    \A c \in Conns : con[c].st = "closing" =>
        \E k \in DOMAIN tasks[con[c].base] : tasks[con[c].base][k] = Task("close", c)

\* Only connections that are up grow silent.
Unheard == \A c \in Conns : ~ Registered(c) => con[c].silent = 0

IInv == TypeOK /\ Unheard /\ Waiting /\ Posted /\ Lists /\ Closing

----------------------------------------------------------------------------
(* Numbers and lists.                                                      *)

LEMMA Bounds ==
    /\ Max(Idles) \in Idles /\ Old \in Nat /\ 0 \in Times /\ 0 \in Bases
    /\ \A i \in Idles : i \in Nat /\ i > 0 /\ i < Old
    /\ \A b \in Bases : b \in Nat
  <1>1. PICK m \in Idles : \A i \in Idles : i <= m
    BY ServerAssumption
  <1>2. \A i \in Idles : i \in Nat /\ i > 0
    BY ServerAssumption
  <1>3. \A i \in Idles : m >= i
    BY <1>1, <1>2
  <1>4. Max(Idles) \in Idles /\ \A i \in Idles : Max(Idles) >= i
    BY <1>3 DEF Max
  <1>5. Old \in Nat /\ Old = Max(Idles) + 1
    BY <1>2, <1>4 DEF Old
  <1>6. 0 \in Times /\ 0 \in Bases /\ \A b \in Bases : b \in Nat
    BY <1>5, ServerAssumption DEF Times, Bases
  <1> QED
    BY <1>2, <1>4, <1>5, <1>6

LEMMA LaterOK ==
    /\ \A t \in Times : Later(t) \in Times
    /\ \A t, u \in Times : t >= u => Later(t) >= Later(u)
  BY Bounds DEF Later, Times

LEMMA NodeFields ==
    /\ \A n \in Nodes : n.con \in Conns /\ n.updated \in Times /\ n.updated \in Nat
    /\ \A c \in Conns, t \in Times : /\ Node(c, t) \in Nodes
                                     /\ Node(c, t).con = c /\ Node(c, t).updated = t
  BY Bounds DEF Nodes, Node, Times

\* What erase leaves.
LEMMA RemoveAtOK ==
    ASSUME NEW l \in Seq(Nodes), NEW k \in DOMAIN l
    PROVE  /\ RemoveAt(l, k) \in Seq(Nodes) /\ DOMAIN RemoveAt(l, k) = 1 .. Len(l) - 1
           /\ Len(RemoveAt(l, k)) = Len(l) - 1
           /\ \A j \in 1 .. Len(l) - 1 : RemoveAt(l, k)[j] = IF j < k THEN l[j] ELSE l[j + 1]
  <1> DEFINE p == SubSeq(l, 1, k - 1)  q == SubSeq(l, k + 1, Len(l))
  <1>1. Len(l) \in Nat /\ k \in 1 .. Len(l)
    OBVIOUS
  <1>2. p \in Seq(Nodes) /\ Len(p) = k - 1 /\ \A j \in 1 .. k - 1 : p[j] = l[j]
    BY <1>1
  <1>3. q \in Seq(Nodes) /\ Len(q) = Len(l) - k /\ \A j \in 1 .. Len(l) - k : q[j] = l[k + j]
    BY <1>1
  <1>4. RemoveAt(l, k) = p \o q
    BY DEF RemoveAt
  <1> HIDE DEF p, q
  <1>5. p \o q \in Seq(Nodes) /\ Len(p \o q) = Len(l) - 1
    BY <1>1, <1>2, <1>3
  <1>6. \A j \in 1 .. Len(l) - 1 : (p \o q)[j] = IF j <= k - 1 THEN p[j] ELSE q[j - (k - 1)]
    BY <1>1, <1>2, <1>3, SMTT(20)
  <1>7. ASSUME NEW j \in 1 .. Len(l) - 1
        PROVE  (p \o q)[j] = IF j < k THEN l[j] ELSE l[j + 1]
    <2>1. CASE j < k
      BY <1>1, <1>2, <1>6, <2>1
    <2>2. CASE ~ (j < k)
      <3>1. j - (k - 1) \in 1 .. Len(l) - k /\ k + (j - (k - 1)) = j + 1
        BY <1>1, <2>2
      <3>2. (p \o q)[j] = q[j - (k - 1)]
        <4>1. ~ (j <= k - 1)
          BY <1>1, <2>2
        <4> QED
          BY <1>6, <4>1
      <3>3. q[j - (k - 1)] = l[k + (j - (k - 1))]
        BY <1>3, <3>1
      <3> QED
        BY <2>2, <3>1, <3>2, <3>3
    <2> QED
      BY <2>1, <2>2
  <1> QED
    BY <1>4, <1>5, <1>7

LEMMA RemoveHolds ==
    ASSUME NEW l \in Seq(Nodes), NEW k \in DOMAIN l, NEW S, Holds(l, S)
    PROVE  Holds(RemoveAt(l, k), S \ {l[k].con})
  <1> DEFINE r == RemoveAt(l, k)  n == Len(l)
             at(j) == IF j < k THEN j ELSE j + 1
  <1>1. n \in Nat /\ DOMAIN l = 1 .. n /\ k \in 1 .. n
    OBVIOUS
  <1>2. DOMAIN r = 1 .. n - 1 /\ \A j \in 1 .. n - 1 : r[j] = l[at(j)]
    BY RemoveAtOK
  <1> HIDE DEF r, n
  <1>3. \A j \in 1 .. n - 1 : at(j) \in 1 .. n /\ at(j) # k
    BY <1>1
  <1>4. \A i, j \in 1 .. n - 1 : at(i) = at(j) => i = j
    BY <1>1
  <1>5. ASSUME NEW m \in 1 .. n, m # k PROVE \E j \in 1 .. n - 1 : at(j) = m
    <2>1. CASE m < k
      BY <1>1, <2>1
    <2>2. CASE m > k
      <3>1. m - 1 \in 1 .. n - 1 /\ ~ (m - 1 < k) /\ (m - 1) + 1 = m
        BY <1>1, <2>2
      <3> QED
        BY <3>1
    <2> QED
      BY <1>1, <1>5, <2>1, <2>2
  <1> HIDE DEF at
  <1>6. \A i, j \in DOMAIN r : r[i].con = r[j].con => i = j
    BY <1>1, <1>2, <1>3, <1>4 DEF Holds
  <1>7. {r[j].con : j \in DOMAIN r} = S \ {l[k].con}
    <2>1. \A j \in DOMAIN r : r[j].con \in S /\ r[j].con # l[k].con
      BY <1>1, <1>2, <1>3 DEF Holds
    <2>2. ASSUME NEW x \in S, x # l[k].con PROVE \E j \in DOMAIN r : r[j].con = x
      <3>1. PICK m \in 1 .. n : l[m].con = x
        BY <1>1 DEF Holds
      <3>2. PICK j \in 1 .. n - 1 : at(j) = m
        BY <1>5, <2>2, <3>1
      <3> QED
        BY <1>2, <3>1, <3>2
    <2> QED
      BY <2>1, <2>2
  <1> QED
    BY <1>6, <1>7 DEF Holds, r

LEMMA RemoveSorted ==
    ASSUME NEW l \in Seq(Nodes), NEW k \in DOMAIN l, Sorted(l)
    PROVE  Sorted(RemoveAt(l, k))
  <1> SUFFICES ASSUME NEW i \in 1 .. Len(l) - 1, NEW j \in 1 .. Len(l) - 1, i < j
               PROVE  RemoveAt(l, k)[i].updated >= RemoveAt(l, k)[j].updated
    BY RemoveAtOK DEF Sorted
  <1> DEFINE at(m) == IF m < k THEN m ELSE m + 1
  <1>1. at(i) \in DOMAIN l /\ at(j) \in DOMAIN l /\ at(i) < at(j)
    OBVIOUS
  <1>2. l[at(i)].updated >= l[at(j)].updated
    BY <1>1 DEF Sorted
  <1> QED
    BY <1>2, RemoveAtOK

LEMMA RemoveFresh ==
    ASSUME NEW l \in Seq(Nodes), NEW k \in DOMAIN l, NEW S, Holds(l, S),
           NEW f, NEW g, Fresh(l, f), \A c \in S \ {l[k].con} : g[c] = f[c]
    PROVE  Fresh(RemoveAt(l, k), g)
  <1> SUFFICES ASSUME NEW i \in 1 .. Len(l) - 1
               PROVE  RemoveAt(l, k)[i].updated = g[RemoveAt(l, k)[i].con].silent
    BY RemoveAtOK DEF Fresh
  <1> DEFINE at == IF i < k THEN i ELSE i + 1
  <1>1. at \in DOMAIN l /\ at # k
    OBVIOUS
  <1>2. l[at].con \in S \ {l[k].con} /\ l[at].updated = f[l[at].con].silent
    BY <1>1 DEF Holds, Fresh
  <1>3. RemoveAt(l, k)[i] = l[at]
    BY RemoveAtOK
  <1> QED
    BY <1>2, <1>3

\* A node added at the end, for a connection that was read now.
LEMMA AppendOK ==
    ASSUME NEW l \in Seq(Nodes), NEW S, Holds(l, S), Sorted(l), NEW c \in Conns, c \notin S,
           NEW f, Fresh(l, f), f[c].silent = 0
    PROVE  LET m == Append(l, Node(c, 0))
           IN  m \in Seq(Nodes) /\ Holds(m, S \cup {c}) /\ Sorted(m) /\ Fresh(m, f)
  <1> DEFINE m == Append(l, Node(c, 0))  z == Len(l) + 1
  <1>1. Node(c, 0) \in Nodes /\ Node(c, 0).con = c /\ Node(c, 0).updated = 0
    BY NodeFields, Bounds
  <1>2. /\ Len(l) \in Nat /\ DOMAIN l = 1 .. Len(l) /\ m \in Seq(Nodes) /\ DOMAIN m = 1 .. z
        /\ m[z] = Node(c, 0) /\ \A k \in 1 .. Len(l) : m[k] = l[k] /\ l[k] \in Nodes
    BY <1>1
  <1>3. \A k \in 1 .. z : k \in 1 .. Len(l) \/ k = z
    BY <1>2
  <1>4. z \in 1 .. z /\ z \notin 1 .. Len(l) /\ \A k \in 1 .. Len(l) : k \in 1 .. z
    BY <1>2
  <1> HIDE DEF m
  <1>5. \A k \in 1 .. Len(l) : l[k].con \in S /\ l[k].con # c /\ l[k].updated \in Nat
    BY <1>2, NodeFields DEF Holds
  <1>6. Holds(m, S \cup {c})
    <2>1. \A j, k \in DOMAIN m : m[j].con = m[k].con => j = k
      BY <1>1, <1>2, <1>3, <1>5 DEF Holds
    <2>2. \A k \in DOMAIN m : m[k].con \in S \cup {c}
      BY <1>1, <1>2, <1>3, <1>5
    <2>3. \A x \in S \cup {c} : \E k \in DOMAIN m : m[k].con = x
      BY <1>1, <1>2, <1>4 DEF Holds
    <2> QED
      BY <2>1, <2>2, <2>3 DEF Holds
  <1>7. Sorted(m)
    <2> SUFFICES ASSUME NEW j \in 1 .. z, NEW k \in 1 .. z, j < k
                 PROVE  m[j].updated >= m[k].updated
      BY <1>2 DEF Sorted
    <2>1. j \in 1 .. Len(l)
      BY <1>2
    <2>2. CASE k \in 1 .. Len(l)
      BY <1>2, <2>1, <2>2 DEF Sorted
    <2>3. CASE k = z
      BY <1>1, <1>2, <1>5, <2>1, <2>3
    <2> QED
      BY <1>3, <2>2, <2>3
  <1>8. Fresh(m, f)
    <2> SUFFICES ASSUME NEW k \in 1 .. z PROVE m[k].updated = f[m[k].con].silent
      BY <1>2 DEF Fresh
    <2>1. CASE k \in 1 .. Len(l)
      BY <1>2, <2>1 DEF Fresh
    <2>2. CASE k = z
      BY <1>1, <1>2, <2>2
    <2> QED
      BY <1>3, <2>1, <2>2
  <1> QED
    BY <1>2, <1>6, <1>7, <1>8 DEF m

----------------------------------------------------------------------------
(* The idle lists under changes of the connections.                        *)

LEMMA ConTypes ==
    ASSUME TypeOK, NEW c \in Conns
    PROVE  /\ con[c].base \in Bases /\ con[c].idle \in Idles /\ con[c].silent \in Times
           /\ con[c].st \in States
  BY DEF TypeOK

LEMMA ListsStay ==
    ASSUME TypeOK, Lists, UNCHANGED lists,
           \A c \in Conns : Registered(c)' <=> Registered(c),
           \A c \in Conns : Registered(c) => /\ con'[c].base = con[c].base
                                             /\ con'[c].idle = con[c].idle
                                             /\ con'[c].silent = con[c].silent
    PROVE  Lists'
  <1>1. \A b \in Bases, i \in Idles : Members(b, i)' = Members(b, i)
    BY DEF Members
  <1>2. ListsHeld' /\ ListsSorted'
    BY <1>1 DEF Lists, ListsHeld, ListsSorted, Holds, Sorted
  <1>3. ASSUME NEW b \in Bases, NEW i \in Idles PROVE Fresh(lists[b][i], con')
    <2>1. \A k \in DOMAIN lists[b][i] : lists[b][i][k].con \in Members(b, i)
      BY DEF Lists, ListsHeld, Holds
    <2>2. Fresh(lists[b][i], con)
      BY DEF Lists, ListsFresh
    <2> QED
      BY <2>1, <2>2 DEF Fresh, Members
  <1> QED
    BY <1>2, <1>3 DEF Lists, ListsFresh

\* One list and one connection change.
LEMMA OneList ==
    ASSUME TypeOK, Lists, NEW b \in Bases, NEW i \in Idles, NEW l \in Seq(Nodes),
           lists' = [lists EXCEPT ![b][i] = l],
           NEW c \in Conns, \A d \in Conns : d # c => con'[d] = con[d],
           Registered(c) => con[c].base = b /\ con[c].idle = i,
           Registered(c)' => con'[c].base = b /\ con'[c].idle = i,
           Holds(l, Members(b, i)'), Sorted(l), Fresh(l, con')
    PROVE  Lists' /\ lists' \in [Bases -> [Idles -> Seq(Nodes)]]
  <1>0. lists \in [Bases -> [Idles -> Seq(Nodes)]]
    BY DEF TypeOK
  <1>1. lists' \in [Bases -> [Idles -> Seq(Nodes)]]
    BY <1>0
  <1>2. lists'[b][i] = l
    BY <1>0
  <1>3. \A a \in Bases, h \in Idles : a # b \/ h # i => lists'[a][h] = lists[a][h]
    BY <1>0
  <1>4. ASSUME NEW a \in Bases, NEW h \in Idles
        PROVE  Holds(lists'[a][h], Members(a, h)') /\ Sorted(lists'[a][h]) /\ Fresh(lists'[a][h], con')
    <2>1. CASE a = b /\ h = i
      BY <1>2, <2>1
    <2>2. CASE a # b \/ h # i
      <3>1. /\ lists'[a][h] = lists[a][h] /\ Holds(lists[a][h], Members(a, h))
            /\ Sorted(lists[a][h]) /\ Fresh(lists[a][h], con)
        BY <1>3, <2>2 DEF Lists, ListsHeld, ListsSorted, ListsFresh
      <3>2. c \notin Members(a, h) /\ c \notin Members(a, h)'
        BY <2>2 DEF Members
      <3>3. \A d \in Conns : d # c => (Registered(d)' <=> Registered(d))
        BY DEF Registered
      <3>4. Members(a, h)' = Members(a, h)
        BY <3>2, <3>3 DEF Members
      <3>5. \A k \in DOMAIN lists[a][h] : lists[a][h][k].con \in Members(a, h)
        BY <3>1 DEF Holds
      <3>6. Fresh(lists[a][h], con')
        BY <3>1, <3>2, <3>5 DEF Fresh, Members
      <3> QED
        BY <3>1, <3>4, <3>6
    <2> QED
      BY <2>1, <2>2
  <1> QED
    BY <1>1, <1>4 DEF Lists, ListsHeld, ListsSorted, ListsFresh

\* iter_ of a connection that is up.
LEMMA IterOK ==
    ASSUME TypeOK, Lists, NEW c \in Conns, Registered(c)
    PROVE  /\ ListOf(c) \in Seq(Nodes) /\ iter_(c) \in DOMAIN ListOf(c)
           /\ ListOf(c)[iter_(c)].con = c
           /\ Holds(ListOf(c), Members(con[c].base, con[c].idle))
           /\ Sorted(ListOf(c)) /\ Fresh(ListOf(c), con)
  <1>1. con[c].base \in Bases /\ con[c].idle \in Idles
    BY ConTypes
  <1>2. ListOf(c) \in Seq(Nodes)
    BY <1>1 DEF ListOf, TypeOK
  <1>3. /\ Holds(ListOf(c), Members(con[c].base, con[c].idle))
        /\ Sorted(ListOf(c)) /\ Fresh(ListOf(c), con)
    BY <1>1 DEF ListOf, Lists, ListsHeld, ListsSorted, ListsFresh
  <1>4. c \in Members(con[c].base, con[c].idle)
    BY DEF Members
  <1>5. \E k \in DOMAIN ListOf(c) : ListOf(c)[k].con = c
    BY <1>3, <1>4 DEF Holds
  <1> QED
    BY <1>2, <1>3, <1>5 DEF iter_

LEMMA ReadLists ==
    ASSUME TypeOK, Lists, NEW c \in Conns, Read(c)
    PROVE  Lists' /\ lists' \in [Bases -> [Idles -> Seq(Nodes)]]
  <1>0. PICK b \in Bases, i \in Idles : b = con[c].base /\ i = con[c].idle
    BY ConTypes
  <1> DEFINE k == iter_(c)  l == ListOf(c)
             r == RemoveAt(l, k)  m == Append(r, Node(c, 0))
  <1>1. Registered(c) /\ con' = [con EXCEPT ![c].silent = 0] /\ lists' = [lists EXCEPT ![b][i] = m]
    BY <1>0 DEF Read, updateIdle, SetList
  <1>3. /\ l \in Seq(Nodes) /\ k \in DOMAIN l /\ l[k].con = c
        /\ Holds(l, Members(b, i)) /\ Sorted(l) /\ Fresh(l, con)
    BY <1>0, <1>1, IterOK
  <1>4. /\ \A d \in Conns : d # c => con'[d] = con[d]
        /\ con'[c].silent = 0 /\ con'[c].base = b /\ con'[c].idle = i /\ con'[c].st = con[c].st
    BY <1>0, <1>1 DEF TypeOK
  <1>5. Members(b, i)' = Members(b, i) /\ c \in Members(b, i)
    BY <1>0, <1>1, <1>4 DEF Members, Registered
  <1> DEFINE S == Members(b, i) \ {c}
  <1> HIDE DEF k, l
  <1>6. r \in Seq(Nodes) /\ Holds(r, S) /\ Sorted(r) /\ Fresh(r, con')
    <2>1. \A d \in Members(b, i) \ {l[k].con} : con'[d] = con[d]
      BY <1>3, <1>4 DEF Members
    <2>2. r \in Seq(Nodes)
      BY <1>3, RemoveAtOK
    <2>3. Holds(r, Members(b, i) \ {l[k].con})
      BY <1>3, RemoveHolds
    <2>4. Sorted(r)
      BY <1>3, RemoveSorted
    <2>5. Fresh(r, con')
      BY <1>3, <2>1, RemoveFresh
    <2> HIDE DEF r
    <2> QED
      BY <1>3, <2>2, <2>3, <2>4, <2>5
  <1> HIDE DEF r, S
  <1>7. m \in Seq(Nodes) /\ Holds(m, S \cup {c}) /\ Sorted(m) /\ Fresh(m, con')
    <2>1. c \notin S
      BY DEF S
    <2> QED
      BY <1>4, <1>6, <2>1, AppendOK
  <1> HIDE DEF m
  <1>8. Holds(m, Members(b, i)')
    <2>1. S \cup {c} = Members(b, i)'
      BY <1>5 DEF S
    <2> QED
      BY <1>7, <2>1
  <1>9. /\ Registered(c) => con[c].base = b /\ con[c].idle = i
        /\ Registered(c)' => con'[c].base = b /\ con'[c].idle = i
    BY <1>0, <1>4
  <1> QED
    BY <1>1, <1>4, <1>7, <1>8, <1>9, OneList

LEMMA CleanupLists ==
    ASSUME TypeOK, Lists, NEW c \in Conns, Registered(c), Cleanup(c)
    PROVE  Lists' /\ lists' \in [Bases -> [Idles -> Seq(Nodes)]]
  <1>0. PICK b \in Bases, i \in Idles : b = con[c].base /\ i = con[c].idle
    BY ConTypes
  <1> DEFINE k == iter_(c)  l == ListOf(c)  r == RemoveAt(l, k)
  <1>1. con' = [con EXCEPT ![c] = Blank("gone")] /\ lists' = [lists EXCEPT ![b][i] = r]
    BY <1>0 DEF Cleanup, unregisterIdle, SetList
  <1>3. /\ l \in Seq(Nodes) /\ k \in DOMAIN l /\ l[k].con = c
        /\ Holds(l, Members(b, i)) /\ Sorted(l) /\ Fresh(l, con)
    BY <1>0, IterOK
  <1>4. /\ \A d \in Conns : d # c => con'[d] = con[d]
        /\ con'[c].st = "gone"
    BY <1>1 DEF TypeOK, Blank
  <1>5. Members(b, i)' = Members(b, i) \ {l[k].con}
    BY <1>3, <1>4 DEF Members, Registered
  <1> HIDE DEF k, l
  <1>6. r \in Seq(Nodes) /\ Holds(r, Members(b, i)') /\ Sorted(r) /\ Fresh(r, con')
    <2>1. \A d \in Members(b, i) \ {l[k].con} : con'[d] = con[d]
      BY <1>3, <1>4 DEF Members
    <2>2. r \in Seq(Nodes)
      BY <1>3, RemoveAtOK
    <2>3. Holds(r, Members(b, i) \ {l[k].con})
      BY <1>3, RemoveHolds
    <2>4. Sorted(r)
      BY <1>3, RemoveSorted
    <2>5. Fresh(r, con')
      BY <1>3, <2>1, RemoveFresh
    <2> HIDE DEF r
    <2> QED
      BY <1>5, <2>2, <2>3, <2>4, <2>5
  <1> HIDE DEF r
  <1>7. /\ Registered(c) => con[c].base = b /\ con[c].idle = i
        /\ Registered(c)' => con'[c].base = b /\ con'[c].idle = i
    BY <1>0, <1>4 DEF Registered
  <1> QED
    BY <1>1, <1>4, <1>6, <1>7, OneList

LEMMA ConnectedLists ==
    ASSUME TypeOK, Lists, NEW c \in Conns, Connected(c), con[c].silent = 0
    PROVE  Lists' /\ lists' \in [Bases -> [Idles -> Seq(Nodes)]]
  <1>1. PICK i \in Idles :
          /\ con' = [con EXCEPT ![c].st = "open", ![c].idle = i]
          /\ lists' = [lists EXCEPT ![con[c].base][i] = Append(@, Node(c, 0))]
    BY DEF Connected, registerIdle
  <1>0. PICK b \in Bases : b = con[c].base
    BY ConTypes
  <1> DEFINE l == lists[b][i]  m == Append(l, Node(c, 0))
  <1>2. ~ Registered(c)
    BY DEF Connected, Registered
  <1>3. lists' = [lists EXCEPT ![b][i] = m]
    BY <1>0, <1>1 DEF TypeOK
  <1>4. l \in Seq(Nodes) /\ Holds(l, Members(b, i)) /\ Sorted(l) /\ Fresh(l, con)
    BY DEF TypeOK, Lists, ListsHeld, ListsSorted, ListsFresh
  <1>5. /\ \A d \in Conns : d # c => con'[d] = con[d]
        /\ con'[c].st = "open" /\ con'[c].base = b /\ con'[c].idle = i /\ con'[c].silent = 0
    BY <1>0, <1>1 DEF TypeOK
  <1>6. c \notin Members(b, i) /\ Members(b, i)' = Members(b, i) \cup {c}
    BY <1>2, <1>5 DEF Members, Registered
  <1> HIDE DEF l
  <1>7. Fresh(l, con')
    <2>1. \A k \in DOMAIN l : l[k].con \in Members(b, i)
      BY <1>4 DEF Holds
    <2> QED
      BY <1>4, <1>5, <1>6, <2>1 DEF Fresh, Members
  <1>9. m \in Seq(Nodes) /\ Holds(m, Members(b, i)') /\ Sorted(m) /\ Fresh(m, con')
    <2>1. m \in Seq(Nodes) /\ Holds(m, Members(b, i) \cup {c}) /\ Sorted(m) /\ Fresh(m, con')
      BY <1>4, <1>5, <1>6, <1>7, AppendOK
    <2> HIDE DEF m
    <2> QED
      BY <1>6, <2>1
  <1> HIDE DEF m
  <1>10. /\ Registered(c) => con[c].base = b /\ con[c].idle = i
         /\ Registered(c)' => con'[c].base = b /\ con'[c].idle = i
    BY <1>2, <1>5
  <1> QED
    BY <1>3, <1>5, <1>9, <1>10, OneList

\* A second leaves the order of a list as it is.
LEMMA SecondLists ==
    ASSUME TypeOK, Lists, Second
    PROVE  Lists' /\ lists' \in [Bases -> [Idles -> Seq(Nodes)]]
  <1>1. \A c \in Conns : con'[c] = IF Registered(c) THEN [con[c] EXCEPT !.silent = Later(@)] ELSE con[c]
    BY DEF Second
  <1>2. \A c \in Conns : /\ con'[c].st = con[c].st /\ con'[c].base = con[c].base
                         /\ con'[c].idle = con[c].idle
                         /\ Registered(c) => con'[c].silent = Later(con[c].silent)
    BY <1>1 DEF TypeOK
  <1>3. \A b \in Bases, i \in Idles : Members(b, i)' = Members(b, i)
    BY <1>2 DEF Members, Registered
  <1>4. ASSUME NEW b \in Bases, NEW i \in Idles
        PROVE  /\ lists'[b][i] \in Seq(Nodes)
               /\ Holds(lists'[b][i], Members(b, i)') /\ Sorted(lists'[b][i]) /\ Fresh(lists'[b][i], con')
    <2> DEFINE l == lists[b][i]
    <2>1. l \in Seq(Nodes) /\ Holds(l, Members(b, i)) /\ Sorted(l) /\ Fresh(l, con)
      BY DEF TypeOK, Lists, ListsHeld, ListsSorted, ListsFresh
    <2>2. lists'[b][i] = [k \in DOMAIN l |-> [l[k] EXCEPT !.updated = Later(@)]]
      BY DEF Second
    <2> HIDE DEF l
    <2>3. \A k \in DOMAIN l : /\ l[k] \in Nodes /\ l[k].updated \in Times
                              /\ lists'[b][i][k] \in Nodes
                              /\ lists'[b][i][k].con = l[k].con
                              /\ lists'[b][i][k].updated = Later(l[k].updated)
      <3> TAKE k \in DOMAIN l
      <3>1. l[k] \in Nodes
        BY <2>1
      <3>2. lists'[b][i][k] = [l[k] EXCEPT !.updated = Later(@)]
        BY <2>2
      <3>3. l[k].updated \in Times /\ Later(l[k].updated) \in Times
        BY <3>1, NodeFields, LaterOK
      <3> QED
        BY <3>1, <3>2, <3>3 DEF Nodes
    <2>4. DOMAIN lists'[b][i] = DOMAIN l
      BY <2>2
    <2>5. lists'[b][i] \in Seq(Nodes)
      <3>1. DOMAIN l = 1 .. Len(l) /\ Len(l) \in Nat
        BY <2>1
      <3>2. lists'[b][i] \in [1 .. Len(l) -> Nodes]
        BY <2>2, <2>3, <3>1
      <3> QED
        BY <3>1, <3>2
    <2>6. Holds(lists'[b][i], Members(b, i)')
      BY <1>3, <2>1, <2>3, <2>4 DEF Holds
    <2>7. Sorted(lists'[b][i])
      BY <2>1, <2>3, <2>4, LaterOK DEF Sorted
    <2>8. Fresh(lists'[b][i], con')
      <3>1. \A k \in DOMAIN l : l[k].con \in Conns /\ Registered(l[k].con)
        BY <2>1 DEF Holds, Members
      <3> QED
        BY <1>2, <2>1, <2>3, <2>4, <3>1 DEF Fresh
    <2> QED
      BY <2>5, <2>6, <2>7, <2>8
  <1>5. lists' \in [Bases -> [Idles -> Seq(Nodes)]]
    <2>1. lists' = [b \in Bases |-> [i \in Idles |-> lists'[b][i]]]
      BY DEF Second
    <2> QED
      BY <1>4, <2>1
  <1> QED
    BY <1>4, <1>5 DEF Lists, ListsHeld, ListsSorted, ListsFresh

\* The nodes at the fronts of a loop's lists are those of its silent connections.
Silent(b) == {c \in Conns : Registered(c) /\ con[c].base = b /\ con[c].silent >= con[c].idle}

LEMMA CallsSilent ==
    ASSUME TypeOK, Lists, NEW b \in Bases
    PROVE  CallIdles(b) = Silent(b)
  <1>0. \A i \in Idles : /\ lists[b][i] \in Seq(Nodes) /\ Holds(lists[b][i], Members(b, i))
                         /\ Sorted(lists[b][i]) /\ Fresh(lists[b][i], con)
    BY DEF TypeOK, Lists, ListsHeld, ListsSorted, ListsFresh
  <1>1. \A x : x \in CallIdles(b) <=> \E i \in Idles : \E k \in DOMAIN lists[b][i] :
                   x = lists[b][i][k].con /\ \A j \in 1 .. k : IsIdle(lists[b][i][j], i)
    BY DEF CallIdles
  <1>2. ASSUME NEW i \in Idles, NEW k \in DOMAIN lists[b][i],
               \A j \in 1 .. k : IsIdle(lists[b][i][j], i)
        PROVE  lists[b][i][k].con \in Silent(b)
    <2>1. lists[b][i][k].con \in Members(b, i) /\ lists[b][i][k].updated = con[lists[b][i][k].con].silent
      BY <1>0 DEF Holds, Fresh
    <2>2. k \in 1 .. k
      BY <1>0
    <2>3. lists[b][i][k].updated >= i
      BY <1>2, <2>2 DEF IsIdle
    <2> QED
      BY <2>1, <2>3 DEF Members, Silent
  <1>3. ASSUME NEW c \in Silent(b)
        PROVE  \E i \in Idles : \E k \in DOMAIN lists[b][i] :
                   c = lists[b][i][k].con /\ \A j \in 1 .. k : IsIdle(lists[b][i][j], i)
    <2>1. c \in Conns /\ Registered(c) /\ con[c].base = b /\ con[c].silent >= con[c].idle
      BY DEF Silent
    <2>2. PICK i \in Idles : i = con[c].idle
      BY <2>1, ConTypes
    <2>3. c \in Members(b, i)
      BY <2>1, <2>2 DEF Members
    <2>4. PICK k \in DOMAIN lists[b][i] : lists[b][i][k].con = c
      BY <1>0, <2>3 DEF Holds
    <2>5. lists[b][i][k].updated = con[c].silent /\ lists[b][i][k].updated >= i
      BY <1>0, <2>1, <2>2, <2>4 DEF Fresh
    <2>6. ASSUME NEW j \in 1 .. k PROVE lists[b][i][j].updated >= i
      <3>1. k \in Nat /\ j \in DOMAIN lists[b][i] /\ (j < k \/ j = k)
        BY <1>0
      <3>2. lists[b][i][j] \in Nodes /\ lists[b][i][k] \in Nodes
        BY <1>0, <3>1
      <3>3. lists[b][i][j].updated \in Nat /\ lists[b][i][k].updated \in Nat /\ i \in Nat
        BY <3>2, NodeFields, Bounds
      <3>4. j < k => lists[b][i][j].updated >= lists[b][i][k].updated
        BY <1>0, <3>1 DEF Sorted
      <3> QED
        BY <2>5, <3>1, <3>3, <3>4
    <2> QED
      BY <2>4, <2>6 DEF IsIdle
  <1> QED
    BY <1>1, <1>2, <1>3

\* A set of connections as a sequence.
LEMMA SequenceOfSet ==
    ASSUME NEW S \in SUBSET Conns
    PROVE  SetToSeq(S) \in Seq(Conns) /\ Range(SetToSeq(S)) = S
  <1> DEFINE n == Cardinality(S)  D == 1 .. n
  <1>1. IsFiniteSet(S)
    BY ServerAssumption, FS_Subset
  <1>2. n \in Nat /\ ExistsBijection(D, S)
    BY <1>1, FS_CardinalityType
  <1>3. \E f \in [D -> S] : IsInjective(f)
    BY <1>2 DEF ExistsBijection, Bijection, Injection
  <1>4. SetToSeq(S) \in [D -> S] /\ IsInjective(SetToSeq(S))
    BY <1>3 DEF SetToSeq
  <1>5. SetToSeq(S) \in Injection(D, S)
    BY <1>4 DEF Injection
  <1>6. Cardinality(D) = n
    BY <1>2, FS_Interval
  <1>7. SetToSeq(S) \in Surjection(D, S)
    BY <1>1, <1>5, <1>6, FS_Injection
  <1>8. Range(SetToSeq(S)) = S
    BY <1>4, <1>7 DEF Surjection, Range
  <1>9. SetToSeq(S) \in Seq(Conns)
    BY <1>2, <1>4
  <1> QED
    BY <1>8, <1>9

----------------------------------------------------------------------------
(* The queues.                                                             *)

LEMMA TailOK ==
    ASSUME NEW T, NEW q \in Seq(T), q # <<>>
    PROVE  /\ Tail(q) \in Seq(T) /\ DOMAIN Tail(q) = 1 .. Len(q) - 1 /\ DOMAIN q = 1 .. Len(q)
           /\ Len(q) \in Nat /\ 1 \in DOMAIN q /\ Head(q) = q[1] /\ Head(q) \in T
           /\ \A k \in DOMAIN Tail(q) : k + 1 \in DOMAIN q /\ k \in Nat /\ Tail(q)[k] = q[k + 1]
           /\ \A k \in DOMAIN q : k # 1 => k - 1 \in DOMAIN Tail(q) /\ Tail(q)[k - 1] = q[k]
  <1>1. Len(q) \in Nat /\ Len(q) > 0 /\ DOMAIN q = 1 .. Len(q)
    OBVIOUS
  <1>2. Tail(q) \in Seq(T) /\ Len(Tail(q)) = Len(q) - 1 /\ Head(q) = q[1]
    OBVIOUS
  <1>3. DOMAIN Tail(q) = 1 .. Len(q) - 1
    BY <1>2
  <1>4. \A k \in 1 .. Len(q) - 1 : Tail(q)[k] = q[k + 1]
    OBVIOUS
  <1>5. \A k \in 1 .. Len(q) : k # 1 => k - 1 \in 1 .. Len(q) - 1 /\ (k - 1) + 1 = k
    BY <1>1
  <1> QED
    BY <1>1, <1>2, <1>3, <1>4, <1>5

LEMMA WaitingStays ==
    ASSUME Waiting, UNCHANGED backlog,
           \A k \in DOMAIN backlog : con'[backlog[k]].st = con[backlog[k]].st
    PROVE  Waiting'
  BY DEF Waiting

LEMMA WaitingTail ==
    ASSUME TypeOK, Waiting, backlog # <<>>, backlog' = Tail(backlog),
           \A c \in Conns : c # Head(backlog) => con'[c] = con[c]
    PROVE  Waiting'
  <1>1. /\ backlog' \in Seq(Conns) /\ Head(backlog) = backlog[1] /\ 1 \in DOMAIN backlog
        /\ \A k \in DOMAIN backlog' : k + 1 \in DOMAIN backlog /\ k \in Nat /\ backlog'[k] = backlog[k + 1]
        /\ \A k \in DOMAIN backlog' : k >= 1
    BY TailOK DEF TypeOK
  <1>2. \A j, k \in DOMAIN backlog' : backlog'[j] = backlog'[k] => j = k
    <2> TAKE j, k \in DOMAIN backlog'
    <2>1. backlog[j + 1] = backlog[k + 1] => j + 1 = k + 1
      BY <1>1 DEF Waiting
    <2> QED
      BY <1>1, <2>1
  <1>3. \A k \in DOMAIN backlog' : con'[backlog'[k]].st = "backlog"
    <2> TAKE k \in DOMAIN backlog'
    <2>1. k + 1 # 1 /\ k + 1 \in DOMAIN backlog
      BY <1>1
    <2>2. backlog[k + 1] # Head(backlog) /\ backlog[k + 1] \in Conns
      BY <1>1, <2>1 DEF Waiting, TypeOK
    <2> QED
      BY <1>1, <2>1, <2>2 DEF Waiting
  <1> QED
    BY <1>2, <1>3 DEF Waiting

\* Every addcon that is queued now was queued before, at a place of its own.
LEMMA PostedStays ==
    ASSUME Posted, NEW at \in [Bases -> [Nat -> Nat]],
           \A b \in Bases, k \in Nat :
               AddconAt(b, k)' => /\ AddconAt(b, at[b][k]) /\ tasks'[b][k] = tasks[b][at[b][k]]
                                  /\ con'[tasks'[b][k].con].st = "posted",
           \A b \in Bases, j, k \in Nat : at[b][j] = at[b][k] => j = k
    PROVE  Posted'
  <1>1. \A b \in Bases, k \in Nat : AddconAt(b, k)' => con'[tasks'[b][k].con].st = "posted"
    OBVIOUS
  <1>2. ASSUME NEW a \in Bases, NEW b \in Bases, NEW j \in Nat, NEW k \in Nat,
               AddconAt(a, j)', AddconAt(b, k)', tasks'[a][j].con = tasks'[b][k].con
        PROVE  a = b /\ j = k
    <2>1. /\ AddconAt(a, at[a][j]) /\ AddconAt(b, at[b][k])
          /\ tasks[a][at[a][j]].con = tasks[b][at[b][k]].con
      BY <1>2
    <2>2. a = b /\ at[a][j] = at[b][k]
      BY <2>1 DEF Posted
    <2> QED
      BY <2>2
  <1> QED
    BY <1>1, <1>2 DEF Posted

LEMMA PostedTasks ==
    ASSUME TypeOK, Posted, NEW b \in Bases, NEW k \in Nat, AddconAt(b, k)
    PROVE  tasks[b][k].con \in Conns /\ con[tasks[b][k].con].st = "posted"
  <1>1. tasks[b] \in Seq(Tasks) /\ k \in DOMAIN tasks[b]
    BY DEF TypeOK, AddconAt
  <1>2. tasks[b][k] \in Tasks
    BY <1>1
  <1> QED
    BY <1>2 DEF Tasks, Posted

\* No task is added or taken.
LEMMA PostedSame ==
    ASSUME Posted, UNCHANGED tasks,
           \A b \in Bases, k \in Nat : AddconAt(b, k) => con'[tasks[b][k].con].st = "posted"
    PROVE  Posted'
  BY DEF Posted, AddconAt

LEMMA PostedTail ==
    ASSUME TypeOK, Posted, NEW b \in Bases, tasks[b] # <<>>,
           tasks' = [tasks EXCEPT ![b] = Tail(@)],
           \A c \in Conns : con[c].st = "posted" /\ Task("addcon", c) # Head(tasks[b])
                            => con'[c].st = "posted"
    PROVE  Posted'
  <1> DEFINE at == [a \in Bases |-> [k \in Nat |-> IF a = b THEN k + 1 ELSE k]]
  <1>0. tasks \in [Bases -> Seq(Tasks)] /\ tasks[b] \in Seq(Tasks)
    BY DEF TypeOK
  <1>1. /\ \A a \in Bases : a # b => tasks'[a] = tasks[a]
        /\ tasks'[b] = Tail(tasks[b])
    BY <1>0
  <1>2. /\ Head(tasks[b]) = tasks[b][1] /\ 1 \in DOMAIN tasks[b]
        /\ \A k \in DOMAIN tasks'[b] : k + 1 \in DOMAIN tasks[b] /\ k \in 1 .. Len(tasks[b]) - 1
                                        /\ tasks'[b][k] = tasks[b][k + 1]
        /\ Len(tasks[b]) \in Nat
    BY <1>0, <1>1, TailOK
  <1>3. at \in [Bases -> [Nat -> Nat]] /\ \A a \in Bases, j, k \in Nat : at[a][j] = at[a][k] => j = k
    OBVIOUS
  <1>4. ASSUME NEW a \in Bases, NEW k \in Nat, AddconAt(a, k)'
        PROVE  /\ AddconAt(a, at[a][k]) /\ tasks'[a][k] = tasks[a][at[a][k]]
               /\ con'[tasks'[a][k].con].st = "posted"
    <2>1. at[a][k] \in DOMAIN tasks[a] /\ tasks'[a][k] = tasks[a][at[a][k]] /\ (a = b => at[a][k] # 1)
      <3>1. CASE a = b
        <4>1. at[a][k] = k + 1 /\ k \in DOMAIN tasks'[b]
          BY <1>4, <3>1 DEF AddconAt
        <4>2. k + 1 # 1
          BY <1>2, <4>1
        <4> QED
          BY <1>2, <3>1, <4>1, <4>2
      <3>2. CASE a # b
        <4>1. at[a][k] = k
          BY <3>2
        <4> QED
          BY <1>1, <1>4, <3>2, <4>1 DEF AddconAt
      <3> QED
        BY <3>1, <3>2
    <2> DEFINE m == at[a][k]  c == tasks[a][m].con
    <2>2. m \in Nat
      OBVIOUS
    <2> HIDE DEF at, m
    <2>3. AddconAt(a, m)
      BY <1>4, <2>1 DEF AddconAt, m
    <2>4. c \in Conns /\ con[c].st = "posted"
      <3>1. tasks[a][m] \in Tasks
        BY <1>0, <2>1 DEF m
      <3> QED
        BY <2>2, <2>3, <3>1 DEF Posted, Tasks
    <2>5. Task("addcon", c) # Head(tasks[b])
      <3> SUFFICES ASSUME Task("addcon", c) = tasks[b][1] PROVE FALSE
        BY <1>2
      <3>1. tasks[b][1].con = c /\ AddconAt(b, 1)
        BY <1>2 DEF Task, AddconAt
      <3>2. a = b /\ m = 1
        BY <2>2, <2>3, <3>1 DEF Posted
      <3> QED
        BY <2>1, <3>2 DEF m
    <2>6. con'[c].st = "posted"
      BY <2>4, <2>5
    <2> QED
      BY <2>1, <2>3, <2>6 DEF m
  <1> HIDE DEF at
  <1> QED
    BY <1>3, <1>4, PostedStays

\* Tasks that are no addcon are added.
LEMMA PostedMore ==
    ASSUME TypeOK, Posted, NEW b \in Bases, NEW q \in Seq(Tasks),
           \A k \in DOMAIN q : q[k].what = "close",
           tasks' = [tasks EXCEPT ![b] = @ \o q],
           \A c \in Conns : con[c].st = "posted" => con'[c].st = "posted"
    PROVE  Posted'
  <1>0. tasks \in [Bases -> Seq(Tasks)] /\ tasks[b] \in Seq(Tasks)
    BY DEF TypeOK
  <1>1. /\ \A a \in Bases : a # b => tasks'[a] = tasks[a]
        /\ tasks'[b] = tasks[b] \o q
    BY <1>0
  <1>3. ASSUME NEW a \in Bases, NEW k \in Nat, AddconAt(a, k)'
        PROVE  AddconAt(a, k) /\ tasks'[a][k] = tasks[a][k] /\ con'[tasks'[a][k].con].st = "posted"
    <2>1. k \in DOMAIN tasks[a] /\ tasks'[a][k] = tasks[a][k]
      <3>1. CASE a = b
        <4> DEFINE p == tasks[b]
        <4>1. p \in Seq(Tasks) /\ q \in Seq(Tasks) /\ k \in DOMAIN (p \o q) /\ (p \o q)[k].what = "addcon"
          BY <1>0, <1>1, <1>3, <3>1 DEF AddconAt
        <4> HIDE DEF p
        <4>2. Len(p) \in Nat /\ Len(q) \in Nat /\ k \in 1 .. Len(p) + Len(q)
          BY <4>1
        <4>3. CASE k <= Len(p)
          BY <1>1, <3>1, <4>1, <4>2, <4>3 DEF p
        <4>4. CASE k > Len(p)
          <5>1. (p \o q)[k] = q[k - Len(p)] /\ k - Len(p) \in DOMAIN q
            BY <4>1, <4>2, <4>4
          <5> QED
            BY <4>1, <5>1
        <4> QED
          BY <4>2, <4>3, <4>4
      <3>2. CASE a # b
        BY <1>1, <1>3, <3>2 DEF AddconAt
      <3> QED
        BY <3>1, <3>2
    <2>2. AddconAt(a, k) /\ tasks[a][k] \in Tasks
      BY <1>0, <1>3, <2>1 DEF AddconAt
    <2>3. con[tasks[a][k].con].st = "posted" /\ tasks[a][k].con \in Conns
      BY <2>2 DEF Posted, Tasks
    <2> QED
      BY <2>1, <2>2, <2>3
  <1>4. \A a \in Bases, k \in Nat : AddconAt(a, k)' => con'[tasks'[a][k].con].st = "posted"
    BY <1>3
  <1>5. ASSUME NEW a \in Bases, NEW d \in Bases, NEW j \in Nat, NEW k \in Nat,
               AddconAt(a, j)', AddconAt(d, k)', tasks'[a][j].con = tasks'[d][k].con
        PROVE  a = d /\ j = k
    <2>1. AddconAt(a, j) /\ AddconAt(d, k) /\ tasks[a][j].con = tasks[d][k].con
      BY <1>3, <1>5
    <2> QED
      BY <2>1 DEF Posted
  <1> QED
    BY <1>4, <1>5 DEF Posted

LEMMA ClosingSame ==
    ASSUME Closing, UNCHANGED tasks,
           \A c \in Conns : con'[c].st = "closing" => con[c].st = "closing" /\ con'[c].base = con[c].base
    PROVE  Closing'
  BY DEF Closing, Task

\* A task is taken that is not the close of a connection that stays.
LEMMA ClosingTail ==
    ASSUME TypeOK, Closing, NEW b \in Bases, tasks[b] # <<>>,
           tasks' = [tasks EXCEPT ![b] = Tail(@)],
           \A c \in Conns : con'[c].st = "closing" =>
               /\ con[c].st = "closing" /\ con'[c].base = con[c].base
               /\ Head(tasks[b]) # Task("close", c)
    PROVE  Closing'
  <1>0. tasks \in [Bases -> Seq(Tasks)] /\ tasks[b] \in Seq(Tasks)
    BY DEF TypeOK
  <1>1. /\ \A a \in Bases : a # b => tasks'[a] = tasks[a]
        /\ tasks'[b] = Tail(tasks[b])
    BY <1>0
  <1> SUFFICES ASSUME NEW c \in Conns, con'[c].st = "closing"
               PROVE  \E k \in DOMAIN tasks'[con'[c].base] : tasks'[con'[c].base][k] = Task("close", c)
    BY DEF Closing, Task
  <1>2. PICK a \in Bases : a = con[c].base /\ a = con'[c].base
    BY ConTypes
  <1>3. PICK k \in DOMAIN tasks[a] : tasks[a][k] = Task("close", c)
    BY <1>2 DEF Closing
  <1>4. CASE a # b
    BY <1>1, <1>2, <1>3, <1>4
  <1>5. CASE a = b
    <2>1. k # 1
      BY <1>0, <1>3, <1>5, TailOK
    <2>2. k - 1 \in DOMAIN Tail(tasks[b]) /\ Tail(tasks[b])[k - 1] = Task("close", c)
      BY <1>0, <1>3, <1>5, <2>1, TailOK
    <2>3. tasks'[con'[c].base] = Tail(tasks[b])
      BY <1>1, <1>2, <1>5
    <2> QED
      BY <2>2, <2>3
  <1> QED
    BY <1>4, <1>5

LEMMA ClosingMore ==
    ASSUME TypeOK, Closing, NEW b \in Bases, NEW q \in Seq(Tasks),
           tasks' = [tasks EXCEPT ![b] = @ \o q],
           \A c \in Conns : con'[c].st = "closing" =>
               /\ con'[c].base = con[c].base
               /\ \/ con[c].st = "closing"
                  \/ con[c].base = b /\ \E k \in DOMAIN q : q[k] = Task("close", c)
    PROVE  Closing'
  <1>0. tasks \in [Bases -> Seq(Tasks)] /\ tasks[b] \in Seq(Tasks)
    BY DEF TypeOK
  <1>1. /\ \A a \in Bases : a # b => tasks'[a] = tasks[a]
        /\ tasks'[b] = tasks[b] \o q
    BY <1>0
  <1> SUFFICES ASSUME NEW c \in Conns, con'[c].st = "closing"
               PROVE  \E k \in DOMAIN tasks'[con'[c].base] : tasks'[con'[c].base][k] = Task("close", c)
    BY DEF Closing, Task
  <1>2. PICK a \in Bases : a = con[c].base /\ a = con'[c].base
    BY ConTypes
  <1> DEFINE p == tasks[b]
  <1>3. p \in Seq(Tasks) /\ q \in Seq(Tasks)
    BY <1>0
  <1> HIDE DEF p
  <1>4. /\ \A k \in DOMAIN p : k \in DOMAIN (p \o q) /\ (p \o q)[k] = p[k]
        /\ \A k \in DOMAIN q : Len(p) + k \in DOMAIN (p \o q) /\ (p \o q)[Len(p) + k] = q[k]
    BY <1>3
  <1>5. CASE con[c].st = "closing"
    <2>1. PICK k \in DOMAIN tasks[a] : tasks[a][k] = Task("close", c)
      BY <1>2, <1>5 DEF Closing
    <2>2. CASE a = b
      BY <1>1, <1>2, <1>4, <2>1, <2>2 DEF p
    <2>3. CASE a # b
      BY <1>1, <1>2, <2>1, <2>3
    <2> QED
      BY <2>2, <2>3
  <1>6. CASE con[c].base = b /\ \E k \in DOMAIN q : q[k] = Task("close", c)
    <2>1. PICK k \in DOMAIN q : q[k] = Task("close", c)
      BY <1>6
    <2>2. tasks'[con'[c].base] = p \o q
      BY <1>1, <1>2, <1>6 DEF p
    <2>3. Len(p) + k \in DOMAIN (p \o q) /\ (p \o q)[Len(p) + k] = Task("close", c)
      BY <1>4, <2>1
    <2> QED
      BY <2>2, <2>3
  <1> QED
    BY <1>5, <1>6

----------------------------------------------------------------------------
(* The steps.                                                              *)

\* A change of the state of one connection, which is not up before or after it.
LEMMA NotUp ==
    ASSUME TypeOK, Lists, Unheard, UNCHANGED lists, NEW c \in Conns,
           \A d \in Conns : d # c => con'[d] = con[d],
           ~ Registered(c), ~ Registered(c)', con'[c].silent = 0
    PROVE  Lists' /\ Unheard'
  <1>1. \A d \in Conns : Registered(d)' <=> Registered(d)
    BY DEF Registered
  <1>2. Lists'
    BY <1>1, ListsStay
  <1>3. Unheard'
    BY <1>1 DEF Unheard
  <1> QED
    BY <1>2, <1>3

LEMMA ArriveOK == ASSUME IInv, NEW c \in Conns, Arrive(c) PROVE IInv'
  <1>0. /\ con[c].st = "none" /\ con' = [con EXCEPT ![c].st = "backlog"]
        /\ backlog' = Append(backlog, c) /\ UNCHANGED <<next, lists, tasks, timed, due>>
    BY DEF Arrive
  <1>1. /\ \A d \in Conns : d # c => con'[d] = con[d]
        /\ con'[c].st = "backlog" /\ con'[c].silent = con[c].silent
    BY <1>0 DEF IInv, TypeOK
  <1>2. TypeOK'
    <2>1. con' \in [Conns -> [st : States, base : Bases, idle : Idles, silent : Times]]
      BY <1>0 DEF IInv, TypeOK, States
    <2>2. backlog' \in Seq(Conns)
      BY <1>0 DEF IInv, TypeOK
    <2> QED
      BY <1>0, <2>1, <2>2 DEF IInv, TypeOK
  <1>3. ~ Registered(c) /\ ~ Registered(c)' /\ con[c].silent = 0
    BY <1>0, <1>1 DEF Registered, IInv, Unheard
  <1>4. Lists' /\ Unheard'
    BY <1>0, <1>1, <1>3, NotUp DEF IInv
  <1>5. Waiting'
    <2>1. backlog \in Seq(Conns)
      BY DEF IInv, TypeOK
    <2>2. \A k \in DOMAIN backlog : backlog[k] # c /\ backlog[k] \in Conns
      BY <1>0, <2>1 DEF IInv, Waiting
    <2>3. /\ \A k \in DOMAIN backlog' : k \in DOMAIN backlog \/ k = Len(backlog) + 1
          /\ \A k \in DOMAIN backlog : backlog'[k] = backlog[k]
          /\ backlog'[Len(backlog) + 1] = c
      BY <1>0, <2>1
    <2>4. \A j, k \in DOMAIN backlog' : backlog'[j] = backlog'[k] => j = k
      BY <2>2, <2>3 DEF IInv, Waiting
    <2>5. \A k \in DOMAIN backlog' : con'[backlog'[k]].st = "backlog"
      BY <1>1, <2>2, <2>3 DEF IInv, Waiting
    <2> QED
      BY <2>4, <2>5 DEF Waiting
  <1>6. Posted'
    BY <1>0, <1>1, PostedTasks, PostedSame DEF IInv
  <1>7. Closing'
    BY <1>0, <1>1, ClosingSame DEF IInv
  <1> QED
    BY <1>2, <1>4, <1>5, <1>6, <1>7 DEF IInv

LEMMA TasksAppend ==
    ASSUME TypeOK, Posted, NEW b \in Bases, NEW c \in Conns, con[c].st # "posted",
           tasks' = [tasks EXCEPT ![b] = Append(@, Task("addcon", c))],
           con'[c].st = "posted", \A d \in Conns : d # c => con'[d] = con[d]
    PROVE  /\ Posted' /\ tasks' \in [Bases -> Seq(Tasks)]
           /\ \A a \in Bases : \A k \in DOMAIN tasks[a] : k \in DOMAIN tasks'[a] /\ tasks'[a][k] = tasks[a][k]
  <1> DEFINE t == Task("addcon", c)  p == tasks[b]  z == Len(p) + 1
  <1>0. tasks \in [Bases -> Seq(Tasks)] /\ p \in Seq(Tasks) /\ t \in Tasks
        /\ t.what = "addcon" /\ t.con = c
    BY DEF TypeOK, Task, Tasks
  <1> HIDE DEF t
  <1>1. tasks' = [tasks EXCEPT ![b] = Append(p, t)]
    BY <1>0 DEF t
  <1>2. tasks' \in [Bases -> Seq(Tasks)]
    BY <1>0, <1>1
  <1>3. /\ \A a \in Bases : a # b => tasks'[a] = tasks[a]
        /\ tasks'[b] = Append(p, t)
    BY <1>0, <1>1
  <1>4. /\ \A k \in DOMAIN Append(p, t) : k \in DOMAIN p \/ k = z
        /\ \A k \in DOMAIN p : k \in DOMAIN Append(p, t) /\ Append(p, t)[k] = p[k]
        /\ Append(p, t)[z] = t
    BY <1>0
  <1>5. \A a \in Bases : \A k \in DOMAIN tasks[a] : k \in DOMAIN tasks'[a] /\ tasks'[a][k] = tasks[a][k]
    BY <1>3, <1>4
  <1>6. ASSUME NEW a \in Bases, NEW k \in Nat, AddconAt(a, k)'
        PROVE  \/ AddconAt(a, k) /\ tasks'[a][k] = tasks[a][k] /\ tasks[a][k].con # c
                  /\ con'[tasks[a][k].con].st = "posted"
               \/ a = b /\ k = z /\ tasks'[a][k] = t
    <2>1. CASE k \in DOMAIN tasks[a]
      <3>1. AddconAt(a, k) /\ tasks'[a][k] = tasks[a][k]
        BY <1>5, <1>6, <2>1 DEF AddconAt
      <3>2. tasks[a][k].con \in Conns /\ con[tasks[a][k].con].st = "posted"
        BY <3>1, PostedTasks
      <3> QED
        BY <3>1, <3>2
    <2>2. CASE k \notin DOMAIN tasks[a]
      <3>1. a = b
        BY <1>3, <1>6, <2>2 DEF AddconAt
      <3> QED
        BY <1>3, <1>4, <1>6, <2>2, <3>1 DEF AddconAt
    <2> QED
      BY <2>1, <2>2
  <1>7. \A a \in Bases, k \in Nat : AddconAt(a, k)' => con'[tasks'[a][k].con].st = "posted"
    BY <1>0, <1>6
  <1>8. ASSUME NEW a \in Bases, NEW d \in Bases, NEW j \in Nat, NEW k \in Nat,
               AddconAt(a, j)', AddconAt(d, k)', tasks'[a][j].con = tasks'[d][k].con
        PROVE  a = d /\ j = k
    <2>1. CASE tasks'[a][j].con = c
      BY <1>0, <1>6, <1>8, <2>1, ZenonT(40)
    <2>2. CASE tasks'[a][j].con # c
      <3>1. AddconAt(a, j) /\ AddconAt(d, k) /\ tasks[a][j].con = tasks[d][k].con
        BY <1>0, <1>6, <1>8, <2>2
      <3> QED
        BY <3>1 DEF Posted
    <2> QED
      BY <2>1, <2>2
  <1>9. Posted'
    <2>1. \A a, d \in Bases, j, k \in Nat :
             AddconAt(a, j)' /\ AddconAt(d, k)' /\ tasks'[a][j].con = tasks'[d][k].con => a = d /\ j = k
      BY <1>8
    <2> QED
      BY <1>7, <2>1 DEF Posted
  <1> QED
    BY <1>2, <1>5, <1>9

LEMMA AcceptOK == ASSUME IInv, Accept \/ AcceptFails PROVE IInv'
  <1> DEFINE c == Head(backlog)
  <1>0. /\ backlog # <<>> /\ backlog' = Tail(backlog) /\ UNCHANGED <<lists, timed, due>>
        /\ backlog \in Seq(Conns)
    BY DEF Accept, AcceptFails, IInv, TypeOK
  <1>1. c \in Conns /\ backlog' \in Seq(Conns) /\ con[c].st = "backlog"
    BY <1>0, TailOK DEF IInv, Waiting
  <1>2. PICK d \in Conns : d = c
    BY <1>1
  <1>3. /\ \A e \in Conns : e # d => con'[e] = con[e]
        /\ con'[d].st \in {"attached", "posted", "leaked"} /\ con'[d].silent = con[d].silent
        /\ con' \in [Conns -> [st : States, base : Bases, idle : Idles, silent : Times]]
        /\ next' \in Bases
    <2>1. 0 \in Bases /\ next \in Bases /\ (next + 1) % N \in Bases
      BY Bounds, ServerAssumption DEF Bases, IInv, TypeOK
    <2>2. next' \in Bases
      BY <2>1 DEF Accept, AcceptFails
    <2>3. \/ con' = [con EXCEPT ![d].base = 0, ![d].st = "attached"]
          \/ con' = [con EXCEPT ![d].base = next, ![d].st = "posted"]
          \/ con' = [con EXCEPT ![d].st = "leaked"]
      BY <1>2 DEF Accept, AcceptFails
    <2>4. con \in [Conns -> [st : States, base : Bases, idle : Idles, silent : Times]]
      BY DEF IInv, TypeOK
    <2> QED
      BY <2>1, <2>2, <2>3, <2>4 DEF States
  <1>4. ~ Registered(d) /\ ~ Registered(d)' /\ con[d].silent = 0
    BY <1>1, <1>2, <1>3 DEF Registered, IInv, Unheard
  <1>5. Lists' /\ Unheard'
    BY <1>0, <1>3, <1>4, NotUp DEF IInv
  <1>6. Waiting'
    BY <1>0, <1>2, <1>3, WaitingTail DEF IInv
  <1>7. Posted' /\ Closing' /\ tasks' \in [Bases -> Seq(Tasks)]
    <2>1. CASE UNCHANGED tasks
      <3>1. Posted'
        BY <1>1, <1>2, <1>3, <2>1, PostedTasks, PostedSame DEF IInv
      <3>2. Closing'
        BY <1>3, <2>1, ClosingSame DEF IInv
      <3> QED
        BY <2>1, <3>1, <3>2 DEF IInv, TypeOK
    <2>2. CASE ~ UNCHANGED tasks
      <3>1. PICK b \in Bases : b = next
        BY DEF IInv, TypeOK
      <3>2. /\ tasks' = [tasks EXCEPT ![b] = Append(@, Task("addcon", d))]
            /\ con' = [con EXCEPT ![d].base = next, ![d].st = "posted"]
        BY <1>2, <2>2, <3>1 DEF Accept, AcceptFails
      <3>3. con'[d].st = "posted" /\ con[d].st # "posted"
        BY <1>1, <1>2, <3>2 DEF IInv, TypeOK
      <3>4. /\ Posted' /\ tasks' \in [Bases -> Seq(Tasks)]
            /\ \A a \in Bases : \A k \in DOMAIN tasks[a] : k \in DOMAIN tasks'[a] /\ tasks'[a][k] = tasks[a][k]
        BY <1>3, <3>2, <3>3, TasksAppend DEF IInv
      <3>5. ASSUME NEW e \in Conns, con'[e].st = "closing"
            PROVE  \E k \in DOMAIN tasks'[con'[e].base] : tasks'[con'[e].base][k] = Task("close", e)
        <4>1. con'[e] = con[e] /\ con[e].base \in Bases
          BY <1>3, <3>3, <3>5, ConTypes DEF IInv
        <4>2. PICK k \in DOMAIN tasks[con[e].base] : tasks[con[e].base][k] = Task("close", e)
          BY <3>5, <4>1 DEF IInv, Closing
        <4> QED
          BY <3>4, <4>1, <4>2
      <3>6. Closing'
        BY <3>5 DEF Closing, Task
      <3> QED
        BY <3>4, <3>6
    <2> QED
      BY <2>1, <2>2
  <1>8. TypeOK'
    BY <1>0, <1>1, <1>3, <1>7 DEF IInv, TypeOK
  <1> QED
    BY <1>5, <1>6, <1>7, <1>8 DEF IInv

\* The state of one connection that is attached or up changes, and no queue.
LEMMA QueuesKept ==
    ASSUME IInv, NEW c \in Conns, UNCHANGED <<backlog, tasks>>,
           con[c].st \in {"attached", "open", "closing"},
           \A d \in Conns : d # c => con'[d] = con[d],
           con'[c].st = "closing" => con[c].st = "closing" /\ con'[c].base = con[c].base
    PROVE  Waiting' /\ Posted' /\ Closing'
  <1>1. Waiting'
    <2>1. \A k \in DOMAIN backlog : backlog[k] \in Conns /\ con[backlog[k]].st = "backlog"
      BY DEF IInv, Waiting, TypeOK
    <2> QED
      BY <2>1, WaitingStays DEF IInv
  <1>2. Posted'
    BY PostedTasks, PostedSame DEF IInv
  <1>3. Closing'
    BY ClosingSame DEF IInv
  <1> QED
    BY <1>1, <1>2, <1>3

LEMMA ConnectedOK == ASSUME IInv, NEW c \in Conns, Connected(c) PROVE IInv'
  <1>1. PICK i \in Idles : con' = [con EXCEPT ![c].st = "open", ![c].idle = i]
    BY DEF Connected
  <1>2. con[c].st = "attached" /\ UNCHANGED <<backlog, next, tasks, due>>
    BY DEF Connected
  <1>3. /\ \A d \in Conns : d # c => con'[d] = con[d]
        /\ con'[c].st = "open"
        /\ con' \in [Conns -> [st : States, base : Bases, idle : Idles, silent : Times]]
    BY <1>1, ZenonT(40) DEF IInv, TypeOK, States
  <1>4. con[c].silent = 0
    BY <1>2 DEF IInv, Unheard, Registered
  <1>5. Lists' /\ lists' \in [Bases -> [Idles -> Seq(Nodes)]]
    BY <1>4, ConnectedLists DEF IInv
  <1>6. Unheard'
    BY <1>3 DEF IInv, Unheard, Registered
  <1>7. Waiting' /\ Posted' /\ Closing'
    BY <1>2, <1>3, QueuesKept
  <1>8. timed' \subseteq Bases
    BY ConTypes DEF Connected, registerIdle, IInv, TypeOK
  <1>9. TypeOK'
    BY <1>2, <1>3, <1>5, <1>8 DEF IInv, TypeOK
  <1> QED
    BY <1>5, <1>6, <1>7, <1>9 DEF IInv

LEMMA BlankOK ==
    ASSUME IInv, NEW c \in Conns, con' = [con EXCEPT ![c] = Blank("gone")]
    PROVE  /\ \A d \in Conns : d # c => con'[d] = con[d]
           /\ con'[c].st = "gone" /\ con'[c].silent = 0
           /\ con' \in [Conns -> [st : States, base : Bases, idle : Idles, silent : Times]]
  <1>1. Blank("gone") \in [st : States, base : Bases, idle : Idles, silent : Times]
    BY Bounds DEF Blank, States
  <1> QED
    BY <1>1 DEF IInv, TypeOK, Blank

LEMMA FailedOK == ASSUME IInv, NEW c \in Conns, Failed(c) PROVE IInv'
  <1>1. /\ con[c].st = "attached" /\ UNCHANGED <<backlog, next, lists, tasks, timed, due>>
        /\ con' = [con EXCEPT ![c] = Blank("gone")]
    BY DEF Failed
  <1>2. Lists' /\ Unheard'
    BY <1>1, BlankOK, NotUp DEF IInv, Registered
  <1>3. Waiting' /\ Posted' /\ Closing'
    BY <1>1, BlankOK, QueuesKept
  <1>4. TypeOK'
    BY <1>1, BlankOK DEF IInv, TypeOK
  <1> QED
    BY <1>2, <1>3, <1>4 DEF IInv

LEMMA ReadOK == ASSUME IInv, NEW c \in Conns, Read(c) PROVE IInv'
  <1>1. Registered(c) /\ con' = [con EXCEPT ![c].silent = 0] /\ UNCHANGED <<backlog, next, tasks, timed, due>>
    BY DEF Read
  <1>2. /\ \A d \in Conns : d # c => con'[d] = con[d]
        /\ con'[c].st = con[c].st /\ con'[c].base = con[c].base /\ con'[c].silent = 0
        /\ con' \in [Conns -> [st : States, base : Bases, idle : Idles, silent : Times]]
    BY <1>1, Bounds DEF IInv, TypeOK
  <1>3. Lists' /\ lists' \in [Bases -> [Idles -> Seq(Nodes)]]
    BY ReadLists DEF IInv
  <1>4. Unheard'
    BY <1>2 DEF IInv, Unheard, Registered
  <1>5. Waiting' /\ Posted' /\ Closing'
    BY <1>1, <1>2, QueuesKept DEF Registered
  <1>6. TypeOK'
    BY <1>1, <1>2, <1>3 DEF IInv, TypeOK
  <1> QED
    BY <1>3, <1>4, <1>5, <1>6 DEF IInv

LEMMA PeerClosesOK == ASSUME IInv, NEW c \in Conns, PeerCloses(c) PROVE IInv'
  <1>1. Registered(c) /\ Cleanup(c) /\ UNCHANGED <<backlog, next, tasks, timed, due>>
        /\ con' = [con EXCEPT ![c] = Blank("gone")]
    BY DEF PeerCloses, Cleanup
  <1>2. Lists' /\ lists' \in [Bases -> [Idles -> Seq(Nodes)]]
    BY <1>1, CleanupLists DEF IInv
  <1>3. Unheard'
    BY <1>1, BlankOK DEF IInv, Unheard, Registered
  <1>4. Waiting' /\ Posted' /\ Closing'
    BY <1>1, BlankOK, QueuesKept DEF Registered
  <1>5. TypeOK'
    BY <1>1, <1>2, BlankOK DEF IInv, TypeOK
  <1> QED
    BY <1>2, <1>3, <1>4, <1>5 DEF IInv

LEMMA RunTaskOK == ASSUME IInv, NEW b \in Bases, RunTask(b) PROVE IInv'
  <1> DEFINE t == Head(tasks[b])
  <1>0. /\ tasks[b] # <<>> /\ tasks' = [tasks EXCEPT ![b] = Tail(@)]
        /\ UNCHANGED <<backlog, next, timed, due>>
        /\ tasks \in [Bases -> Seq(Tasks)] /\ tasks[b] \in Seq(Tasks)
    BY DEF RunTask, IInv, TypeOK
  <1>1. t \in Tasks /\ t = tasks[b][1] /\ 1 \in DOMAIN tasks[b]
    BY <1>0, TailOK
  <1>2. tasks' \in [Bases -> Seq(Tasks)]
    BY <1>0, TailOK
  <1>3. PICK c \in Conns : c = t.con
    BY <1>1 DEF Tasks
  <1>4. /\ t = [what |-> t.what, con |-> c] /\ t.what \in {"addcon", "close"}
        /\ \A d \in Conns : /\ t = Task("close", d) <=> t.what = "close" /\ d = c
                            /\ t = Task("addcon", d) <=> t.what = "addcon" /\ d = c
    BY <1>1, <1>3 DEF Tasks, Task
  <1>5. t.what = "addcon" => con[c].st = "posted"
    BY <1>1, <1>3, PostedTasks DEF AddconAt, IInv
  <1>6. \/ /\ t.what = "addcon" /\ con' = [con EXCEPT ![c].st = "attached"] /\ UNCHANGED lists
        \/ t.what = "close" /\ Registered(c) /\ Cleanup(c)
        \/ t.what = "close" /\ ~ Registered(c) /\ UNCHANGED <<con, lists>>
    BY <1>3 DEF RunTask
  <1> HIDE DEF t
  <1>7. /\ Lists' /\ Unheard' /\ lists' \in [Bases -> [Idles -> Seq(Nodes)]]
        /\ con' \in [Conns -> [st : States, base : Bases, idle : Idles, silent : Times]]
        /\ \A d \in Conns : d # c => con'[d] = con[d]
        /\ \/ con'[c] = con[c] /\ t.what = "close" /\ ~ Registered(c)
           \/ con'[c].st = "attached" /\ t.what = "addcon"
           \/ con'[c].st = "gone" /\ Registered(c) /\ t.what = "close"
    <2>0. /\ lists \in [Bases -> [Idles -> Seq(Nodes)]]
          /\ con \in [Conns -> [st : States, base : Bases, idle : Idles, silent : Times]]
      BY DEF IInv, TypeOK
    <2>1. CASE t.what = "addcon" /\ con' = [con EXCEPT ![c].st = "attached"] /\ UNCHANGED lists
      <3>1. /\ con' \in [Conns -> [st : States, base : Bases, idle : Idles, silent : Times]]
            /\ \A d \in Conns : d # c => con'[d] = con[d]
            /\ con'[c].st = "attached" /\ con'[c].silent = con[c].silent
        BY <2>0, <2>1 DEF States
      <3>2. ~ Registered(c) /\ ~ Registered(c)' /\ con[c].silent = 0
        BY <1>5, <2>1, <3>1 DEF Registered, IInv, Unheard
      <3>3. Lists' /\ Unheard'
        BY <2>1, <3>1, <3>2, NotUp DEF IInv
      <3> QED
        BY <2>0, <2>1, <3>1, <3>3
    <2>2. CASE t.what = "close" /\ Registered(c) /\ Cleanup(c)
      <3>1. con' = [con EXCEPT ![c] = Blank("gone")]
        BY <2>2 DEF Cleanup
      <3>2. Lists' /\ lists' \in [Bases -> [Idles -> Seq(Nodes)]]
        BY <2>2, CleanupLists DEF IInv
      <3>3. Unheard'
        BY <3>1, BlankOK DEF IInv, Unheard, Registered
      <3> QED
        BY <2>2, <3>1, <3>2, <3>3, BlankOK
    <2>3. CASE t.what = "close" /\ ~ Registered(c) /\ UNCHANGED <<con, lists>>
      <3>1. Lists' /\ Unheard'
        BY <2>3, ListsStay DEF IInv, Unheard, Registered
      <3> QED
        BY <2>0, <2>3, <3>1
    <2> QED
      BY <1>6, <2>1, <2>2, <2>3
  <1>8. TypeOK'
    BY <1>0, <1>2, <1>7 DEF IInv, TypeOK
  <1>9. Waiting'
    <2>1. \A k \in DOMAIN backlog : backlog[k] \in Conns /\ con[backlog[k]].st = "backlog"
      BY DEF IInv, Waiting, TypeOK
    <2>2. con[c].st = "backlog" => con'[c] = con[c]
      BY <1>5, <1>7 DEF Registered
    <2> QED
      BY <1>0, <1>7, <2>1, <2>2, WaitingStays DEF IInv
  <1>10. Posted'
    <2>1. \A d \in Conns : con[d].st = "posted" /\ Task("addcon", d) # t => con'[d].st = "posted"
      BY <1>4, <1>7 DEF Registered
    <2> QED
      BY <1>0, <2>1, PostedTail DEF IInv, t
  <1>11. Closing'
    <2>1. \A d \in Conns : con'[d].st = "closing" =>
             /\ con[d].st = "closing" /\ con'[d].base = con[d].base /\ t # Task("close", d)
      <3> SUFFICES ASSUME NEW d \in Conns, con'[d].st = "closing"
                   PROVE  con[d].st = "closing" /\ con'[d].base = con[d].base /\ t # Task("close", d)
        OBVIOUS
      <3>1. CASE d = c
        BY <1>7, <3>1 DEF Registered
      <3>2. CASE d # c
        BY <1>4, <1>7, <3>2
      <3> QED
        BY <3>1, <3>2
    <2> QED
      BY <1>0, <2>1, ClosingTail DEF IInv, t
  <1> QED
    BY <1>7, <1>8, <1>9, <1>10, <1>11 DEF IInv

LEMMA SecondOK == IInv /\ Second => IInv'
  <1> SUFFICES ASSUME IInv, Second PROVE IInv'
    OBVIOUS
  <1>0. due' = timed /\ UNCHANGED <<backlog, next, tasks, timed>>
    BY DEF Second
  <1>1. \A c \in Conns : con'[c] = IF Registered(c) THEN [con[c] EXCEPT !.silent = Later(@)] ELSE con[c]
    BY DEF Second
  <1>2. \A c \in Conns : /\ con'[c].st = con[c].st /\ con'[c].base = con[c].base
                         /\ con'[c] \in [st : States, base : Bases, idle : Idles, silent : Times]
                         /\ ~ Registered(c) => con'[c] = con[c]
    <2> TAKE c \in Conns
    <2>1. con[c] \in [st : States, base : Bases, idle : Idles, silent : Times]
      BY DEF IInv, TypeOK
    <2>2. Later(con[c].silent) \in Times
      BY <2>1, LaterOK
    <2> QED
      BY <1>1, <2>1, <2>2
  <1>3. con' \in [Conns -> [st : States, base : Bases, idle : Idles, silent : Times]]
    <2>1. con' = [c \in Conns |-> con'[c]]
      BY DEF Second
    <2> QED
      BY <1>2, <2>1
  <1>4. Lists' /\ lists' \in [Bases -> [Idles -> Seq(Nodes)]]
    BY SecondLists DEF IInv
  <1>5. TypeOK'
    BY <1>0, <1>3, <1>4 DEF IInv, TypeOK
  <1>6. Unheard'
    BY <1>2 DEF IInv, Unheard, Registered
  <1>7. Waiting'
    <2>1. \A k \in DOMAIN backlog : backlog[k] \in Conns
      BY DEF IInv, TypeOK
    <2> QED
      BY <1>0, <1>2, <2>1, WaitingStays DEF IInv
  <1>8. Posted'
    BY <1>0, <1>2, PostedTasks, PostedSame DEF IInv
  <1>9. Closing'
    BY <1>0, <1>2, ClosingSame DEF IInv
  <1> QED
    BY <1>4, <1>5, <1>6, <1>7, <1>8, <1>9 DEF IInv

\* What callIdles does to the connections.
LEMMA TickCalls ==
    ASSUME IInv, NEW b \in Bases, Tick(b)
    PROVE  \E q \in Seq(Conns) :
             /\ Range(q) = Silent(b)
             /\ con' = [c \in Conns |-> IF c \in Silent(b) THEN [con[c] EXCEPT !.st = "closing"]
                                        ELSE con[c]]
             /\ tasks' = [tasks EXCEPT ![b] = @ \o [k \in DOMAIN q |-> Task("close", q[k])]]
  <1> DEFINE q == SetToSeq(CallIdles(b))
  <1>1. CallIdles(b) = Silent(b) /\ Silent(b) \in SUBSET Conns
    BY CallsSilent DEF IInv, Silent
  <1>2. q \in Seq(Conns) /\ Range(q) = Silent(b)
    BY <1>1, SequenceOfSet
  <1>3. /\ con' = [c \in Conns |-> IF c \in Range(q) THEN [con[c] EXCEPT !.st = "closing"] ELSE con[c]]
        /\ tasks' = [tasks EXCEPT ![b] = @ \o [k \in DOMAIN q |-> Task("close", q[k])]]
    BY DEF Tick
  <1> HIDE DEF q
  <1> QED
    BY <1>2, <1>3

LEMMA TickOK == ASSUME IInv, NEW b \in Bases, Tick(b) PROVE IInv'
  <1>0. due' \subseteq Bases /\ UNCHANGED <<backlog, next, lists, timed>>
    BY DEF Tick, IInv, TypeOK
  <1>1. PICK q \in Seq(Conns) :
             /\ Range(q) = Silent(b)
             /\ con' = [c \in Conns |-> IF c \in Silent(b) THEN [con[c] EXCEPT !.st = "closing"]
                                        ELSE con[c]]
             /\ tasks' = [tasks EXCEPT ![b] = @ \o [k \in DOMAIN q |-> Task("close", q[k])]]
    BY TickCalls
  <1> DEFINE w == [k \in DOMAIN q |-> Task("close", q[k])]
  <1>2. w \in Seq(Tasks) /\ DOMAIN w = DOMAIN q
        /\ \A k \in DOMAIN q : w[k] = Task("close", q[k]) /\ w[k].what = "close"
    <2>1. \A k \in DOMAIN q : Task("close", q[k]) \in Tasks /\ Task("close", q[k]).what = "close"
      BY DEF Tasks, Task
    <2>2. DOMAIN q = 1 .. Len(q) /\ Len(q) \in Nat
      OBVIOUS
    <2>3. w \in [1 .. Len(q) -> Tasks]
      BY <2>1, <2>2
    <2> QED
      BY <2>1, <2>2, <2>3
  <1>3. tasks' = [tasks EXCEPT ![b] = @ \o w]
    BY <1>1
  <1> HIDE DEF w
  <1>4. tasks' \in [Bases -> Seq(Tasks)]
    BY <1>2, <1>3 DEF IInv, TypeOK
  <1>5. \A c \in Conns :
          /\ con'[c].base = con[c].base /\ con'[c].idle = con[c].idle /\ con'[c].silent = con[c].silent
          /\ con'[c] \in [st : States, base : Bases, idle : Idles, silent : Times]
          /\ c \in Silent(b) => con'[c].st = "closing"
          /\ c \notin Silent(b) => con'[c] = con[c]
    <2> TAKE c \in Conns
    <2>1. con[c] \in [st : States, base : Bases, idle : Idles, silent : Times]
      BY DEF IInv, TypeOK
    <2>2. con'[c] = IF c \in Silent(b) THEN [con[c] EXCEPT !.st = "closing"] ELSE con[c]
      BY <1>1
    <2> QED
      BY <2>1, <2>2 DEF States
  <1>6. \A c \in Silent(b) : c \in Conns /\ Registered(c) /\ con[c].base = b
    BY DEF Silent
  <1>7. \A c \in Conns : Registered(c)' <=> Registered(c)
    BY <1>5, <1>6 DEF Registered
  <1>8. con' \in [Conns -> [st : States, base : Bases, idle : Idles, silent : Times]]
    <2>1. con' = [c \in Conns |-> con'[c]]
      BY <1>1
    <2> QED
      BY <1>5, <2>1
  <1>9. TypeOK'
    BY <1>0, <1>4, <1>8 DEF IInv, TypeOK
  <1>10. Lists' /\ Unheard'
    <2>1. Lists'
      BY <1>0, <1>5, <1>7, ListsStay DEF IInv
    <2>2. Unheard'
      BY <1>5, <1>7 DEF IInv, Unheard
    <2> QED
      BY <2>1, <2>2
  <1>11. Waiting'
    <2>1. \A k \in DOMAIN backlog : backlog[k] \in Conns /\ con[backlog[k]].st = "backlog"
      BY DEF IInv, Waiting, TypeOK
    <2>2. \A k \in DOMAIN backlog : backlog[k] \notin Silent(b)
      BY <1>6, <2>1 DEF Registered
    <2> QED
      BY <1>0, <1>5, <2>1, <2>2, WaitingStays DEF IInv
  <1>12. Posted'
    <2>1. \A c \in Conns : con[c].st = "posted" => con'[c].st = "posted"
      BY <1>5, <1>6 DEF Registered
    <2> QED
      BY <1>2, <1>3, <2>1, PostedMore DEF IInv
  <1>13. Closing'
    <2>1. ASSUME NEW c \in Conns, con'[c].st = "closing"
          PROVE  /\ con'[c].base = con[c].base
                 /\ \/ con[c].st = "closing"
                    \/ con[c].base = b /\ \E k \in DOMAIN w : w[k] = Task("close", c)
      <3>1. CASE c \in Silent(b)
        <4>1. PICK k \in DOMAIN q : q[k] = c
          BY <1>1, <3>1 DEF Range
        <4> QED
          BY <1>2, <1>5, <1>6, <3>1, <4>1
      <3>2. CASE c \notin Silent(b)
        BY <1>5, <2>1, <3>2
      <3> QED
        BY <3>1, <3>2
    <2> QED
      BY <1>2, <1>3, <2>1, ClosingMore DEF IInv
  <1> QED
    BY <1>9, <1>10, <1>11, <1>12, <1>13 DEF IInv

LEMMA StutterOK == IInv /\ UNCHANGED vars => IInv'
  <1> SUFFICES ASSUME IInv, UNCHANGED vars PROVE IInv'
    OBVIOUS
  <1>1. UNCHANGED <<backlog, next, con, lists, tasks, timed, due>>
    BY DEF vars
  <1>2. TypeOK' /\ Waiting' /\ Unheard'
    BY <1>1 DEF IInv, TypeOK, Waiting, Unheard, Registered
  <1>3. Lists'
    BY <1>1, ListsStay DEF IInv, Registered
  <1>4. Posted' /\ Closing'
    BY <1>1, PostedTasks, PostedSame, ClosingSame DEF IInv
  <1> QED
    BY <1>2, <1>3, <1>4 DEF IInv

LEMMA InitOK == Init => IInv
  <1> SUFFICES ASSUME Init PROVE IInv
    OBVIOUS
  <1>1. /\ backlog = <<>> /\ next = 1 % N /\ con = [c \in Conns |-> Blank("none")]
        /\ lists = [b \in Bases |-> [i \in Idles |-> <<>>]]
        /\ tasks = [b \in Bases |-> <<>>] /\ timed = {} /\ due = {}
    BY DEF Init
  <1>2. next \in Bases
    BY <1>1, ServerAssumption DEF Bases
  <1>3. Blank("none") \in [st : States, base : Bases, idle : Idles, silent : Times]
    BY Bounds DEF Blank, States
  <1>4. \A c \in Conns : con[c].st = "none" /\ con[c].silent = 0 /\ ~ Registered(c)
    BY <1>1 DEF Blank, Registered
  <1>5. TypeOK
    BY <1>1, <1>2, <1>3 DEF TypeOK
  <1>6. Unheard /\ Waiting /\ Closing
    BY <1>1, <1>4 DEF Unheard, Waiting, Closing
  <1>7. Posted
    BY <1>1 DEF Posted, AddconAt
  <1>8. Lists
    <2>1. \A b \in Bases, i \in Idles : lists[b][i] = <<>> /\ Members(b, i) = {}
      BY <1>1, <1>4 DEF Members
    <2> QED
      BY <2>1 DEF Lists, ListsHeld, ListsSorted, ListsFresh, Holds, Sorted, Fresh
  <1> QED
    BY <1>5, <1>6, <1>7, <1>8 DEF IInv

LEMMA NextOK == IInv /\ [Next]_vars => IInv'
  BY RunTaskOK, TickOK, ArriveOK, ConnectedOK, FailedOK, ReadOK, PeerClosesOK, AcceptOK,
     SecondOK, StutterOK DEF Next

LEMMA Invariant == SafeSpec => []IInv
  BY InitOK, NextOK, PTL DEF SafeSpec

\* The connections, the idle lists and the queues of the loops keep their types.
THEOREM TypeCorrect == SafeSpec => []TypeOK
  BY Invariant, PTL DEF IInv

\* Every connection that is up has one node, in the list of its loop and idle time, and
\* no list has a node of any other: registerIdle, updateIdle and unregisterIdle of any
\* connections, on any loops, never lead an IdleId into a list it has left.
THEOREM NodesStayHeld == SafeSpec => []NodesHeld
  <1>1. IInv => NodesHeld
    BY DEF IInv, Lists, ListsHeld, Holds, Members, NodesHeld
  <1> QED
    BY <1>1, Invariant, PTL

\* callIdles stops at the first node that is not idle, and still calls back exactly the
\* connections of its loop that were not read for their idle time.
THEOREM TicksFindIdle == SafeSpec => TickFindsIdle
  <1> DEFINE Called == \A b \in Bases : Tick(b) =>
          {c \in Conns : con'[c].st = "closing" /\ con[c].base = b}
            = {c \in Conns : Registered(c) /\ con[c].base = b /\ con[c].silent >= con[c].idle}
  <1>1. IInv /\ [Next]_vars => [Called]_vars
    <2> SUFFICES ASSUME IInv, NEW b \in Bases, Tick(b)
                 PROVE  {c \in Conns : con'[c].st = "closing" /\ con[c].base = b} = Silent(b)
      BY DEF Silent
    <2>1. con' = [c \in Conns |-> IF c \in Silent(b) THEN [con[c] EXCEPT !.st = "closing"] ELSE con[c]]
      BY TickCalls
    <2>2. \A c \in Conns : /\ c \in Silent(b) => con'[c].st = "closing"
                           /\ c \notin Silent(b) => con'[c] = con[c]
      BY <2>1 DEF IInv, TypeOK
    <2>3. \A c \in Silent(b) : c \in Conns /\ con[c].base = b
      BY DEF Silent
    <2>4. \A c \in Conns : con[c].base = b => con[c].st # "closing"
      <3> SUFFICES ASSUME NEW c \in Conns, con[c].base = b, con[c].st = "closing" PROVE FALSE
        OBVIOUS
      <3>1. PICK k \in DOMAIN tasks[b] : tasks[b][k] = Task("close", c)
        BY DEF IInv, Closing
      <3> QED
        BY <3>1 DEF Tick, Task
    <2> QED
      BY <2>2, <2>3, <2>4
  <1> QED
    BY <1>1, Invariant, PTL DEF SafeSpec, TickFindsIdle

\* Every loop that has a connection has its timer.
Timed == \A c \in Conns : Registered(c) => con[c].base \in timed

\* A step that brings up no connection, moves none to another loop and stops no timer.
LEMMA TimedKept ==
    ASSUME Timed, UNCHANGED timed,
           \A c \in Conns : Registered(c)' => Registered(c) /\ con'[c].base = con[c].base
    PROVE  Timed'
  BY DEF Timed

LEMMA TimedOK == IInv /\ Timed /\ [Next]_vars => Timed'
  <1> SUFFICES ASSUME IInv, Timed, [Next]_vars PROVE Timed'
    OBVIOUS
  <1>0. con \in [Conns -> [st : States, base : Bases, idle : Idles, silent : Times]]
    BY DEF IInv, TypeOK
  <1>1. ASSUME NEW c \in Conns, Connected(c) PROVE Timed'
    <2>1. /\ timed' = timed \cup {con[c].base} /\ \A d \in Conns : d # c => con'[d] = con[d]
          /\ con'[c].base = con[c].base
      BY <1>0, <1>1 DEF Connected, registerIdle
    <2> QED
      BY <2>1 DEF Timed, Registered
  <1>2. ASSUME NEW c \in Conns, UNCHANGED timed, \A d \in Conns : d # c => con'[d] = con[d],
               con'[c].st \notin {"open", "closing"}
        PROVE  Timed'
    BY <1>2 DEF Timed, Registered
  <1>3. ASSUME NEW c \in Conns, Arrive(c) \/ Failed(c) \/ Cleanup(c), UNCHANGED timed PROVE Timed'
    <2>1. (\A d \in Conns : d # c => con'[d] = con[d]) /\ con'[c].st \notin {"open", "closing"}
      BY <1>0, <1>3 DEF Arrive, Failed, Cleanup, Blank
    <2> QED
      BY <1>2, <1>3, <2>1
  <1>4. ASSUME NEW c \in Conns, Arrive(c) \/ Failed(c) \/ PeerCloses(c) PROVE Timed'
    BY <1>3, <1>4 DEF Arrive, Failed, PeerCloses
  <1>5. ASSUME NEW c \in Conns, Read(c) PROVE Timed'
    <2>1. \A d \in Conns : con'[d].st = con[d].st /\ con'[d].base = con[d].base
      BY <1>0, <1>5 DEF Read
    <2> QED
      BY <1>5, <2>1, TimedKept DEF Read, Registered
  <1>6. CASE Accept \/ AcceptFails
    <2>1. backlog # <<>> /\ UNCHANGED timed
      BY <1>6 DEF Accept, AcceptFails
    <2>2. PICK c \in Conns : c = Head(backlog)
      BY <2>1, TailOK DEF IInv, TypeOK
    <2>3. (\A d \in Conns : d # c => con'[d] = con[d]) /\ con'[c].st \in {"attached", "posted", "leaked"}
      BY <1>0, <1>6, <2>2 DEF Accept, AcceptFails
    <2> QED
      BY <1>2, <2>1, <2>3
  <1>7. ASSUME NEW b \in Bases, RunTask(b) PROVE Timed'
    <2>1. tasks[b] # <<>> /\ UNCHANGED timed /\ tasks[b] \in Seq(Tasks)
      BY <1>7 DEF RunTask, IInv, TypeOK
    <2>2. PICK c \in Conns : c = Head(tasks[b]).con
      <3>1. Head(tasks[b]) \in Tasks
        BY <2>1, TailOK
      <3> QED
        BY <3>1 DEF Tasks
    <2>3. \/ con' = [con EXCEPT ![c].st = "attached"]
          \/ Cleanup(c)
          \/ UNCHANGED con
      BY <1>7, <2>2 DEF RunTask
    <2>4. CASE con' = [con EXCEPT ![c].st = "attached"]
      <3>1. (\A d \in Conns : d # c => con'[d] = con[d]) /\ con'[c].st = "attached"
        BY <1>0, <2>4
      <3> QED
        BY <1>2, <2>1, <3>1
    <2>5. CASE UNCHANGED con
      BY <2>1, <2>5, TimedKept DEF Registered
    <2> QED
      BY <1>3, <2>1, <2>3, <2>4, <2>5
  <1>8. CASE Second
    <2>1. \A d \in Conns : con'[d].st = con[d].st /\ con'[d].base = con[d].base
      BY <1>0, <1>8 DEF Second
    <2> QED
      BY <1>8, <2>1, TimedKept DEF Second, Registered
  <1>9. ASSUME NEW b \in Bases, Tick(b) PROVE Timed'
    <2>1. con' = [c \in Conns |-> IF c \in Silent(b) THEN [con[c] EXCEPT !.st = "closing"] ELSE con[c]]
      BY <1>9, TickCalls
    <2>2. \A d \in Conns : /\ con'[d].base = con[d].base
                           /\ con'[d].st \in {"open", "closing"} => con[d].st \in {"open", "closing"}
      BY <1>0, <2>1 DEF Silent, Registered
    <2> QED
      BY <1>9, <2>2, TimedKept DEF Tick, Registered
  <1>10. CASE UNCHANGED vars
    BY <1>10, TimedKept DEF vars, Registered
  <1> QED
    BY <1>1, <1>4, <1>5, <1>6, <1>7, <1>8, <1>9, <1>10 DEF Next

\* Whichever loop a connection was dealt to, the timer that finds it when it falls silent
\* was started: registerIdle starts the one of each loop with the loop's first connection.
THEOREM TimerRuns == SafeSpec => []Timed
  <1>1. Init => Timed
    BY DEF Init, Timed, Registered, Blank
  <1> QED
    BY <1>1, TimedOK, Invariant, PTL DEF SafeSpec

----------------------------------------------------------------------------
(* The connection of the HttpServer: what holds in every state.            *)

Messages == [complete : BOOLEAN, contentLen : Nat, scanned : Nat, req : Nat]
Responses == [status : {200, 404}, body : SUBSET Nat, plain : BOOLEAN]
Answers == [req : Nat, status : {200, 404}, body : SUBSET Nat]

HttpTypeOK ==
    /\ script \in Scripts
    /\ sent \in Nat /\ fin \in BOOLEAN /\ got \in Nat /\ used \in Nat
    /\ msg \in Messages /\ resp \in Responses
    /\ conn \in {"open", "closing", "closed", "aborted"}
    /\ answers \in Seq(Answers)

\* The input is a part of what was sent.
Streamed == used <= got /\ got <= sent /\ sent <= EndOfStream

Answered ==
    /\ Len(answers) <= Len(script)
    /\ \A k \in 1 .. Len(answers) :
          /\ answers[k].req = k /\ k \in answers[k].body
          /\ script[k].key = "unknown" => answers[k].status = 404

\* The first request that is not answered.
Pending == Len(answers) + 1

\* Where its decoding may stand: its empty line is not found, or its header is bad;
Scanning(m) ==
    /\ ~m.complete /\ m.contentLen = 0 /\ m.req = 0
    /\ Pending \in Index => m.scanned <= script[Pending].head

\* its head is read and the body is not there;
AwaitsBody(m) ==
    /\ Pending \in Index /\ script[Pending].line # "badline"
    /\ ~m.complete /\ m.contentLen = script[Pending].body /\ m.contentLen > 0
    /\ m.req = Pending /\ m.scanned = script[Pending].head + 4

\* it is complete and was refused for its uri.
Refused(m) ==
    /\ Pending \in Index /\ script[Pending].line = "baduri"
    /\ m.complete /\ m.req = Pending

Decodes(m) == Scanning(m) \/ AwaitsBody(m) \/ Refused(m)

Decoding == conn \in {"open", "closing"} => used = Begin(Pending) /\ Decodes(msg)

HttpInv == HttpTypeOK /\ Streamed /\ Answered /\ Decoding

----------------------------------------------------------------------------
(* Induction, and where the requests of a script start.                    *)

\* A set of numbers with a member has a least one: what the proofs use in the place of
\* induction.
LEMMA Least ==
    ASSUME NEW T, T \subseteq Nat, T # {}
    PROVE  \E x \in T : \A y \in T : x <= y
  <1> DEFINE R == OpToRel(<, Nat)
  <1>1. IsWellFoundedOn(R, Nat)  BY NatLessThanWellFounded
  <1>2. PICK x \in T : \A y \in T : ~ (<<y, x>> \in R)
    <2> HIDE DEF R
    <2> QED  BY <1>1, WFMin
  <1>3. \A y \in T : ~ (y < x)  BY <1>2 DEF OpToRel
  <1> QED  BY <1>3

\* The recursion of Offsets has a solution for every sequence of sizes g.
LEMMA Sums ==
    ASSUME NEW n \in Nat, NEW g \in [1 .. n -> Nat]
    PROVE  \E f \in [1 .. n + 1 -> Nat] :
              f = [i \in 1 .. n + 1 |-> IF i = 1 THEN 0 ELSE f[i - 1] + g[i - 1]]
  <1> DEFINE Sum(f, k) == /\ f \in [1 .. k + 1 -> Nat]
                          /\ f[1] = 0
                          /\ \A i \in 1 .. k : f[i + 1] = f[i] + g[i]
             T == {k \in 0 .. n : ~ \E f : Sum(f, k)}
  <1>1. CASE T = {}
    <2>1. n \in 0 .. n  OBVIOUS
    <2>2. PICK f : Sum(f, n)
      <3> HIDE DEF Sum
      <3> QED  BY <2>1, <1>1
    <2>3. ASSUME NEW i \in 1 .. n + 1, i # 1 PROVE f[i] = f[i - 1] + g[i - 1]
      <3>1. i - 1 \in 1 .. n /\ (i - 1) + 1 = i  BY <2>3
      <3> QED  BY <3>1, <2>2
    <2>4. f = [i \in 1 .. n + 1 |-> IF i = 1 THEN 0 ELSE f[i - 1] + g[i - 1]]
      BY <2>2, <2>3
    <2> QED  BY <2>2, <2>4
  <1>2. CASE T # {}
    <2>0. T \subseteq Nat  OBVIOUS
    <2>1. PICK k \in T : \A j \in T : k <= j  BY <2>0, <1>2, Least
    <2>2. k # 0
      <3>1. Sum([i \in 1 .. 1 |-> 0], 0)  OBVIOUS
      <3> QED  BY <3>1, <2>1
    <2>3. PICK f : Sum(f, k - 1)
      <3>1. k - 1 \in 0 .. n /\ ~ (k <= k - 1)  BY <2>1, <2>2
      <3>2. k - 1 \notin T  BY <3>1, <2>1
      <3> QED  BY <3>1, <3>2
    <2> DEFINE h == [i \in 1 .. k + 1 |-> IF i <= k THEN f[i] ELSE f[k] + g[k]]
    <2>4. k \in 1 .. n /\ (k - 1) + 1 = k  BY <2>1, <2>2
    <2>5. f \in [1 .. k -> Nat] /\ f[1] = 0 /\ \A i \in 1 .. k - 1 : f[i + 1] = f[i] + g[i]
      BY <2>3, <2>4
    <2>6. f[k] + g[k] \in Nat
      <3>1. f[k] \in Nat /\ g[k] \in Nat  BY <2>4, <2>5
      <3> QED  BY <3>1
    <2>7. h \in [1 .. k + 1 -> Nat] /\ h[1] = 0  BY <2>4, <2>5, <2>6
    <2>8. \A i \in 1 .. k : h[i + 1] = h[i] + g[i]  BY <2>4, <2>5
    <2>9. Sum(h, k)  BY <2>7, <2>8
    <2> QED  BY <2>9, <2>1
  <1> QED  BY <1>1, <1>2

LEMMA ScriptOK ==
    ASSUME NEW s \in Scripts
    PROVE  /\ Len(s) \in Nat
           /\ \A i \in 1 .. Len(s) :
                 /\ s[i] \in Requests /\ Size(s[i]) \in Nat
                 /\ s[i].head \in Nat \ {0} /\ s[i].body \in Nat
                 /\ s[i].line = "good" /\ s[i].key = "none" => s[i].root
  <1>1. s \in Seq(Requests) /\ DOMAIN s = 1 .. Len(s)  BY ScriptsAssumption
  <1>2. Len(s) \in Nat  BY <1>1
  <1>3. ASSUME NEW i \in 1 .. Len(s)
        PROVE  /\ s[i] \in Requests /\ Size(s[i]) \in Nat
               /\ s[i].head \in Nat \ {0} /\ s[i].body \in Nat
               /\ s[i].line = "good" /\ s[i].key = "none" => s[i].root
    <2>1. s[i] \in Requests  BY <1>1
    <2>2. s[i].head \in Nat \ {0} /\ s[i].body \in Nat  BY <2>1 DEF Requests
    <2>3. Size(s[i]) \in Nat  BY <2>2 DEF Size
    <2> QED  BY <2>1, <2>2, <2>3, <1>1, ScriptsAssumption
  <1> QED  BY <1>2, <1>3

\* Offsets is what its recursion says.
LEMMA OffsetsOK ==
    ASSUME NEW s \in Scripts
    PROVE  /\ Offsets[s] \in [1 .. Len(s) + 2 -> Nat]
           /\ Offsets[s][1] = 0
           /\ \A i \in 1 .. Len(s) : Offsets[s][i + 1] = Offsets[s][i] + Size(s[i])
           /\ Offsets[s][Len(s) + 2] = Offsets[s][Len(s) + 1]
  <1> DEFINE n == Len(s)
             g == [i \in 1 .. n + 1 |-> IF i <= n THEN Size(s[i]) ELSE 0]
             F(f) == [i \in 1 .. n + 2 |->
                        IF i = 1 THEN 0
                        ELSE f[i - 1] + (IF i <= n + 1 THEN Size(s[i - 1]) ELSE 0)]
  <1>1. n \in Nat /\ \A i \in 1 .. n : Size(s[i]) \in Nat  BY ScriptOK
  <1>2. g \in [1 .. n + 1 -> Nat]  BY <1>1
  <1> HIDE DEF n
  <1>3. PICK f \in [1 .. n + 2 -> Nat] :
           f = [i \in 1 .. n + 2 |-> IF i = 1 THEN 0 ELSE f[i - 1] + g[i - 1]]
    <2> DEFINE m == n + 1
    <2>1. m \in Nat /\ m + 1 = n + 2  BY <1>1
    <2>2. g \in [1 .. m -> Nat]  BY <1>2
    <2> HIDE DEF g, m
    <2>3. \E f \in [1 .. m + 1 -> Nat] :
             f = [i \in 1 .. m + 1 |-> IF i = 1 THEN 0 ELSE f[i - 1] + g[i - 1]]
      BY <2>1, <2>2, Sums
    <2> QED  BY <2>1, <2>3
  <1>4. f = F(f)
    <2>1. ASSUME NEW i \in 1 .. n + 2, i # 1
          PROVE  g[i - 1] = IF i <= n + 1 THEN Size(s[i - 1]) ELSE 0
      <3>1. i - 1 \in 1 .. n + 1 /\ (i - 1 <= n <=> i <= n + 1)  BY <2>1, <1>1
      <3> QED  BY <3>1
    <2> HIDE DEF g
    <2>2. \A i \in 1 .. n + 2 : f[i] = IF i = 1 THEN 0 ELSE f[i - 1] + g[i - 1]
      BY <1>3
    <2>3. ASSUME NEW i \in 1 .. n + 2
          PROVE  f[i] = IF i = 1 THEN 0
                        ELSE f[i - 1] + (IF i <= n + 1 THEN Size(s[i - 1]) ELSE 0)
      BY <2>1, <2>2
    <2> QED  BY <2>3
  <1> DEFINE o == Offsets[s]
  <1>5. o = CHOOSE h : h = F(h)
    BY DEF Offsets, n
  <1>6. o = F(o)
    <2> HIDE DEF o, F
    <2> QED  BY <1>4, <1>5
  <1> HIDE DEF o
  <1>7. \A i \in 1 .. n : o[i + 1] = o[i] + Size(s[i])
    <2> TAKE i \in 1 .. n
    <2>1. i + 1 \in 1 .. n + 2 /\ i + 1 # 1 /\ i + 1 <= n + 1 /\ (i + 1) - 1 = i  BY <1>1
    <2> QED  BY <2>1, <1>6
  <1>8. o[n + 2] = o[n + 1] + 0 /\ o[1] = 0
    <2>1. n + 2 \in 1 .. n + 2 /\ n + 2 # 1 /\ ~ (n + 2 <= n + 1) /\ (n + 2) - 1 = n + 1
          /\ 1 \in 1 .. n + 2
      BY <1>1
    <2> QED  BY <2>1, <1>6
  <1> DEFINE T == {i \in 1 .. n + 2 : o[i] \notin Nat}
  <1>9. T = {}
    <2> SUFFICES ASSUME T # {} PROVE FALSE  OBVIOUS
    <2>1. T \subseteq Nat  BY <1>1
    <2>2. PICK k \in T : \A j \in T : k <= j  BY <2>1, Least
    <2>3. k # 1  BY <1>8, <2>2
    <2>4. k - 1 \in 1 .. n + 2 /\ ~ (k <= k - 1)  BY <2>2, <2>3, <1>1
    <2>5. o[k - 1] \in Nat  BY <2>2, <2>4
    <2>6. (IF k <= n + 1 THEN Size(s[k - 1]) ELSE 0) \in Nat
      <3>1. k <= n + 1 => k - 1 \in 1 .. n  BY <2>2, <2>3, <1>1
      <3> QED  BY <3>1, <1>1
    <2>7. o[k] = o[k - 1] + (IF k <= n + 1 THEN Size(s[k - 1]) ELSE 0)
      BY <2>2, <2>3, <1>6
    <2> QED  BY <2>2, <2>5, <2>6, <2>7
  <1>10. o \in [1 .. n + 2 -> Nat]
    <2>1. \A i \in 1 .. n + 2 : o[i] \in Nat  BY <1>9
    <2>2. o = [i \in 1 .. n + 2 |-> o[i]]  BY <1>6
    <2> QED  BY <2>1, <2>2
  <1>11. n + 1 \in 1 .. n + 2  BY <1>1
  <1>12. o[n + 2] = o[n + 1]  BY <1>8, <1>10, <1>11
  <1> QED  BY <1>7, <1>8, <1>10, <1>12 DEF o, n

\* A request starts behind the end of every one before it.
LEMMA OffsetsOrdered ==
    ASSUME NEW s \in Scripts, NEW i \in 1 .. Len(s) + 1, NEW j \in 1 .. Len(s) + 1, i <= j
    PROVE  Offsets[s][i] <= Offsets[s][j]
  <1> DEFINE o == Offsets[s]
             n == Len(s)
             T == {k \in 1 .. n + 1 : i <= k /\ ~ (o[i] <= o[k])}
  <1>1. n \in Nat /\ \A k \in 1 .. n : Size(s[k]) \in Nat  BY ScriptOK
  <1>2. o \in [1 .. n + 2 -> Nat] /\ \A k \in 1 .. n : o[k + 1] = o[k] + Size(s[k])
    BY OffsetsOK
  <1> HIDE DEF o, n
  <1>3. i \in 1 .. n + 1 /\ j \in 1 .. n + 1  BY DEF n
  <1>4. T = {}
    <2> SUFFICES ASSUME T # {} PROVE FALSE  OBVIOUS
    <2>1. T \subseteq Nat  BY <1>1
    <2>2. PICK k \in T : \A l \in T : k <= l  BY <2>1, Least
    <2>3. o[i] \in Nat  BY <1>1, <1>2, <1>3
    <2>4. k # i  BY <2>2, <2>3
    <2>5. k - 1 \in 1 .. n /\ k - 1 \in 1 .. n + 1 /\ i <= k - 1 /\ ~ (k <= k - 1) /\ (k - 1) + 1 = k
      BY <2>2, <2>4, <1>1, <1>3
    <2>6. o[i] <= o[k - 1]  BY <2>2, <2>5
    <2>7. o[k] = o[k - 1] + Size(s[k - 1])  BY <2>5, <1>2
    <2>8. o[k - 1] \in Nat /\ Size(s[k - 1]) \in Nat  BY <2>5, <1>1, <1>2
    <2> QED  BY <2>2, <2>3, <2>6, <2>7, <2>8
  <1> QED  BY <1>3, <1>4 DEF o, n

----------------------------------------------------------------------------
(* Decoding.                                                               *)

LEMMA Starts ==
    ASSUME script \in Scripts
    PROVE  /\ Len(script) \in Nat
           /\ \A i \in 1 .. Len(script) + 2 : Begin(i) \in Nat
           /\ Begin(1) = 0
           /\ \A i \in Index :
                 /\ script[i].head \in Nat \ {0} /\ script[i].body \in Nat
                 /\ Begin(i + 1) = Begin(i) + script[i].head + 4 + script[i].body
           /\ \A i, j \in 1 .. Len(script) + 1 : i <= j => Begin(i) <= Begin(j)
  <1>1. Len(script) \in Nat /\ \A i \in Index : script[i].head \in Nat \ {0} /\ script[i].body \in Nat
    BY ScriptOK DEF Index
  <1>2. \A i \in 1 .. Len(script) + 2 : Begin(i) \in Nat  BY OffsetsOK DEF Begin
  <1>3. Begin(1) = 0  BY OffsetsOK DEF Begin
  <1>4. ASSUME NEW i \in Index
        PROVE  Begin(i + 1) = Begin(i) + script[i].head + 4 + script[i].body
    <2>1. Begin(i + 1) = Begin(i) + (script[i].head + 4 + script[i].body)
      BY OffsetsOK DEF Begin, Index, Size
    <2>2. Begin(i) \in Nat  BY <1>1, <1>2 DEF Index
    <2>3. script[i].head \in Nat /\ script[i].body \in Nat  BY <1>1
    <2> QED  BY <2>1, <2>2, <2>3
  <1>5. \A i, j \in 1 .. Len(script) + 1 : i <= j => Begin(i) <= Begin(j)
    BY OffsetsOrdered DEF Begin
  <1> QED  BY <1>1, <1>2, <1>3, <1>4, <1>5

\* Another request that starts before or behind request i ends or starts apart from it.
LEMMA Apart ==
    ASSUME script \in Scripts, NEW i \in Index, NEW j \in Index
    PROVE  /\ j < i => Begin(j) + script[j].head + 4 <= Begin(i)
           /\ i < j => Begin(i) + script[i].head + 4 <= Begin(j)
  <1>1. \A k, l \in Index : k < l => Begin(k) + script[k].head + 4 <= Begin(l)
    <2> SUFFICES ASSUME NEW k \in Index, NEW l \in Index, k < l
                 PROVE  Begin(k) + script[k].head + 4 <= Begin(l)
      OBVIOUS
    <2>1. Len(script) \in Nat /\ k \in Nat /\ l \in Nat  BY Starts DEF Index
    <2>2. /\ k + 1 \in 1 .. Len(script) + 1 /\ l \in 1 .. Len(script) + 1 /\ k + 1 <= l
          /\ k \in 1 .. Len(script) + 2 /\ l \in 1 .. Len(script) + 2
      BY <2>1 DEF Index
    <2>3. Begin(k + 1) <= Begin(l)  BY <2>2, Starts
    <2>4. Begin(k + 1) = Begin(k) + script[k].head + 4 + script[k].body  BY Starts
    <2>5. Begin(k) \in Nat /\ Begin(l) \in Nat /\ script[k].head \in Nat /\ script[k].body \in Nat
      BY <2>2, Starts
    <2> QED  BY <2>3, <2>4, <2>5
  <1> QED  BY <1>1

\* What starts at the front of the input is the request that is not answered.
LEMMA FrontIsPending ==
    ASSUME script \in Scripts, Pending \in Index, used = Begin(Pending)
    PROVE  AtFront = {Pending}
  <1>1. ASSUME NEW j \in Index, j # Pending PROVE Begin(j) # used
    <2>1. Len(script) \in Nat /\ j \in Nat /\ Pending \in Nat  BY Starts DEF Index
    <2>2. j < Pending \/ Pending < j  BY <2>1, <1>1
    <2>3. j \in 1 .. Len(script) + 2 /\ Pending \in 1 .. Len(script) + 2  BY <2>1 DEF Index
    <2>4. Begin(j) \in Nat /\ Begin(Pending) \in Nat  BY <2>3, Starts
    <2>5. script[j].head \in Nat \ {0} /\ script[Pending].head \in Nat \ {0}  BY Starts
    <2>6. /\ j < Pending => Begin(j) + script[j].head + 4 <= Begin(Pending)
          /\ Pending < j => Begin(Pending) + script[Pending].head + 4 <= Begin(j)
      BY Apart
    <2> QED  BY <2>2, <2>4, <2>5, <2>6
  <1> QED  BY <1>1 DEF AtFront

\* The search finds the empty line of that request, or stops before it.
LEMMA ScanOK ==
    ASSUME script \in Scripts, Pending \in Index, used = Begin(Pending),
           NEW m \in Messages, m.scanned <= script[Pending].head, NEW size \in Nat
    PROVE  /\ script[Pending].head + 4 <= size
                => Scan(m, size) = [at |-> script[Pending].head, hit |-> TRUE]
           /\ ~ (script[Pending].head + 4 <= size)
                => /\ ~ Scan(m, size).hit
                   /\ Scan(m, size).at \in Nat /\ Scan(m, size).at <= script[Pending].head
  <1> DEFINE h == script[Pending].head
             found == Found(m.scanned, size)
  <1>1. h \in Nat /\ m.scanned \in Nat  BY Starts DEF Messages
  <1>2. used \in Nat
    <2>1. Pending \in 1 .. Len(script) + 2 BY Starts DEF Index
    <2> QED  BY <2>1, Starts
  <1>3. ASSUME NEW j \in Index, Begin(j) + script[j].head >= used + m.scanned,
               Begin(j) + script[j].head + 4 <= used + size
        PROVE  /\ (Begin(j) + script[j].head) - used \in Nat
               /\ h <= (Begin(j) + script[j].head) - used
               /\ h + 4 <= size
    <2>1. Len(script) \in Nat /\ j \in Nat /\ Pending \in Nat  BY Starts DEF Index
    <2>2. j < Pending \/ Pending < j \/ j = Pending  BY <2>1
    <2>3. j \in 1 .. Len(script) + 2  BY <2>1 DEF Index
    <2>4. Begin(j) \in Nat /\ script[j].head \in Nat \ {0}  BY <2>3, Starts
    <2>5. /\ j < Pending => Begin(j) + script[j].head + 4 <= used
          /\ Pending < j => used + h + 4 <= Begin(j)
          /\ j = Pending => Begin(j) = used /\ script[j].head = h
      BY Apart
    <2> HIDE DEF h
    <2> QED  BY <2>2, <2>4, <2>5, <1>1, <1>2, <1>3
  <1>4. ASSUME NEW x \in found PROVE x \in Nat /\ h <= x /\ h + 4 <= size
    <2>1. PICK j \in Index :
             /\ x = (Begin(j) + script[j].head) - used
             /\ Begin(j) + script[j].head >= used + m.scanned
             /\ Begin(j) + script[j].head + 4 <= used + size
      <3>1. PICK y \in EmptyLines : x = y - used /\ y >= used + m.scanned /\ y + 4 <= used + size
        BY <1>4 DEF Found
      <3>2. PICK j \in Index : y = Begin(j) + script[j].head  BY DEF EmptyLines
      <3>3. /\ x = (Begin(j) + script[j].head) - used
            /\ Begin(j) + script[j].head >= used + m.scanned
            /\ Begin(j) + script[j].head + 4 <= used + size
        BY <3>1, <3>2
      <3> QED  BY <3>3
    <2> QED  BY <2>1, <1>3
  <1>5. CASE h + 4 <= size
    <2>1. h \in found
      <3>1. used + h \in EmptyLines  BY DEF EmptyLines
      <3>2. (used + h) - used = h /\ used + h >= used + m.scanned /\ used + h + 4 <= used + size
        <4>1. m.scanned <= h  OBVIOUS
        <4> HIDE DEF h
        <4> QED  BY <1>1, <1>2, <1>5, <4>1
      <3> HIDE DEF h
      <3> QED  BY <3>1, <3>2 DEF Found
    <2> HIDE DEF found, h
    <2>2. Min(found) = h
      <3>1. \A y \in found : h <= y  BY <1>4
      <3>2. \A x \in found : (\A y \in found : x <= y) => x = h
        BY <1>1, <1>4, <2>1
      <3> QED  BY <2>1, <3>1, <3>2 DEF Min
    <2> QED  BY <2>1, <2>2, <1>5 DEF Scan, found, h
  <1>6. CASE ~ (h + 4 <= size)
    <2>1. found = {}  BY <1>4, <1>6
    <2>2. Scan(m, size) = [at |-> Max({m.scanned, size - 3}), hit |-> FALSE]
      BY <2>1 DEF Scan
    <2> DEFINE mx == Max({m.scanned, size - 3})
    <2>3. mx \in {m.scanned, size - 3} /\ mx >= m.scanned
      <3> DEFINE S == {m.scanned, size - 3}
      <3>1. \E x \in S : \A y \in S : x >= y
        BY <1>1
      <3> HIDE DEF S
      <3>2. Max(S) \in S /\ \A y \in S : Max(S) >= y  BY <3>1 DEF Max
      <3> QED  BY <3>2 DEF S
    <2> HIDE DEF mx, h
    <2>4. mx \in Nat /\ mx <= h
      <3>1. m.scanned <= h  BY DEF h
      <3> QED  BY <2>3, <1>1, <1>6, <3>1
    <2> QED  BY <2>2, <2>4, <1>6 DEF mx, h
  <1> QED  BY <1>5, <1>6

\* The body of a request is there or not.
LEMMA WithBodyOK ==
    ASSUME NEW m \in Messages, ~ m.complete, NEW size \in Nat
    PROVE  /\ size >= m.contentLen + m.scanned
                => /\ WithBody(m, size) = [m EXCEPT !.complete = TRUE,
                                                    !.scanned = m.scanned + m.contentLen]
                   /\ WithBody(m, size) \in Messages
                   /\ Result(WithBody(m, size)) = "Complete"
           /\ ~ (size >= m.contentLen + m.scanned)
                => WithBody(m, size) = m /\ Result(WithBody(m, size)) = "NotComplete"
  <1>1. CASE size >= m.contentLen + m.scanned
    <2> DEFINE w == [m EXCEPT !.complete = TRUE, !.scanned = m.scanned + m.contentLen]
    <2>1. WithBody(m, size) = w  BY <1>1 DEF WithBody
    <2>2. m.scanned + m.contentLen \in Nat  BY DEF Messages
    <2>3. w \in Messages /\ w.complete = TRUE  BY <2>2 DEF Messages
    <2> HIDE DEF w
    <2>4. Result(WithBody(m, size)) = "Complete"  BY <2>1, <2>3 DEF Result
    <2> QED  BY <2>1, <2>3, <2>4, <1>1 DEF w
  <1>2. CASE ~ (size >= m.contentLen + m.scanned)
    BY <1>2 DEF WithBody, Result
  <1> QED  BY <1>1, <1>2

\* What tryDecode makes of the request that is not answered, however much of it has
\* arrived and however much of it was looked at before: a request that is there whole is
\* complete or refused.
DecodedRight(d, size) ==
    /\ d.m \in Messages
    /\ \/ d.r = "NotComplete" /\ Decodes(d.m) /\ size < Size(script[Pending])
       \/ d.r = "Error" /\ Decodes(d.m)
       \/ /\ d.r = "Complete" /\ d.m.req = Pending
          /\ script[Pending].line # "baduri"
                => /\ script[Pending].line = "good"
                   /\ d.m.scanned = Size(script[Pending]) /\ d.m.scanned <= size

LEMMA DecodeOK ==
    ASSUME HttpTypeOK, Pending \in Index, used = Begin(Pending), Decodes(msg),
           NEW size \in Nat
    PROVE  DecodedRight(TryDecode(size), size)
  <1> DEFINE q == script[Pending]
             d == TryDecode(size)
             e == TryDecode_(size)
  <1>1. script \in Scripts /\ msg \in Messages  BY DEF HttpTypeOK
  <1>2. /\ q.head \in Nat \ {0} /\ q.body \in Nat /\ q.line \in {"good", "badline", "baduri"}
        /\ Pending \in Nat \ {0} /\ Size(q) = q.head + 4 + q.body /\ Size(q) \in Nat
    <2>1. q \in Requests /\ q.head \in Nat \ {0} /\ q.body \in Nat  BY <1>1, ScriptOK DEF Index
    <2>2. Len(script) \in Nat  BY <1>1, Starts
    <2>3. Pending \in Nat \ {0}  BY <2>2 DEF Index
    <2>4. q.line \in {"good", "badline", "baduri"}  BY <2>1 DEF Requests
    <2>5. Size(q) = q.head + 4 + q.body  BY DEF Size
    <2> HIDE DEF q
    <2>6. Size(q) \in Nat  BY <2>1, <2>5
    <2> QED  BY <2>1, <2>3, <2>4, <2>5, <2>6
  <1>3. CASE AwaitsBody(msg)
    <2> DEFINE w == WithBody(msg, size)
    <2>1. /\ ~ msg.complete /\ msg.contentLen = q.body /\ msg.contentLen > 0 /\ q.line # "badline"
          /\ msg.req = Pending /\ msg.scanned = q.head + 4
      BY <1>3 DEF AwaitsBody
    <2>2. e = [m |-> w, r |-> Result(w), first |-> FALSE]  BY <2>1 DEF TryDecode_
    <2> HIDE DEF w, q, e
    <2>3. d = [m |-> w, r |-> Result(w), first |-> FALSE]
      <3>1. e.first = FALSE  BY <2>2
      <3> QED  BY <2>2, <3>1 DEF TryDecode, e
    <2>4. d.m = w /\ d.r = Result(w)  BY <2>3
    <2> HIDE DEF d
    <2>5. CASE size >= msg.contentLen + msg.scanned
      <3>1. /\ w = [msg EXCEPT !.complete = TRUE, !.scanned = msg.scanned + msg.contentLen]
            /\ w \in Messages /\ Result(w) = "Complete"
        BY <2>1, <2>5, <1>1, WithBodyOK DEF w
      <3>2. w.req = Pending /\ w.scanned = msg.scanned + msg.contentLen
        BY <3>1, <2>1, <1>1 DEF Messages
      <3>3. w.scanned = Size(q) /\ w.scanned <= size
        BY <3>2, <2>1, <2>5, <1>2
      <3>4. q.line # "baduri" => q.line = "good"  BY <2>1, <1>2
      <3> QED  BY <2>4, <3>1, <3>2, <3>3, <3>4 DEF DecodedRight, q, d
    <2>6. CASE ~ (size >= msg.contentLen + msg.scanned)
      <3>1. w = msg /\ Result(w) = "NotComplete"
        BY <2>1, <2>6, <1>1, WithBodyOK DEF w
      <3>2. size < Size(q)  BY <2>1, <2>6, <1>2
      <3> QED  BY <2>4, <3>1, <3>2, <1>1 DEF DecodedRight, q, d
    <2> QED  BY <2>5, <2>6 DEF d
  <1>4. CASE Refused(msg)
    <2>1. msg.complete /\ msg.req = Pending /\ q.line = "baduri"  BY <1>4 DEF Refused
    <2>2. WithBody(msg, size) = msg /\ Result(msg) = "Complete"  BY <2>1 DEF WithBody, Result
    <2>3. e = [m |-> msg, r |-> "Complete", first |-> FALSE]  BY <2>1, <2>2 DEF TryDecode_
    <2> HIDE DEF e
    <2>4. d = [m |-> msg, r |-> "Complete", first |-> FALSE]
      <3>1. e.first = FALSE  BY <2>3
      <3> QED  BY <2>3, <3>1 DEF TryDecode, e
    <2> HIDE DEF d
    <2> QED  BY <2>1, <2>4, <1>1 DEF DecodedRight, d
  <1>5. CASE Scanning(msg)
    <2> DEFINE scan == Scan(msg, size)
               looked == [msg EXCEPT !.scanned = scan.at]
               head == [looked EXCEPT !.scanned = scan.at + 4, !.req = Pending, !.contentLen = q.body]
    <2>1. ~ msg.complete /\ msg.contentLen = 0 /\ msg.req = 0 /\ msg.scanned <= q.head
      BY <1>5 DEF Scanning
    <2>2. /\ q.head + 4 <= size => scan = [at |-> q.head, hit |-> TRUE]
          /\ ~ (q.head + 4 <= size) => ~ scan.hit /\ scan.at \in Nat /\ scan.at <= q.head
      BY <2>1, <1>1, ScanOK
    <2>3. AtFront = {Pending} /\ (CHOOSE j \in AtFront : TRUE) = Pending
      BY <1>1, FrontIsPending
    <2>4. ~ (msg.complete \/ msg.contentLen > 0)  BY <2>1
    <2>5. ASSUME scan.at \in Nat, scan.at <= q.head
          PROVE  looked \in Messages /\ Scanning(looked) /\ looked.req = 0
      <3>1. /\ looked.complete = msg.complete /\ looked.contentLen = msg.contentLen
            /\ looked.req = msg.req /\ looked.scanned = scan.at /\ looked \in Messages
        <4> HIDE DEF scan
        <4> QED  BY <1>1, <2>5 DEF Messages
      <3> HIDE DEF looked
      <3> QED  BY <3>1, <2>1, <2>5 DEF Scanning
    <2>6. CASE ~ (q.head + 4 <= size)
      <3>1. ~ scan.hit  BY <2>2, <2>6
      <3>2. e = [m |-> looked, r |-> "NotComplete", first |-> FALSE]
        BY <2>4, <3>1 DEF TryDecode_
      <3>3. looked \in Messages /\ Scanning(looked)  BY <2>2, <2>5, <2>6
      <3> HIDE DEF e, looked
      <3>4. d = [m |-> looked, r |-> "NotComplete", first |-> FALSE]
        <4>1. e.first = FALSE  BY <3>2
        <4> QED  BY <3>2, <4>1 DEF TryDecode, e
      <3> HIDE DEF d, q
      <3>5. size < Size(q)  BY <2>6, <1>2
      <3> QED  BY <3>3, <3>4, <3>5 DEF DecodedRight, Decodes, q, d
    <2>7. CASE q.head + 4 <= size
      <3>1. scan.hit = TRUE /\ scan.at = q.head /\ scan.at # 0  BY <2>2, <2>7, <1>2
      <3>2. looked \in Messages /\ Scanning(looked) /\ looked.req = 0  BY <3>1, <1>2, <2>5
      <3>3. CASE q.line = "badline"
        <4>1. e = [m |-> looked, r |-> "Error", first |-> TRUE]
          BY <2>3, <2>4, <3>1, <3>3 DEF TryDecode_
        <4> HIDE DEF e, looked
        <4>2. d = [m |-> looked, r |-> "Error", first |-> TRUE]
          <5>1. e.m.req = 0  BY <4>1, <3>2
          <5> QED  BY <4>1, <5>1 DEF TryDecode, e
        <4> HIDE DEF d
        <4> QED  BY <3>2, <4>2 DEF DecodedRight, Decodes, d
      <3>4. CASE q.line # "badline"
        <4> DEFINE w == WithBody(head, size)
        <4>1. e = [m |-> w, r |-> Result(w), first |-> TRUE]
          BY <2>3, <2>4, <3>1, <3>4 DEF TryDecode_
        <4>2. /\ head \in Messages /\ ~ head.complete /\ head.scanned = q.head + 4
              /\ head.contentLen = q.body /\ head.req = Pending
          <5>1. looked \in Messages /\ looked.complete = FALSE
            <6>1. looked.complete = msg.complete  BY <1>1 DEF Messages
            <6> QED  BY <6>1, <2>1, <3>2
          <5>2. q.head + 4 \in Nat  BY <1>2
          <5> HIDE DEF looked, scan, q
          <5> QED  BY <5>1, <5>2, <3>1, <1>2 DEF Messages
        <4> HIDE DEF e, w, head, looked, scan
        <4>3. /\ w \in Messages /\ w.req = Pending
              /\ \/ Result(w) = "Complete" /\ w.complete /\ w.scanned = Size(q) /\ w.scanned <= size
                 \/ Result(w) = "NotComplete" /\ AwaitsBody(w) /\ size < Size(q)
          <5>1. CASE size >= head.contentLen + head.scanned
            <6>1. /\ w = [head EXCEPT !.complete = TRUE, !.scanned = head.scanned + head.contentLen]
                  /\ w \in Messages /\ Result(w) = "Complete"
              BY <4>2, <5>1, WithBodyOK DEF w
            <6>2. w.req = Pending /\ w.scanned = head.scanned + head.contentLen /\ w.complete
              BY <6>1, <4>2 DEF Messages
            <6> HIDE DEF q
            <6>3. w.scanned = Size(q) /\ w.scanned <= size
              BY <6>2, <4>2, <5>1, <1>2
            <6> QED  BY <6>1, <6>2, <6>3
          <5>2. CASE ~ (size >= head.contentLen + head.scanned)
            <6>1. w = head /\ Result(w) = "NotComplete"
              BY <4>2, <5>2, WithBodyOK DEF w
            <6>2. head.contentLen > 0 /\ size < Size(q)
              <7> HIDE DEF q
              <7> QED  BY <5>2, <4>2, <2>7, <1>2
            <6>3. AwaitsBody(head)  BY <6>2, <4>2, <3>4 DEF AwaitsBody
            <6> QED  BY <6>1, <6>2, <6>3, <4>2
          <5> QED  BY <5>1, <5>2
        <4>4. CASE q.line = "baduri"
          <5>1. d = [e EXCEPT !.r = "Error"]
            <6>1. e.first = TRUE /\ e.m.req = Pending  BY <4>1, <4>3
            <6> QED  BY <6>1, <4>4, <1>2 DEF TryDecode, e
          <5>2. d.m = w /\ d.r = "Error"  BY <5>1, <4>1
          <5>3. Decodes(w)  BY <4>3, <4>4 DEF Decodes, Refused
          <5> HIDE DEF d
          <5> QED  BY <5>2, <5>3, <4>3 DEF DecodedRight, d
        <4>5. CASE q.line # "baduri"
          <5>1. d = e
            <6>1. e.first = TRUE /\ e.m.req = Pending  BY <4>1, <4>3
            <6> QED  BY <6>1, <4>5 DEF TryDecode, e
          <5>2. d.m = w /\ d.r = Result(w)  BY <5>1, <4>1
          <5>3. q.line = "good"  BY <4>5, <3>4, <1>2
          <5> HIDE DEF d
          <5> QED  BY <5>2, <5>3, <4>3 DEF DecodedRight, Decodes, d
        <4> QED  BY <4>4, <4>5
      <3> QED  BY <3>3, <3>4
    <2> QED  BY <2>6, <2>7
  <1> QED  BY <1>3, <1>4, <1>5 DEF Decodes

----------------------------------------------------------------------------
(* The handlers.                                                           *)

\* The answer shows its own request, and 404 for a name that is not known.
LEMMA RespondOK ==
    ASSUME HttpTypeOK, NEW i \in Index, script[i].line = "good", NEW r \in Respond(i)
    PROVE  /\ r \in Responses /\ i \in r.body
           /\ script[i].key = "unknown" => r.status = 404
  <1> DEFINE q == script[i]
  <1>1. resp \in Responses /\ script \in Scripts  BY DEF HttpTypeOK
  <1>2. i \in Nat
    <2>1. Len(script) \in Nat  BY <1>1, Starts
    <2> QED  BY <2>1 DEF Index
  <1>3. q.key \in {"none", "info", "file", "unknown"} /\ q.root \in BOOLEAN
        /\ (q.key = "none" => q.root)
    <2>1. q \in Requests /\ (q.line = "good" /\ q.key = "none" => q.root)
      BY <1>1, ScriptOK DEF Index
    <2> QED  BY <2>1 DEF Requests
  <1>4. ASSUME NEW c \in Callback(i)
        PROVE  /\ c \in Responses
               /\ q.key # "none" => i \in c.body
               /\ q.key = "unknown" => c.status = 404
    <2>1. NotFound(i) \in Responses /\ NotFound(i).status = 404 /\ i \in NotFound(i).body
      <3>1. {i} \in SUBSET Nat  BY <1>2
      <3>2. 404 \in {200, 404}  OBVIOUS
      <3>3. \A st \in {200, 404}, t \in SUBSET Nat :
               [resp EXCEPT !.status = st, !.body = t] \in Responses
        BY <1>1, ZenonT(40) DEF Responses
      <3>4. NotFound(i) \in Responses  BY <3>1, <3>2, <3>3 DEF NotFound
      <3>5. NotFound(i).status = 404 /\ i \in NotFound(i).body  BY <1>1 DEF NotFound, Responses
      <3> QED  BY <3>4, <3>5
    <2>2. CASE q.key = "info"
      <3>1. c = [resp EXCEPT !.body = {i}]  BY <1>4, <2>2 DEF Callback
      <3> QED  BY <3>1, <2>2, <1>1, <1>2 DEF Responses
    <2>3. CASE q.key = "file"
      <3>1. c \in {[resp EXCEPT !.body = @ \cup {i}, !.plain = TRUE], NotFound(i)}
        BY <1>4, <2>3 DEF Callback
      <3>2. CASE c = [resp EXCEPT !.body = @ \cup {i}, !.plain = TRUE]
        <4>1. (resp.body \cup {i}) \in SUBSET Nat /\ resp.status \in {200, 404}
          BY <1>1, <1>2 DEF Responses
        <4>2. c = [status |-> resp.status, body |-> resp.body \cup {i}, plain |-> TRUE]
          BY <3>2, <1>1 DEF Responses
        <4> QED  BY <4>1, <4>2, <2>3 DEF Responses
      <3>3. CASE c = NotFound(i)  BY <3>3, <2>1, <2>3
      <3> QED  BY <3>1, <3>2, <3>3
    <2>4. CASE q.key = "unknown"
      <3>1. c = NotFound(i)  BY <1>4, <2>4 DEF Callback
      <3> QED  BY <3>1, <2>1, <2>4
    <2>5. CASE q.key = "none"
      <3>1. c = resp  BY <1>4, <2>5 DEF Callback
      <3> QED  BY <3>1, <2>5, <1>1
    <2> HIDE DEF q
    <2> QED  BY <2>2, <2>3, <2>4, <2>5, <1>3
  <1>5. CASE q.root
    <2>1. PICK c \in Callback(i) : r = [c EXCEPT !.body = @ \cup {i}]  BY <1>5 DEF Respond
    <2>2. c \in Responses /\ (q.key = "unknown" => c.status = 404)  BY <1>4
    <2>3. r \in Responses /\ i \in r.body /\ r.status = c.status  BY <2>1, <2>2, <1>2 DEF Responses
    <2> QED  BY <2>2, <2>3
  <1>6. CASE ~ q.root
    <2>1. r \in Callback(i) /\ q.key # "none"  BY <1>3, <1>6 DEF Respond
    <2> QED  BY <2>1, <1>4
  <1> QED  BY <1>5, <1>6

LEMMA SamePlace ==
    ASSUME UNCHANGED <<script, answers>>
    PROVE  /\ Pending' = Pending /\ EndOfStream' = EndOfStream /\ Begin(Pending)' = Begin(Pending)
           /\ Answered => Answered'
           /\ \A m : Decodes(m)' <=> Decodes(m)
  BY DEF Pending, EndOfStream, Begin, Answered, Decodes, Scanning, AwaitsBody, Refused, Index

\* A read callback on the input up to g keeps the invariant; if it answers nothing and the
\* connection stays open, the request at the front is not there whole.
LEMMA HandleInputOK ==
    ASSUME HttpInv, conn \in {"open", "closing"},
           NEW g \in Nat, got <= g, g <= sent,
           NEW after \in {"open", "closing", "closed"}, NEW deliver \in BOOLEAN,
           deliver \/ after = "closed",
           HandleInput(g, after, deliver), UNCHANGED <<script, sent, fin>>
    PROVE  /\ HttpInv'
           /\ answers' = answers \/ Len(answers') > Len(answers)
           /\ conn' = "open" /\ answers' = answers
                => used' = used /\ got' = g /\ (g <= used \/ g < Begin(Pending + 1))
  <1>1. /\ HttpTypeOK /\ Streamed /\ Answered /\ used = Begin(Pending) /\ Decodes(msg)
    BY DEF HttpInv, Decoding
  <1>2. script \in Scripts /\ got \in Nat /\ used \in Nat /\ sent \in Nat /\ answers \in Seq(Answers)
    BY <1>1 DEF HttpTypeOK
  <1>3. Len(script) \in Nat /\ Len(answers) \in Nat /\ Len(answers) <= Len(script)
    BY <1>1, <1>2, Starts DEF Answered
  <1>4. used <= got /\ got <= sent /\ sent <= EndOfStream  BY <1>1 DEF Streamed
  <1>5. CASE ~ (g > used)
    <2>1. got' = g /\ conn' = after /\ UNCHANGED <<used, msg, resp, answers>>
      BY <1>5 DEF HandleInput
    <2>2. HttpTypeOK'  BY <2>1, <1>1 DEF HttpTypeOK
    <2>3. Streamed' /\ Answered' /\ Decoding'
      BY <2>1, <1>1, <1>4, <1>5, <1>2, SamePlace DEF Streamed, Decoding
    <2> QED  BY <2>1, <2>2, <2>3, <1>5, <1>2 DEF HttpInv
  <1>6. CASE g > used
    <2> DEFINE size == g - used
    <2>1. size \in Nat  BY <1>2, <1>6
    <2>2. Pending \in Index
      <3>1. Pending # Len(script) + 1  BY <1>1, <1>2, <1>4, <1>6 DEF EndOfStream
      <3> QED  BY <3>1, <1>3 DEF Pending, Index
    <2>3. /\ Begin(Pending + 1) = used + Size(script[Pending]) /\ Size(script[Pending]) \in Nat
          /\ Begin(Pending + 1) \in Nat
      <3>1. /\ Begin(Pending + 1) = Begin(Pending) + script[Pending].head + 4 + script[Pending].body
            /\ script[Pending].head \in Nat /\ script[Pending].body \in Nat
        BY <2>2, <1>2, Starts
      <3>2. Size(script[Pending]) = script[Pending].head + 4 + script[Pending].body  BY DEF Size
      <3>3. Begin(Pending + 1) = used + script[Pending].head + 4 + script[Pending].body
        BY <3>1, <1>1
      <3>4. PICK h \in Nat, b \in Nat : h = script[Pending].head /\ b = script[Pending].body
        BY <3>1
      <3>5. Size(script[Pending]) = h + 4 + b /\ Begin(Pending + 1) = used + h + 4 + b
        BY <3>2, <3>3, <3>4
      <3> QED  BY <3>5, <1>2
    <2>4. PICK d : /\ d = TryDecode(size)
                   /\ got' = g
                   /\ \/ /\ d.r = "NotComplete"
                         /\ msg' = d.m /\ conn' = after
                         /\ UNCHANGED <<used, resp, answers>>
                      \/ /\ d.r = "Error"
                         /\ msg' = d.m /\ conn' = IF after = "open" THEN "closing" ELSE after
                         /\ UNCHANGED <<used, resp, answers>>
                      \/ /\ d.r = "Complete" /\ script[d.m.req].line = "baduri"
                         /\ msg' = d.m /\ conn' = "aborted"
                         /\ UNCHANGED <<used, resp, answers>>
                      \/ /\ d.r = "Complete" /\ script[d.m.req].line # "baduri"
                         /\ resp' \in Respond(d.m.req)
                         /\ answers' = IF deliver THEN Append(answers, Encode(d.m.req, resp')) ELSE answers
                         /\ used' = Consumed(d.m) /\ msg' = Clear /\ conn' = after
      BY <1>6 DEF HandleInput, HandleRead
    <2>5. DecodedRight(d, size)  BY <2>1, <2>2, <2>4, <1>1, DecodeOK
    <2>6. ASSUME UNCHANGED <<used, resp, answers>>, msg' = d.m,
                 conn' \in {"open", "closing", "closed", "aborted"},
                 conn' \in {"open", "closing"} => Decodes(d.m)
          PROVE  HttpInv'
      <3>1. d.m \in Messages  BY <2>5 DEF DecodedRight
      <3>2. HttpTypeOK'  BY <2>4, <2>6, <3>1, <1>1 DEF HttpTypeOK
      <3>3. Streamed' /\ Answered' /\ Decoding'
        <4>1. UNCHANGED <<script, answers>>  BY <2>6
        <4>2. Streamed'  BY <4>1, <2>4, <2>6, <1>2, <1>4, <1>6, SamePlace DEF Streamed
        <4>3. Answered' /\ Begin(Pending)' = Begin(Pending) /\ (Decodes(d.m)' <=> Decodes(d.m))
          BY <4>1, <1>1, SamePlace
        <4>4. Decodes(d.m)' => Decodes(msg)'  BY <2>6
        <4> QED  BY <4>2, <4>3, <4>4, <2>6, <1>1 DEF Decoding
      <3> QED  BY <3>2, <3>3 DEF HttpInv
    <2>7. CASE d.r = "NotComplete"
      <3>1. msg' = d.m /\ conn' = after /\ UNCHANGED <<used, resp, answers>>  BY <2>4, <2>7
      <3>2. Decodes(d.m) /\ size < Size(script[Pending])  BY <2>5, <2>7 DEF DecodedRight
      <3>3. HttpInv'  BY <3>1, <3>2, <2>6
      <3>4. g < Begin(Pending + 1)  BY <3>2, <2>3, <1>2
      <3> QED  BY <3>1, <3>3, <3>4, <2>4
    <2>8. CASE d.r = "Error"
      <3>1. /\ msg' = d.m /\ conn' = IF after = "open" THEN "closing" ELSE after
            /\ UNCHANGED <<used, resp, answers>>
        BY <2>4, <2>8
      <3>2. Decodes(d.m)  BY <2>5, <2>8 DEF DecodedRight
      <3>3. conn' \in {"closing", "closed"}  BY <3>1
      <3> QED  BY <3>1, <3>2, <3>3, <2>6
    <2>9. CASE d.r = "Complete" /\ script[d.m.req].line = "baduri"
      <3>1. msg' = d.m /\ conn' = "aborted" /\ UNCHANGED <<used, resp, answers>>
        BY <2>4, <2>9
      <3> QED  BY <3>1, <2>6
    <2>10. CASE d.r = "Complete" /\ script[d.m.req].line # "baduri"
      <3>1. d.m.req = Pending /\ script[Pending].line = "good"
            /\ d.m.scanned = Size(script[Pending]) /\ d.m.scanned <= size
        BY <2>5, <2>10 DEF DecodedRight
      <3>2. /\ resp' \in Respond(Pending)
            /\ answers' = IF deliver THEN Append(answers, Encode(Pending, resp')) ELSE answers
            /\ used' = used + d.m.scanned /\ msg' = Clear /\ conn' = after /\ got' = g
        BY <3>1, <2>4, <2>10 DEF Consumed
      <3> DEFINE a == Encode(Pending, resp')
      <3>3. /\ resp' \in Responses /\ Pending \in resp'.body
            /\ script[Pending].key = "unknown" => resp'.status = 404
        BY <3>1, <3>2, <2>2, <1>1, RespondOK
      <3>4. /\ a \in Answers /\ a.req = Pending /\ Pending \in a.body
            /\ script[Pending].key = "unknown" => a.status = 404
        <4>1. Pending \in Nat  BY <1>3 DEF Pending
        <4> QED  BY <4>1, <3>3 DEF Encode, Answers, Responses
      <3> HIDE DEF a
      <3>5. used' = Begin(Pending + 1) /\ used' \in Nat /\ used' <= g
        BY <3>1, <3>2, <2>3, <1>2, <1>6
      <3>6. Clear \in Messages  BY DEF Clear, Messages
      <3>7. EndOfStream' = EndOfStream  BY DEF EndOfStream, Begin
      <3>8. Streamed'  BY <3>2, <3>5, <3>7, <1>4 DEF Streamed
      <3>9. CASE deliver
        <4>1. answers' = Append(answers, a)  BY <3>2, <3>9 DEF a
        <4>2. /\ answers' \in Seq(Answers) /\ Len(answers') = Len(answers) + 1
              /\ answers'[Len(answers) + 1] = a
              /\ \A k \in 1 .. Len(answers) : answers'[k] = answers[k]
          BY <4>1, <3>4, <1>2
        <4>3. HttpTypeOK'  BY <4>2, <3>2, <3>3, <3>5, <3>6, <1>1 DEF HttpTypeOK
        <4>4. Answered'
          <5>1. Len(answers') <= Len(script')  BY <4>2, <2>2, <1>3 DEF Pending, Index
          <5>2. ASSUME NEW k \in 1 .. Len(answers')
                PROVE  /\ answers'[k].req = k /\ k \in answers'[k].body
                       /\ script'[k].key = "unknown" => answers'[k].status = 404
            <6>1. CASE k = Len(answers) + 1  BY <6>1, <4>2, <3>4 DEF Pending
            <6>2. CASE k # Len(answers) + 1
              <7>1. k \in 1 .. Len(answers)  BY <6>2, <4>2, <1>3
              <7> QED  BY <7>1, <4>2, <1>1 DEF Answered
            <6> QED  BY <6>1, <6>2
          <5> QED  BY <5>1, <5>2 DEF Answered
        <4>5. Pending' = Pending + 1  BY <4>2 DEF Pending
        <4>6. used' = Begin(Pending)'  BY <4>5, <3>5 DEF Begin
        <4>7. Scanning(msg)'
          <5>1. Pending' \in Index' => script[Pending'].head \in Nat
            BY <1>2, Starts DEF Index
          <5>2. msg'.scanned = 0 /\ msg'.contentLen = 0 /\ ~ msg'.complete /\ msg'.req = 0
            BY <3>2 DEF Clear
          <5> QED  BY <5>1, <5>2 DEF Scanning
        <4>8. answers' # answers /\ Len(answers') > Len(answers)  BY <4>2, <1>3
        <4> QED  BY <4>3, <4>4, <4>6, <4>7, <4>8, <3>8 DEF HttpInv, Decoding, Decodes
      <3>10. CASE ~ deliver
        <4>1. answers' = answers /\ conn' = "closed"  BY <3>2, <3>10
        <4>2. HttpTypeOK'  BY <4>1, <3>2, <3>3, <3>5, <3>6, <1>1 DEF HttpTypeOK
        <4>3. Answered'  BY <4>1, <1>1, SamePlace
        <4> QED  BY <4>1, <4>2, <4>3, <3>8 DEF HttpInv, Decoding
      <3> QED  BY <3>9, <3>10
    <2> QED  BY <2>4, <2>7, <2>8, <2>9, <2>10
  <1> QED  BY <1>5, <1>6

\* The callback of each event, and what it is called with.
LEMMA EventOK ==
    ASSUME HttpInv, ReadEvent \/ EndEvent \/ CloseTask
    PROVE  /\ HttpInv' /\ script' = script
           /\ answers' = answers \/ Len(answers') > Len(answers)
           /\ conn' = "open" /\ answers' = answers
                => used' = used /\ (got' <= used \/ got' < Begin(Pending + 1))
  <1>1. got \in Nat /\ sent \in Nat /\ got <= sent /\ got <= got
    BY DEF HttpInv, HttpTypeOK, Streamed
  <1>2. CASE ReadEvent
    <2>1. /\ conn \in {"open", "closing"} /\ HandleInput(sent, conn, TRUE)
          /\ UNCHANGED <<script, sent, fin>>
      BY <1>2 DEF ReadEvent
    <2>2. PICK g \in Nat, after \in {"open", "closing", "closed"}, deliver \in BOOLEAN :
             /\ g = sent /\ after = conn /\ deliver = TRUE
      BY <1>1, <2>1
    <2>3. HandleInput(g, after, deliver)  BY <2>1, <2>2
    <2>4. got <= g /\ g <= sent /\ deliver  BY <1>1, <2>2
    <2> QED  BY <2>1, <2>3, <2>4, HandleInputOK
  <1>3. CASE EndEvent
    <2>1. /\ conn \in {"open", "closing"} /\ HandleInput(sent, "closed", TRUE)
          /\ UNCHANGED <<script, sent, fin>>
      BY <1>3 DEF EndEvent
    <2>2. PICK g \in Nat, after \in {"open", "closing", "closed"}, deliver \in BOOLEAN :
             /\ g = sent /\ after = "closed" /\ deliver = TRUE
      BY <1>1
    <2>3. HandleInput(g, after, deliver)  BY <2>1, <2>2
    <2>4. got <= g /\ g <= sent /\ after = "closed"  BY <1>1, <2>2
    <2> QED  BY <2>1, <2>3, <2>4, HandleInputOK
  <1>4. CASE CloseTask
    <2>1. /\ conn \in {"open", "closing"} /\ HandleInput(got, "closed", FALSE)
          /\ UNCHANGED <<script, sent, fin>>
      BY <1>4 DEF CloseTask
    <2>2. PICK g \in Nat, after \in {"open", "closing", "closed"}, deliver \in BOOLEAN :
             /\ g = got /\ after = "closed" /\ deliver = FALSE
      BY <1>1
    <2>3. HandleInput(g, after, deliver)  BY <2>1, <2>2
    <2>4. got <= g /\ g <= sent /\ after = "closed"  BY <1>1, <2>2
    <2> QED  BY <2>1, <2>3, <2>4, HandleInputOK
  <1> QED  BY <1>2, <1>3, <1>4

\* What the client does.
LEMMA ClientOK ==
    ASSUME HttpInv, Send \/ ShutDown \/ UNCHANGED httpVars
    PROVE  HttpInv' /\ UNCHANGED <<script, got, used, conn, answers>>
  <1>1. /\ UNCHANGED <<script, got, used, msg, resp, conn, answers>>
        /\ fin' \in BOOLEAN /\ sent' \in Nat /\ sent' >= sent /\ sent' <= EndOfStream
    <2>1. /\ sent \in Nat /\ fin \in BOOLEAN /\ sent <= EndOfStream /\ EndOfStream \in Nat
      <3>1. script \in Scripts  BY DEF HttpInv, HttpTypeOK
      <3>2. Len(script) + 1 \in 1 .. Len(script) + 2  BY <3>1, Starts
      <3> QED  BY <3>1, <3>2, Starts DEF HttpInv, HttpTypeOK, Streamed, EndOfStream
    <2>2. CASE Send  BY <2>1, <2>2 DEF Send
    <2>3. CASE ShutDown  BY <2>1, <2>3 DEF ShutDown
    <2>4. CASE UNCHANGED httpVars  BY <2>1, <2>4 DEF httpVars
    <2> QED  BY <2>2, <2>3, <2>4
  <1>2. HttpTypeOK'  BY <1>1 DEF HttpInv, HttpTypeOK
  <1>3. Streamed'
    <2>1. got \in Nat /\ sent \in Nat /\ used <= got /\ got <= sent  BY DEF HttpInv, HttpTypeOK, Streamed
    <2>2. EndOfStream' = EndOfStream  BY <1>1, SamePlace
    <2> QED  BY <1>1, <2>1, <2>2 DEF Streamed
  <1>4. Answered'  BY <1>1, SamePlace DEF HttpInv
  <1>5. Decoding'
    <2>1. Begin(Pending)' = Begin(Pending) /\ (Decodes(msg)' <=> Decodes(msg))
      BY <1>1 DEF Pending, Begin, Decodes, Scanning, AwaitsBody, Refused, Index
    <2> QED  BY <1>1, <2>1 DEF HttpInv, Decoding
  <1> QED  BY <1>1, <1>2, <1>3, <1>4, <1>5 DEF HttpInv

LEMMA HttpInitOK == HttpInit => HttpInv
  <1> SUFFICES ASSUME HttpInit PROVE HttpInv  OBVIOUS
  <1>1. /\ script \in Scripts /\ sent = 0 /\ fin = FALSE /\ got = 0 /\ used = 0
        /\ msg = Clear /\ resp = NewResponse /\ conn = "open" /\ answers = <<>>
    BY DEF HttpInit
  <1>2. Len(answers) = 0 /\ Pending = 1 /\ answers \in Seq(Answers)  BY <1>1 DEF Pending
  <1>3. msg \in Messages /\ resp \in Responses
    BY <1>1 DEF Clear, NewResponse, Messages, Responses
  <1>4. HttpTypeOK  BY <1>1, <1>2, <1>3 DEF HttpTypeOK
  <1>5. Streamed
    <2>1. Len(script) + 1 \in 1 .. Len(script) + 2  BY <1>1, Starts
    <2>2. EndOfStream \in Nat  BY <2>1, <1>1, Starts DEF EndOfStream
    <2> QED  BY <1>1, <2>2 DEF Streamed
  <1>6. Answered  BY <1>1, <1>2, Starts DEF Answered
  <1>7. Decoding
    <2>1. used = Begin(Pending)  BY <1>1, <1>2, Starts
    <2>2. Scanning(msg)
      <3>1. Pending \in Index => script[Pending].head \in Nat  BY <1>1, Starts
      <3>2. msg.scanned = 0 /\ msg.contentLen = 0 /\ ~ msg.complete /\ msg.req = 0
        BY <1>1 DEF Clear
      <3> QED  BY <3>1, <3>2 DEF Scanning
    <2> QED  BY <2>1, <2>2 DEF Decoding, Decodes
  <1> QED  BY <1>4, <1>5, <1>6, <1>7 DEF HttpInv

LEMMA HttpNextOK == HttpInv /\ [HttpNext]_httpVars => HttpInv'
  BY EventOK, ClientOK DEF HttpNext

LEMMA HttpInvariant == HttpSafeSpec => []HttpInv
  BY HttpInitOK, HttpNextOK, PTL DEF HttpSafeSpec

\* The counters, the request, the response and the answers of an HTTP connection keep
\* their types.
THEOREM HttpTypeCorrect == HttpSafeSpec => []HttpTypeOK
  BY HttpInvariant, PTL DEF HttpInv

\* However the bytes of the requests are cut and joined on their way, handleRead answers
\* them in their order, each once and with its own result; for every set of scripts.
THEOREM AnswersStayInOrder == HttpSafeSpec => []AnswersInOrder
  <1>1. HttpInv => AnswersInOrder
    BY DEF HttpInv, Streamed, Answered, Decoding, AnswersInOrder, Pending
  <1> QED  BY <1>1, HttpInvariant, PTL

\* A request that is there whole is left without an answer only behind an answer that the
\* same read event gave.
THEOREM StrandedOnlyBehindAnswer == HttpSafeSpec => StrandedBehindAnswer
  <1>1. HttpInv /\ [HttpNext]_httpVars
          => [~Stranded /\ Stranded' => Len(answers') > Len(answers)]_httpVars
    <2> SUFFICES ASSUME HttpInv, HttpNext, ~ Stranded, Stranded'
                 PROVE  Len(answers') > Len(answers)
      BY DEF httpVars
    <2>1. CASE Send \/ ShutDown
      <3>1. UNCHANGED <<script, got, used, conn, answers>>  BY <2>1, ClientOK
      <3> QED  BY <3>1 DEF Stranded, Whole, AtFront, Begin, Index
    <2>2. CASE ReadEvent \/ EndEvent \/ CloseTask
      <3>1. /\ HttpInv' /\ script' = script
            /\ answers' = answers \/ Len(answers') > Len(answers)
            /\ conn' = "open" /\ answers' = answers
                  => used' = used /\ (got' <= used \/ got' < Begin(Pending + 1))
        BY <2>2, EventOK
      <3> SUFFICES ASSUME answers' = answers PROVE FALSE  BY <3>1
      <3>2. conn' = "open" /\ Whole'  BY DEF Stranded
      <3>3. used' = used /\ (got' <= used \/ got' < Begin(Pending + 1))  BY <3>1, <3>2
      <3>4. used = Begin(Pending) /\ script \in Scripts /\ used \in Nat /\ got' \in Nat
        <4>1. used' = Begin(Pending)' /\ script \in Scripts /\ used \in Nat /\ got' \in Nat
          BY <3>1, <3>2 DEF HttpInv, HttpTypeOK, Decoding
        <4>2. Begin(Pending)' = Begin(Pending)  BY <3>1 DEF Begin, Pending
        <4> QED  BY <4>1, <4>2, <3>3
      <3>5. PICK i \in Index : Begin(i) = used /\ got' >= Begin(i + 1)
        <4>1. PICK i \in Index : Begin(i)' = used' /\ got' >= Begin(i + 1)'
          BY <3>1, <3>2 DEF Whole, AtFront, Index
        <4> QED  BY <4>1, <3>1, <3>3 DEF Begin
      <3>6. /\ Begin(i + 1) = Begin(i) + script[i].head + 4 + script[i].body
            /\ script[i].head \in Nat /\ script[i].body \in Nat
        BY <3>4, Starts
      <3>7. got' < Begin(Pending + 1)  BY <3>3, <3>4, <3>5, <3>6
      <3>8. CASE Pending \in Index
        <4>1. i = Pending  BY <3>4, <3>5, <3>8, FrontIsPending DEF AtFront
        <4> QED  BY <4>1, <3>4, <3>5, <3>6, <3>7
      <3>9. CASE Pending \notin Index
        <4>1. Len(answers) \in Nat /\ Len(script) \in Nat /\ Len(answers) <= Len(script)
          BY <3>4, Starts DEF HttpInv, HttpTypeOK, Answered
        <4>2. Pending = Len(script) + 1  BY <4>1, <3>9 DEF Pending, Index
        <4>3. i + 1 \in 1 .. Len(script) + 1 /\ Pending \in 1 .. Len(script) + 1 /\ i + 1 <= Pending
          BY <4>1, <4>2 DEF Index
        <4>4. Begin(i + 1) <= Begin(Pending)  BY <4>3, <3>4, Starts
        <4> QED  BY <4>4, <3>4, <3>5, <3>6
      <3> QED  BY <3>8, <3>9
    <2> QED  BY <2>1, <2>2 DEF HttpNext
  <1> QED  BY <1>1, HttpInvariant, PTL DEF HttpSafeSpec, StrandedBehindAnswer
=============================================================================
