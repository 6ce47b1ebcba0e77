--------------------------- MODULE EosEvents_proof ---------------------------
(***************************************************************************)
(* First PropAvail: the linked list of supported values stays sound for    *)
(* every sequence of events, with lists of every length and, as far as it  *)
(* is sound, members of every size: one node for each property, and what   *)
(* is copied and compared inside its allocation, although memb_cnt is      *)
(* never brought up to date.  And validation goes by the last list         *)
(* announced, as far as memb_cnt goes.                                     *)
(* Then the reader of event packets: whatever the camera sends and whoever *)
(* replaces it meanwhile, each of its steps is one of PropAvail, so that   *)
(* what is proved there holds here, for stray records too.  And a reader   *)
(* that holds the mutex gets the event and the list of every record.       *)
(***************************************************************************)
EXTENDS EosEvents, SequenceTheorems, NaturalsInduction, WellFoundedInduction,
        TLAPS

\* What a list is.
List == [size : Nat, values : Seq(Value)]

\* Members there are, whatever they read as, and the size of a node's members
\* is one that was announced; while that is the only one, there is room for
\* the members and for what was copied.
NodeOK(node, announced) ==
  /\ node.memb_cnt <= Len(node.data)
  /\ node.memb_size \in announced[node.code]
  /\ (\A m, n \in announced[node.code] : m = n) =>
       /\ node.filled <= node.room
       /\ node.memb_size * node.memb_cnt <= node.room

Inv ==
  /\ TypeOK /\ OneNode
  /\ sizes \in [Code -> SUBSET Nat]
  /\ \A i \in 1..Len(avail) : NodeOK(avail[i], sizes)

\* More members of one size take more room.
LEMMA MoreMembers ==
  ASSUME NEW s \in Nat, NEW m \in Nat, NEW n \in Nat, m <= n
  PROVE  s * m \in Nat /\ s * m <= s * n
<1>1. n = m + (n - m) /\ n - m \in Nat OBVIOUS
<1>2. s * (m + (n - m)) = s * m + s * (n - m) OBVIOUS
<1>3. s * m \in Nat /\ s * (n - m) \in Nat BY <1>1
<1> QED BY <1>1, <1>2, <1>3

\* What an update leaves: at least as many members as memb_cnt says, the new
\* ones in front if they have the size of the node's, and room for them.
LEMMA UpdatedSound ==
  ASSUME NEW node \in Node, NEW list \in List,
         node.memb_cnt <= Len(node.data)
  PROVE  /\ Updated(node, list) \in Node
         /\ Updated(node, list).code = node.code
         /\ Updated(node, list).memb_size = node.memb_size
         /\ Updated(node, list).memb_cnt = node.memb_cnt
         /\ node.memb_cnt <= Len(Updated(node, list).data)
         /\ list.size = node.memb_size =>
              Begins(Updated(node, list).data, list.values)
         /\ list.size = node.memb_size
              /\ node.memb_size * node.memb_cnt <= node.room =>
              /\ Updated(node, list).filled <= Updated(node, list).room
              /\ node.memb_size * node.memb_cnt <= Updated(node, list).room
<1> DEFINE new == list.values
           cnt == node.memb_cnt
           old == node.data
           m == Len(new)
           data == Overwrite(node, list)
           M == Value \cup {Mixed}
<1>1. /\ new \in Seq(Value) /\ m \in Nat /\ cnt \in Nat /\ list.size \in Nat
      /\ old \in Seq(M) /\ Len(old) \in Nat /\ node.memb_size \in Nat
      /\ node.room \in Nat /\ cnt <= Len(old) /\ new \in Seq(M)
  BY DEF List, Node
<1>2. /\ data \in Seq(M) /\ cnt <= Len(data)
      /\ list.size = node.memb_size => Begins(data, new)
  <2>1. CASE list.size # node.memb_size
    <3>1. data = [i \in 1..cnt |-> Mixed] BY <2>1 DEF Overwrite
    <3>2. data \in [1..cnt -> M] BY <3>1
    <3> HIDE DEF data, M, cnt
    <3>3. data \in Seq(M) /\ Len(data) = cnt BY <1>1, <3>1, <3>2
    <3> QED BY <1>1, <2>1, <3>3
  <2>2. CASE list.size = node.memb_size /\ m > cnt
    <3>1. data = new BY <2>2 DEF Overwrite
    <3> HIDE DEF data, M, cnt, new
    <3> QED BY <1>1, <2>2, <3>1 DEF Begins
  <2>3. CASE list.size = node.memb_size /\ ~(m > cnt)
    <3> DEFINE tail == SubSeq(old, m + 1, Len(old))
    <3>1. data = new \o tail BY <2>3 DEF Overwrite
    <3>2. tail \in Seq(M) /\ Len(tail) = Len(old) - m
      <4> HIDE DEF M, cnt, old, m
      <4>1. CASE m < Len(old)
        <5>1. m + 1 \in 1..Len(old) /\ Len(old) \in 1..Len(old)
          BY <1>1, <4>1
        <5>2. Len(tail) = Len(old) - (m + 1) + 1 /\ tail \in Seq(M)
          BY <1>1, <5>1, SubSeqProperties
        <5> QED BY <1>1, <5>2
      <4>2. CASE m = Len(old)
        BY <1>1, <4>2, SubSeqProperties
      <4> QED BY <1>1, <2>3, <4>1, <4>2
    <3> HIDE DEF tail, data, M, cnt, new, old
    <3>3. /\ data \in Seq(M) /\ Len(data) = m + Len(tail)
          /\ \A k \in 1..m : data[k] = new[k]
      BY <1>1, <3>1, <3>2, ConcatProperties
    <3>4. Len(data) = Len(old) BY <1>1, <3>2, <3>3
    <3>5. \A k \in 1..m : k <= Len(data) BY <1>1, <2>3, <3>4
    <3> QED BY <1>1, <3>3, <3>4, <3>5 DEF Begins
  <2> QED BY <2>1, <2>2, <2>3
<1>3. Bytes(list) = list.size * m /\ Bytes(list) \in Nat
  BY <1>1, MoreMembers DEF Bytes
<1>4. Room(node, list) = IF m > cnt THEN Bytes(list) ELSE node.room
  BY DEF Room
<1>5. Room(node, list) \in Nat BY <1>1, <1>3, <1>4
<1> HIDE DEF data, M, m, old, new, cnt
<1>6. /\ Updated(node, list) = [node EXCEPT !.room = Room(node, list),
                                 !.filled = Bytes(list), !.data = data]
      /\ Updated(node, list) \in Node
  <2>1. Updated(node, list) = [node EXCEPT !.room = Room(node, list),
                                 !.filled = Bytes(list), !.data = data]
    BY DEF Updated, data
  <2>2. Updated(node, list) \in Node BY <1>2, <1>3, <1>5, <2>1 DEF Node, M
  <2> QED BY <2>1, <2>2
<1>7. /\ Updated(node, list).code = node.code
      /\ Updated(node, list).memb_size = node.memb_size
      /\ Updated(node, list).memb_cnt = node.memb_cnt
      /\ Updated(node, list).data = data
      /\ Updated(node, list).room = Room(node, list)
      /\ Updated(node, list).filled = Bytes(list)
  BY <1>6 DEF Node
<1>8. ASSUME list.size = node.memb_size, node.memb_size * cnt <= node.room
      PROVE  /\ Bytes(list) <= Room(node, list)
             /\ node.memb_size * cnt <= Room(node, list)
  <2>1. CASE m > cnt
    <3>1. cnt <= m BY <1>1, <2>1
    <3>2. list.size * cnt <= list.size * m BY <1>1, <3>1, MoreMembers
    <3> QED BY <1>3, <1>4, <1>8, <2>1, <3>2
  <2>2. CASE ~(m > cnt)
    <3>1. m <= cnt BY <1>1, <2>2
    <3>2. list.size * m <= list.size * cnt
          /\ list.size * cnt \in Nat /\ list.size * m \in Nat
      BY <1>1, <3>1, MoreMembers
    <3>3. node.room = Room(node, list) BY <1>4, <2>2
    <3>4. list.size * cnt <= node.room BY <1>8
    <3>5. Bytes(list) = list.size * m BY <1>3
    <3>6. Bytes(list) <= node.room BY <1>1, <3>2, <3>4, <3>5
    <3> QED BY <1>8, <3>3, <3>6
  <2> QED BY <2>1, <2>2
<1> QED BY <1>2, <1>6, <1>7, <1>8 DEF new, cnt

\* A property that has a node is found: there is but one.
LEMMA Found ==
  ASSUME OneNode, NEW code
  PROVE  Find(code) = Nodes(code)
BY DEF Find, Nodes, OneNode

\* A new node.
LEMMA FreshSound ==
  ASSUME NEW code \in Code, NEW list \in List
  PROVE  /\ Fresh(code, list) \in Node
         /\ Fresh(code, list).code = code
         /\ Fresh(code, list).memb_size = list.size
         /\ Fresh(code, list).memb_cnt = Len(list.values)
         /\ Fresh(code, list).data = list.values
         /\ Fresh(code, list).filled = Bytes(list)
         /\ Fresh(code, list).room = Bytes(list)
         /\ Bytes(list) = list.size * Len(list.values)
         /\ Bytes(list) \in Nat
<1>1. list.size \in Nat /\ list.values \in Seq(Value) BY DEF List
<1>2. Len(list.values) \in Nat BY <1>1
<1>3. Bytes(list) = list.size * Len(list.values) /\ Bytes(list) \in Nat
  BY <1>1, <1>2, MoreMembers DEF Bytes
<1>4. list.values \in Seq(Value \cup {Mixed}) BY <1>1
<1>5. Fresh(code, list) \in Node BY <1>1, <1>2, <1>3, <1>4 DEF Fresh, Node
<1> QED BY <1>3, <1>5 DEF Fresh

\* The node of one property changes, or a new one comes; the others stay.
LEMMA OneChanges ==
  ASSUME Inv, NEW code \in Code, NEW list \in List, SetPropAvail(code, list)
  PROVE  /\ avail' \in Seq(Node)
         /\ \/ /\ Len(avail') = Len(avail) /\ Nodes(code) # {}
               /\ \A i \in 1..Len(avail) :
                    /\ avail[i].code = code => avail'[i] = Updated(avail[i], list)
                    /\ avail[i].code # code => avail'[i] = avail[i]
            \/ /\ Len(avail') = Len(avail) + 1 /\ Nodes(code) = {}
               /\ \A i \in 1..Len(avail) :
                    avail[i].code # code /\ avail'[i] = avail[i]
               /\ avail'[Len(avail) + 1] = Fresh(code, list)
<1>1. avail \in Seq(Node) /\ Len(avail) \in Nat BY DEF Inv, TypeOK
<1>2. Find(code) = Nodes(code) BY Found DEF Inv
<1>3. CASE Find(code) # {}
  <2> DEFINE set(j) == IF j \in Find(code) THEN Updated(avail[j], list)
                       ELSE avail[j]
  <2>1. avail' = [j \in 1..Len(avail) |-> set(j)]
    BY <1>3 DEF SetPropAvail
  <2>2. ASSUME NEW j \in 1..Len(avail) PROVE set(j) \in Node
    <3>1. avail[j] \in Node /\ avail[j].memb_cnt <= Len(avail[j].data)
      BY <1>1 DEF Inv, NodeOK
    <3> QED BY <3>1, UpdatedSound
  <2> HIDE DEF set
  <2>3. avail' \in Seq(Node) /\ Len(avail') = Len(avail)
    <3>1. avail' \in [1..Len(avail) -> Node] BY <2>1, <2>2
    <3> QED BY <1>1, <3>1
  <2>4. \A j \in 1..Len(avail) : avail'[j] = set(j) BY <2>1
  <2>5. \A j \in 1..Len(avail) :
          /\ avail[j].code = code => set(j) = Updated(avail[j], list)
          /\ avail[j].code # code => set(j) = avail[j]
    BY <1>2 DEF set, Nodes
  <2> QED BY <1>2, <1>3, <2>3, <2>4, <2>5
<1>4. CASE Find(code) = {}
  <2> DEFINE node == Fresh(code, list)
  <2>1. node \in Node BY FreshSound
  <2>2. avail' = Append(avail, node) BY <1>4 DEF SetPropAvail
  <2>3. \A i \in 1..Len(avail) : avail[i].code # code
    BY <1>2, <1>4 DEF Nodes
  <2> HIDE DEF node
  <2>4. /\ avail' \in Seq(Node)
        /\ Len(avail') = Len(avail) + 1
        /\ avail'[Len(avail) + 1] = node
        /\ \A i \in 1..Len(avail) : avail'[i] = avail[i]
    BY <1>1, <2>1, <2>2, AppendProperties
  <2> QED BY <1>2, <1>4, <2>3, <2>4 DEF node
<1> QED BY <1>3, <1>4

\* An update keeps the chain sound.
LEMMA SetPropAvailSound ==
  ASSUME Inv, NEW code \in Code, NEW list \in List, SetPropAvail(code, list),
         sizes' = [sizes EXCEPT ![code] = @ \cup {list.size}]
  PROVE  /\ Inv'
         /\ \A c \in Code : Steady(c)' => Steady(c)
         /\ Steady(code)' => \A n \in sizes[code] : n = list.size
         /\ \A c \in Code \ {code} : Steady(c)' = Steady(c)
<1>1. avail \in Seq(Node) /\ Len(avail) \in Nat BY DEF Inv, TypeOK
<1>2. /\ sizes' \in [Code -> SUBSET Nat]
      /\ sizes'[code] = sizes[code] \cup {list.size}
      /\ \A c \in Code \ {code} : sizes'[c] = sizes[c]
      /\ \A c \in Code : sizes[c] \subseteq sizes'[c]
  BY DEF Inv, List
<1>3. /\ \A c \in Code : Steady(c)' => Steady(c)
      /\ Steady(code)' => \A n \in sizes[code] : n = list.size
      /\ \A c \in Code \ {code} : Steady(c)' = Steady(c)
  BY <1>2 DEF Steady
<1>4. ASSUME NEW i \in 1..Len(avail)
      PROVE  avail[i] \in Node /\ avail[i].code \in Code /\ NodeOK(avail[i], sizes)
  <2>1. avail[i] \in Node BY <1>1
  <2> QED BY <2>1 DEF Node, Inv
\* A node that stays.
<1>5. ASSUME NEW node \in Node, NodeOK(node, sizes) PROVE NodeOK(node, sizes')
  <2>1. node.code \in Code BY DEF Node
  <2> QED BY <1>2, <1>3, <1>5, <2>1 DEF NodeOK
<1>6. ASSUME NEW i \in 1..Len(avail), avail[i].code = code
      PROVE  /\ NodeOK(Updated(avail[i], list), sizes')
             /\ Updated(avail[i], list).code = code
  <2>1. avail[i] \in Node /\ NodeOK(avail[i], sizes) BY <1>4
  <2> DEFINE node == avail[i]
             u == Updated(avail[i], list)
  <2>2. /\ u.code = code /\ u.memb_size = node.memb_size
        /\ u.memb_cnt = node.memb_cnt /\ node.memb_cnt <= Len(u.data)
        /\ list.size = node.memb_size
             /\ node.memb_size * node.memb_cnt <= node.room =>
             /\ u.filled <= u.room
             /\ node.memb_size * node.memb_cnt <= u.room
    BY <1>6, <2>1, UpdatedSound DEF NodeOK
  <2>3. node.memb_size \in sizes[code] /\ node.memb_size \in sizes'[code]
    BY <1>2, <1>6, <2>1 DEF NodeOK
  <2>4. Steady(code)' => /\ list.size = node.memb_size
                         /\ node.memb_size * node.memb_cnt <= node.room
    BY <1>3, <1>6, <2>1, <2>3 DEF NodeOK
  <2> HIDE DEF node, u
  <2>5. NodeOK(u, sizes') BY <2>2, <2>3, <2>4 DEF NodeOK, Steady
  <2> QED BY <2>2, <2>5 DEF u
<1>7. CASE /\ Len(avail') = Len(avail) /\ avail' \in Seq(Node)
           /\ \A i \in 1..Len(avail) :
                /\ avail[i].code = code => avail'[i] = Updated(avail[i], list)
                /\ avail[i].code # code => avail'[i] = avail[i]
  <2>1. ASSUME NEW i \in 1..Len(avail)
        PROVE  avail'[i].code = avail[i].code /\ NodeOK(avail'[i], sizes')
    <3>1. CASE avail[i].code = code BY <1>6, <1>7, <3>1
    <3>2. CASE avail[i].code # code
      <4>1. NodeOK(avail[i], sizes) /\ avail[i] \in Node BY <1>4
      <4>2. PICK node \in Node : node = avail[i] BY <4>1
      <4>3. NodeOK(node, sizes') BY <1>5, <4>1, <4>2
      <4> QED BY <1>7, <3>2, <4>2, <4>3
    <3> QED BY <3>1, <3>2
  <2>2. OneNode' BY <1>7, <2>1 DEF Inv, OneNode
  <2>3. \A i \in 1..Len(avail') : NodeOK(avail'[i], sizes') BY <1>7, <2>1
  <2> QED BY <1>2, <1>3, <1>7, <2>2, <2>3 DEF Inv, TypeOK
<1>8. CASE /\ Len(avail') = Len(avail) + 1 /\ avail' \in Seq(Node)
           /\ \A i \in 1..Len(avail) :
                avail[i].code # code /\ avail'[i] = avail[i]
           /\ avail'[Len(avail) + 1] = Fresh(code, list)
  <2>1. ASSUME NEW i \in 1..Len(avail)
        PROVE  avail'[i].code = avail[i].code /\ NodeOK(avail'[i], sizes')
    <3>1. NodeOK(avail[i], sizes) /\ avail[i] \in Node BY <1>4
    <3>2. PICK node \in Node : node = avail[i] BY <3>1
    <3>3. NodeOK(node, sizes') BY <1>5, <3>1, <3>2
    <3> QED BY <1>8, <3>2, <3>3
  <2>2. PICK new \in Node : new = Fresh(code, list) BY FreshSound
  <2>3. /\ new.code = code /\ new.memb_size = list.size
        /\ new.memb_cnt = Len(new.data) /\ new.filled = new.room
        /\ new.memb_size * new.memb_cnt = new.room
    BY <2>2, FreshSound
  <2>4. /\ new.memb_cnt \in Nat /\ new.room \in Nat BY DEF Node
  <2>5. NodeOK(new, sizes')
    <3>1. new.memb_cnt <= Len(new.data) BY <2>3, <2>4
    <3>2. new.filled <= new.room BY <2>3, <2>4
    <3>3. new.memb_size * new.memb_cnt <= new.room BY <2>3, <2>4
    <3>4. new.memb_size \in sizes'[new.code] BY <1>2, <2>3
    <3> QED BY <3>1, <3>2, <3>3, <3>4 DEF NodeOK
  <2>6. \A i \in 1..Len(avail') : i \in 1..Len(avail) \/ i = Len(avail) + 1
    BY <1>1, <1>8
  <2>7. \A i \in 1..Len(avail') : NodeOK(avail'[i], sizes')
    BY <1>8, <2>1, <2>2, <2>5, <2>6
  <2>8. OneNode'
    <3> SUFFICES ASSUME NEW i \in 1..Len(avail'), NEW j \in 1..Len(avail'),
                        avail'[i].code = avail'[j].code
                 PROVE  i = j
      BY DEF OneNode
    <3>1. CASE i \in 1..Len(avail) /\ j \in 1..Len(avail)
      BY <1>8, <3>1 DEF Inv, OneNode
    <3>2. CASE i \in 1..Len(avail) /\ j = Len(avail) + 1
      BY <1>8, <2>2, <2>3, <3>2
    <3>3. CASE i = Len(avail) + 1 /\ j \in 1..Len(avail)
      BY <1>8, <2>2, <2>3, <3>3
    <3> QED BY <2>6, <3>1, <3>2, <3>3
  <2> QED BY <1>2, <1>3, <1>8, <2>7, <2>8 DEF Inv, TypeOK
<1> QED BY <1>7, <1>8, OneChanges

\* So does every step.
LEMMA InvNext ==
  ASSUME Inv, [Next]_vars
  PROVE  Inv'
<1>1. CASE AvailListChanged
  <2>1. PICK code \in Code, list \in Lists : Announce(code, list)
    BY <1>1 DEF AvailListChanged
  <2>2. list \in List BY AvailAssumption DEF List
  <2>3. CASE list.values = <<>>
    <3>1. avail' = avail /\ sizes' = sizes BY <2>1, <2>3 DEF Announce
    <3> QED BY <3>1 DEF Inv, TypeOK, OneNode, NodeOK, Steady
  <2>4. CASE list.values # <<>>
    BY <2>1, <2>2, <2>4, SetPropAvailSound DEF Announce
  <2> QED BY <2>3, <2>4
<1>2. CASE UNCHANGED <<avail, sizes>>
  BY <1>2 DEF Inv, TypeOK, OneNode, NodeOK, Steady
<1> QED BY <1>1, <1>2 DEF Next, SetProperty, vars

\* The empty chain is sound.
LEMMA InvInit == Init => Inv
BY DEF Init, Inv, TypeOK, OneNode

\* The chain is made of nodes, one for each property, and what is copied and
\* compared lies inside a node's allocation, if the members of its property
\* always had the same size.
THEOREM ChainSound == Spec => [](TypeOK /\ ChainIntact)
<1>1. Inv /\ [Next]_vars => Inv'
  BY InvNext
<1>2. Inv => TypeOK /\ ChainIntact
  BY DEF Inv, ChainIntact, InsideAllocation, NodeOK, Steady
<1> QED BY <1>1, <1>2, InvInit, PTL DEF Spec
-----------------------------------------------------------------------------
\* Each node begins with the list that was announced last, unless that was
\* empty, if its members had the size of those before; and no node says it is
\* empty.
ToldInv ==
  /\ told \in [Code -> SUBSET Seq(Value)]
  /\ \A code \in Code : \A list \in told[code] :
       list # <<>> /\ Steady(code) =>
         \A i \in Nodes(code) : Begins(avail[i].data, list)
  /\ \A i \in 1..Len(avail) : avail[i].memb_cnt > 0

\* The nodes after an update: that of the property begins with the list, if
\* its members always had the same size.
LEMMA NodesAfter ==
  ASSUME Inv, NEW code \in Code, NEW list \in List, list.values # <<>>,
         SetPropAvail(code, list),
         sizes' = [sizes EXCEPT ![code] = @ \cup {list.size}]
  PROVE  /\ Nodes(code)' # {}
         /\ Steady(code)' =>
              \A i \in Nodes(code)' : Begins(avail'[i].data, list.values)
         /\ \A c \in Code \ {code} :
              /\ Nodes(c)' = Nodes(c)
              /\ \A i \in Nodes(c) : avail'[i] = avail[i]
         /\ \A i \in 1..Len(avail') :
              \/ avail'[i].memb_cnt > 0
              \/ i \in 1..Len(avail) /\ avail'[i].memb_cnt = avail[i].memb_cnt
<1>1. avail \in Seq(Node) /\ Len(avail) \in Nat BY DEF Inv, TypeOK
<1>2. Steady(code)' => \A n \in sizes[code] : n = list.size
  BY SetPropAvailSound
<1>3. ASSUME NEW i \in 1..Len(avail)
      PROVE  /\ Updated(avail[i], list).code = avail[i].code
             /\ Updated(avail[i], list).memb_cnt = avail[i].memb_cnt
             /\ Steady(code)' /\ avail[i].code = code =>
                  Begins(Updated(avail[i], list).data, list.values)
  <2>1. avail[i] \in Node /\ NodeOK(avail[i], sizes) BY <1>1 DEF Inv
  <2>2. avail[i].code = code => avail[i].memb_size \in sizes[code]
    BY <2>1 DEF NodeOK
  <2>3. /\ Updated(avail[i], list).code = avail[i].code
        /\ Updated(avail[i], list).memb_cnt = avail[i].memb_cnt
        /\ list.size = avail[i].memb_size =>
             Begins(Updated(avail[i], list).data, list.values)
    BY <2>1, UpdatedSound DEF NodeOK
  <2> QED BY <1>2, <2>2, <2>3
<1>4. CASE /\ Len(avail') = Len(avail) /\ Nodes(code) # {}
           /\ \A i \in 1..Len(avail) :
                /\ avail[i].code = code => avail'[i] = Updated(avail[i], list)
                /\ avail[i].code # code => avail'[i] = avail[i]
  <2>1. \A i \in 1..Len(avail) : /\ avail'[i].code = avail[i].code
                                 /\ avail'[i].memb_cnt = avail[i].memb_cnt
    BY <1>3, <1>4
  <2>2. \A c \in Code : Nodes(c)' = Nodes(c) BY <1>4, <2>1 DEF Nodes
  <2>3. ASSUME NEW i \in Nodes(code), Steady(code)'
        PROVE  Begins(avail'[i].data, list.values)
    <3>1. i \in 1..Len(avail) /\ avail[i].code = code BY DEF Nodes
    <3>2. avail'[i] = Updated(avail[i], list) BY <1>4, <3>1
    <3> QED BY <1>3, <2>3, <3>1, <3>2
  <2>4. ASSUME NEW c \in Code \ {code}, NEW i \in Nodes(c)
        PROVE  avail'[i] = avail[i]
    BY <1>4 DEF Nodes
  <2> QED BY <1>4, <2>1, <2>2, <2>3, <2>4
<1>5. CASE /\ Len(avail') = Len(avail) + 1
           /\ \A i \in 1..Len(avail) :
                avail[i].code # code /\ avail'[i] = avail[i]
           /\ avail'[Len(avail) + 1] = Fresh(code, list)
  <2>1. \A i \in 1..Len(avail') : i \in 1..Len(avail) \/ i = Len(avail) + 1
    BY <1>1, <1>5
  <2>2. 1..Len(avail) \subseteq 1..Len(avail')
        /\ Len(avail) + 1 \in 1..Len(avail')
    BY <1>1, <1>5
  <2>3. /\ Fresh(code, list).code = code
        /\ Fresh(code, list).memb_cnt = Len(list.values)
        /\ Fresh(code, list).data = list.values
    BY FreshSound
  <2>4. list.values \in Seq(Value) /\ Len(list.values) > 0
    <3>1. list.values \in Seq(Value) BY DEF List
    <3> QED BY <3>1, EmptySeq
  <2>5. Nodes(code)' = {Len(avail) + 1} BY <1>5, <2>1, <2>2, <2>3 DEF Nodes
  <2>6. Begins(list.values, list.values) BY <2>4 DEF Begins
  <2>7. \A c \in Code \ {code} : Nodes(c)' = Nodes(c)
    <3> SUFFICES ASSUME NEW c \in Code \ {code} PROVE Nodes(c)' = Nodes(c)
      OBVIOUS
    <3>1. ASSUME NEW i \in Nodes(c)' PROVE i \in Nodes(c)
      <4>1. i \in 1..Len(avail') /\ avail'[i].code = c BY DEF Nodes
      <4>2. i # Len(avail) + 1 BY <1>5, <2>3, <4>1
      <4> QED BY <1>5, <2>1, <4>1, <4>2 DEF Nodes
    <3>2. ASSUME NEW i \in Nodes(c) PROVE i \in Nodes(c)'
      BY <1>5, <2>2 DEF Nodes
    <3> QED BY <3>1, <3>2
  <2>8. \A c \in Code \ {code} : \A i \in Nodes(c) : avail'[i] = avail[i]
    BY <1>5 DEF Nodes
  <2>9. \A i \in 1..Len(avail') :
          \/ avail'[i].memb_cnt > 0
          \/ i \in 1..Len(avail) /\ avail'[i].memb_cnt = avail[i].memb_cnt
    BY <1>5, <2>1, <2>3, <2>4
  <2> QED BY <1>5, <2>3, <2>5, <2>6, <2>7, <2>8, <2>9
<1> QED BY <1>4, <1>5, OneChanges

\* An announcement keeps that.
LEMMA ToldNext ==
  ASSUME Inv, ToldInv, [Next]_vars
  PROVE  ToldInv'
<1>1. CASE AvailListChanged
  <2>1. PICK code \in Code, list \in Lists : Announce(code, list)
    BY <1>1 DEF AvailListChanged
  <2>2. list \in List /\ list.values \in Seq(Value)
    BY AvailAssumption DEF List
  <2>3. told' = [told EXCEPT ![code] = {list.values}]
    BY <2>1 DEF Announce
  <2>4. told' \in [Code -> SUBSET Seq(Value)]
    BY <2>2, <2>3 DEF ToldInv
  <2>5. CASE list.values = <<>>
    <3>1. avail' = avail /\ sizes' = sizes
      BY <2>1, <2>5 DEF Announce
    <3> QED BY <2>3, <2>4, <2>5, <3>1 DEF ToldInv, Nodes, Steady
  <2>6. CASE list.values # <<>>
    <3>1. /\ SetPropAvail(code, list)
          /\ sizes' = [sizes EXCEPT ![code] = @ \cup {list.size}]
      BY <2>1, <2>6 DEF Announce
    <3>2. \A i \in 1..Len(avail') : avail'[i].memb_cnt > 0
      BY <2>2, <2>6, <3>1, NodesAfter DEF ToldInv
    <3>3. ASSUME NEW c \in Code, NEW l \in told'[c], l # <<>>, Steady(c)',
                 NEW i \in Nodes(c)'
          PROVE  Begins(avail'[i].data, l)
      <4>1. CASE c = code
        <5>1. l = list.values
          BY <2>3, <3>3, <4>1 DEF ToldInv
        <5> QED BY <2>2, <2>6, <3>1, <3>3, <4>1, <5>1, NodesAfter
      <4>2. CASE c # code
        <5>1. l \in told[c]
          BY <2>3, <3>3, <4>2 DEF ToldInv
        <5>2. i \in Nodes(c) /\ avail'[i] = avail[i]
          BY <2>2, <2>6, <3>1, <3>3, <4>2, NodesAfter
        <5>3. Steady(c) BY <2>2, <3>1, <3>3, SetPropAvailSound
        <5> QED BY <3>3, <5>1, <5>2, <5>3 DEF ToldInv
      <4> QED BY <4>1, <4>2
    <3> QED BY <2>4, <3>2, <3>3 DEF ToldInv
  <2> QED BY <2>5, <2>6
<1>2. CASE UNCHANGED <<avail, told, sizes>>
  BY <1>2 DEF ToldInv, Nodes, Steady
<1> QED BY <1>1, <1>2 DEF Next, SetProperty, vars

\* What validation says of a value, while the node begins with the last list.
LEMMA ValidateSound ==
  ASSUME Inv, ToldInv, NEW code \in Code, Steady(code), NEW value \in Value,
         NEW list \in told[code], NEW i \in Nodes(code),
         NEW result \in Validate(code, value)
  PROVE  /\ avail[i].memb_cnt = Len(list) /\ result # 2
              => value \in ValuesOf(list, Len(list))
         /\ avail[i].memb_cnt >= Len(list)
              /\ value \in ValuesOf(list, Len(list))
              => result # 2
<1>1. Find(code) = {i}
  <2>1. \A j \in Nodes(code) : j = i
    BY DEF Nodes, Inv, OneNode
  <2> QED BY <2>1, Found DEF Inv
<1>2. /\ avail[i] \in Node /\ avail[i].memb_cnt > 0
      /\ avail[i].memb_cnt <= Len(avail[i].data)
  BY DEF Nodes, Inv, TypeOK, NodeOK, ToldInv
<1>3. list \in Seq(Value)
  BY DEF ToldInv
<1>4. list # <<>> => \A k \in 1..Len(list) :
                       k <= Len(avail[i].data) => avail[i].data[k] = list[k]
  BY DEF ToldInv, Begins
<1> DEFINE seen == ValuesOf(avail[i].data, avail[i].memb_cnt)
<1>5. Validate(code, value) = IF value \in seen THEN {0}
                              ELSE IF Mixed \in seen THEN {0, 2} ELSE {2}
  <2>1. Compared(code) = seen BY <1>1 DEF Compared
  <2> QED BY <1>1, <2>1 DEF Validate
<1>6. value \in ValuesOf(list, Len(list))
        <=> \E k \in 1..Len(list) : list[k] = value
  BY DEF ValuesOf
<1>7. avail[i].memb_cnt \in Nat /\ Len(list) \in Nat
      /\ Len(avail[i].data) \in Nat
  BY <1>2, <1>3 DEF Node
<1>8. list = <<>> => Len(list) = 0
  OBVIOUS
<1>9. ASSUME avail[i].memb_cnt = Len(list), result # 2
      PROVE  value \in ValuesOf(list, Len(list))
  <2>1. value \in seen \/ Mixed \in seen BY <1>5, <1>9
  <2>2. PICK k \in 1..avail[i].memb_cnt : \/ avail[i].data[k] = value
                                          \/ avail[i].data[k] = Mixed
    BY <2>1 DEF ValuesOf
  <2>3. /\ k \in 1..Len(list) /\ list # <<>> /\ k <= Len(avail[i].data)
    BY <1>2, <1>7, <1>8, <1>9, <2>2
  <2>4. list[k] = avail[i].data[k] /\ list[k] \in Value
    BY <1>3, <1>4, <2>3
  <2>5. list[k] = value BY <2>2, <2>4, AvailAssumption
  <2> QED BY <1>6, <2>3, <2>5
<1>10. ASSUME avail[i].memb_cnt >= Len(list),
              value \in ValuesOf(list, Len(list))
       PROVE  result # 2
  <2>1. PICK k \in 1..Len(list) : list[k] = value
    BY <1>6, <1>10
  <2>2. /\ k \in 1..avail[i].memb_cnt /\ list # <<>>
        /\ k <= Len(avail[i].data)
    BY <1>2, <1>7, <1>8, <1>10, <2>1
  <2>3. avail[i].data[k] = value
    BY <1>4, <2>1, <2>2
  <2>4. value \in seen BY <2>2, <2>3 DEF ValuesOf
  <2> QED BY <1>5, <2>4
<1> QED BY <1>9, <1>10

\* A property set is judged by the last list.
LEMMA ValidatesNext ==
  ASSUME Inv, ToldInv, ValidatesLast, [Next]_vars
  PROVE  ValidatesLast'
<1>1. CASE AvailListChanged
  BY <1>1 DEF AvailListChanged, Announce, ValidatesLast, OnlyOffered,
              OfferedAccepted
<1>2. CASE SetProperty /\ lastset' = {}
  BY <1>2 DEF ValidatesLast, OnlyOffered, OfferedAccepted
<1>3. CASE SetProperty /\ lastset' # {}
  <2>10. PICK code \in Code, value \in Value :
           \E result \in Validate(code, value) :
             lastset' = {[code |-> code, value |-> value,
                          sent |-> code \in Unchecked \/ result # 2]}
    BY <1>3 DEF SetProperty
  <2>1. PICK result \in Validate(code, value) :
          lastset' = {[code |-> code, value |-> value,
                       sent |-> code \in Unchecked \/ result # 2]}
    BY <2>10
  <2>2. avail' = avail /\ told' = told /\ sizes' = sizes
    BY <1>3 DEF SetProperty
  <2> DEFINE sent == code \in Unchecked \/ result # 2
  <2>3. ASSUME NEW list \in told[code], Steady(code)
        PROVE  /\ code \notin Unchecked /\ Counted(code, list) /\ sent
                    => value \in ValuesOf(list, Len(list))
               /\ Covered(code, list) /\ value \in ValuesOf(list, Len(list))
                    => sent
    BY <2>3, ValidateSound DEF Counted, Covered
  <2>4. ASSUME NEW s \in lastset'
        PROVE  s.code = code /\ s.value = value /\ s.sent = sent
    <3>1. s = [code |-> code, value |-> value, sent |-> sent]
      BY <2>1, <2>4
    <3> HIDE DEF sent
    <3> QED BY <3>1
  <2>5. /\ \A list : /\ Counted(code, list)' <=> Counted(code, list)
                     /\ Covered(code, list)' <=> Covered(code, list)
        /\ Steady(code)' <=> Steady(code)
    BY <2>2 DEF Counted, Covered, Nodes, Steady
  <2> HIDE DEF sent
  <2>6. ASSUME NEW s \in lastset', NEW list \in told'[s.code]
        PROVE  /\ (s.code \notin Unchecked /\ Steady(s.code)'
                     /\ Counted(s.code, list)' /\ s.sent
                     => s.value \in ValuesOf(list, Len(list)))
               /\ (Steady(s.code)' /\ Covered(s.code, list)'
                     /\ s.value \in ValuesOf(list, Len(list)) => s.sent)
    <3>1. s.code = code /\ s.value = value /\ s.sent = sent BY <2>4
    <3>2. list \in told[code] BY <2>2, <2>6, <3>1
    <3> QED BY <2>3, <2>5, <3>1, <3>2, Zenon
  <2> QED BY <2>6 DEF ValidatesLast, OnlyOffered, OfferedAccepted
<1>4. CASE UNCHANGED vars
  BY <1>4 DEF vars, ValidatesLast, OnlyOffered, OfferedAccepted, Counted,
              Covered, Nodes, Steady
<1> QED BY <1>1, <1>2, <1>3, <1>4 DEF Next

\* Validation lets through what the last list offers and nothing else, as far
\* as memb_cnt allows, after announcements of any lengths in any order, if the
\* members of the property always had the same size.
THEOREM ValidatesLastHolds == Spec => []ValidatesLast
<1>1. Init => ToldInv /\ ValidatesLast
  BY DEF Init, ToldInv, ValidatesLast, OnlyOffered, OfferedAccepted
<1>2. Inv /\ ToldInv /\ ValidatesLast /\ [Next]_vars
        => (Inv /\ ToldInv /\ ValidatesLast)'
  BY InvNext, ToldNext, ValidatesNext
<1> QED BY <1>1, <1>2, InvInit, PTL DEF Spec
-----------------------------------------------------------------------------
\* What r->data holds while events are read.
PacketOK == packet \in Packets \cup {<<>>}

\* No step puts anything else there.
LEMMA PacketNext ==
  ASSUME PacketOK, [EventsNext]_eventVars
  PROVE  PacketOK'
<1>1. Intruders \subseteq Packets \cup {<<>>}
  BY EventsAssumption
<1>2. CASE GetEvent
  BY <1>2 DEF GetEvent, PacketOK
<1>3. CASE Release
  BY <1>3 DEF Release, PacketOK
<1>4. CASE OtherOperation
  BY <1>1, <1>4 DEF OtherOperation, PacketOK
<1>5. CASE UNCHANGED packet
  BY <1>5 DEF PacketOK
<1> QED BY <1>2, <1>3, <1>4, <1>5
        DEF EventsNext, Open, NoMore, Overflow, Terminator, NextEvent,
            SetBetween, Stopped, eventVars

\* An announcement that is read, from a record or from other bytes, is of a
\* property and a list that may be announced.
LEMMA ReadAnnouncement ==
  ASSUME PacketOK, NEW found \in At(data_of),
         found.rec.type = "AvailListChanged"
  PROVE  found.rec.code \in Code /\ found.rec.list \in Lists
<1> DEFINE here == {packet[i] : i \in {j \in 1..Len(packet) :
                                         Start(packet, j) = data_of}}
<1>1. At(data_of) = IF here # {}
                    THEN {[rec |-> r, size |-> Size(r)] : r \in here}
                    ELSE {[rec |-> r, size |-> n] :
                            r \in Stray, n \in StraySizes}
  BY DEF At
<1>2. CASE here # {}
  <2>1. PICK r \in here : found = [rec |-> r, size |-> Size(r)]
    BY <1>1, <1>2
  <2>2. PICK i \in 1..Len(packet) : r = packet[i]
    OBVIOUS
  <2>3. packet \in Packets
    <3>1. SUFFICES ASSUME packet = <<>> PROVE FALSE
      BY DEF PacketOK
    <3> QED BY <2>2, <3>1
  <2>4. found.rec = r
    BY <2>1
  <2>5. r.code \in Code /\ r.list \in Lists
    BY <2>2, <2>3, <2>4, EventsAssumption
  <2> QED BY <2>4, <2>5
<1>3. CASE here = {}
  <2> HIDE DEF here
  <2>1. PICK r \in Stray, n \in StraySizes : found = [rec |-> r, size |-> n]
    BY <1>1, <1>3
  <2>2. found.rec = r /\ r.type = "AvailListChanged" BY <2>1
  <2>3. PICK c \in Code, l \in StrayLists :
          r = [type |-> "AvailListChanged", code |-> c, words |-> <<>>,
               list |-> l]
    BY <2>1, <2>2 DEF Stray
  <2>4. r.code = c /\ r.list = l BY <2>3
  <2>5. l \in Lists BY <2>3, EventsAssumption
  <2> QED BY <2>2, <2>4, <2>5
<1> QED BY <1>2, <1>3

\* Every step of the reader is a step of PropAvail or leaves it alone.
LEMMA StepMaps ==
  ASSUME PacketOK, [EventsNext]_eventVars
  PROVE  [Next]_vars
<1>1. CASE NextEvent
  <2>1. PICK found \in At(data_of) : Apply(found.rec)
    BY <1>1 DEF NextEvent
  <2>2. CASE found.rec.type = "AvailListChanged"
    <3>1. found.rec.code \in Code /\ found.rec.list \in Lists
      BY <2>2, ReadAnnouncement
    <3>2. Announce(found.rec.code, found.rec.list)
      BY <2>1, <2>2 DEF Apply
    <3> QED BY <3>1, <3>2 DEF Next, AvailListChanged
  <2>3. CASE found.rec.type # "AvailListChanged"
    BY <2>1, <2>3 DEF Apply
  <2> QED BY <2>2, <2>3
<1>2. CASE SetBetween
  BY <1>2 DEF SetBetween, Next
<1>3. CASE UNCHANGED vars
  BY <1>3
<1> QED BY <1>1, <1>2, <1>3
        DEF EventsNext, GetEvent, Open, NoMore, Overflow, Terminator,
            Release, OtherOperation, Stopped, eventVars

\* So what PropAvail promises holds of the reader.
LEMMA ReaderSpec == EventsSpec => Spec
<1>1. EventsInit => Init /\ PacketOK
  BY DEF EventsInit, PacketOK
<1>2. PacketOK /\ [EventsNext]_eventVars => PacketOK' /\ [Next]_vars
  BY PacketNext, StepMaps
<1> QED BY <1>1, <1>2, PTL DEF EventsSpec, Spec

\* The list stays sound whatever packets come, and whatever other bytes are
\* taken for records of them: one node for each property, and no copy and no
\* comparison outside an allocation, if the members of a property always had
\* the same size.
THEOREM EventsChainSound == EventsSpec => []ChainIntact
<1>1. Spec => [](TypeOK /\ ChainIntact)
  BY ChainSound
<1> QED BY <1>1, ReaderSpec, PTL

\* And a property set between two packets is judged by the last list.
THEOREM EventsValidate == EventsSpec => []ValidatesLast
<1> QED BY ReaderSpec, ValidatesLastHolds, PTL
-----------------------------------------------------------------------------
(* Where the records of a packet begin.                                    *)

\* A set of natural numbers that is not empty has a least element.
LEMMA LeastNat ==
  ASSUME NEW T \in SUBSET Nat, T # {}
  PROVE  \E m \in T : \A k \in T : m <= k
<1>1. IsWellFoundedOn(OpToRel(<, Nat), Nat)
  BY NatLessThanWellFounded
<1>2. PICK m \in T : \A y \in T : ~(<<y, m>> \in OpToRel(<, Nat))
  BY <1>1, WFMin
<1>3. \A k \in T : k \in Nat /\ ~(k < m)
  BY <1>2 DEF OpToRel
<1>4. ASSUME NEW k \in T PROVE m <= k
  <2>1. m \in Nat /\ k \in Nat /\ ~(k < m) BY <1>2, <1>3
  <2> QED BY <2>1
<1> QED BY <1>4

\* A record takes at least the bytes of its size and type.
LEMMA SizeNat ==
  ASSUME NEW r \in Record
  PROVE  Size(r) \in Nat /\ Size(r) >= 8
<1>1. Len(r.words) \in Nat BY DEF Record
<1>2. Bytes(r.list) \in Nat
  <2>1. CASE r.list = NoList BY <2>1 DEF NoList, Bytes
  <2>2. CASE r.list \in Lists
    <3>1. r.list.size \in Nat /\ Len(r.list.values) \in Nat
      BY <2>2, AvailAssumption
    <3> QED BY <3>1, MoreMembers DEF Bytes
  <2> QED BY <2>1, <2>2 DEF Record
<1> QED BY <1>1, <1>2 DEF Size

\* The sums of the sizes of the first n records of p.
Sums(p, n) ==
  {f \in [0..n -> Nat] : /\ f[0] = 0
                         /\ \A k \in 1..n : f[k] = f[k - 1] + Size(p[k])}

\* They exist: induction on the number of records, by the least number for
\* which they would not.
LEMMA SumsExist ==
  ASSUME NEW p \in Seq(Record)
  PROVE  Sums(p, Len(p)) # {}
<1> DEFINE T == {n \in 0..Len(p) : Sums(p, n) = {}}
<1>1. SUFFICES ASSUME T # {} PROVE FALSE OBVIOUS
<1>2. PICK m \in T : \A k \in T : m <= k
  <2>1. T \in SUBSET Nat OBVIOUS
  <2> QED BY <1>1, <2>1, LeastNat
<1>3. CASE m = 0
  <2>1. [k \in 0..0 |-> 0] \in Sums(p, 0) BY DEF Sums
  <2> QED BY <1>2, <1>3, <2>1
<1>4. CASE m # 0
  <2>1. m \in 1..Len(p) /\ m - 1 \in 0..Len(p) BY <1>4
  <2>2. m - 1 \notin T BY <1>2, <2>1
  <2>3. PICK f \in Sums(p, m - 1) : TRUE BY <2>1, <2>2
  <2> DEFINE g == [k \in 0..m |-> IF k = m THEN f[m - 1] + Size(p[m])
                                  ELSE f[k]]
  <2>4. Size(p[m]) \in Nat BY <2>1, SizeNat
  <2>5. f \in [0..m - 1 -> Nat] /\ f[0] = 0
        /\ \A k \in 1..m - 1 : f[k] = f[k - 1] + Size(p[k])
    BY <2>3 DEF Sums
  <2>6. g \in [0..m -> Nat] BY <2>1, <2>4, <2>5
  <2>7. g[0] = 0 BY <2>1, <2>5
  <2>8. \A k \in 1..m : g[k] = g[k - 1] + Size(p[k]) BY <2>1, <2>5
  <2>9. g \in Sums(p, m) BY <2>6, <2>7, <2>8 DEF Sums
  <2> QED BY <1>2, <2>9
<1> QED BY <1>3, <1>4

\* So the records of a packet follow each other.
LEMMA StartStep ==
  ASSUME NEW p \in Seq(Record)
  PROVE  /\ Start(p, 1) = 0
         /\ \A i \in 1..Len(p) + 1 : Start(p, i) \in Nat
         /\ \A i \in 1..Len(p) : Start(p, i + 1) = Start(p, i) + Size(p[i])
<1> DEFINE before == CHOOSE b : b = [k \in 0..Len(p) |-> IF k = 0 THEN 0
                                 ELSE b[k - 1] + Size(p[k])]
<1>1. \A i : Start(p, i) = before[i - 1] BY DEF Start
<1>2. PICK f \in Sums(p, Len(p)) : TRUE BY SumsExist
<1>3. f = [k \in 0..Len(p) |-> IF k = 0 THEN 0 ELSE f[k - 1] + Size(p[k])]
  BY <1>2 DEF Sums
<1>4. before = [k \in 0..Len(p) |-> IF k = 0 THEN 0
                                   ELSE before[k - 1] + Size(p[k])]
  BY <1>3
<1> HIDE DEF before
<1>5. /\ before[0] = 0
      /\ \A k \in 1..Len(p) : before[k] = before[k - 1] + Size(p[k])
  BY <1>4
<1>6. \A k \in 0..Len(p) : before[k] \in Nat
  <2> DEFINE T == {k \in 0..Len(p) : before[k] \notin Nat}
  <2>1. SUFFICES ASSUME T # {} PROVE FALSE OBVIOUS
  <2>2. PICK m \in T : \A k \in T : m <= k
    <3>1. T \in SUBSET Nat OBVIOUS
    <3> QED BY <2>1, <3>1, LeastNat
  <2>3. m \in 1..Len(p) BY <1>5
  <2>4. before[m - 1] \in Nat BY <2>2, <2>3
  <2> QED BY <1>5, <2>3, <2>4, SizeNat
<1>7. ASSUME NEW i \in 1..Len(p)
      PROVE  Start(p, i + 1) = Start(p, i) + Size(p[i])
  BY <1>1, <1>5
<1>8. ASSUME NEW i \in 1..Len(p) + 1 PROVE Start(p, i) \in Nat
  <2>1. i - 1 \in 0..Len(p) OBVIOUS
  <2> QED BY <1>1, <1>6, <2>1
<1> QED BY <1>1, <1>5, <1>7, <1>8

\* Two records do not begin at the same place.
LEMMA StartGrows ==
  ASSUME NEW p \in Seq(Record), NEW i \in 1..Len(p) + 1,
         NEW j \in 1..Len(p) + 1, i < j
  PROVE  Start(p, i) < Start(p, j)
<1> DEFINE T == {n \in 1..Len(p) + 1 : i < n /\ ~(Start(p, i) < Start(p, n))}
<1>1. SUFFICES ASSUME T # {} PROVE FALSE OBVIOUS
<1>2. PICK m \in T : \A n \in T : m <= n
  <2>1. T \in SUBSET Nat OBVIOUS
  <2> QED BY <1>1, <2>1, LeastNat
<1>3. m - 1 \in 1..Len(p) /\ (m - 1 = i \/ i < m - 1) OBVIOUS
<1>4. Start(p, m) = Start(p, m - 1) + Size(p[m - 1])
  <2>1. Start(p, (m - 1) + 1) = Start(p, m - 1) + Size(p[m - 1])
    BY <1>3, StartStep
  <2> QED BY <2>1
<1>5. Size(p[m - 1]) \in Nat /\ Size(p[m - 1]) >= 8 BY <1>3, SizeNat
<1>6. Start(p, m - 1) \in Nat /\ Start(p, i) \in Nat BY <1>3, StartStep
<1>7. Start(p, m - 1) < Start(p, m) BY <1>4, <1>5, <1>6
<1>8. m - 1 = i \/ Start(p, i) < Start(p, m - 1) BY <1>2, <1>3
<1>9. Start(p, m) \in Nat BY <1>4, <1>5, <1>6
<1>10. Start(p, i) < Start(p, m) BY <1>6, <1>7, <1>8, <1>9
<1> QED BY <1>10

\* A reader that stands where record i begins finds it and nothing else.
LEMMA AtStart ==
  ASSUME packet \in Seq(Record), NEW i \in 1..Len(packet)
  PROVE  At(Start(packet, i)) =
           {[rec |-> packet[i], size |-> Size(packet[i])]}
<1> DEFINE here == {packet[j] : j \in {k \in 1..Len(packet) :
                                         Start(packet, k) = Start(packet, i)}}
<1>1. ASSUME NEW k \in 1..Len(packet), Start(packet, k) = Start(packet, i)
      PROVE  k = i
  <2>1. \A n \in 1..Len(packet) + 1 : Start(packet, n) \in Nat BY StartStep
  <2>2. ~(k < i) /\ ~(i < k) BY <1>1, <2>1, StartGrows
  <2> QED BY <2>2
<1>2. here = {packet[i]} BY <1>1
<1> HIDE DEF here
<1>3. At(Start(packet, i)) = {[rec |-> r, size |-> Size(r)] : r \in here}
  <2>1. here # {} BY <1>2
  <2> QED BY <2>1 DEF At, here
<1> QED BY <1>2, <1>3

\* The records before the terminator are the first ones.
LEMMA EntriesFirst ==
  ASSUME NEW p \in Seq(Record)
  PROVE  \E n \in 0..Len(p) : Entries(p) = 1..n
<1> DEFINE T == {i \in 1..Len(p) : p[i].type = "end"}
<1>1. CASE T = {}
  <2>1. Entries(p) = 1..Len(p) BY <1>1 DEF Entries
  <2> QED BY <2>1
<1>2. CASE T # {}
  <2>1. PICK m \in T : \A k \in T : m <= k
    <3>1. T \in SUBSET Nat OBVIOUS
    <3> QED BY <1>2, <3>1, LeastNat
  <2>2. Entries(p) = 1..(m - 1)
    <3>1. ASSUME NEW i \in 1..(m - 1) PROVE i \in Entries(p)
      BY <2>1, <3>1 DEF Entries
    <3>2. ASSUME NEW i \in Entries(p) PROVE i \in 1..(m - 1)
      BY <2>1, <3>2 DEF Entries
    <3> QED BY <3>1, <3>2
  <2>3. m - 1 \in 0..Len(p) OBVIOUS
  <2> QED BY <2>2, <2>3
<1> QED BY <1>1, <1>2

\* Their number, as ptp_eos_events_length and Delivered compute it.
LEMMA EntriesCount ==
  ASSUME NEW p, NEW n \in Nat, Entries(p) = 1..n
  PROVE  /\ (IF Entries(p) = {} THEN 0
             ELSE CHOOSE k \in Entries(p) : \A m \in Entries(p) : m <= k) = n
         /\ (IF Entries(p) = {} THEN 0
             ELSE CHOOSE k \in Entries(p) : k + 1 \notin Entries(p)) = n
<1>1. CASE n = 0 BY <1>1
<1>2. CASE n # 0
  <2> DEFINE last == CHOOSE k \in 1..n : \A m \in 1..n : m <= k
             edge == CHOOSE k \in 1..n : k + 1 \notin 1..n
  <2>1. n \in 1..n /\ n + 1 \notin 1..n /\ \A m \in 1..n : m <= n BY <1>2
  <2>2. last \in 1..n /\ \A m \in 1..n : m <= last BY <2>1
  <2>3. edge \in 1..n /\ edge + 1 \notin 1..n BY <2>1
  <2> HIDE DEF last, edge
  <2>4. last = n /\ edge = n BY <2>1, <2>2, <2>3
  <2> QED BY <1>2, <2>4 DEF last, edge
<1> QED BY <1>1, <1>2
-----------------------------------------------------------------------------
(* What is read.                                                           *)

\* The records there are, and what is taken for one.
Readable == Record \cup Stray

\* The array of events is filled one by one, up to the number allocated.
ArrayInv ==
  /\ PacketOK
  /\ n_entries \in Nat /\ events \in Seq({Event(r) : r \in Readable})
  /\ Len(events) = index /\ index <= n_entries

\* A reader that holds the mutex stands behind the records it has taken.
HeldInv ==
  held =>
    /\ pc \in {"got", "open", "done"} => packet \in Packets
    /\ pc \in {"open", "done"} =>
         /\ Entries(packet) = 1..n_entries
         /\ \A i \in 1..index : events[i] = Event(packet[i])
         /\ comma => index < n_entries
    /\ pc = "open" /\ index < n_entries => data_of = Start(packet, index + 1)
    /\ pc = "done" => index = n_entries

\* What r->data holds is a packet of records, or is taken for none.
LEMMA PacketType == ASSUME PacketOK PROVE packet \in Seq(Record)
<1>1. CASE packet = <<>> BY <1>1
<1>2. CASE packet \in Packets BY <1>2, EventsAssumption
<1> QED BY <1>1, <1>2 DEF PacketOK

\* The count that ptp_eos_events_open takes.
LEMMA OpenCount ==
  ASSUME PacketOK, NEW n \in EventsLength
  PROVE  /\ n \in Nat
         /\ packet # <<>> => n <= Len(packet) /\ Entries(packet) = 1..n
<1>1. CASE packet = <<>>
  BY <1>1, EventsAssumption DEF EventsLength
<1>2. CASE packet # <<>>
  <2>1. PICK k \in 0..Len(packet) : Entries(packet) = 1..k
    BY PacketType, EntriesFirst
  <2>2. k \in Nat OBVIOUS
  <2>3. n = k BY <1>2, <2>1, <2>2, EntriesCount DEF EventsLength
  <2>4. k <= Len(packet) BY PacketType, <2>1
  <2> QED BY <2>1, <2>2, <2>3, <2>4
<1> QED BY <1>1, <1>2

\* What is found anywhere in r->data can be read.
LEMMA AtReadable ==
  ASSUME PacketOK, NEW of, NEW found \in At(of)
  PROVE  found.rec \in Readable
<1> DEFINE here == {packet[i] : i \in {j \in 1..Len(packet) :
                                         Start(packet, j) = of}}
<1>1. here \subseteq Readable /\ Stray \subseteq Readable
  BY PacketType DEF Readable
<1>2. At(of) = IF here # {}
               THEN {[rec |-> r, size |-> Size(r)] : r \in here}
               ELSE {[rec |-> r, size |-> n] : r \in Stray, n \in StraySizes}
  BY DEF At
<1> HIDE DEF here
<1>3. found.rec \in here \cup Stray BY <1>2
<1> QED BY <1>1, <1>3

\* Each step keeps the array.
LEMMA ArrayNext ==
  ASSUME ArrayInv, [EventsNext]_eventVars
  PROVE  ArrayInv'
<1>1. PacketOK' BY PacketNext DEF ArrayInv
<1>2. CASE Open
  <2>1. n_entries' \in Nat BY <1>2, OpenCount DEF Open, ArrayInv
  <2> QED BY <1>1, <1>2, <2>1 DEF Open, ArrayInv
<1>3. CASE NextEvent
  <2>1. PICK found \in At(data_of) : Take(found) BY <1>3 DEF NextEvent
  <2>2. found.rec \in Readable BY <2>1, AtReadable DEF ArrayInv
  <2> DEFINE e == Event(found.rec)
  <2>3. e \in {Event(r) : r \in Readable} BY <2>2
  <2>4. events' = Append(events, e) /\ index' = index + 1
    BY <2>1 DEF Take
  <2> HIDE DEF e
  <2>5. ~(index >= n_entries) /\ n_entries' = n_entries
    BY <1>3 DEF NextEvent, AtEnd
  <2> QED BY <1>1, <2>3, <2>4, <2>5 DEF ArrayInv
<1>4. CASE Release BY <1>1, <1>4 DEF Release, ArrayInv
<1>5. CASE UNCHANGED <<n_entries, events, index>> BY <1>1, <1>5 DEF ArrayInv
<1> QED BY <1>2, <1>3, <1>4, <1>5
        DEF EventsNext, GetEvent, NoMore, Overflow, Terminator,
            OtherOperation, SetBetween, Stopped, eventVars, reader

\* ptp_eos_events fills no more events than it has allocated, whatever
\* replaces the packet meanwhile.
THEOREM EntriesFitHolds == EventsSpec => []EntriesFit
<1>1. EventsInit => ArrayInv
  BY DEF EventsInit, ArrayInv, PacketOK
<1>2. ArrayInv => EntriesFit BY DEF ArrayInv, EntriesFit
<1> QED BY <1>1, <1>2, ArrayNext, PTL DEF EventsSpec

\* What it finds next is the record behind those.
LEMMA NextRecord ==
  ASSUME ArrayInv, HeldInv, held, pc = "open", ~AtEnd
  PROVE  /\ index \in Nat
         /\ index + 1 \in 1..Len(packet) /\ index + 1 \in Entries(packet)
         /\ At(data_of) = {[rec |-> packet[index + 1],
                            size |-> Size(packet[index + 1])]}
<1>1. index \in Nat /\ index < n_entries /\ n_entries \in Nat
  BY DEF ArrayInv, AtEnd
<1>2. index + 1 \in Entries(packet) BY <1>1 DEF HeldInv
<1>3. index + 1 \in 1..Len(packet) BY <1>2 DEF Entries
<1>4. data_of = Start(packet, index + 1) BY <1>1 DEF HeldInv
<1> QED BY <1>1, <1>2, <1>3, <1>4, PacketType, AtStart DEF ArrayInv

\* With the mutex held the packet stays, and the next record is found.
LEMMA HeldNext ==
  ASSUME <<>> \notin Packets, ArrayInv, HeldInv, [EventsNext]_eventVars
  PROVE  HeldInv'
<1> USE DEF HeldInv
<1>1. CASE GetEvent BY <1>1 DEF GetEvent
<1>2. CASE Open
  <2>1. SUFFICES ASSUME held PROVE HeldInv' BY <1>2 DEF Open
  <2>2. packet \in Packets /\ packet # <<>> BY <1>2, <2>1 DEF Open
  <2>3. Entries(packet) = 1..n_entries' /\ n_entries' \in Nat
        /\ n_entries' <= Len(packet)
    BY <1>2, <2>2, OpenCount DEF Open, ArrayInv
  <2>4. 0 < n_entries' => 0 = Start(packet, 0 + 1)
    <3>1. Start(packet, 1) = 0 BY PacketType, StartStep DEF ArrayInv
    <3> QED BY <3>1
  <2>5. Entries(packet)' = Entries(packet) BY <1>2 DEF Open, Entries
  <2>6. Start(packet, 0 + 1)' = Start(packet, 0 + 1)
    BY <1>2 DEF Open, Start
  <2> QED BY <1>2, <2>2, <2>3, <2>4, <2>5, <2>6 DEF Open
<1>3. CASE NoMore
  BY <1>3 DEF NoMore, AtEnd, ArrayInv, Entries
<1>4. ASSUME held, pc = "open", ~AtEnd
      PROVE  /\ index + 1 \in 1..Len(packet) /\ index + 1 \in Entries(packet)
             /\ At(data_of) = {[rec |-> packet[index + 1],
                                size |-> Size(packet[index + 1])]}
  BY <1>4, NextRecord
<1>5. CASE Terminator
  <2>1. SUFFICES ASSUME held PROVE FALSE BY <1>5 DEF Terminator
  <2>2. PICK found \in At(data_of) : found.rec.type = "end"
    BY <1>5 DEF Terminator
  <2>3. packet[index + 1].type = "end"
    BY <1>4, <1>5, <2>1, <2>2 DEF Terminator
  <2>4. index + 1 \in Entries(packet) BY <1>4, <1>5, <2>1 DEF Terminator
  <2>5. index + 1 \in 1..(index + 1) BY DEF ArrayInv
  <2> QED BY <2>3, <2>4, <2>5 DEF Entries
<1>6. CASE NextEvent
  <2>1. SUFFICES ASSUME held PROVE HeldInv' BY <1>6 DEF NextEvent
  <2>2. PICK found \in At(data_of) : Take(found) BY <1>6 DEF NextEvent
  <2>3. pc = "open" /\ ~AtEnd BY <1>6 DEF NextEvent
  <2>4. found = [rec |-> packet[index + 1], size |-> Size(packet[index + 1])]
    BY <1>4, <2>1, <2>2, <2>3
  <2> DEFINE e == Event(found.rec)
  <2>5. e \in {Event(r) : r \in Readable}
    BY <2>2, AtReadable DEF ArrayInv
  <2>6. e = Event(packet[index + 1]) BY <2>4
  <2>7. /\ events' = Append(events, e) /\ index' = index + 1
        /\ comma' = (index < n_entries - 1)
        /\ data_of' = data_of + Size(packet[index + 1])
    BY <2>2, <2>4 DEF Take
  <2> HIDE DEF e
  <2>8. /\ index \in Nat /\ n_entries \in Nat /\ index < n_entries
        /\ index = Len(events)
    BY <2>3 DEF ArrayInv, AtEnd
  <2>9. \A i \in 1..index' : events'[i] = Event(packet[i])
    <3>1. \A i \in 1..index : events[i] = Event(packet[i])
      BY <2>1, <2>3
    <3>2. \A i \in 1..index : events'[i] = events[i]
      BY <2>5, <2>7, <2>8, AppendProperties DEF ArrayInv
    <3>3. events'[index + 1] = e
      BY <2>5, <2>7, <2>8, AppendProperties DEF ArrayInv
    <3>4. \A i \in 1..index' : i \in 1..index \/ i = index + 1
      BY <2>7, <2>8
    <3> QED BY <2>6, <3>1, <3>2, <3>3, <3>4
  <2>10. data_of' = Start(packet, index' + 1)
    <3>1. data_of = Start(packet, index + 1) BY <2>1, <2>3, <2>8
    <3>2. index + 1 \in 1..Len(packet) BY <1>4, <2>1, <2>3
    <3>3. Start(packet, (index + 1) + 1)
            = Start(packet, index + 1) + Size(packet[index + 1])
      BY <3>2, PacketType, StartStep DEF ArrayInv
    <3> QED BY <2>7, <3>1, <3>3
  <2>11. UNCHANGED <<packet, held, pc, n_entries>> BY <1>6 DEF NextEvent
  <2>12. \A i : Event(packet[i])' = Event(packet[i]) /\
                Start(packet, i)' = Start(packet, i)
    BY <2>11 DEF Event, Start
  <2>13. Entries(packet)' = Entries(packet) BY <2>11 DEF Entries
  <2>14. comma' => index' < n_entries'
    <3>1. comma' => index < n_entries - 1 BY <2>7, Zenon
    <3> QED BY <2>7, <2>8, <2>11, <3>1
  <2>15. packet \in Packets /\ Entries(packet) = 1..n_entries BY <2>1, <2>3
  <2> QED BY <2>3, <2>9, <2>10, <2>11, <2>12, <2>13, <2>14, <2>15
<1>7. CASE Release \/ OtherOperation \/ SetBetween
  BY <1>7 DEF Release, OtherOperation, SetBetween, reader
<1>8. CASE Overflow BY <1>8 DEF Overflow
<1>9. CASE UNCHANGED <<packet, held, reader>>
  BY <1>9, ZenonT(30) DEF reader, Entries, Start, Event
<1> QED BY <1>1, <1>2, <1>3, <1>5, <1>6, <1>7, <1>8, <1>9
        DEF EventsNext, Stopped, eventVars

\* A reader that holds the mutex gets the event of every record up to the
\* terminator, in their order, from packets of any length, and prints no
\* separator behind the last.  An event packet has at least one record.
THEOREM DeliveredHolds ==
  ASSUME <<>> \notin Packets
  PROVE  EventsSpec => []Delivered
<1>1. EventsInit => ArrayInv /\ HeldInv
  BY DEF EventsInit, ArrayInv, HeldInv, PacketOK
<1>2. ArrayInv /\ HeldInv => Delivered
  <2> SUFFICES ASSUME ArrayInv, HeldInv, pc = "done", held
               PROVE  /\ ~comma
                      /\ Len(events) =
                           (IF Entries(packet) = {} THEN 0
                            ELSE CHOOSE n \in Entries(packet) :
                                   n + 1 \notin Entries(packet))
                      /\ \A i \in 1..Len(events) :
                           events[i] = Event(packet[i])
    BY DEF Delivered
  <2>1. Entries(packet) = 1..n_entries /\ n_entries \in Nat
    BY DEF HeldInv, ArrayInv
  <2>2. Len(events) = n_entries /\ index = n_entries
    BY DEF HeldInv, ArrayInv
  <2>3. ~comma BY <2>1, <2>2 DEF HeldInv
  <2>4. \A i \in 1..Len(events) : events[i] = Event(packet[i])
    BY <2>2 DEF HeldInv
  <2> QED BY <2>1, <2>2, <2>3, <2>4, EntriesCount
<1> QED BY <1>1, <1>2, ArrayNext, HeldNext, PTL DEF EventsSpec
-----------------------------------------------------------------------------
(* The lists of a packet.                                                  *)

\* The records among the first n of p that announce values of code.
Taken(p, code, n) ==
  {i \in 1..n : /\ p[i].type = "AvailListChanged" /\ p[i].code = code
                /\ p[i].list.values # <<>>}

\* The node of code is as it was, or begins with the last list taken.
AppliedTo(code, taken) ==
  IF taken = {}
  THEN /\ Nodes(code) = {i \in 1..Len(former) : former[i].code = code}
       /\ \A i \in Nodes(code) : avail[i] = former[i]
  ELSE \E i \in Nodes(code) : \E n \in taken :
         /\ \A m \in taken : m <= n
         /\ Steady(code) => Begins(avail[i].data, packet[n].list.values)

\* A reader that holds the mutex has taken the lists of the records it has
\* read.
AppliedInv ==
  held =>
    /\ pc = "got" => former = avail
    /\ pc \in {"open", "done"} =>
         \A code \in Code : \A taken :
           taken = Taken(packet, code, index) => AppliedTo(code, taken)

\* Another record, and what it adds to what was taken.
LEMMA TakenNext ==
  ASSUME NEW p, NEW code, NEW n \in Nat
  PROVE  /\ Taken(p, code, 0) = {}
         /\ Taken(p, code, n + 1) =
              Taken(p, code, n)
                \cup (IF /\ p[n + 1].type = "AvailListChanged"
                         /\ p[n + 1].code = code
                         /\ p[n + 1].list.values # <<>>
                      THEN {n + 1} ELSE {})
<1>1. 1..(n + 1) = (1..n) \cup {n + 1} OBVIOUS
<1> QED BY <1>1 DEF Taken

\* While nothing of it changes, it stays applied.
LEMMA AppliedStays ==
  ASSUME NEW code, NEW taken, AppliedTo(code, taken),
         UNCHANGED <<packet, former>>,
         Nodes(code)' = Nodes(code),
         \A i \in Nodes(code) : avail'[i] = avail[i],
         Steady(code)' = Steady(code)
  PROVE  AppliedTo(code, taken)'
<1>1. CASE taken = {} BY <1>1 DEF AppliedTo
<1>2. CASE taken # {} BY <1>2 DEF AppliedTo
<1> QED BY <1>1, <1>2

\* Each record read is applied, and no other step of a reader that holds the
\* mutex changes a list.
LEMMA AppliedNext ==
  ASSUME <<>> \notin Packets, Inv, ArrayInv, HeldInv, AppliedInv,
         [EventsNext]_eventVars
  PROVE  AppliedInv'
<1>1. CASE GetEvent BY <1>1 DEF GetEvent, AppliedInv, vars
<1>2. CASE Open
  <2>1. SUFFICES ASSUME held, NEW code \in Code, NEW S,
                        S = Taken(packet', code, 0)
                 PROVE  AppliedTo(code, S)'
    BY <1>2 DEF Open, AppliedInv
  <2>2. former = avail /\ avail' = avail /\ former' = former
    BY <1>2, <2>1 DEF Open, AppliedInv, vars
  <2>3. S = {} BY <2>1, TakenNext
  <2> QED BY <2>2, <2>3 DEF AppliedTo, Nodes
<1>3. CASE NoMore \/ Terminator
  <2>1. SUFFICES ASSUME held, NEW code \in Code, NEW S,
                        S = Taken(packet', code, index')
                 PROVE  AppliedTo(code, S)'
    BY <1>3 DEF NoMore, Terminator, AppliedInv
  <2>2. UNCHANGED <<avail, sizes, packet, index, former>>
    BY <1>3 DEF NoMore, Terminator, vars
  <2>3. AppliedTo(code, S)
    BY <1>3, <2>1, <2>2 DEF NoMore, Terminator, AppliedInv
  <2> QED BY <2>2, <2>3, AppliedStays DEF Nodes, Steady
<1>4. CASE NextEvent
  <2>1. SUFFICES ASSUME held, NEW code \in Code, NEW S,
                        S = Taken(packet', code, index')
                 PROVE  AppliedTo(code, S)'
    BY <1>4 DEF NextEvent, AppliedInv
  <2>2. PICK found \in At(data_of) : Take(found) /\ Apply(found.rec)
    BY <1>4 DEF NextEvent
  <2>3. pc = "open" /\ ~AtEnd /\ UNCHANGED <<packet, former>>
    BY <1>4 DEF NextEvent
  <2>4. /\ index \in Nat /\ index + 1 \in 1..Len(packet)
        /\ found.rec = packet[index + 1]
    BY <2>1, <2>2, <2>3, NextRecord
  <2>5. PICK rec, here : rec = packet[index + 1] /\ here = index + 1
    OBVIOUS
  <2>6. here = index' /\ found.rec = rec /\ packet'[here] = rec
    BY <2>2, <2>3, <2>4, <2>5 DEF Take
  <2>7. PICK T : T = Taken(packet, code, index) OBVIOUS
  <2>8. AppliedTo(code, T) BY <2>1, <2>3, <2>7 DEF AppliedInv
  <2> DEFINE adds == /\ rec.type = "AvailListChanged" /\ rec.code = code
                     /\ rec.list.values # <<>>
  <2>9. /\ S = T \cup (IF adds THEN {here} ELSE {})
        /\ \A m \in T : m <= here
    <3>1. S = Taken(packet, code, index + 1)
      BY <2>1, <2>2, <2>3 DEF Take
    <3>2. S = T \cup (IF adds THEN {here} ELSE {})
      BY <2>4, <2>5, <2>7, <3>1, TakenNext
    <3>3. \A m \in T : m \in 1..index BY <2>7 DEF Taken
    <3>4. \A m \in 1..index : m <= index + 1 BY <2>4
    <3> QED BY <2>5, <3>2, <3>3, <3>4
  <2>10. CASE UNCHANGED <<avail, sizes>> /\ ~adds
    <3>1. S = T BY <2>9, <2>10
    <3> QED BY <2>3, <2>8, <2>10, <3>1, AppliedStays DEF Nodes, Steady
  <2>11. CASE rec.type = "AvailListChanged" /\ rec.list.values # <<>>
    <3>1. rec.code \in Code /\ rec.list \in Lists
      BY <2>2, <2>6, <2>11, ReadAnnouncement DEF ArrayInv
    <3>2. rec.list \in List BY <3>1, AvailAssumption DEF List
    <3>3. /\ SetPropAvail(rec.code, rec.list)
          /\ sizes' = [sizes EXCEPT ![rec.code] = @ \cup {rec.list.size}]
      BY <2>2, <2>6, <2>11 DEF Apply, Announce
    <3>4. CASE rec.code # code
      <4>1. /\ Nodes(code)' = Nodes(code)
            /\ \A i \in Nodes(code) : avail'[i] = avail[i]
        BY <2>11, <3>1, <3>2, <3>3, <3>4, NodesAfter
      <4>2. Steady(code)' = Steady(code)
        BY <3>1, <3>2, <3>3, <3>4, SetPropAvailSound
      <4>3. S = T BY <2>9, <3>4
      <4> QED BY <2>3, <2>8, <4>1, <4>2, <4>3, AppliedStays
    <3>5. CASE rec.code = code
      <4>1. /\ Nodes(code)' # {}
            /\ Steady(code)' =>
                 \A i \in Nodes(code)' :
                   Begins(avail'[i].data, rec.list.values)
        BY <2>11, <3>1, <3>2, <3>3, <3>5, NodesAfter
      <4>2. S = T \cup {here} BY <2>9, <2>11, <3>5
      <4>3. here \in S /\ \A m \in S : m <= here
        <5>1. here <= here BY <2>4, <2>5
        <5> QED BY <2>9, <4>2, <5>1
      <4>4. PICK i : i \in Nodes(code)' BY <4>1
      <4>5. Steady(code)' => Begins(avail'[i].data, packet'[here].list.values)
        BY <2>6, <4>1, <4>4
      <4> QED BY <4>3, <4>4, <4>5 DEF AppliedTo
    <3> QED BY <3>4, <3>5
  <2>12. CASE ~(rec.type = "AvailListChanged" /\ rec.list.values # <<>>)
    <3>1. UNCHANGED <<avail, sizes>>
      BY <2>2, <2>6, <2>12 DEF Apply, Announce, vars
    <3> QED BY <2>10, <2>12, <3>1
  <2> QED BY <2>11, <2>12
<1>5. CASE Release \/ OtherOperation \/ SetBetween \/ Overflow
  BY <1>5 DEF Release, OtherOperation, SetBetween, Overflow, reader,
              AppliedInv
<1>6. CASE UNCHANGED eventVars
  <2>1. UNCHANGED <<avail, sizes, packet, held, pc, index, former>>
    BY <1>6 DEF eventVars, reader, vars
  <2>2. SUFFICES ASSUME held, pc \in {"open", "done"}, NEW code \in Code,
                        NEW S, S = Taken(packet, code, index)
                 PROVE  AppliedTo(code, S)'
    BY <2>1 DEF AppliedInv
  <2>3. AppliedTo(code, S) BY <2>2 DEF AppliedInv
  <2> QED BY <2>1, <2>3, AppliedStays DEF Nodes, Steady
<1> QED BY <1>1, <1>2, <1>3, <1>4, <1>5, <1>6 DEF EventsNext, Stopped

\* A reader that holds the mutex leaves each property's node with the last
\* list the packet has of it in front, if its members always had the same
\* size, and the others as they were, for packets and lists of any length.
THEOREM ListsAppliedHolds ==
  ASSUME <<>> \notin Packets
  PROVE  EventsSpec => []ListsApplied
<1> DEFINE All == Inv /\ ArrayInv /\ HeldInv /\ AppliedInv
<1>1. EventsInit => All
  BY InvInit DEF EventsInit, ArrayInv, HeldInv, PacketOK, AppliedInv
<1>2. All /\ [EventsNext]_eventVars => All'
  <2> SUFFICES ASSUME All, [EventsNext]_eventVars PROVE All' OBVIOUS
  <2>1. [Next]_vars BY StepMaps DEF ArrayInv
  <2> QED BY <2>1, InvNext, ArrayNext, HeldNext, AppliedNext
<1>3. All => ListsApplied
  <2> SUFFICES ASSUME All, pc = "done", held, NEW code \in Code
               PROVE  AppliedTo(code, Announcing(code))
    BY DEF ListsApplied, AppliedTo
  <2>1. Entries(packet) = 1..index BY DEF HeldInv
  <2>2. Announcing(code) = Taken(packet, code, index)
    BY <2>1 DEF Announcing, Taken
  <2> QED BY <2>2 DEF AppliedInv
<1> HIDE DEF All
<1> QED BY <1>1, <1>2, <1>3, PTL DEF EventsSpec
=============================================================================
