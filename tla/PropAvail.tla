------------------------------ MODULE PropAvail ------------------------------
(***************************************************************************)
(* The supported values of a camera's properties: AvailListChanged events  *)
(* of src/data.c fill the linked list r->avail (src/lib.c), which the      *)
(* generic_ functions of src/generic.c consult before they set a property. *)
(***************************************************************************)
EXTENDS Integers, Sequences

CONSTANTS
  Code,         \* property codes
  Unchecked,    \* those ptp_set_generic_property sets without validation
  Value,        \* values of properties
  Mixed,        \* what a member reads as over bytes of members of another size
  Lists         \* the lists of supported values a camera announces

\* A list: the size of its members, which ptp_eos_events_next divides out of
\* the size of the record, and their values.
ASSUME AvailAssumption ==
  /\ Unchecked \subseteq Code /\ Mixed \notin Value
  /\ Lists \subseteq [size : Nat, values : Seq(Value)]
-----------------------------------------------------------------------------
VARIABLES
  avail,       \* the chain of PtpPropAvail, oldest first
  panicked,    \* has ptp_panic ended the program?
  told,        \* history: the last list announced of a property, as a set of
               \* one, or none
  sizes,       \* history: the sizes of members announced of a property
  lastset      \* history: what became of the last property set, if no
               \* event came since

vars == <<avail, panicked, told, sizes, lastset>>

\* A node: what is allocated for it and what the last copy wrote, in bytes;
\* data is what its members, of memb_size, read as.
Node == [code : Code, memb_size : Nat, memb_cnt : Nat, room : Nat,
         filled : Nat, data : Seq(Value \cup {Mixed})]

ValuesOf(seq, n) == {seq[i] : i \in 1..n}

Nodes(code) == {i \in 1..Len(avail) : avail[i].code = code}

\* Mutant of Find: the search ends at the newest node.
FindNewest(code) == {i \in Nodes(code) : i = Len(avail)}

\* The search goes from the newest node backwards.
Find(code) == {i \in Nodes(code) : \A j \in Nodes(code) : j <= i}
-----------------------------------------------------------------------------
Bytes(list) == list.size * Len(list.values)

\* Mutant of Room: realloc for fewer members too, before the copy.
RoomShrinks(node, list) == Bytes(list)

\* "Only realloc if needed": it is the members that are counted.
Room(node, list) == IF Len(list.values) > node.memb_cnt THEN Bytes(list)
                    ELSE node.room

\* memcpy: what is behind the new members stays, unless it was reallocated.
\* Members of another size leave nothing that is known.
Overwrite(node, list) ==
  LET new == list.values
  IN IF list.size # node.memb_size THEN [i \in 1..node.memb_cnt |-> Mixed]
     ELSE IF Len(new) > node.memb_cnt THEN new
     ELSE new \o SubSeq(node.data, Len(new) + 1, Len(node.data))

\* A known node: neither memb_size nor memb_cnt is brought up to date.
Updated(node, list) ==
  [node EXCEPT !.room = Room(node, list), !.filled = Bytes(list),
               !.data = Overwrite(node, list)]

Fresh(code, list) ==
  [code |-> code, memb_size |-> list.size, memb_cnt |-> Len(list.values),
   room |-> Bytes(list), filled |-> Bytes(list), data |-> list.values]

\* Mutant of SetPropAvail: the node keeps its first list.
SetPropAvailOnce(code, list) ==
  avail' = IF Find(code) # {} THEN avail ELSE Append(avail, Fresh(code, list))

\* ptp_set_prop_avail_info
SetPropAvail(code, list) ==
  avail' = IF Find(code) # {}
           THEN [i \in 1..Len(avail) |->
                   IF i \in Find(code) THEN Updated(avail[i], list)
                   ELSE avail[i]]
           ELSE Append(avail, Fresh(code, list))

\* ptp_eos_events_next for PTP_EC_EOS_AvailListChanged: an empty list is
\* not taken.
Announce(code, list) ==
  /\ ~panicked
  /\ told' = [told EXCEPT ![code] = {list.values}]
  /\ IF list.values = <<>> THEN UNCHANGED <<avail, sizes>>
     ELSE /\ SetPropAvail(code, list)
          /\ sizes' = [sizes EXCEPT ![code] = @ \cup {list.size}]
  /\ lastset' = {} /\ UNCHANGED panicked

AvailListChanged == \E code \in Code, list \in Lists : Announce(code, list)

\* The members that are compared.
Compared(code) ==
  UNION {ValuesOf(avail[i].data, avail[i].memb_cnt) : i \in Find(code)}

\* ptp_validate_property_value: 0 found, 1 nothing known, 2 not in the list.
Validate(code, value) ==
  IF Find(code) = {} THEN {1}
  ELSE IF value \in Compared(code) THEN {0}
  ELSE IF Mixed \in Compared(code) THEN {0, 2}
  ELSE {2}

\* It knows members of 1, 2 and 4 bytes.
Unsupported(code) == \E i \in Find(code) : avail[i].memb_size \notin {1, 2, 4}

\* ptp_set_generic_property, and ptp_eos_set_validate_prop: only a value that
\* is known not to be in the list is kept from the camera.
SetProperty ==
  /\ ~panicked
  /\ \E code \in Code, value \in Value :
       IF code \notin Unchecked /\ Unsupported(code)
       THEN panicked' = TRUE /\ lastset' = {}
       ELSE /\ \E result \in Validate(code, value) :
                 lastset' = {[code |-> code, value |-> value,
                              sent |-> code \in Unchecked \/ result # 2]}
            /\ UNCHANGED panicked
  /\ UNCHANGED <<avail, told, sizes>>
-----------------------------------------------------------------------------
\* ptp_init.
Init ==
  /\ avail = <<>> /\ panicked = FALSE
  /\ told = [code \in Code |-> {}] /\ sizes = [code \in Code |-> {}]
  /\ lastset = {}

Next == AvailListChanged \/ SetProperty

Spec == Init /\ [][Next]_vars
-----------------------------------------------------------------------------
(* Correctness.                                                            *)

\* The chain is made of nodes.
TypeOK == avail \in Seq(Node)

OneNode == \A i, j \in 1..Len(avail) : avail[i].code = avail[j].code => i = j

\* The camera has kept to one size for the members of a property.
Steady(code) == \A m, n \in sizes[code] : m = n

InsideAllocation ==
  \A i \in 1..Len(avail) :
    Steady(avail[i].code) =>
      /\ avail[i].filled <= avail[i].room
      /\ avail[i].memb_size * avail[i].memb_cnt <= avail[i].room

\* A property has one node, whatever the order of the events; and what an
\* update has copied and what validation reads lies inside that node's
\* allocation, although memb_cnt is never brought up to date, if the members of
\* a property always have the same size.
ChainIntact == OneNode /\ InsideAllocation

\* The length of the last list beside memb_cnt, which is that of the first.
Counted(code, list) == \E i \in Nodes(code) : avail[i].memb_cnt = Len(list)
Covered(code, list) == \E i \in Nodes(code) : avail[i].memb_cnt >= Len(list)

\* Only a value of the last list is set, whatever lists came before: if it is
\* as long as the first one, and the property is one that is validated.
OnlyOffered ==
  \A s \in lastset : \A list \in told[s.code] :
    s.code \notin Unchecked /\ Steady(s.code) /\ Counted(s.code, list)
      /\ s.sent => s.value \in ValuesOf(list, Len(list))

\* Every value of the last list can be set, whatever lists came before, unless
\* it is longer than the first one.
OfferedAccepted ==
  \A s \in lastset : \A list \in told[s.code] :
    Steady(s.code) /\ Covered(s.code, list)
      /\ s.value \in ValuesOf(list, Len(list)) => s.sent

\* Validation lets through what the last list offers and nothing else, as far
\* as memb_cnt allows and the members have one size.
ValidatesLast == OnlyOffered /\ OfferedAccepted
=============================================================================
