------------------------------ MODULE EosEvents ------------------------------
(***************************************************************************)
(* The reader of Canon's event packets (src/data.c): ptp_eos_get_event     *)
(* leaves a packet of records in r->data, ptp_eos_events_open counts them, *)
(* ptp_eos_events_next takes one at a time, and ptp_eos_events and         *)
(* ptp_eos_events_json collect them.  Records that announce a list of      *)
(* supported values go to PropAvail.                                       *)
(*                                                                         *)
(* Nothing but the application keeps another thread from putting its own   *)
(* reply into r->data meanwhile.                                           *)
(***************************************************************************)
EXTENDS PropAvail, Conversion

CONSTANTS
  Packets,      \* the event packets the camera sends, as sequences of records
  Intruders,    \* those another thread receives; <<>> is any other reply
  DataLength,   \* r->data_length
  StraySizes,   \* sizes read where no record begins
  StrayLists,   \* lists read there
  StrayCount    \* bound: records counted in what is no event packet

NoList == [size |-> 0, values |-> <<>>]

\* words: what follows the code of a changed property, or the arguments of an
\* event; list: the supported values announced.
Record == [type : {"PropValueChanged", "AvailListChanged", "ObjectAddedEx",
                   "RequestObjectTransfer", "InfoCheckComplete", "other",
                   "end"},
           code : Code \cup {"none"}, words : Seq(Int),
           list : Lists \cup {NoList}]

ASSUME EventsAssumption ==
  /\ Packets \subseteq Seq(Record)
  /\ Intruders \subseteq Packets \cup {<<>>}
  /\ StrayLists \subseteq Lists
  /\ DataLength \in Nat /\ StraySizes \subseteq Nat /\ StrayCount \in Nat
  /\ \A p \in Packets : \A i \in 1..Len(p) :
       p[i].type = "AvailListChanged" =>
         p[i].code \in Code /\ p[i].list \in Lists
-----------------------------------------------------------------------------
VARIABLES
  packet,      \* the records in r->data; <<>> when it holds another reply
  held,        \* the application has called ptp_mutex_lock
  pc,          \* "idle", "got", "open", "done", "panic"
  n_entries, index, data_of,   \* struct PtpEventReader
  events,      \* what ptp_eos_events has put in its array
  comma,       \* ptp_eos_events_json: the text ends with a separator
  former       \* history: avail when who holds the mutex got the packet

reader == <<pc, n_entries, index, data_of, events, comma>>
eventVars == <<vars, packet, held, reader, former>>

\* The bytes of a record: size, type, and what belongs to the type.
Size(rec) ==
  8 + (CASE rec.type = "PropValueChanged" -> 4 + 4 * Len(rec.words)
         [] rec.type = "AvailListChanged" -> 12 + Bytes(rec.list)
         [] OTHER -> 4 * Len(rec.words))

\* Where record i of p begins.
Start(p, i) ==
  LET before[k \in 0..Len(p)] == IF k = 0 THEN 0
                                 ELSE before[k - 1] + Size(p[k])
  IN before[i - 1]

\* The records before the one of type 0, or the end of the payload.
Entries(p) == {i \in 1..Len(p) : \A j \in 1..i : p[j].type # "end"}

\* ptp_eos_events_length, of what r->data holds.
EventsLength == IF packet = <<>> THEN 0..StrayCount
                ELSE {IF Entries(packet) = {} THEN 0
                      ELSE CHOOSE n \in Entries(packet) :
                             \A m \in Entries(packet) : m <= n}

\* What bytes that are no record may be taken for.
Stray ==
  {[type |-> t, code |-> "none", words |-> <<0>>, list |-> NoList] :
     t \in {"other", "end"}}
  \cup {[type |-> "AvailListChanged", code |-> c, words |-> <<>>, list |-> l] :
          c \in Code, l \in StrayLists}

\* What stands at offset of: a record, or bytes that are taken for one.
At(of) ==
  LET here == {packet[i] : i \in {j \in 1..Len(packet) :
                                    Start(packet, j) = of}}
  IN IF here # {} THEN {[rec |-> r, size |-> Size(r)] : r \in here}
     ELSE {[rec |-> r, size |-> n] : r \in Stray, n \in StraySizes}

\* The event a record becomes.
Event(rec) ==
  CASE rec.type = "PropValueChanged" ->
         [name |-> rec.code, value |-> Reported(rec.code, rec.words)]
    [] rec.type = "RequestObjectTransfer" ->
         [name |-> "request object transfer", value |-> rec.words[2]]
    [] rec.type = "ObjectAddedEx" ->
         [name |-> "new object", value |-> rec.words[1]]
    [] rec.type = "InfoCheckComplete" ->
         [name |-> "InfoCheckComplete", value |-> 0]
    [] OTHER -> [name |-> "none", value |-> 0]
-----------------------------------------------------------------------------
\* ptp_eos_get_event, by an application that has locked the mutex or not.
GetEvent ==
  /\ pc = "idle"
  /\ packet' \in Packets /\ held' \in BOOLEAN
  /\ pc' = "got" /\ former' = IF held' THEN avail ELSE <<>>
  /\ UNCHANGED <<vars, n_entries, index, data_of, events, comma>>

\* ptp_eos_events_open
Open ==
  /\ pc = "got"
  /\ n_entries' \in EventsLength
  /\ index' = 0 /\ data_of' = 0 /\ events' = <<>> /\ comma' = FALSE
  /\ pc' = "open"
  /\ UNCHANGED <<vars, packet, held, former>>

\* Mutant of AtEnd: the reader relies on the terminating record.
AtEndTyped == FALSE

\* The first test of ptp_eos_events_next.
AtEnd == index >= n_entries

\* ptp_eos_events_next returns -1 before it reads.
NoMore ==
  /\ pc = "open" /\ AtEnd
  /\ pc' = "done"
  /\ UNCHANGED <<vars, packet, held, n_entries, index, data_of, events,
                 comma, former>>

\* The reader has left the buffer.
Overflow ==
  /\ pc = "open" /\ ~AtEnd /\ data_of >= DataLength
  /\ pc' = "panic"
  /\ UNCHANGED <<vars, packet, held, n_entries, index, data_of, events,
                 comma, former>>

\* Type 0 ends the reading.
Terminator ==
  /\ pc = "open" /\ ~AtEnd /\ data_of < DataLength
  /\ \E found \in At(data_of) : found.rec.type = "end"
  /\ pc' = "done"
  /\ UNCHANGED <<vars, packet, held, n_entries, index, data_of, events,
                 comma, former>>

\* The event is stored and printed, with a separator unless it is the last.
Take(found) ==
  /\ events' = Append(events, Event(found.rec))
  /\ comma' = (index < n_entries - 1)
  /\ data_of' = data_of + found.size /\ index' = index + 1

\* Mutant of Apply: an empty list is taken too.
ApplyEmpty(rec) ==
  IF rec.type = "AvailListChanged"
  THEN /\ SetPropAvail(rec.code, rec.list)
       /\ told' = [told EXCEPT ![rec.code] = {rec.list.values}]
       /\ sizes' = [sizes EXCEPT ![rec.code] = @ \cup {rec.list.size}]
       /\ lastset' = {} /\ UNCHANGED panicked
  ELSE UNCHANGED vars

\* What a record changes in the runtime.
Apply(rec) == IF rec.type = "AvailListChanged"
              THEN Announce(rec.code, rec.list) ELSE UNCHANGED vars

\* ptp_eos_events_next, and the bodies of the loops that call it.
NextEvent ==
  /\ pc = "open" /\ ~AtEnd /\ data_of < DataLength
  /\ \E found \in At(data_of) :
       found.rec.type # "end" /\ Take(found) /\ Apply(found.rec)
  /\ UNCHANGED <<packet, held, pc, n_entries, former>>

\* The application is done with the events, and with what r->data holds.
Release ==
  /\ pc = "done"
  /\ pc' = "idle" /\ held' = FALSE /\ packet' = <<>>
  /\ n_entries' = 0 /\ index' = 0 /\ data_of' = 0 /\ events' = <<>>
  /\ comma' = FALSE /\ former' = <<>>
  /\ UNCHANGED vars

\* Mutant of OtherOperation: ptp_send does not take the mutex.
OtherOperationAnytime ==
  /\ pc \in {"got", "open"}
  /\ packet' \in Intruders
  /\ UNCHANGED <<vars, held, reader, former>>

\* Another thread's operation puts its reply into r->data.
OtherOperation ==
  /\ pc \in {"got", "open"} /\ ~held
  /\ packet' \in Intruders
  /\ UNCHANGED <<vars, held, reader, former>>

\* A property is set between two readings.
SetBetween ==
  /\ pc = "idle" /\ SetProperty
  /\ pc' = IF panicked' THEN "panic" ELSE pc
  /\ UNCHANGED <<packet, held, n_entries, index, data_of, events, comma,
                 former>>

\* ptp_panic ends the program.
Stopped == pc = "panic" /\ UNCHANGED eventVars
-----------------------------------------------------------------------------
EventsInit ==
  /\ Init /\ packet = <<>> /\ held = FALSE /\ pc = "idle"
  /\ n_entries = 0 /\ index = 0 /\ data_of = 0 /\ events = <<>>
  /\ comma = FALSE /\ former = <<>>

EventsNext ==
  \/ GetEvent \/ Open \/ NoMore \/ Overflow \/ Terminator \/ NextEvent
  \/ Release \/ OtherOperation \/ SetBetween \/ Stopped

EventsSpec == EventsInit /\ [][EventsNext]_eventVars
-----------------------------------------------------------------------------
(* Correctness.                                                            *)

\* ptp_eos_events allocates n_entries events and fills no more, although the
\* packet it has counted may be replaced by another while it reads.
EntriesFit == Len(events) <= n_entries

\* A reader that holds the mutex gets the event of every record up to the
\* terminator, in their order, and the JSON list it prints ends without a
\* separator.
Delivered ==
  pc = "done" /\ held =>
    /\ ~comma
    /\ Len(events) = (IF Entries(packet) = {} THEN 0
                      ELSE CHOOSE n \in Entries(packet) :
                             n + 1 \notin Entries(packet))
    /\ \A i \in 1..Len(events) : events[i] = Event(packet[i])

\* The records that announce values of code.
Announcing(code) ==
  {i \in Entries(packet) : /\ packet[i].type = "AvailListChanged"
                           /\ packet[i].code = code
                           /\ packet[i].list.values # <<>>}

Begins(seq, list) ==
  \A k \in 1..Len(list) : k <= Len(seq) /\ seq[k] = list[k]

\* A reader that holds the mutex has taken every list of the packet and no
\* other: the node of a property begins with the last list the packet has of
\* it, and is as it was before if there is none.
ListsApplied ==
  pc = "done" /\ held =>
    \A code \in Code :
      IF Announcing(code) = {}
      THEN /\ Nodes(code) = {i \in 1..Len(former) : former[i].code = code}
           /\ \A i \in Nodes(code) : avail[i] = former[i]
      ELSE \E i \in Nodes(code) : \E n \in Announcing(code) :
             /\ \A m \in Announcing(code) : m <= n
             /\ Steady(code) => Begins(avail[i].data, packet[n].list.values)
=============================================================================
