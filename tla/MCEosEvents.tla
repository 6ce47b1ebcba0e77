----------------------------- MODULE MCEosEvents -----------------------------
(***************************************************************************)
(* An instance of EosEvents for TLC: two properties, one of which is not   *)
(* validated; lists of up to two values, that grow, shrink and come empty, *)
(* and members of another size, or of one that is not supported; packets   *)
(* of up to three records, with and without a terminator.                  *)
(***************************************************************************)
EXTENDS EosEvents

L(size, values) == [size |-> size, values |-> values]

\* Of members of two bytes; and of others.
Words == {L(2, v) : v \in {<<>>, <<1>>, <<2>>, <<1, 2>>}}
Others == {L(4, <<2, 1>>), L(3, <<1>>)}

MCLists == Words \cup Others

Of(type, code, words, list) ==
  [type |-> type, code |-> code, words |-> words, list |-> list]

ISO == Of("PropValueChanged", "ISOSpeed", <<72>>, NoList)
Transfer == Of("RequestObjectTransfer", "none", <<7, 8>>, NoList)
Complete == Of("InfoCheckComplete", "none", <<>>, NoList)
Added == Of("ObjectAddedEx", "none", <<9>>, NoList)
End == Of("end", "none", <<>>, NoList)
Announced(code, list) == Of("AvailListChanged", code, <<>>, list)

\* Every list of one property, one of the other.
Announcements == {Announced("ISOSpeed", l) : l \in MCLists}
                 \cup {Announced("WhiteBalance", L(2, <<1>>))}

\* Lists before, behind and between other records, and packets without one.
MCPackets ==
  {<<End>>, <<ISO, Complete, Added>>}
  \cup {<<ISO, a, End>> : a \in Announcements}
  \cup {<<a, Transfer, End>> : a \in Announcements}
  \cup {<<Announced("ISOSpeed", L(2, <<1, 2>>)), a>> : a \in Announcements}

\* No event packet; no events; a packet whose second record begins elsewhere.
MCIntruders ==
  {<<>>, <<End>>, <<ISO, Announced("ISOSpeed", L(2, <<1, 2>>)), End>>}

\* Taken for lists: of members of the same size, and of another.
MCStrayLists == {L(2, <<2>>), L(4, <<2, 1>>)}
=============================================================================
