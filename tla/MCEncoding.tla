----------------------------- MODULE MCEncoding -----------------------------
(***************************************************************************)
(* Encoding with a few structures and descriptions of each kind.           *)
(***************************************************************************)
EXTENDS Encoding

\* Lists of parameters: none, one, two; their values need all four bytes.
MCParamLists == {<<>>, <<16909060>>, <<7, 305419896>>}

\* A name, the longest that is read whole, and one longer.
Name == <<65, 66>>
Longest == [i \in 1..(FieldSize - 2) |-> 64 + i]
TooLong == [i \in 1..(FieldSize - 1) |-> 64 + i]

Series(n, k) == [i \in 1..n |-> k + i]

MCStructures ==
  {<<ObjectInfo, Series(15, 200) \o s>> :
      s \in {<<Name, <<>>, Longest, Name>>, <<Longest, Name, <<>>, <<>>>>,
             <<TooLong, <<>>, <<>>, Name>>}}
  \cup {<<ObjectHandles, <<a>>>> : a \in {<<>>, <<1, 70000, 16777216>>}}
  \cup {<<StorageInfo, Series(8, 65000) \o <<<<>>, Longest>>>>}
  \cup {<<DeviceInfo, <<100, 6, 100, Longest, 1, <<4097, 4098>>, <<>>, a,
                        <<14337>>, a, Name, <<>>, Longest, Name>>>> :
          a \in {<<>>, <<1, 2, 65535>>}}

\* A string of two units and a terminator, and the empty one.
Text == <<3, 65, 0, 66, 0, 0, 0>>
NoText == <<0>>

Described(type, default, current, form_type, form) ==
  [code |-> 20487, data_type |-> type, read_only |-> 1, default |-> default,
   current |-> current, form_type |-> form_type, form |-> form]

\* The largest of each width, and one no type has.
MCValues == {<<255, 1>>, <<65535, 2>>, <<70000, 4>>, <<5, 3>>}

\* Bitmaps of two rows of four: one coloured pixel among transparent ones, and
\* one transparent among coloured ones.
MCPalette == [c \in {7} |-> [A |-> 0, Y |-> 100, U |-> 200, V |-> 90]]
MCBitmaps ==
  {[i \in 1..8 |-> IF i = k THEN c ELSE 7 - c] : k \in 1..8, c \in {0, 7}}

MCFiles == {<<<<>>, <<>>>>, <<Name, <<9>>>>, <<Longest, <<0, 255>>>>}

\* No longer than what device_name holds with its terminator.
MCNames == {<<>>, Name, <<65, 66, 67>>}

MCDescriptions ==
  {Described("UINT8", <<2>>, <<255>>, 2, <<<<1>>, <<2>>, <<255>>>>),
   Described("UINT8", <<2>>, <<3>>, 1, <<<<0>>, <<100>>, <<5>>>>),
   Described("INT16", <<0>>, <<-200>>, 1, <<<<-300>>, <<300>>, <<100>>>>),
   Described("UINT16", <<65535>>, <<7>>, 2, <<<<7>>, <<65535>>>>),
   Described("UINT32", <<70000>>, <<1>>, 2, <<>>),
   Described("STRING", Text, NoText, 2, <<Text, NoText, Text>>),
   Described("UINT64", Series(8, 0), Series(8, 9), 2, <<Series(8, 0)>>),
   Described("UINT16ARRAY", <<1, 0, 0, 0, 9, 8>>, <<0, 0, 0, 0>>, 2,
               <<<<0, 0, 0, 0>>, <<1, 0, 0, 0, 9, 8>>>>)}
=============================================================================
