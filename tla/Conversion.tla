----------------------------- MODULE Conversion -----------------------------
(***************************************************************************)
(* The tables of src/conv.c between Canon's codes for shutter speed, ISO,  *)
(* white balance and aperture and the values libpict shows, and            *)
(* ptp_eos_prop_next of src/data.c, which reports a changed property.      *)
(* A row is <<value, data>>.                                               *)
(***************************************************************************)
EXTENDS Integers, Sequences

\* Values are ten-thousandths of a second, as the integer divisions of the
\* source leave them.
canon_shutter ==
  <<<<0, 12>>, <<0, 4>>, <<300000, 16>>, <<250000, 19>>, <<200000, 21>>,
    <<150000, 24>>, <<130000, 27>>, <<100000, 29>>, <<80000, 32>>,
    <<60000, 35>>, <<50000, 37>>, <<40000, 40>>, <<32000, 43>>,
    <<25000, 45>>, <<20000, 48>>, <<16000, 51>>, <<13000, 53>>,
    <<10000, 56>>, <<8000, 59>>, <<6000, 61>>, <<5000, 64>>, <<4000, 67>>,
    <<3000, 69>>, <<2500, 72>>, <<2000, 75>>, <<1666, 77>>, <<1250, 80>>,
    <<1000, 83>>, <<769, 85>>, <<666, 88>>, <<500, 91>>, <<400, 93>>,
    <<333, 96>>, <<250, 99>>, <<200, 101>>, <<166, 104>>, <<125, 107>>,
    <<100, 109>>, <<80, 112>>, <<62, 115>>, <<50, 117>>, <<40, 120>>,
    <<31, 123>>, <<25, 125>>, <<20, 128>>, <<15, 131>>, <<12, 133>>,
    <<10, 136>>, <<8, 139>>, <<6, 141>>, <<5, 144>>, <<4, 147>>, <<3, 149>>,
    <<2, 152>>, <<2, 154>>, <<1, 157>>, <<1, 160>>>>

canon_iso ==
  <<<<0, 0>>, <<50, 64>>, <<100, 72>>, <<125, 75>>, <<160, 77>>,
    <<200, 80>>, <<250, 83>>, <<320, 85>>, <<400, 88>>, <<500, 91>>,
    <<640, 91>>, <<800, 96>>, <<1000, 99>>, <<1250, 101>>, <<1600, 104>>,
    <<3200, 112>>, <<6400, 120>>, <<12800, 128>>>>

\* PTP_WB_Tungsten and PTP_WB_Florescent are both 5.
canon_white_balance ==
  <<<<2, 0>>, <<4, 1>>, <<5, 3>>, <<5, 4>>>>

canon_aperture ==
  <<<<120, 13>>, <<140, 16>>, <<160, 19>>, <<180, 21>>, <<200, 24>>,
    <<220, 27>>, <<250, 29>>, <<280, 32>>, <<320, 35>>, <<350, 37>>,
    <<400, 40>>, <<450, 43>>, <<500, 45>>, <<560, 48>>, <<630, 51>>,
    <<710, 53>>, <<800, 56>>, <<900, 59>>, <<1000, 61>>, <<1100, 64>>,
    <<1300, 67>>, <<1400, 69>>, <<1600, 72>>, <<1800, 75>>, <<2000, 77>>,
    <<2200, 80>>, <<2500, 83>>, <<2900, 85>>, <<3200, 88>>>>

\* IMG_FORMAT_RAW, _STD, _HIGH; a first word of 2 is IMG_FORMAT_RAW_JPEG.
canon_imgformats ==
  <<<<1, <<1, 16, 6, 0, 4>>>>, <<2, <<1, 16, 1, 0, 2>>>>,
    <<3, <<1, 16, 1, 0, 3>>>>, <<4, <<2, 16, 6, 0, 4>>>>>>

Table == [ShutterSpeed |-> canon_shutter, ISOSpeed |-> canon_iso,
          WhiteBalance |-> canon_white_balance, Aperture |-> canon_aperture]
-----------------------------------------------------------------------------
\* Mutant of First: the last row.
FirstLast(table, from, x) ==
  LET rows == {i \in DOMAIN table : table[i][from] = x}
  IN {table[i][3 - from] :
        i \in {j \in rows : \A k \in rows : k <= j}}

\* The first row of table with x in column from: its other column.
First(table, from, x) ==
  LET rows == {i \in DOMAIN table : table[i][from] = x}
  IN {table[i][3 - from] :
        i \in {j \in rows : \A k \in rows : j <= k}}

\* ptp_eos_get_shutter, _iso, _white_balance, _aperture with dir = 0: none
\* when the code is not in the table.
ToValue(code, data) == First(Table[code], 2, data)

\* The same with dir = 1.
ToData(code, value) == First(Table[code], 1, value)

\* ptp_eos_get_imgformat_value
ImageFormat(words) == First(canon_imgformats, 2, words)

\* ptp_eos_prop_next: the value reported for the code of a record and the
\* words behind it.  What no table knows is reported as it came.
Reported(code, words) ==
  LET data == words[1]
      found == IF code = "ImageFormat" THEN ImageFormat(words)
               ELSE IF code \in DOMAIN Table THEN ToValue(code, data) ELSE {}
  IN CASE code = "BatteryPower" -> IF data = 2 THEN 4 ELSE data + 1
       [] code = "ImageFormat" /\ data # 1 -> 4
       [] OTHER -> IF found = {} THEN data ELSE CHOOSE v \in found : TRUE
=============================================================================
