-------------------------------- MODULE Frame --------------------------------
(***************************************************************************)
(* ptp_ml_get_bmp_lv of src/ml.c: the bitmap of Magic Lantern's live view, *)
(* whose rows are wider than the screen, becomes a frame of the screen's   *)
(* size in colours.  bmp is a sequence of bytes.                           *)
(***************************************************************************)
EXTENDS Integers, Sequences, SequencesExt

CONSTANTS
  ScreenWidth, ScreenHeight,  \* SCREEN_WIDTH, and BMP_VRAM_HEIGHT as well
  VramWidth,                  \* BMP_VRAM_WIDTH
  Palette                     \* lv_info.lcd_palette: colour |-> [A, Y, U, V]

ASSUME FrameAssumption ==
  /\ ScreenWidth \in Nat \ {0} /\ ScreenHeight \in Nat \ {0}
  /\ VramWidth \in Nat /\ VramWidth > ScreenWidth

Signed(byte) == IF byte > 127 THEN byte - 256 ELSE byte

\* The entries of the tables of precompute_yuv2rgb: division cuts towards 0.
Scaled(factor, byte) ==
  LET n == factor * Signed(byte)
  IN IF n < 0 THEN -((-n) \div 1024) ELSE n \div 1024

coerce(x) == IF x < 0 THEN 0 ELSE IF x > 255 THEN 255 ELSE x

\* yuv2rgb
Rgb(pal) ==
  [R |-> coerce(pal.Y + Scaled(1437, pal.V)),
   G |-> coerce(pal.Y + Scaled(-352, pal.U) + Scaled(-731, pal.V)),
   B |-> coerce(pal.Y + Scaled(1812, pal.U))]

Transparent == [A |-> 0, Y |-> 255, U |-> 0, V |-> 0]

\* A colour of the bitmap as a pixel of the frame.
Shown(color) ==
  LET pal == IF color \in {0, 4} THEN Transparent ELSE Palette[color]
  IN [rgb |-> Rgb(pal), A |-> IF pal = Transparent THEN 255 ELSE 0]

\* Mutant of Pixel: what is cropped is not passed over.
PixelStays(bmp, done, y, x) ==
  IF x > ScreenWidth THEN done
  ELSE [i |-> done.i + 1,
        frame |-> [done.frame EXCEPT ![y * ScreenWidth + x] =
                     Shown(bmp[done.i + 1])]]

\* One turn of the loops.  A row is cropped behind the column ScreenWidth: the
\* pixel of that column goes where the next row begins.
Pixel(bmp, done, y, x) ==
  IF x > ScreenWidth THEN [done EXCEPT !.i = @ + 1]
  ELSE [i |-> done.i + 1,
        frame |-> [done.frame EXCEPT ![y * ScreenWidth + x] =
                     Shown(bmp[done.i + 1])]]

\* The loops, turn by turn: the frame, and the pixel behind it, which the last
\* row writes.
FrameOf(bmp) ==
  LET last == VramWidth * ScreenHeight
      after[k \in 0..last] ==
        IF k = 0
        THEN [i |-> 0,
              frame |-> [p \in 0..(ScreenWidth * ScreenHeight) |-> "unset"]]
        ELSE Pixel(bmp, after[k - 1], (k - 1) \div VramWidth,
                   (k - 1) % VramWidth)
  IN after[last].frame

\* Each pixel of the frame is that of its place in the bitmap.
Cropped(bmp, frame) ==
  \A y \in 0..(ScreenHeight - 1), x \in 0..(ScreenWidth - 1) :
    frame[y * ScreenWidth + x] = Shown(bmp[y * VramWidth + x + 1])
=============================================================================
