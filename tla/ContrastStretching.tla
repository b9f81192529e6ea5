------------------------- MODULE ContrastStretching -------------------------
(***************************************************************************)
(* ImgProc/ContrastStretching: a table for each channel spreads the values *)
(* between the least and the greatest one over 0 .. 255.  The shape of the *)
(* first image is kept and the later ones are run through by it.           *)
(*                                                                         *)
(* An image is a record of its rows, columns and channels and of its       *)
(* bytes, by row and place in the row.  An image with less of one of the   *)
(* three than the first is not given: the code leaves its memory.          *)
(***************************************************************************)
EXTENDS Integers, FiniteSetsExt

CONSTANT StretchImages   \* the images tried

Bytes(image) == (0 .. image.rows - 1) \X (0 .. image.cols * image.channels - 1)

ASSUME StretchAssumption ==
  \A image \in StretchImages :
    /\ {image.rows, image.cols, image.channels} \subseteq Nat \ {0}
    /\ image.bytes \in [Bytes(image) -> 0 .. 255]

VARIABLES
  _mode,
  shape,       \* [rows, cols, channels] of the first image, <<>> before
  _LUT,        \* by channel and value
  original,    \* the image stretched last, <<>> before
  stretched    \* what was returned for it, <<>> before and when the call raised

stretchVars == <<_mode, shape, _LUT, original, stretched>>

Of(image) == [rows |-> image.rows, cols |-> image.cols, channels |-> image.channels]
Fitting(image, s) ==
  image.rows >= s.rows /\ image.channels >= s.channels
    /\ image.cols * image.channels >= s.cols * s.channels

\* cv::split: the values of one channel, by the channels the image has.
Channel(image, c) ==
  {image.bytes[q] : q \in {r \in Bytes(image) : r[2] % image.channels = c}}

\* Mutant: every channel is spread as the first one.
GlobalLUTOfFirst(image, s) ==
  [c \in 0 .. s.channels - 1 |->
     LET min == Min(Channel(image, 0))
         max == Max(Channel(image, 0))
     IN [v \in 0 .. 255 |->
           IF v <= min THEN 0 ELSE IF v > max THEN 255 ELSE (255 * (v - min)) \div (max - min)]]

\* MakeGlobalLUT in the default mode.
GlobalLUT(image, s) ==
  [c \in 0 .. s.channels - 1 |->
     LET min == Min(Channel(image, c))
         max == Max(Channel(image, c))
     IN [v \in 0 .. 255 |->
           IF v <= min THEN 0 ELSE IF v > max THEN 255 ELSE (255 * (v - min)) \div (max - min)]]

-----------------------------------------------------------------------------
StretchInit ==
  /\ _mode = "MODE_DEFAULT" /\ shape = <<>> /\ _LUT = <<>>
  /\ original = <<>> /\ stretched = <<>>

setMode(mode) == _mode' = mode /\ UNCHANGED <<shape, _LUT, original, stretched>>

\* In the modified mode getThresh of a histogram without channels raises.
GlobalContrastStretching(image) ==
  LET s == IF shape = <<>> THEN Of(image) ELSE shape
      seenBytes == (0 .. s.rows - 1) \X (0 .. s.cols * s.channels - 1)
  IN /\ Fitting(image, s)
     /\ shape' = s /\ original' = image
     /\ IF _mode = "MODE_MODIFIED"
        THEN stretched' = <<>> /\ UNCHANGED _LUT
        ELSE /\ _LUT' = GlobalLUT(image, s)
             /\ stretched' =
                  [q \in Bytes(image) |->
                     IF q \in seenBytes THEN _LUT'[q[2] % s.channels][image.bytes[q]]
                     ELSE image.bytes[q]]
     /\ UNCHANGED _mode

StretchNext ==
  \/ \E mode \in {"MODE_DEFAULT", "MODE_MODIFIED"} : setMode(mode)
  \/ \E image \in StretchImages : GlobalContrastStretching(image)

StretchSpec == StretchInit /\ [][StretchNext]_stretchVars

-----------------------------------------------------------------------------
\* Whatever came before it, an image of the first one's shape is stretched as a whole: in each
\* channel the order of the pixels stays, the darkest becomes 0 and, unless it is the only value,
\* the brightest 255. Of an image with more rows the others are as they were.
ContrastIsStretched ==
  stretched # <<>> =>
    LET channel(q) == q[2] % original.channels
    IN /\ original.cols = shape.cols /\ original.channels = shape.channels =>
            \A q \in Bytes(original) :
              /\ q[1] >= shape.rows => stretched[q] = original.bytes[q]
              /\ q[1] < shape.rows =>
                   LET values == Channel(original, channel(q))
                   IN /\ original.bytes[q] = Min(values) => stretched[q] = 0
                      /\ original.bytes[q] = Max(values) /\ Cardinality(values) > 1 =>
                           stretched[q] = 255
                      /\ \A r \in Bytes(original) :
                           r[1] < shape.rows /\ channel(r) = channel(q)
                               /\ original.bytes[r] <= original.bytes[q]
                             => stretched[r] <= stretched[q]
=============================================================================
