---------------------------- MODULE ImageResizer ----------------------------
(***************************************************************************)
(* The resized copies of an image: which entries of the configuration are  *)
(* boxes, the size computed for each, and the rows that are made.  The     *)
(* factor is a floating-point number, so a half may be rounded either way. *)
(***************************************************************************)
EXTENDS Integers, Sequences

CONSTANTS
    Sides,     \* bound: sides of images
    Entries,   \* entries of image_resizer.sizes; what is no size at all is <<0, 0>>
    MaxEntries \* bound: entries of a configuration

ASSUME ResizerAssumption ==
    Sides \subseteq Nat \ {0} /\ Entries \subseteq Int \X Int /\ MaxEntries \in Nat

VARIABLES
    image,   \* width and height
    boxes,   \* the boxes still to do
    copies   \* the rows: box, width, height and tag

resizerVars == <<image, boxes, copies>>

(* The least sides of SIZE_VGA, SIZE_1K, 2K, 3K, 4K and SIZE_8K. *)
LeastOf == <<<<0, 0>>, <<1280, 864>>, <<2048, 1376>>, <<3200, 2144>>, <<4096, 2752>>, <<8192, 5472>>>>

(* What an entry has to be: both sides have pixels. *)
Boxes == (Nat \ {0}) \X (Nat \ {0})

ResizerTypeOK ==
    /\ image \in Sides \X Sides
    /\ boxes \in Seq(Boxes)
    /\ copies \in Seq([box : Boxes, w : Nat, h : Nat, tag : 1..6])

(* Mutant: an entry with a side of 0 is a box. *)
IsBox_Zero(e) == e[1] >= 0 /\ e[2] >= 0

(* parseOneSizeString, and the objects of parseImageResizerSizes, which keeps *)
(* the entries that are boxes in their order.                                *)
IsBox(e) == e[1] > 0 /\ e[2] > 0

ResizerInit ==
    /\ image \in Sides \X Sides
    /\ \E n \in 0..MaxEntries : boxes \in [1..n -> {e \in Entries : IsBox(e)}]
    /\ copies = <<>>

(* math.Round(x * a / b). *)
Rounded(x, a, b) ==
    {r \in {(x * a) \div b, (x * a) \div b + 1} : 2 * (r * b - x * a) \in -b..b}

(* Mutant: the factor is that of the longer side. *)
NewDimensions_Longer(w, h, box) ==
    IF h > w THEN Rounded(w, box[2], h) \X Rounded(h, box[2], h)
             ELSE Rounded(w, box[1], w) \X Rounded(h, box[1], w)

(* computeNewImageDimensions. *)
NewDimensions(w, h, box) ==
    IF h > w THEN Rounded(w, box[1], w) \X Rounded(h, box[1], w)
             ELSE Rounded(w, box[2], h) \X Rounded(h, box[2], h)

(* sizeTagFromDimensions. *)
TagOf(w, h) ==
    CHOOSE t \in 1..6 :
        /\ w >= LeastOf[t][1] /\ h >= LeastOf[t][2]
        /\ \A s \in t + 1..6 : w < LeastOf[s][1] \/ h < LeastOf[s][2]

TooLarge(w, h) == image[1] < w \/ image[2] < h

(* One round of insertSizedImageRows. *)
Resize ==
    /\ boxes # <<>>
    /\ boxes' = Tail(boxes)
    /\ \E d \in NewDimensions(image[1], image[2], Head(boxes)) :
          copies' = IF TooLarge(d[1], d[2]) THEN copies
                    ELSE Append(copies, [box |-> Head(boxes), w |-> d[1], h |-> d[2],
                                         tag |-> TagOf(d[1], d[2])])
    /\ UNCHANGED image

ResizerSpec == ResizerInit /\ [][Resize]_resizerVars

-----------------------------------------------------------------------------
(* A copy has pixels, no more than the image either way, and no higher tag.  *)
CopiesAreSmaller ==
    \A i \in DOMAIN copies :
        LET copy == copies[i] IN
        /\ copy.w \in 1..image[1] /\ copy.h \in 1..image[2]
        /\ copy.tag <= TagOf(image[1], image[2])

(* The shorter side of a copy is that of its box, and the longer one is      *)
(* within half a pixel of the image's proportions; it may exceed the box.    *)
CopiesKeepProportions ==
    \A i \in DOMAIN copies :
        LET copy == copies[i] IN
        /\ IF image[2] > image[1] THEN copy.w = copy.box[1] ELSE copy.h = copy.box[2]
        /\ LET shorter == IF image[2] > image[1] THEN image[1] ELSE image[2] IN
           2 * (copy.w * image[2] - copy.h * image[1]) \in -shorter..shorter
=============================================================================
