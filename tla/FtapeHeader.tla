----------------------------- MODULE FtapeHeader -----------------------------
(***************************************************************************)
(* What ftape_decode_header_segment() (ftape-read.c) makes of the tape     *)
(* parameters in a header segment, and the floppy addresses that the       *)
(* driver computes from them (ftape-rw.c).                                 *)
(*                                                                         *)
(* A tape is a floppy disk with many sides to the controller: a segment is *)
(* SectorsPerSegment sectors of a cylinder, a cylinder holds               *)
(* SegmentsPerCylinder segments, and the segments of all cylinders of a    *)
(* side are segments_per_head.  The parameters are believed when they fit  *)
(* together; some formatters are known to have written wrong ones, which   *)
(* are repaired first.  The length of the tape and the timeouts computed   *)
(* from it are left out.                                                   *)
(***************************************************************************)
EXTENDS Integers

CONSTANTS
    SectorsPerSegment,      \* FT_SECTORS_PER_SEGMENT, 32
    SegmentsPerCylinder     \* ftape->segments_per_cylinder, 4

ASSUME HeaderAssumption ==
    SectorsPerSegment \in Nat \ {0} /\ SegmentsPerCylinder \in Nat \ {0}

(* Segments per track, tracks per tape, and the maxima of the floppy side, *)
(* track and sector numbers                                                *)
Geometry(spt, tpt, side, track, sector) ==
    [spt |-> spt, tpt |-> tpt, side |-> side, track |-> track, sector |-> sector]
Geometries == [spt : Nat, tpt : Nat, side : Nat, track : Nat, sector : Nat]

(* QIC-40 Rev E and earlier, and Xenix, have no values in the header. *)
Given(g, last) ==
    IF g # Geometry(0, 0, 0, 0, 0) THEN g
    ELSE IF last = 2799 THEN Geometry(100, 28, 4, 149, 128)
    ELSE Geometry(68, 20, 1, 169, 128)

(* The known mistakes: Conner, ComByte, Colorado, OS/2, Imation.  None of  *)
(* the repairs makes a geometry another one applies to.                    *)
Repaired(fmt, g) ==
    CASE g \in {Geometry(150, 28, 7, 149, 128), Geometry(150, 28, 9, 149, 128)} ->
            [g EXCEPT !.side = 6]
      [] g = Geometry(100, 28, 9, 149, 128) -> [g EXCEPT !.side = 4]
      [] g \in {Geometry(150, 28, 6, 150, 128), Geometry(150, 28, 6, 254, 128)} ->
            [g EXCEPT !.track = 149]
      [] fmt \in {"var", "big"} /\ g = Geometry(g.spt, 50, 54, 255, 128) ->
            [g EXCEPT !.track = 254]
      [] fmt = "big" /\ g = Geometry(1414, 62, 2, 254, 128) -> [g EXCEPT !.side = 85]
      [] OTHER -> g

segments_per_head(g) == (g.sector \div SectorsPerSegment) * (g.track + 1)

(* The side of the last segment.  All this is unsigned: a tape without     *)
(* segments has its last one on a side far behind any that a byte holds.   *)
Nowhere == 65536
LastSide(g) == IF g.spt * g.tpt = 0 THEN Nowhere
               ELSE (g.spt * g.tpt - 1) \div segments_per_head(g)

OffByOne(g) == IF g.side - LastSide(g) = 1 THEN [g EXCEPT !.side = g.side - 1] ELSE g

(* Mutant: the number of sides is believed. *)
Consistent_Sides(g) ==
    /\ segments_per_head(g) # 0
    /\ segments_per_head(g) \div SegmentsPerCylinder - 1 = g.track
    /\ SegmentsPerCylinder * SectorsPerSegment = g.sector
Consistent(g) ==
    /\ segments_per_head(g) # 0
    /\ LastSide(g) = g.side
    /\ segments_per_head(g) \div SegmentsPerCylinder - 1 = g.track
    /\ SegmentsPerCylinder * SectorsPerSegment = g.sector

(* The parameters the driver works with, once they are found consistent *)
Decoded(fmt, g, last) == OffByOne(Repaired(fmt, Given(g, last)))

(* setup_segment(): where a segment is *)
Address(g, segment) ==
    [head |-> segment \div segments_per_head(g),
     cyl  |-> (segment % segments_per_head(g)) \div SegmentsPerCylinder,
     sect |-> (segment % SegmentsPerCylinder) * SectorsPerSegment + 1]

(* ftape_read_id(): which segment an address found on the tape belongs to *)
SegmentAt(g, a) ==
    segments_per_head(g) * a.head + SegmentsPerCylinder * a.cyl
    + (a.sect - 1) \div SectorsPerSegment

(* Every segment of the tape has an address within the maxima of the       *)
(* header, and reading it back from an id gives the segment again.         *)
AddressesFit(g) ==
    \A segment \in 0 .. g.spt * g.tpt - 1 :
        LET a == Address(g, segment) IN
        /\ a.head <= g.side /\ a.cyl <= g.track
        /\ a.sect + SectorsPerSegment - 1 <= g.sector
        /\ SegmentAt(g, a) = segment
=============================================================================
