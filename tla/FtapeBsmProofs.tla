--------------------------- MODULE FtapeBsmProofs ---------------------------
(***************************************************************************)
(* What is proved about the header segments and the bad sector map:        *)
(*   - tape parameters that ftape_decode_header_segment() accepts give     *)
(*     every segment of the tape an address of its own within the maxima   *)
(*     of the header, for every geometry: no more is needed than the four  *)
(*     equations the code tests (AcceptedTapesAreAddressable);             *)
(*   - one usable copy of the header is enough (OneCopySuffices);          *)
(*   - the searches in the bad sector list find the map of every segment   *)
(*     from the place remembered (ExactMaps, RightPlace).                  *)
(***************************************************************************)
EXTENDS FtapeBsm, FiniteSetTheorems, SequenceTheorems, TLAPS

(* Quotient and remainder are what they should be. *)
LEMMA DivMod ==
    ASSUME NEW a \in Nat, NEW b \in Nat \ {0}
    PROVE  /\ a \div b \in Nat /\ a % b \in Nat
           /\ a = b * (a \div b) + (a % b) /\ a % b < b
BY Z3

(* A product with a larger factor is larger. *)
LEMMA Monotone ==
    ASSUME NEW a \in Nat, NEW b \in Nat, NEW c \in Nat, a <= b
    PROVE  c * a <= c * b /\ c * a \in Nat /\ c * b \in Nat
BY Z3

(* One factor more adds the other. *)
LEMMA OneMore ==
    ASSUME NEW a \in Nat, NEW b \in Nat
    PROVE  a * (b + 1) = a * b + a /\ a * b \in Nat
BY Z3

(* Quotient and remainder are unique. *)
LEMMA Unique ==
    ASSUME NEW b \in Nat \ {0}, NEW q \in Nat, NEW r \in Nat, r < b
    PROVE  (b * q + r) \div b = q /\ (b * q + r) % b = r
<1> DEFINE n == b * q + r
<1>1. n \in Nat
  BY Monotone, Z3
<1>2. /\ n \div b \in Nat /\ n % b \in Nat
      /\ n = b * (n \div b) + (n % b) /\ n % b < b
  BY <1>1, DivMod
<1> DEFINE p == n \div b
           s == n % b
<1> HIDE DEF p, s
<1>3. p \in Nat /\ s \in Nat /\ b * q + r = b * p + s /\ s < b
  BY <1>2 DEF p, s
<1>4. ~(p >= q + 1)
  <2>1. SUFFICES ASSUME q + 1 <= p PROVE FALSE
    BY <1>3
  <2>2. b * (q + 1) <= b * p /\ b * p \in Nat
    BY <1>3, <2>1, Monotone
  <2>3. b * (q + 1) = b * q + b
    BY Z3
  <2>4. b * q \in Nat
    BY Monotone
  <2> QED
    BY <1>3, <2>2, <2>3, <2>4, Z3
<1>5. ~(q >= p + 1)
  <2>1. SUFFICES ASSUME p + 1 <= q PROVE FALSE
    BY <1>3
  <2>2. b * (p + 1) <= b * q /\ b * q \in Nat
    BY <1>3, <2>1, Monotone
  <2>3. b * (p + 1) = b * p + b /\ b * p \in Nat
    BY <1>3, Monotone, Z3
  <2> QED
    BY <1>3, <2>2, <2>3, Z3
<1>6. p = q
  BY <1>3, <1>4, <1>5
<1>7. s = r
  BY <1>3, <1>6, Monotone, Z3
<1> QED
  BY <1>6, <1>7 DEF p, s

-----------------------------------------------------------------------------
(* A side has as many segments as its cylinders have. *)
LEMMA SegmentsOfASide ==
    ASSUME NEW g \in Geometries, Consistent(g)
    PROVE  /\ segments_per_head(g) = SegmentsPerCylinder * (g.track + 1)
           /\ segments_per_head(g) \in Nat \ {0}
<1>1. /\ SectorsPerSegment \in Nat \ {0} /\ SegmentsPerCylinder \in Nat \ {0}
      /\ g.track \in Nat
  BY HeaderAssumption DEF Geometries
<1>2. g.sector = SectorsPerSegment * SegmentsPerCylinder + 0
  BY <1>1, Z3 DEF Consistent
<1>3. g.sector \div SectorsPerSegment = SegmentsPerCylinder
  BY <1>1, <1>2, Unique
<1>4. segments_per_head(g) = SegmentsPerCylinder * (g.track + 1)
  BY <1>3 DEF segments_per_head
<1>5. SegmentsPerCylinder * (g.track + 1) \in Nat
  BY <1>1, Monotone
<1> QED
  BY <1>4, <1>5 DEF Consistent

(* A segment's place on its side, and in its cylinder *)
LEMMA CylinderOfASegment ==
    ASSUME NEW c \in Nat \ {0}, NEW t \in Nat, NEW n \in Nat,
           NEW h \in Nat \ {0}, h = c * (t + 1)
    PROVE  /\ (n % h) \div c \in Nat /\ (n % h) \div c <= t
           /\ n = h * (n \div h) + c * ((n % h) \div c) + (n % c)
<1> DEFINE m == n % h
           q == n \div h
<1>2. /\ q \in Nat /\ m \in Nat
      /\ n = h * q + m /\ m < h
  BY DivMod
<1> HIDE DEF m, q
<1> DEFINE y == m \div c
           r == m % c
<1>3. /\ y \in Nat /\ r \in Nat
      /\ m = c * y + r /\ r < c
  BY <1>2, DivMod
<1> HIDE DEF y, r
<1>4. y <= t
  <2>1. SUFFICES ASSUME t + 1 <= y PROVE FALSE
    BY <1>3
  <2>2. c * (t + 1) <= c * y /\ c * y \in Nat /\ c * (t + 1) \in Nat
    BY <1>3, <2>1, Monotone
  <2> QED
    BY <1>2, <1>3, <2>2
<1>5. n = c * ((t + 1) * q + y) + r
  <2>1. h * q = c * ((t + 1) * q)
    BY <1>2, Z3
  <2>2. (t + 1) * q \in Nat
    BY <1>2, Monotone
  <2>3. c * ((t + 1) * q + y) = c * ((t + 1) * q) + c * y
    BY <1>3, <2>2, Z3
  <2>4. c * ((t + 1) * q) \in Nat /\ c * y \in Nat
    BY <1>3, <2>2, Monotone
  <2> QED
    BY <1>2, <1>3, <2>1, <2>3, <2>4, Z3
<1>6. (t + 1) * q + y \in Nat
  BY <1>2, <1>3, Monotone
<1>7. n % c = r
  BY <1>3, <1>5, <1>6, Unique
<1>8. n = h * q + c * y + (n % c)
  BY <1>2, <1>3, <1>7, Monotone, Z3
<1> QED
  BY <1>3, <1>4, <1>7, <1>8 DEF m, q, y, r

(* The segments of a tape whose last one is on its last side have          *)
(* addresses.                                                              *)
LEMMA ConsistentFits ==
    ASSUME NEW g \in Geometries, Consistent(g)
    PROVE  AddressesFit(g)
<1> DEFINE c == SegmentsPerCylinder
           w == SectorsPerSegment
           t == g.track
           h == segments_per_head(g)
           last == g.spt * g.tpt - 1
<1>1. c \in Nat \ {0} /\ w \in Nat \ {0} /\ t \in Nat
  BY HeaderAssumption DEF Geometries
<1>2. h = c * (t + 1) /\ h \in Nat \ {0}
  BY SegmentsOfASide
<1>3. g.sector = w * c
  BY <1>1, Z3 DEF Consistent
<1>4. SUFFICES ASSUME NEW n \in 0 .. last
               PROVE  LET a == Address(g, n) IN
                      /\ a.head <= g.side /\ a.cyl <= g.track
                      /\ a.sect + SectorsPerSegment - 1 <= g.sector
                      /\ SegmentAt(g, a) = n
  BY DEF AddressesFit
<1>5. g.spt * g.tpt \in Nat
  BY Monotone DEF Geometries
<1>6. n \in Nat /\ last \in Nat /\ n <= last
  BY <1>4, <1>5
<1>7. g.side = last \div h
  BY <1>5, <1>6 DEF Consistent, LastSide
<1>8. n \div h <= g.side
  <2>1. /\ n \div h \in Nat /\ n = h * (n \div h) + (n % h)
        /\ n % h \in Nat
    BY <1>2, <1>6, DivMod
  <2>2. /\ last \div h \in Nat /\ last = h * (last \div h) + (last % h)
        /\ last % h \in Nat /\ last % h < h
    BY <1>2, <1>6, DivMod
  <2> DEFINE x == n \div h
             y == last \div h
             u == n % h
             v == last % h
  <2> HIDE DEF x, y, u, v, last, h
  <2>3. /\ x \in Nat /\ y \in Nat /\ u \in Nat /\ v \in Nat
        /\ n = h * x + u /\ last = h * y + v /\ v < h
    BY <2>1, <2>2 DEF x, y, u, v
  <2>4. x <= y
    <3>1. SUFFICES ASSUME y + 1 <= x PROVE FALSE
      BY <2>3
    <3>2. h * (y + 1) <= h * x /\ h * x \in Nat
      BY <1>2, <2>3, <3>1, Monotone
    <3>3. h * (y + 1) = h * y + h /\ h * y \in Nat
      BY <1>2, <2>3, OneMore
    <3> QED
      BY <1>2, <1>6, <2>3, <3>2, <3>3, Z3
  <2> QED
    BY <1>7, <2>4 DEF x, y
<1>9. /\ (n % h) \div c \in Nat /\ (n % h) \div c <= t
      /\ n = h * (n \div h) + c * ((n % h) \div c) + (n % c)
  BY <1>1, <1>2, <1>6, CylinderOfASegment
<1>10. n % c \in Nat /\ (n % c) + 1 <= c
  BY <1>1, <1>6, DivMod
<1>11. /\ w * (n % c) + w <= g.sector /\ (n % c) * w = w * (n % c)
       /\ w * (n % c) \in Nat
  <2>1. w * ((n % c) + 1) <= w * c /\ w * (n % c) \in Nat
    BY <1>1, <1>10, Monotone
  <2>2. w * ((n % c) + 1) = w * (n % c) + w /\ (n % c) * w = w * (n % c)
    BY <1>1, <1>10, Z3
  <2> QED
    BY <1>3, <2>1, <2>2
<1>12. (w * (n % c) + 0) \div w = n % c
  BY <1>1, <1>10, Unique
<1>13. ((n % c) * w) \div w = n % c
  BY <1>1, <1>11, <1>12
<1>14. (n % c) * w + 1 + w - 1 <= g.sector
  BY <1>1, <1>3, <1>11
<1> DEFINE a == Address(g, n)
<1>15. /\ a.head = n \div h /\ a.cyl = (n % h) \div c
       /\ a.sect = (n % c) * w + 1
  BY DEF Address
<1> HIDE DEF a
<1>16. SegmentAt(g, a) = h * (n \div h) + c * ((n % h) \div c) + (n % c)
  <2>1. SegmentAt(g, a) = h * a.head + c * a.cyl + ((a.sect - 1) \div w)
    BY DEF SegmentAt
  <2> DEFINE x == (n % c) * w
  <2> HIDE DEF x
  <2>2. x \in Nat /\ a.sect = x + 1 /\ x \div w = n % c
    BY <1>11, <1>13, <1>15 DEF x
  <2>3. a.sect - 1 = x
    BY <2>2
  <2> QED
    BY <1>15, <2>1, <2>2, <2>3
<1>17. a.head <= g.side /\ a.cyl <= g.track
  BY <1>8, <1>9, <1>15
<1>18. a.sect + SectorsPerSegment - 1 <= g.sector
  BY <1>14, <1>15
<1> QED
  BY <1>9, <1>16, <1>17, <1>18 DEF a

(* Repairs and accepted corrections leave a geometry of natural numbers. *)
LEMMA DecodedGeometry ==
    ASSUME NEW g \in Geometries, NEW fmt, NEW last, Consistent(Decoded(fmt, g, last))
    PROVE  Decoded(fmt, g, last) \in Geometries
<1>1. Given(g, last) \in Geometries
  BY DEF Given, Geometry, Geometries
<1>2. Repaired(fmt, Given(g, last)) \in Geometries
  <2> DEFINE k == Given(g, last)
  <2> HIDE DEF k
  <2>1. k \in Geometries
    BY <1>1 DEF k
  <2>2. Repaired(fmt, k) \in {k, [k EXCEPT !.side = 6], [k EXCEPT !.side = 4],
                             [k EXCEPT !.track = 149], [k EXCEPT !.track = 254],
                             [k EXCEPT !.side = 85]}
    BY DEF Repaired
  <2> QED
    BY <2>1, <2>2 DEF Geometries, k
<1> DEFINE k == Repaired(fmt, Given(g, last))
<1> HIDE DEF k
<1>3. k \in Geometries /\ Decoded(fmt, g, last) = OffByOne(k)
  BY <1>2 DEF k, Decoded
<1>4. segments_per_head(OffByOne(k)) = segments_per_head(k)
  BY <1>3 DEF OffByOne, segments_per_head, Geometries
<1>5. segments_per_head(k) # 0
  BY <1>3, <1>4 DEF Consistent
<1>6. segments_per_head(k) \in Nat \ {0}
  <2>1. k.sector \div SectorsPerSegment \in Nat
    BY <1>3, HeaderAssumption, DivMod DEF Geometries
  <2> QED
    BY <1>3, <1>5, <2>1, Monotone DEF segments_per_head, Geometries
<1>7. LastSide(k) \in Nat
  <2>1. k.spt * k.tpt \in Nat
    BY <1>3, Monotone DEF Geometries
  <2>2. ASSUME k.spt * k.tpt # 0
        PROVE  (k.spt * k.tpt - 1) \div segments_per_head(k) \in Nat
    <3>1. k.spt * k.tpt - 1 \in Nat
      BY <2>1, <2>2
    <3> QED
      BY <1>6, <3>1, DivMod
  <2> QED
    BY <2>2 DEF LastSide, Nowhere
<1> QED
  BY <1>3, <1>7 DEF OffByOne, Geometries

-----------------------------------------------------------------------------
(* What the search for the header knows of the cartridge *)
HeaderStates ==
    [at : {"idle", "search", "decoded"}, segment : Nat, first_failed : BOOLEAN,
     result : {"none", "ok", "eio", "drive"}, reads : Nat]
HeaderInv ==
    /\ tape \in Tapes
    /\ hdr \in HeaderStates
    /\ hdr.at = "decoded" => Consistent(Decoded(tape.fmt, tape.geometry, tape.last))

LEMMA HeaderStep == HeaderInv /\ [Next]_vars => HeaderInv'
<1> SUFFICES ASSUME HeaderInv, [Next]_vars PROVE HeaderInv'
  OBVIOUS
<1> USE DEF HeaderInv, HeaderStates
<1>1. CASE ReadHeader
  <2>1. tape' \in Tapes
    BY <1>1 DEF ReadHeader
  <2>2. PICK start \in {[at |-> "search", result |-> "none", faults |-> 0],
                       [at |-> "idle", result |-> "drive", faults |-> 1]} :
            hdr' = [at |-> start.at, segment |-> 0, first_failed |-> FALSE,
                    result |-> start.result, reads |-> hdr.reads + 1]
    BY <1>1 DEF ReadHeader
  <2> QED
    BY <2>1, <2>2
<1>2. CASE TryHeader
  <2>1. tape' = tape
    BY <1>2 DEF TryHeader
  <2>2. \/ hdr' = [hdr EXCEPT !.at = "idle"]
        \/ hdr' = [hdr EXCEPT !.segment = @ + 1, !.result = "ok"]
        \/ hdr' = [hdr EXCEPT !.at = "idle", !.result = "eio"]
        \/ hdr' = [hdr EXCEPT !.first_failed = TRUE, !.result = "eio",
                             !.segment = hdr.segment + 1]
        \/ hdr' = [hdr EXCEPT !.at = "idle", !.result = "drive"]
        \/ hdr' = [hdr EXCEPT !.at = "decoded", !.result = "ok"]
    BY <1>2 DEF TryHeader, TryBackup
  <2>3. hdr' \in HeaderStates
    <3> hdr \in HeaderStates /\ hdr.segment + 1 \in Nat
      OBVIOUS
    <3>1. CASE hdr' = [hdr EXCEPT !.at = "idle"]
      BY <3>1
    <3>2. CASE hdr' = [hdr EXCEPT !.segment = @ + 1, !.result = "ok"]
      BY <3>2
    <3>3. CASE hdr' = [hdr EXCEPT !.at = "idle", !.result = "eio"]
      BY <3>3
    <3>4. CASE hdr' = [hdr EXCEPT !.first_failed = TRUE, !.result = "eio",
                                 !.segment = hdr.segment + 1]
      BY <3>4
    <3>5. CASE hdr' = [hdr EXCEPT !.at = "idle", !.result = "drive"]
      BY <3>5
    <3>6. CASE hdr' = [hdr EXCEPT !.at = "decoded", !.result = "ok"]
      BY <3>6
    <3> QED
      BY <2>2, <3>1, <3>2, <3>3, <3>4, <3>5, <3>6
  <2>4. hdr'.at # "decoded" \/ Consistent(Decoded(tape.fmt, tape.geometry, tape.last))
    BY <1>2 DEF TryHeader, TryBackup
  <2> QED
    BY <2>1, <2>3, <2>4
<1>3. CASE Decode
  BY <1>3 DEF Decode
<1>4. CASE UNCHANGED <<tape, hdr>>
  BY <1>4
<1>5. Search \/ Remember \/ Return \/ HandlerSetsUp => UNCHANGED <<tape, hdr>>
  BY DEF Search, Remember, Return, HandlerSetsUp, SetUp
<1>6. ASSUME NEW s \in Segments, Get(s) \/ StartReading(s)
      PROVE  UNCHANGED <<tape, hdr>>
  BY <1>6 DEF Get, StartReading, SetUp
<1>7. ASSUME NEW s \in Segments, NEW i, Put(s, i)
      PROVE  UNCHANGED <<tape, hdr>>
  BY <1>7 DEF Put
<1> QED
  BY <1>1, <1>2, <1>3, <1>4, <1>5, <1>6, <1>7 DEF Next, vars

(***************************************************************************)
(* Whatever the header segments of whatever cartridges say: when           *)
(* ftape_decode_header_segment() has accepted one, every segment of the    *)
(* tape has an address within the maxima of the header, and no other       *)
(* segment has the same.                                                   *)
(***************************************************************************)
THEOREM AcceptedTapesAreAddressable == Spec => []SegmentsHaveAddresses
<1>1. Init => HeaderInv
  BY DEF Init, HeaderInv, HeaderStates
<1>2. HeaderInv => SegmentsHaveAddresses
  BY TapesAssumption, DecodedGeometry, ConsistentFits
  DEF HeaderInv, SegmentsHaveAddresses
<1> QED
  BY <1>1, <1>2, HeaderStep, PTL DEF Spec

-----------------------------------------------------------------------------
(* The search for a usable copy                                            *)

(* Reading the i-th copy has failed.                                       *)
Readable == Consistent(Decoded(tape.fmt, tape.geometry, tape.last))
Failed(i) == Readable /\ tape.layout.states[i] = "fine" => faults >= 1

SearchInv ==
    /\ faults \in Nat
    /\ hdr.at = "search" =>
          /\ used = -1 /\ hdr.reads > 0
          /\ ~hdr.first_failed => hdr.segment <= tape.layout.first
          /\ hdr.first_failed => /\ tape.layout.first < hdr.segment
                                 /\ hdr.segment <= tape.layout.second
                                 /\ Failed(1)
    /\ hdr.at = "decoded" => hdr.result = "ok" /\ used # -1 /\ hdr.reads > 0
    /\ hdr.at = "idle" /\ hdr.reads > 0 =>
          /\ hdr.result = "ok" => used # -1
          /\ Readable /\ Cardinality(UsableCopies) > faults => hdr.result \in {"ok", "drive"}

(* How many copies are usable.                                             *)
LEMMA UsableCount ==
    /\ Cardinality(UsableCopies) \in 0 .. 2
    /\ \A i \in {1, 2} : tape.layout.states[i] # "fine" => Cardinality(UsableCopies) <= 1
    /\ (\A i \in {1, 2} : tape.layout.states[i] # "fine") => Cardinality(UsableCopies) = 0
<1> DEFINE U == UsableCopies
<1>1. IsFiniteSet({1, 2}) /\ Cardinality({1, 2}) = 2
  <2>1. {1, 2} = 1 .. 2
    OBVIOUS
  <2>2. IsFiniteSet(1 .. 2) /\ Cardinality(1 .. 2) = IF 1 > 2 THEN 0 ELSE 2 - 1 + 1
    <3>1. 1 \in Int /\ 2 \in Int
      OBVIOUS
    <3>2. QED
      BY <3>1, FS_Interval, Zenon
  <2>3. QED
    BY <2>1, <2>2
<1>2. U \subseteq {1, 2} /\ \A i \in {1, 2} : tape.layout.states[i] # "fine" => i \notin U
  BY DEF UsableCopies
<1> HIDE DEF U
<1>3. IsFiniteSet(U) /\ Cardinality(U) \in Nat /\ Cardinality(U) <= 2
  <2>1. U \in SUBSET {1, 2}
    BY <1>2
  <2>2. IsFiniteSet(U) /\ Cardinality(U) <= Cardinality({1, 2})
    BY <1>1, <2>1, FS_Subset, Zenon
  <2>3. Cardinality(U) \in Nat
    BY <2>2, FS_CardinalityType
  <2>4. QED
    BY <1>1, <2>2, <2>3
<1>4. ASSUME NEW i \in {1, 2}, i \notin U
      PROVE  Cardinality(U) <= 1
  <2>1. PICK j \in {1, 2} : U \subseteq {j}
    BY <1>2, <1>4
  <2>2. IsFiniteSet({j}) /\ Cardinality({j}) = 1
    BY FS_Singleton
  <2>3. QED
    BY <2>1, <2>2, FS_Subset
<1>5. U = {} => Cardinality(U) = 0
  BY FS_EmptySet
<1>6. QED
  BY <1>2, <1>3, <1>4, <1>5 DEF U

(* A copy that fails is followed by the backup, and the backup by the end. *)
LEMMA BackupStep ==
    ASSUME HeaderInv, SearchInv, hdr.at = "search", hdr.segment < Boundary,
           At(hdr.segment) # "deleted", TryBackup("eio"), UNCHANGED tape,
           \/ faults' = faults /\ ~(Readable /\ At(hdr.segment) = "fine")
           \/ faults' = faults + 1
    PROVE  SearchInv'
<1>1. /\ tape.layout.first \in Nat /\ tape.layout.second \in Nat
      /\ tape.layout.first < tape.layout.second
      /\ faults \in Nat /\ hdr \in HeaderStates
  BY LayoutAssumption, BsmAssumption DEF HeaderInv, SearchInv
<1>2. hdr.segment \in Nat
  BY <1>1 DEF HeaderStates
<1>3. faults' \in Nat /\ faults' >= faults
  BY <1>1
<1>4. Readable' = Readable /\ UsableCopies' = UsableCopies
  BY DEF Readable, UsableCopies
<1>5. CASE ~hdr.first_failed
  <2>1. hdr.segment <= tape.layout.first
    BY <1>5 DEF SearchInv
  <2>2. hdr.segment = tape.layout.first
    BY <1>1, <1>2, <2>1 DEF At
  <2>3. /\ hdr' = [hdr EXCEPT !.first_failed = TRUE, !.result = "eio",
                             !.segment = hdr.segment + 1]
        /\ used' = used
    BY <1>5 DEF TryBackup
  <2>4. Failed(1)'
    BY <1>1, <1>4, <2>2 DEF Failed, At
  <2>5. /\ hdr'.at = "search" /\ hdr'.first_failed /\ hdr'.reads = hdr.reads
        /\ hdr'.segment = hdr.segment + 1
    BY <1>1, <2>3 DEF HeaderStates
  <2>6. QED
    BY <1>1, <1>3, <2>2, <2>3, <2>4, <2>5 DEF SearchInv
<1>6. CASE hdr.first_failed
  <2>1. tape.layout.first < hdr.segment /\ hdr.segment <= tape.layout.second /\ Failed(1)
    BY <1>6 DEF SearchInv
  <2>2. hdr.segment = tape.layout.second
    BY <1>1, <1>2, <2>1 DEF At
  <2>3. hdr' = [hdr EXCEPT !.at = "idle", !.result = "eio"]
    BY <1>6 DEF TryBackup
  <2>4. hdr'.at = "idle" /\ hdr'.result = "eio"
    BY <1>1, <2>3 DEF HeaderStates
  <2>5. At(hdr.segment) = tape.layout.states[2]
    BY <1>1, <2>2 DEF At
  <2>6. Readable => ~(Cardinality(UsableCopies) > faults')
    BY <1>1, <2>1, <2>5, UsableCount DEF Failed
  <2>7. QED
    BY <1>3, <1>4, <2>4, <2>6 DEF SearchInv
<1>7. QED
  BY <1>5, <1>6

(* Every step of the search.                                               *)
LEMMA SearchStep ==
    ASSUME HeaderInv, SearchInv, [Next]_vars
    PROVE  SearchInv'
<1>1. /\ tape.layout.first \in Nat /\ tape.layout.second \in Nat /\ Boundary \in Nat
      /\ tape.layout.second < Boundary
      /\ faults \in Nat /\ hdr \in HeaderStates
  BY LayoutAssumption, BsmAssumption DEF HeaderInv, SearchInv
<1>2. hdr.segment \in Nat /\ hdr.reads \in Nat
  BY <1>1 DEF HeaderStates
<1>3. CASE ReadHeader
  <2>1. PICK start \in {[at |-> "search", result |-> "none", faults |-> 0],
                       [at |-> "idle", result |-> "drive", faults |-> 1]} :
           /\ faults' = start.faults
           /\ hdr' = [at |-> start.at, segment |-> 0, first_failed |-> FALSE,
                      result |-> start.result, reads |-> hdr.reads + 1]
    BY <1>3 DEF ReadHeader
  <2>2. used' = -1 /\ tape' \in Tapes
    BY <1>3 DEF ReadHeader, HeaderInv
  <2>3. tape'.layout.first \in Nat
    BY <2>2, LayoutAssumption, BsmAssumption
  <2>4. CASE start.at = "search"
    <3>1. /\ hdr'.at = "search" /\ hdr'.first_failed = FALSE /\ hdr'.segment = 0
          /\ hdr'.reads > 0 /\ faults' = 0
      BY <1>2, <2>1, <2>4
    <3>2. QED
      BY <2>2, <2>3, <3>1 DEF SearchInv
  <2>5. CASE start.at = "idle"
    <3>1. hdr'.at = "idle" /\ hdr'.result = "drive" /\ faults' = 1
      BY <2>1, <2>5
    <3>2. QED
      BY <3>1 DEF SearchInv
  <2>6. QED
    BY <2>4, <2>5
<1>4. CASE TryHeader
  <2> DEFINE fine == At(hdr.segment) = "fine" /\ Readable
  <2>1. hdr.at = "search" /\ UNCHANGED tape
    BY <1>4 DEF TryHeader
  <2>2. /\ used = -1 /\ hdr.reads > 0
        /\ hdr.segment <= tape.layout.second
        /\ ~hdr.first_failed => hdr.segment <= tape.layout.first
        /\ hdr.first_failed => tape.layout.first < hdr.segment /\ Failed(1)
    <3>1. tape.layout.first < tape.layout.second
      BY LayoutAssumption DEF HeaderInv
    <3>2. QED
      BY <1>1, <1>2, <2>1, <3>1 DEF SearchInv
  <2>3. hdr.segment < Boundary
    BY <1>1, <1>2, <2>2
  <2>4. CASE /\ At(hdr.segment) = "deleted"
             /\ hdr' = [hdr EXCEPT !.segment = @ + 1, !.result = "ok"]
             /\ UNCHANGED <<used, faults>>
    <3>1. tape.layout.states[1] # "deleted" /\ tape.layout.states[2] # "deleted"
      BY LayoutAssumption DEF HeaderInv
    <3>2. hdr.segment # tape.layout.first /\ hdr.segment < tape.layout.second
      BY <1>1, <1>2, <2>2, <2>4, <3>1 DEF At
    <3>3. /\ hdr'.at = "search" /\ hdr'.segment = hdr.segment + 1
          /\ hdr'.first_failed = hdr.first_failed /\ hdr'.reads = hdr.reads
      BY <1>1, <2>1, <2>4 DEF HeaderStates
    <3>4. Failed(1)' <=> Failed(1)
      BY <2>1, <2>4 DEF Failed, Readable
    <3>5. QED
      BY <1>1, <1>2, <2>1, <2>2, <2>4, <3>2, <3>3, <3>4 DEF SearchInv
  <2>5. CASE /\ At(hdr.segment) # "deleted" /\ TryBackup("eio")
             /\ \/ faults' = faults /\ ~fine
                \/ faults' = faults + 1
    BY <2>1, <2>3, <2>5, BackupStep
  <2>6. CASE hdr' = [hdr EXCEPT !.at = "idle", !.result = "drive"] /\ faults' = faults + 1
    <3>1. hdr'.at = "idle" /\ hdr'.result = "drive"
      BY <1>1, <2>6 DEF HeaderStates
    <3>2. QED
      BY <1>1, <2>6, <3>1 DEF SearchInv
  <2>7. CASE /\ hdr' = [hdr EXCEPT !.at = "decoded", !.result = "ok"]
             /\ used' = hdr.segment /\ UNCHANGED faults
    <3>1. hdr'.at = "decoded" /\ hdr'.result = "ok" /\ hdr'.reads = hdr.reads
      BY <1>1, <2>7 DEF HeaderStates
    <3>2. used' # -1
      BY <1>2, <2>7
    <3>3. QED
      BY <1>1, <2>2, <2>7, <3>1, <3>2 DEF SearchInv
  <2>8. QED
    BY <1>1, <1>4, <2>3, <2>4, <2>5, <2>6, <2>7 DEF TryHeader, Readable
<1>5. CASE Decode
  <2>1. /\ hdr.at = "decoded" /\ hdr' = [hdr EXCEPT !.at = "idle"]
        /\ UNCHANGED <<tape, used, faults>>
    BY <1>5 DEF Decode
  <2>2. hdr'.at = "idle" /\ hdr'.result = "ok" /\ used # -1
    BY <1>1, <2>1 DEF HeaderStates, SearchInv
  <2>3. QED
    BY <1>1, <2>1, <2>2 DEF SearchInv
<1>6. CASE UNCHANGED <<tape, hdr, used, faults>>
  BY <1>6 DEF SearchInv, Failed, Readable, UsableCopies
<1>7. Search \/ Remember \/ Return \/ HandlerSetsUp \/ UNCHANGED vars
        => UNCHANGED <<tape, hdr, used, faults>>
  BY DEF Search, Remember, Return, HandlerSetsUp, SetUp, vars
<1>8. ASSUME NEW s \in Segments, Get(s) \/ StartReading(s)
      PROVE  UNCHANGED <<tape, hdr, used, faults>>
  BY <1>8 DEF Get, StartReading, SetUp
<1>9. ASSUME NEW s \in Segments, NEW i, Put(s, i)
      PROVE  UNCHANGED <<tape, hdr, used, faults>>
  BY <1>9 DEF Put
<1>10. QED
  BY <1>3, <1>4, <1>5, <1>6, <1>7, <1>8, <1>9 DEF Next

(***************************************************************************)
(* One usable copy of the header is enough, wherever the copies are before *)
(* the boundary, unless as many reads fail as there are usable copies, or  *)
(* the drive does not obey; and a search that succeeds has decoded one.    *)
(***************************************************************************)
THEOREM OneCopySuffices == Spec => []OneCopyIsEnough
<1>1. Init => HeaderInv /\ SearchInv
  BY DEF Init, HeaderInv, HeaderStates, SearchInv
<1>2. HeaderInv /\ SearchInv => OneCopyIsEnough
  BY DEF SearchInv, OneCopyIsEnough, Readable
<1>3. QED
  BY <1>1, <1>2, HeaderStep, SearchStep, PTL DEF Spec

-----------------------------------------------------------------------------
(* The bad sector map                                                      *)

(* The place of a segment in the list, and its map.                        *)
PlaceAt(list, ptr, segment) ==
    /\ ptr \in 1 .. Len(list) + 1
    /\ \A i \in DOMAIN list : i < ptr <=> SegmentOf(list, i) < segment
MapOf(segment) == IF segment = -1 THEN {} ELSE bad[segment]

(* The header has been read; the segment that the place remembered is of.  *)
Here == IF call.at = "sought" THEN call.segment ELSE bsm.last

MapInv ==
    /\ bsm = [list |-> bsm.list, array |-> bsm.array, ptr |-> bsm.ptr, last |-> bsm.last,
              map |-> bsm.map]
    /\ call = [at |-> call.at, segment |-> call.segment, way |-> call.way, got |-> call.got]
    /\ used # -1 => hdr.reads > 0 /\ hdr.at # "search"
    /\ call.at \in {"idle", "asked", "sought", "answered"}
    /\ call.at # "idle" => Ready /\ call.segment \in Segments
    /\ call.at \in {"asked", "sought"} => InList
    /\ call.at = "asked" => call.way = Way(call.segment)
    /\ call.at = "answered" => call.got = bad[call.segment]
    /\ ahead.segment \in -1 .. LastSegment
    /\ ahead.segment # -1 => used # -1 /\ ahead.map = bad[ahead.segment]
    /\ bsm.last \in -1 .. LastSegment
    /\ used = -1 => bsm.last = -1 /\ bsm.map = {}
    /\ used # -1 =>
          /\ bad \in [Segments -> SUBSET Sectors]
          /\ ~InList => bsm.array = bad
          /\ InList => /\ Lists(tape.fmt, bsm.list, bad)
                       /\ PlaceAt(bsm.list, bsm.ptr, Here)
                       /\ bsm.map = MapOf(Here)

(* A non-empty set of natural numbers has a least element,                 *)
LEMMA Least ==
    ASSUME NEW T \in SUBSET Nat, T # {}
    PROVE  MinOf(T) \in T /\ \A y \in T : MinOf(T) <= y
<1> DEFINE R == {p \in Nat \X Nat : p[1] < p[2]}
<1>1. R = OpToRel(<, Nat)
  BY DEF OpToRel
<1>2. IsWellFoundedOn(R, Nat)
  BY <1>1, NatLessThanWellFounded
<1> HIDE DEF R
<1>3. \E x \in T : \A y \in T : ~ (<<y, x>> \in R)
  BY <1>2, WFMin
<1>4. \A x, y \in Nat : ~ (<<y, x>> \in R) => x <= y
  BY DEF R
<1>5. \E x \in T : \A y \in T : x <= y
  BY <1>3, <1>4
<1>6. QED
  BY <1>5 DEF MinOf

(* and a greatest one if it is bounded.                                    *)
LEMMA Greatest ==
    ASSUME NEW T \in SUBSET Nat, T # {}, NEW n \in Nat, \A t \in T : t <= n
    PROVE  MaxOf(T) \in T /\ \A y \in T : MaxOf(T) >= y
<1> DEFINE D == {n - t : t \in T}
<1>1. D \in SUBSET Nat /\ D # {}
  <2>1. \A t \in T : n - t \in Nat
    OBVIOUS
  <2>2. QED
    BY <2>1
<1> DEFINE d == MinOf(D)
<1>2. d \in D /\ \A e \in D : d <= e
  BY <1>1, Least
<1> HIDE DEF d
<1>3. PICK x \in T : d = n - x
  BY <1>2
<1>4. \A y \in T : n - x <= n - y
  BY <1>2, <1>3
<1>5. \A y \in T : x >= y
  BY <1>4
<1>6. QED
  BY <1>5 DEF MaxOf

(* Ascending() lists the elements of a set in order.                       *)
LEMMA AscendingLists ==
    ASSUME NEW S \in SUBSET Nat, IsFiniteSet(S)
    PROVE  /\ Ascending(S) \in Seq(Nat) /\ Len(Ascending(S)) = Cardinality(S)
           /\ {Ascending(S)[k] : k \in 1 .. Len(Ascending(S))} = S
           /\ \A j, k \in 1 .. Len(Ascending(S)) : j < k => Ascending(S)[j] < Ascending(S)[k]
<1> DEFINE c == Cardinality(S)
           below(n) == {m \in S : m <= n}
           rank == [n \in S |-> Cardinality(below(n))]
           a == Ascending(S)
<1>1. c \in Nat
  BY FS_CardinalityType
<1>2. ASSUME NEW n \in S
      PROVE  /\ IsFiniteSet(below(n)) /\ rank[n] \in Nat /\ rank[n] <= c /\ rank[n] >= 1
             /\ rank[n] = Cardinality(below(n))
  <2>1. below(n) \in SUBSET S /\ n \in below(n)
    OBVIOUS
  <2>2. IsFiniteSet(below(n)) /\ Cardinality(below(n)) <= c
    BY <2>1, FS_Subset, Zenon
  <2>3. Cardinality(below(n)) \in Nat
    BY <2>2, FS_CardinalityType, Zenon
  <2>4. Cardinality(below(n)) # 0
    BY <2>1, <2>2, FS_EmptySet, Zenon
  <2>5. rank[n] = Cardinality(below(n))
    OBVIOUS
  <2> HIDE DEF below, rank
  <2>6. QED
    BY <2>2, <2>3, <2>4, <2>5
<1>3. ASSUME NEW m \in S, NEW n \in S, m < n
      PROVE  rank[m] < rank[n]
  <2>1. below(m) \in SUBSET below(n) /\ n \in below(n) /\ n \notin below(m)
    <3>1. m \in Nat /\ n \in Nat /\ m < n
      BY <1>3
    <3>2. \A x \in Nat : x <= m => x <= n
      BY <3>1
    <3>3. n <= n /\ ~(n <= m)
      BY <3>1
    <3>4. QED
      BY <3>2, <3>3
  <2>2. IsFiniteSet(below(n)) /\ rank[m] \in Nat /\ rank[n] \in Nat
        /\ rank[m] = Cardinality(below(m)) /\ rank[n] = Cardinality(below(n))
    BY <1>2
  <2> HIDE DEF below, rank
  <2>3. /\ Cardinality(below(m)) <= Cardinality(below(n))
        /\ Cardinality(below(n)) # Cardinality(below(m))
    BY <2>1, <2>2, FS_Subset
  <2>4. QED
    BY <2>2, <2>3
<1>4. rank \in [S -> 1 .. c]
  <2>1. \A n \in S : rank[n] \in Nat /\ 1 <= rank[n] /\ rank[n] <= c
    BY <1>2
  <2>2. rank = [n \in S |-> rank[n]]
    OBVIOUS
  <2> HIDE DEF rank, c
  <2>3. \A n \in S : rank[n] \in 1 .. c
    BY <1>1, <2>1
  <2>4. QED
    BY <2>2, <2>3
<1>5. rank \in Injection(S, 1 .. c)
  <2>1. \A m, n \in S : rank[m] = rank[n] => m = n
    <3>1. \A n \in S : rank[n] \in Nat /\ n \in Nat
      BY <1>2
    <3> HIDE DEF rank
    <3>2. QED
      BY <1>3, <3>1
  <2> HIDE DEF rank
  <2>2. QED
    BY <1>4, <2>1 DEF Injection, IsInjective
<1>6. rank \in Surjection(S, 1 .. c)
  <2>1. IsFiniteSet(1 .. c) /\ Cardinality(1 .. c) = c
    <3>1. IsFiniteSet(1 .. c) /\ Cardinality(1 .. c) = IF 1 > c THEN 0 ELSE c - 1 + 1
      <4>1. 1 \in Int /\ c \in Int
        BY <1>1
      <4>2. QED
        BY <4>1, FS_Interval, Zenon
    <3>2. QED
      BY <1>1, <3>1
  <2> HIDE DEF rank
  <2>2. QED
    BY <1>5, <2>1, FS_Injection, Zenon
<1>7. \A k \in 1 .. c : \E n \in S : rank[n] = k
  <2> HIDE DEF rank
  <2>1. QED
    BY <1>6 DEF Surjection
<1>8. ASSUME NEW k \in 1 .. c
      PROVE  a[k] \in S /\ rank[a[k]] = k
  <2>1. \E n \in S : Cardinality(below(n)) = k
    BY <1>7
  <2>2. a[k] = CHOOSE n \in S : Cardinality(below(n)) = k
    BY DEF Ascending
  <2>3. a[k] \in S /\ Cardinality(below(a[k])) = k
    BY <2>1, <2>2
  <2>4. QED
    BY <1>2, <2>3
<1>9. a \in [1 .. c -> Nat]
  <2>1. a \in [1 .. c -> S]
    BY <1>8 DEF Ascending
  <2>2. QED
    BY <2>1
<1>10. a \in Seq(Nat) /\ Len(a) = c
  BY <1>1, <1>9
<1>11. \A j, k \in 1 .. c : j < k => a[j] < a[k]
  <2>1. SUFFICES ASSUME NEW j \in 1 .. c, NEW k \in 1 .. c, j < k, ~(a[j] < a[k]) PROVE FALSE
    OBVIOUS
  <2>2. a[j] \in S /\ a[k] \in S /\ rank[a[j]] = j /\ rank[a[k]] = k
    BY <1>8
  <2>3. j \in Nat /\ k \in Nat
    BY <1>1
  <2> HIDE DEF a, rank
  <2>4. a[j] \in Nat /\ a[k] \in Nat
    BY <2>2
  <2>5. a[k] = a[j] \/ a[k] < a[j]
    BY <2>1, <2>4
  <2>6. a[k] < a[j] => k < j
    BY <1>3, <2>2
  <2>7. QED
    BY <2>1, <2>2, <2>3, <2>5, <2>6
<1>12. \A n \in S : \E k \in 1 .. c : a[k] = n
  <2>1. SUFFICES ASSUME NEW n \in S PROVE a[rank[n]] = n
    BY <1>4
  <2>2. rank[n] \in 1 .. c
    BY <1>4
  <2>3. a[rank[n]] \in S /\ rank[a[rank[n]]] = rank[n]
    BY <1>8, <2>2
  <2>4. \A x, y \in S : rank[x] = rank[y] => x = y
    BY <1>5 DEF Injection, IsInjective
  <2> HIDE DEF a, rank
  <2>5. QED
    BY <2>3, <2>4
<1> HIDE DEF rank, a, c
<1>13. {a[k] : k \in 1 .. c} = S
  BY <1>8, <1>12
<1>14. QED
  BY <1>10, <1>11, <1>13 DEF a, c

(* Quotients grow with what is divided.                                    *)
LEMMA DivGrows ==
    ASSUME NEW a \in Nat, NEW b \in Nat, NEW c \in Nat \ {0}, a <= b
    PROVE  a \div c <= b \div c
<1> DEFINE p == a \div c
           q == b \div c
<1>1. /\ p \in Nat /\ a % c \in Nat /\ a = c * p + (a % c)
      /\ q \in Nat /\ b % c \in Nat /\ b = c * q + (b % c) /\ b % c < c
  BY DivMod
<1> HIDE DEF p, q
<1>2. SUFFICES ASSUME q + 1 <= p PROVE FALSE
  BY <1>1 DEF p, q
<1>3. c * (q + 1) <= c * p /\ c * p \in Nat
  BY <1>1, <1>2, Monotone
<1>4. c * (q + 1) = c * q + c /\ c * q \in Nat
  BY <1>1, OneMore
<1>5. QED
  BY <1>1, <1>3, <1>4, Z3

(* The numbers of the sectors.                                             *)
LEMMA Numbers ==
    ASSUME NEW s \in Segments, NEW i \in Sectors
    PROVE  LET n == SectorNumber(s, i)
           IN  /\ n \in Nat /\ n < Flag /\ n % Flag = n /\ n # 0
               /\ Flag + n \in Nat /\ Flag + n >= Flag /\ (Flag + n) % Flag = n
               /\ cvt2segment(n) = s /\ cvt2map(n) = i
               /\ cvt2segment(Flag + n) = s
<1> DEFINE n == SectorNumber(s, i)
           S == SectorsPerSegment
<1>1. /\ s \in Nat /\ s <= LastSegment /\ LastSegment \in Nat
      /\ S \in Nat \ {0} /\ i \in Nat /\ i < S
  BY BsmAssumption, HeaderAssumption DEF Segments, Sectors
<1>2. S * s <= S * LastSegment /\ S * s \in Nat /\ S * LastSegment \in Nat
  BY <1>1, Monotone
<1>3. S * (LastSegment + 1) = S * LastSegment + S
  BY <1>1, OneMore
<1>4. (LastSegment + 1) * S = S * (LastSegment + 1) /\ s * S = S * s
  BY <1>1, Z3
<1>5. (LastSegment + 1) * S < Flag
  BY BsmAssumption
<1>6. Flag \in Nat \ {0}
  BY DEF Flag
<1> HIDE DEF S
<1>7. n = (S * s + i) + 1
  BY <1>1, <1>2, <1>4 DEF SectorNumber, S
<1> HIDE DEF n
<1>8. n \in Nat /\ n # 0 /\ n - 1 = S * s + i /\ n < Flag
  BY <1>1, <1>2, <1>3, <1>4, <1>5, <1>6, <1>7
<1>9. (S * s + i) \div S = s /\ (S * s + i) % S = i
  BY <1>1, Unique
<1>10. n % Flag = n
  <2>1. (Flag * 0 + n) % Flag = n
    BY <1>6, <1>8, Unique
  <2>2. Flag * 0 + n = n
    BY <1>6, <1>8, Z3
  <2>3. QED
    BY <2>1, <2>2
<1>11. (Flag + n) % Flag = n
  <2>1. (Flag * 1 + n) % Flag = n
    BY <1>6, <1>8, Unique
  <2>2. Flag * 1 + n = Flag + n
    BY <1>6, <1>8, Z3
  <2>3. QED
    BY <2>1, <2>2
<1>12. cvt2segment(n) = s /\ cvt2map(n) = i /\ cvt2segment(Flag + n) = s
  BY <1>8, <1>9, <1>10, <1>11 DEF cvt2segment, cvt2map, S
<1>13. Flag + n \in Nat /\ Flag + n >= Flag
  BY <1>6, <1>8
<1>14. QED
  BY <1>8, <1>10, <1>11, <1>12, <1>13 DEF n

(* Entries of later segments are greater.                                  *)
LEMMA EntryOrder ==
    ASSUME NEW x \in Nat, NEW y \in Nat, x % Flag # 0, y % Flag # 0
    PROVE  /\ cvt2segment(x) \in Nat
           /\ x % Flag <= y % Flag => cvt2segment(x) <= cvt2segment(y)
           /\ cvt2segment(x) < cvt2segment(y) => x % Flag < y % Flag
<1>1. Flag \in Nat \ {0} /\ SectorsPerSegment \in Nat \ {0}
  BY HeaderAssumption DEF Flag
<1>2. x % Flag \in Nat /\ y % Flag \in Nat
  BY <1>1, DivMod
<1> DEFINE a == (x % Flag) - 1
           b == (y % Flag) - 1
<1>3. a \in Nat /\ b \in Nat
  BY <1>2
<1>4. /\ a <= b => a \div SectorsPerSegment <= b \div SectorsPerSegment
      /\ b <= a => b \div SectorsPerSegment <= a \div SectorsPerSegment
      /\ a \div SectorsPerSegment \in Nat /\ b \div SectorsPerSegment \in Nat
  BY <1>1, <1>3, DivGrows, DivMod
<1>5. /\ cvt2segment(x) = a \div SectorsPerSegment
      /\ cvt2segment(y) = b \div SectorsPerSegment
  BY DEF cvt2segment
<1>6. a <= b <=> x % Flag <= y % Flag
  BY <1>2
<1>7. b <= a <=> y % Flag <= x % Flag
  BY <1>2
<1> HIDE DEF a, b
<1>8. QED
  BY <1>2, <1>4, <1>5, <1>6, <1>7


(* The segments of the entries of a list never decrease.                   *)
LEMMA ListFacts ==
    ASSUME NEW fmt, NEW list, NEW maps, Lists(fmt, list, maps)
    PROVE  /\ list \in Seq(Nat) /\ Len(list) \in Nat /\ DOMAIN list = 1 .. Len(list)
           /\ \A i \in DOMAIN list : /\ list[i] \in Nat /\ list[i] % Flag # 0
                                     /\ SegmentOf(list, i) \in Nat
           /\ \A i, j \in DOMAIN list : i <= j => SegmentOf(list, i) <= SegmentOf(list, j)
<1>1. /\ list \in Seq(Nat)
      /\ \A i \in DOMAIN list : list[i] % Flag # 0
      /\ \A i, j \in DOMAIN list : i < j => list[i] % Flag < list[j] % Flag
  BY DEF Lists
<1>2. Len(list) \in Nat /\ DOMAIN list = 1 .. Len(list)
  BY <1>1
<1>3. \A i \in DOMAIN list : list[i] \in Nat
  BY <1>1
<1>4. \A i \in DOMAIN list : SegmentOf(list, i) \in Nat
  BY <1>1, <1>3, EntryOrder DEF SegmentOf
<1>5. ASSUME NEW i \in DOMAIN list, NEW j \in DOMAIN list, i <= j
      PROVE  SegmentOf(list, i) <= SegmentOf(list, j)
  <2>1. CASE i = j
    BY <1>4, <2>1
  <2>2. CASE i < j
    <3>1. list[i] % Flag < list[j] % Flag
      BY <1>1, <2>2
    <3>2. list[i] % Flag \in Nat /\ list[j] % Flag \in Nat
      BY <1>3, DivMod DEF Flag
    <3>3. list[i] % Flag <= list[j] % Flag
      BY <3>1, <3>2
    <3>4. QED
      BY <1>1, <1>3, <3>3, EntryOrder DEF SegmentOf
  <2>3. QED
    BY <1>2, <1>5, <2>1, <2>2
<1>6. QED
  BY <1>1, <1>2, <1>3, <1>4, <1>5

(* The indices of the entries of a segment.                                *)
Indices(list, segment) == {j \in DOMAIN list : SegmentOf(list, j) = segment}

(* The entries of a segment give its map.                                  *)
LEMMA SegmentEntries ==
    ASSUME NEW fmt, NEW list, NEW maps \in [Segments -> SUBSET Sectors],
           Lists(fmt, list, maps), NEW s \in Segments
    PROVE  /\ Indices(list, s) = {} => maps[s] = {}
           /\ HasFlags(fmt) /\ maps[s] = Sectors =>
                 /\ \A i \in Indices(list, s) : list[i] >= Flag
                 /\ \A i, j \in Indices(list, s) : i = j
           /\ ~(HasFlags(fmt) /\ maps[s] = Sectors) =>
                 /\ \A i \in Indices(list, s) :
                       /\ list[i] < Flag /\ cvt2map(list[i]) \in Sectors
                       /\ list[i] = SectorNumber(s, cvt2map(list[i]))
                 /\ {cvt2map(list[i]) : i \in Indices(list, s)} = maps[s]
<1> DEFINE D == Indices(list, s)
<1>1. {list[i] : i \in D} = EntrySet(fmt, s, maps[s])
  BY DEF Lists, Indices
<1>2. \A i, j \in DOMAIN list : i < j => list[i] % Flag < list[j] % Flag
  BY DEF Lists
<1>3. Len(list) \in Nat /\ DOMAIN list = 1 .. Len(list) /\ D \subseteq DOMAIN list
      /\ \A i \in DOMAIN list : list[i] \in Nat
  BY ListFacts DEF Indices
<1>4. maps[s] \subseteq Sectors /\ 0 \in Sectors
  BY HeaderAssumption DEF Sectors
<1> HIDE DEF D
<1>5. ASSUME HasFlags(fmt), maps[s] = Sectors
      PROVE  D # {} /\ (\A i \in D : list[i] >= Flag) /\ (\A i, j \in D : i = j)
  <2>1. {list[i] : i \in D} = {Flag + SectorNumber(s, 0)}
    BY <1>1, <1>5 DEF EntrySet
  <2>2. \A i \in D : list[i] = Flag + SectorNumber(s, 0)
    BY <2>1
  <2>3. D # {}
    BY <2>1
  <2>4. Flag + SectorNumber(s, 0) >= Flag
    BY <1>4, Numbers
  <2>5. ASSUME NEW i \in D, NEW j \in D, i < j
        PROVE  FALSE
    <3>1. list[i] % Flag < list[j] % Flag /\ list[i] = list[j]
      BY <1>2, <1>3, <2>2, <2>5
    <3>2. list[i] % Flag \in Nat
      BY <1>3, DivMod DEF Flag
    <3>3. QED
      BY <3>1, <3>2
  <2>6. \A i, j \in D : i = j
    BY <1>3, <2>5
  <2>7. QED
    BY <2>2, <2>3, <2>4, <2>6
<1>6. ASSUME ~(HasFlags(fmt) /\ maps[s] = Sectors)
      PROVE  /\ D = {} => maps[s] = {}
             /\ \A i \in D : /\ list[i] < Flag /\ cvt2map(list[i]) \in Sectors
                             /\ list[i] = SectorNumber(s, cvt2map(list[i]))
             /\ {cvt2map(list[i]) : i \in D} = maps[s]
  <2>1. {list[i] : i \in D} = {SectorNumber(s, k) : k \in maps[s]}
    BY <1>1, <1>6 DEF EntrySet
  <2>2. \A k \in Sectors : SectorNumber(s, k) < Flag /\ cvt2map(SectorNumber(s, k)) = k
    BY Numbers
  <2>3. ASSUME NEW i \in D
        PROVE  \E k \in maps[s] : list[i] = SectorNumber(s, k)
    BY <2>1
  <2>4. ASSUME NEW k \in maps[s]
        PROVE  \E i \in D : list[i] = SectorNumber(s, k)
    BY <2>1
  <2>5. \A i \in D : /\ list[i] < Flag /\ cvt2map(list[i]) \in maps[s]
                     /\ list[i] = SectorNumber(s, cvt2map(list[i]))
    BY <1>4, <2>2, <2>3
  <2>6. \A k \in maps[s] : \E i \in D : cvt2map(list[i]) = k
    BY <1>4, <2>2, <2>4
  <2>7. QED
    BY <1>4, <2>5, <2>6
<1>7. QED
  BY <1>5, <1>6 DEF D

(* No list has two entries of a segment in the same place of it, so that   *)
(* as many as there are sectors are all of them.                           *)
LEMMA FewEntries ==
    ASSUME NEW fmt, NEW list, NEW maps \in [Segments -> SUBSET Sectors],
           Lists(fmt, list, maps), NEW s \in Segments, maps[s] # Sectors,
           NEW p \in Nat, NEW n \in Nat, Indices(list, s) = p .. p + n - 1
    PROVE  n # SectorsPerSegment
<1> DEFINE D == p .. p + n - 1
           S == SectorsPerSegment
<1>1. SUFFICES ASSUME n = S PROVE FALSE
  OBVIOUS
<1>2. /\ \A i \in D : /\ cvt2map(list[i]) \in Sectors
                      /\ list[i] = SectorNumber(s, cvt2map(list[i]))
      /\ {cvt2map(list[i]) : i \in D} = maps[s]
  BY SegmentEntries
<1>3. \A i, j \in D : i # j => list[i] # list[j]
  <2>1. \A i, j \in DOMAIN list : i < j => list[i] % Flag < list[j] % Flag
    BY DEF Lists
  <2>2. \A i \in D : i \in DOMAIN list
    BY DEF Indices
  <2>3. \A i \in D : list[i] % Flag \in Nat
    BY <2>2, ListFacts, DivMod DEF Flag
  <2>4. \A i, j \in D : i # j => i < j \/ j < i
    OBVIOUS
  <2> HIDE DEF D
  <2>5. QED
    BY <2>1, <2>2, <2>3, <2>4
<1>4. S \in Nat \ {0} /\ IsFiniteSet(D) /\ Cardinality(D) = S
  <2>1. S \in Nat \ {0}
    BY HeaderAssumption
  <2> DEFINE q == p + n - 1
  <2>2. p \in Int /\ q \in Int
    OBVIOUS
  <2> HIDE DEF q
  <2>3. IsFiniteSet(p .. q) /\ Cardinality(p .. q) = IF p > q THEN 0 ELSE q - p + 1
    BY <2>2, FS_Interval, Zenon
  <2> USE DEF q
  <2>4. QED
    BY <1>1, <2>1, <2>3
<1>5. IsFiniteSet(Sectors) /\ Cardinality(Sectors) = S
  <2>1. 0 \in Int /\ S - 1 \in Int
    BY <1>4
  <2>2. IsFiniteSet(0 .. S - 1) /\ Cardinality(0 .. S - 1)
             = IF 0 > S - 1 THEN 0 ELSE S - 1 - 0 + 1
    BY <2>1, FS_Interval, Zenon
  <2>3. QED
    BY <1>4, <2>2 DEF Sectors
<1> HIDE DEF D, S
<1> DEFINE f == [i \in D |-> cvt2map(list[i])]
<1>6. f \in [D -> Sectors] /\ \A i \in D : f[i] = cvt2map(list[i])
  BY <1>2
<1> HIDE DEF f
<1>7. \A i, j \in D : f[i] = f[j] => i = j
  BY <1>2, <1>3, <1>6
<1>8. f \in Injection(D, Sectors)
  BY <1>6, <1>7 DEF Injection, IsInjective
<1>9. f \in Surjection(D, Sectors)
  BY <1>4, <1>5, <1>8, FS_Injection, Zenon
<1>10. \A k \in Sectors : \E i \in D : f[i] = k
  BY <1>9 DEF Surjection
<1>11. Sectors \subseteq maps[s] /\ maps[s] \subseteq Sectors
  BY <1>2, <1>6, <1>10
<1>12. QED
  BY <1>11

-----------------------------------------------------------------------------
(* The two searches                                                        *)

(* What a search for a segment has found is right.                         *)
FoundRight(list, f, segment, maps) ==
    /\ PlaceAt(list, f.ptr, segment)
    /\ f.map = maps[segment]

(* Searching forwards from the place of a segment that is not behind.      *)
LEMMA ForwardFound ==
    ASSUME NEW list, NEW maps \in [Segments -> SUBSET Sectors],
           Lists(tape.fmt, list, maps), NEW ptr, NEW last \in Int,
           PlaceAt(list, ptr, last), NEW s \in Segments, last <= s
    PROVE  LET f == forward_seek_entry(list, ptr, s)
           IN  /\ FoundRight(list, f, s, maps)
               /\ maps[s] # Sectors =>
                     /\ f.count \in Nat /\ f.count # SectorsPerSegment
                     /\ Indices(list, s) = f.ptr .. f.ptr + f.count - 1
<1> DEFINE n == Len(list)
           T == {i \in ptr .. n : SegmentOf(list, i) >= s} \cup {n + 1}
           p == MinOf(T)
           E == {i \in p .. n : SegmentOf(list, i) = s} \cup {p}
           end == MaxOf(E)
           f == forward_seek_entry(list, ptr, s)
           D == Indices(list, s)
<1>1. /\ n \in Nat /\ DOMAIN list = 1 .. n
      /\ \A i \in 1 .. n : SegmentOf(list, i) \in Nat
      /\ \A i, j \in 1 .. n : i <= j => SegmentOf(list, i) <= SegmentOf(list, j)
  BY ListFacts
<1>2. s \in Nat /\ ptr \in 1 .. n + 1
      /\ \A i \in 1 .. n : i < ptr <=> SegmentOf(list, i) < last
  <2>1. s \in Nat
    BY BsmAssumption DEF Segments
  <2>2. ptr \in 1 .. n + 1 /\ \A i \in DOMAIN list : i < ptr <=> SegmentOf(list, i) < last
    BY DEF PlaceAt
  <2> HIDE DEF n
  <2>3. QED
    BY <1>1, <2>1, <2>2
<1>3. T \in SUBSET Nat /\ T # {}
  BY <1>1, <1>2
<1>4. p \in T /\ \A y \in T : p <= y
  BY <1>3, Least
<1> HIDE DEF p
<1>5. p \in ptr .. n + 1
  BY <1>1, <1>2, <1>4
<1>6. ASSUME NEW i \in 1 .. n
      PROVE  i < p <=> SegmentOf(list, i) < s
  <2>1. i \in Nat /\ p \in Nat /\ SegmentOf(list, i) \in Nat
    BY <1>1, <1>2, <1>5
  <2>2. CASE i < ptr
    <3>1. SegmentOf(list, i) < last
      BY <1>2, <2>2
    <3>2. QED
      BY <1>2, <1>5, <2>1, <2>2, <3>1
  <2>3. CASE ptr <= i /\ i < p
    <3>1. i \notin T
      BY <1>3, <1>4, <2>1, <2>3
    <3>2. QED
      BY <1>1, <1>2, <2>1, <2>3, <3>1
  <2>4. CASE p <= i
    <3>1. p \in 1 .. n /\ SegmentOf(list, p) >= s
      BY <1>1, <1>2, <1>4, <1>5, <2>1, <2>4
    <3>2. SegmentOf(list, p) <= SegmentOf(list, i) /\ SegmentOf(list, p) \in Nat
      BY <1>1, <2>4, <3>1
    <3>3. QED
      BY <1>2, <2>1, <2>4, <3>1, <3>2
  <2>5. QED
    BY <1>2, <2>1, <2>2, <2>3, <2>4
<1>7. PlaceAt(list, p, s)
  BY <1>1, <1>2, <1>5, <1>6 DEF PlaceAt
<1>8. D = {i \in 1 .. n : SegmentOf(list, i) = s}
  BY <1>1 DEF Indices
<1> HIDE DEF T, D
<1>9. CASE p > n \/ SegmentOf(list, p) # s
  <2>1. f = Found(p, {}, 0)
    BY <1>9 DEF forward_seek_entry, T, p
  <2>2. D = {}
    <3>1. SUFFICES ASSUME NEW i \in 1 .. n, SegmentOf(list, i) = s PROVE FALSE
      BY <1>8
    <3>2. i >= p /\ p \in 1 .. n
      BY <1>1, <1>2, <1>5, <1>6, <3>1
    <3>3. SegmentOf(list, p) <= s /\ ~(SegmentOf(list, p) < s) /\ SegmentOf(list, p) \in Nat
      BY <1>1, <1>6, <3>1, <3>2
    <3>4. QED
      BY <1>2, <1>9, <3>2, <3>3
  <2>3. maps[s] = {}
    BY <2>2, SegmentEntries DEF D
  <2>4. p .. p + 0 - 1 = {} /\ SectorsPerSegment # 0 /\ 0 \in Nat
    BY <1>2, <1>5, HeaderAssumption
  <2>5. f.ptr = p /\ f.map = {} /\ f.count = 0
    BY <2>1 DEF Found
  <2> HIDE DEF f
  <2>6. QED
    BY <1>7, <2>2, <2>3, <2>4, <2>5 DEF FoundRight, D, f
<1>10. CASE p <= n /\ SegmentOf(list, p) = s
  <2>1. p \in 1 .. n /\ p \in D
    BY <1>1, <1>2, <1>5, <1>8, <1>10
  <2>2. CASE IsFlagged(list[p])
    <3>1. f = Found(p, Sectors, SectorsPerSegment)
      BY <1>1, <1>5, <1>10, <2>2 DEF forward_seek_entry, T, p
    <3>2. maps[s] = Sectors
      <4>1. list[p] >= Flag /\ list[p] \in Nat
        BY <2>1, <2>2, <1>1, ListFacts DEF IsFlagged
      <4>2. ~(list[p] < Flag)
        BY <4>1 DEF Flag
      <4>3. QED
        BY <2>1, <4>2, SegmentEntries DEF D
    <3>3. f.ptr = p /\ f.map = Sectors
      BY <3>1 DEF Found
    <3> HIDE DEF f
    <3>4. QED
      BY <1>7, <3>2, <3>3 DEF FoundRight, f
  <2>3. CASE ~IsFlagged(list[p])
    <3>1. E \in SUBSET Nat /\ E # {} /\ \A t \in E : t <= n + 1
      BY <1>1, <1>2, <1>5
    <3> HIDE DEF E
    <3>2. end \in E /\ \A y \in E : end >= y
      <4>1. n + 1 \in Nat
        BY <1>1
      <4> DEFINE m == n + 1
      <4> HIDE DEF m
      <4>2. m \in Nat /\ \A t \in E : t <= m
        BY <3>1, <4>1 DEF m
      <4>3. QED
        BY <3>1, <4>2, Greatest
    <3>3. f = Found(p, Gather(list, p, end), end - p + 1)
      BY <1>1, <1>5, <1>10, <2>3 DEF forward_seek_entry, T, p, E
    <3> HIDE DEF end
    <3> USE DEF E
    <3>4. end \in p .. n /\ SegmentOf(list, end) = s
      BY <1>1, <1>5, <1>10, <3>2
    <3>5. D = p .. end
      <4>1. ASSUME NEW i \in D PROVE i \in p .. end
        <5>1. i \in 1 .. n /\ SegmentOf(list, i) = s
          BY <1>8
        <5>2. i >= p
          BY <1>1, <1>2, <1>5, <1>6, <5>1
        <5>3. i \in E
          BY <1>1, <1>5, <5>1, <5>2
        <5>4. QED
          BY <1>1, <1>5, <3>2, <3>4, <5>1, <5>2, <5>3
      <4>2. ASSUME NEW i \in p .. end PROVE i \in D
        <5>1. i \in 1 .. n /\ p \in 1 .. n /\ end \in 1 .. n /\ p <= i /\ i <= end
          BY <1>1, <1>2, <1>5, <3>4, <4>2
        <5>2. SegmentOf(list, p) <= SegmentOf(list, i)
              /\ SegmentOf(list, i) <= SegmentOf(list, end) /\ SegmentOf(list, i) \in Nat
          BY <1>1, <5>1
        <5>3. QED
          BY <1>2, <1>8, <1>10, <3>4, <5>1, <5>2
      <4>3. QED
        BY <4>1, <4>2
    <3>6. ~(HasFlags(tape.fmt) /\ maps[s] = Sectors)
      BY <2>1, <2>3, SegmentEntries DEF IsFlagged, Extended, D
    <3>7. Gather(list, p, end) = maps[s]
      <4>1. {cvt2map(list[i]) : i \in Indices(list, s)} = maps[s]
        BY <3>6, SegmentEntries
      <4>2. QED
        BY <3>5, <4>1 DEF Gather, D
    <3>8. f.ptr = p /\ f.map = maps[s] /\ f.count = end - p + 1
      BY <3>3, <3>7 DEF Found
    <3>9. f.count \in Nat /\ p \in Nat /\ p + f.count - 1 = end
      BY <1>2, <1>5, <3>4, <3>8
    <3>10. D = p .. p + f.count - 1
      BY <3>5, <3>9
    <3> HIDE DEF f
    <3>11. maps[s] # Sectors => f.count # SectorsPerSegment
      BY <3>9, <3>10, FewEntries DEF D
    <3>12. QED
      BY <1>7, <3>8, <3>9, <3>10, <3>11 DEF FoundRight, D, f
  <2>4. QED
    BY <2>2, <2>3
<1>11. QED
  BY <1>1, <1>2, <1>5, <1>9, <1>10

(* Searching backwards from the place of a segment that is behind.         *)
LEMMA BackwardFound ==
    ASSUME NEW list, NEW maps \in [Segments -> SUBSET Sectors],
           Lists(tape.fmt, list, maps), NEW ptr, NEW last \in Int,
           PlaceAt(list, ptr, last), NEW s \in Segments, s < last
    PROVE  FoundRight(list, backwards_seek_entry(list, ptr, s), s, maps)
<1> DEFINE n == Len(list)
           T == {i \in 1 .. ptr - 1 : SegmentOf(list, i) <= s} \cup {1}
           p == MaxOf(T)
           E == {i \in 1 .. p : SegmentOf(list, i) = s} \cup {p}
           start == MinOf(E)
           f == backwards_seek_entry(list, ptr, s)
           D == Indices(list, s)
<1>1. /\ n \in Nat /\ DOMAIN list = 1 .. n
      /\ \A i \in 1 .. n : SegmentOf(list, i) \in Nat
      /\ \A i, j \in 1 .. n : i <= j => SegmentOf(list, i) <= SegmentOf(list, j)
  BY ListFacts
<1>2. s \in Nat /\ ptr \in 1 .. n + 1
      /\ \A i \in 1 .. n : i < ptr <=> SegmentOf(list, i) < last
  <2>1. s \in Nat
    BY BsmAssumption DEF Segments
  <2>2. ptr \in 1 .. n + 1 /\ \A i \in DOMAIN list : i < ptr <=> SegmentOf(list, i) < last
    BY DEF PlaceAt
  <2> HIDE DEF n
  <2>3. QED
    BY <1>1, <2>1, <2>2
<1>3. D = {i \in 1 .. n : SegmentOf(list, i) = s}
  BY <1>1 DEF Indices
<1> HIDE DEF D, n
<1>4. ASSUME NEW q \in 1 .. n + 1,
             \A i \in 1 .. n : i < q <=> SegmentOf(list, i) < s
      PROVE  PlaceAt(list, q, s)
  BY <1>1, <1>4 DEF PlaceAt, n
<1>5. ASSUME \A i \in 1 .. n : SegmentOf(list, i) # s
      PROVE  maps[s] = {}
  <2>1. D = {}
    BY <1>3, <1>5
  <2>2. QED
    BY <2>1, SegmentEntries DEF D
<1>6. CASE ptr <= 1
  <2>1. f = Found(ptr, {}, 0)
    BY <1>6 DEF backwards_seek_entry
  <2>2. \A i \in 1 .. n : ~(i < ptr) /\ SegmentOf(list, i) > s
    BY <1>1, <1>2, <1>6
  <2>3. PlaceAt(list, ptr, s) /\ maps[s] = {}
    BY <1>1, <1>2, <1>4, <1>5, <2>2
  <2>4. QED
    BY <2>1, <2>3 DEF FoundRight, Found
<1>7. CASE ptr > 1
  <2>1. T \in SUBSET Nat /\ T # {} /\ \A t \in T : t <= ptr - 1
    BY <1>1, <1>2, <1>7
  <2>2. p \in T /\ \A y \in T : p >= y
    <3> DEFINE m == ptr - 1
    <3>1. m \in Nat /\ \A t \in T : t <= m
      BY <1>1, <1>2, <1>7, <2>1
    <3> HIDE DEF m, T
    <3>2. QED
      BY <2>1, <3>1, Greatest
  <2>3. p \in 1 .. n /\ p < ptr /\ SegmentOf(list, p) \in Nat
    BY <1>1, <1>2, <1>7, <2>1, <2>2
  <2>4. ASSUME NEW i \in 1 .. n, p < i
        PROVE  SegmentOf(list, i) > s
    <3>1. i \in Nat /\ SegmentOf(list, i) \in Nat /\ ptr \in Nat
      BY <1>1, <1>2
    <3>2. CASE i < ptr
      BY <1>2, <2>2, <2>3, <2>4, <3>1, <3>2
    <3>3. CASE ptr <= i
      BY <1>2, <3>1, <3>3
    <3>4. QED
      BY <3>1, <3>2, <3>3
  <2>5. CASE SegmentOf(list, p) > s
    <3>1. f = Found(p, {}, 0)
      BY <1>2, <1>7, <2>3, <2>5 DEF backwards_seek_entry, T, p
    <3> HIDE DEF p
    <3>2. p = 1
      BY <1>2, <2>2, <2>3, <2>5
    <3>3. \A i \in 1 .. n : SegmentOf(list, i) > s /\ ~(i < 1)
      BY <1>1, <1>2, <2>3, <2>5, <3>2
    <3>4. maps[s] = {}
      BY <1>1, <1>2, <1>5, <3>3
    <3>5. PlaceAt(list, p, s)
      BY <1>1, <1>2, <1>4, <2>3, <3>2, <3>3
    <3>6. QED
      BY <3>1, <3>4, <3>5 DEF FoundRight, Found
  <2>6. CASE SegmentOf(list, p) < s
    <3>1. f = Found(p + 1, {}, 0)
      BY <1>2, <1>7, <2>3, <2>6 DEF backwards_seek_entry, T, p
    <3> HIDE DEF p
    <3>2. ASSUME NEW i \in 1 .. n
          PROVE  SegmentOf(list, i) # s /\ (i < p + 1 <=> SegmentOf(list, i) < s)
      <4>1. i \in Nat /\ SegmentOf(list, i) \in Nat
        BY <1>1
      <4>2. CASE i <= p
        <5>1. SegmentOf(list, i) <= SegmentOf(list, p)
          BY <1>1, <2>3, <4>2
        <5>2. QED
          BY <1>2, <2>3, <2>6, <4>1, <4>2, <5>1
      <4>3. CASE p < i
        BY <1>2, <2>3, <2>4, <4>1, <4>3
      <4>4. QED
        BY <2>3, <4>1, <4>2, <4>3
    <3>3. maps[s] = {}
      BY <1>5, <3>2
    <3> DEFINE q == p + 1
    <3>4. q \in 1 .. n + 1 /\ \A i \in 1 .. n : i < q <=> SegmentOf(list, i) < s
      BY <1>1, <1>2, <2>3, <3>2
    <3> HIDE DEF q
    <3>5. PlaceAt(list, q, s)
      BY <1>4, <3>4
    <3>6. QED
      BY <3>1, <3>3, <3>5 DEF FoundRight, Found, q
  <2>7. CASE SegmentOf(list, p) = s
    <3>1. p \in D
      BY <1>3, <2>3, <2>7
    <3>2. CASE IsFlagged(list[p])
      <4>1. f = Found(p, Sectors, SectorsPerSegment)
        BY <1>2, <1>7, <2>7, <3>2 DEF backwards_seek_entry, T, p
      <4>2. HasFlags(tape.fmt) /\ maps[s] = Sectors
        <5>1. list[p] >= Flag /\ list[p] \in Nat /\ HasFlags(tape.fmt)
          BY <1>1, <2>3, <3>2, ListFacts DEF IsFlagged, Extended
        <5>2. ~(list[p] < Flag)
          BY <5>1 DEF Flag
        <5>3. QED
          BY <3>1, <5>1, <5>2, SegmentEntries DEF D
      <4>3. \A i \in D : i = p
        BY <3>1, <4>2, SegmentEntries DEF D
      <4> HIDE DEF p
      <4>4. ASSUME NEW i \in 1 .. n
            PROVE  i < p <=> SegmentOf(list, i) < s
        <5>1. i \in Nat /\ SegmentOf(list, i) \in Nat /\ p \in Nat
          BY <1>1, <2>3
        <5>2. i # p => SegmentOf(list, i) # s
          BY <1>3, <4>3
        <5>3. i <= p => SegmentOf(list, i) <= s
          BY <1>1, <2>3, <2>7
        <5>4. p <= i => s <= SegmentOf(list, i)
          BY <1>1, <2>3, <2>7
        <5>5. QED
          BY <1>2, <2>7, <5>1, <5>2, <5>3, <5>4
      <4>5. p \in 1 .. n + 1
        BY <1>1, <2>3
      <4>6. PlaceAt(list, p, s)
        BY <1>4, <4>4, <4>5
      <4>7. QED
        BY <4>1, <4>2, <4>6 DEF FoundRight, Found
    <3>3. CASE ~IsFlagged(list[p])
      <4>1. E \in SUBSET Nat /\ E # {}
        <5> HIDE DEF p
        <5>1. p \in Nat
          BY <2>3
        <5>2. QED
          BY <5>1
      <4>2. start \in E /\ \A y \in E : start <= y
        <5> HIDE DEF E
        <5>1. QED
          BY <4>1, Least
      <4>3. f = Found(start, Gather(list, start, p), p - start + 1)
        BY <1>2, <1>7, <2>7, <3>3 DEF backwards_seek_entry, T, p
      <4> HIDE DEF start, p
      <4>4. start \in 1 .. p /\ SegmentOf(list, start) = s /\ start \in 1 .. n
        BY <1>1, <2>3, <2>7, <4>2
      <4>5. ASSUME NEW i \in 1 .. n
            PROVE  /\ i < start <=> SegmentOf(list, i) < s
                   /\ i \in start .. p <=> SegmentOf(list, i) = s
        <5>1. i \in Nat /\ SegmentOf(list, i) \in Nat /\ p \in Nat /\ start \in Nat
              /\ start <= p
          BY <1>1, <2>3, <4>4
        <5>2. i <= p => SegmentOf(list, i) <= s
          BY <1>1, <2>3, <2>7
        <5>3. start <= i => s <= SegmentOf(list, i)
          BY <1>1, <4>4
        <5>4. p < i => s < SegmentOf(list, i)
          BY <2>4, <1>2, <5>1
        <5>5. i < start => SegmentOf(list, i) # s
          BY <4>2, <4>4, <5>1
        <5>6. QED
          BY <1>2, <5>1, <5>2, <5>3, <5>4, <5>5
      <4>6. D = start .. p
        BY <1>1, <1>3, <2>3, <4>4, <4>5
      <4>7. ~(HasFlags(tape.fmt) /\ maps[s] = Sectors)
        BY <3>1, <3>3, SegmentEntries DEF IsFlagged, Extended, D
      <4>8. Gather(list, start, p) = maps[s]
        <5>1. {cvt2map(list[i]) : i \in Indices(list, s)} = maps[s]
          BY <4>7, SegmentEntries
        <5>2. QED
          BY <4>6, <5>1 DEF Gather, D
      <4>9. PlaceAt(list, start, s)
        BY <1>1, <1>4, <4>4, <4>5
      <4>10. QED
        BY <4>3, <4>8, <4>9 DEF FoundRight, Found
    <3>4. QED
      BY <3>2, <3>3
  <2>8. QED
    BY <1>2, <2>3, <2>5, <2>6, <2>7
<1>8. QED
  BY <1>1, <1>2, <1>6, <1>7

-----------------------------------------------------------------------------
(* Changing the entries of a segment                                       *)

(* The elements of two lists joined                                        *)
LEMMA Joined ==
    ASSUME NEW x \in Seq(Nat), NEW y \in Seq(Nat), NEW z, z = x \o y,
           NEW m \in Nat, m = Len(x)
    PROVE  /\ z \in Seq(Nat) /\ Len(z) = m + Len(y)
           /\ \A i \in 1 .. m : z[i] = x[i]
           /\ \A i \in 1 .. Len(y) : z[m + i] = y[i]
<1>1. /\ x \o y \in Seq(Nat) /\ Len(x \o y) = Len(x) + Len(y)
      /\ \A i \in 1 .. Len(x) + Len(y) :
            (x \o y)[i] = IF i <= Len(x) THEN x[i] ELSE y[i - Len(x)]
  BY ConcatProperties
<1>2. Len(y) \in Nat
  OBVIOUS
<1>3. \A i \in 1 .. m + Len(y) : z[i] = IF i <= m THEN x[i] ELSE y[i - m]
  BY <1>1
<1>4. ASSUME NEW i \in 1 .. m
      PROVE  z[i] = x[i]
  <2>1. i \in 1 .. m + Len(y) /\ i <= m
    BY <1>2
  <2>2. QED
    BY <1>3, <2>1
<1>5. ASSUME NEW i \in 1 .. Len(y)
      PROVE  z[m + i] = y[i]
  <2> DEFINE k == m + i
  <2>1. k \in 1 .. m + Len(y) /\ ~(k <= m) /\ k - m = i
    BY <1>2
  <2> HIDE DEF k
  <2>2. z[k] = y[k - m]
    BY <1>3, <2>1
  <2>3. QED
    BY <2>1, <2>2 DEF k
<1>6. QED
  BY <1>1, <1>4, <1>5

(* Where the entries of the new list come from                             *)
Exchanged(new, list, p, n, e) ==
    /\ new \in Seq(Nat) /\ Len(new) = Len(list) - n + Len(e)
    /\ \A i \in 1 .. p - 1 : new[i] = list[i]
    /\ \A i \in 1 .. Len(e) : new[p - 1 + i] = e[i]
    /\ \A i \in p + n .. Len(list) : new[i - n + Len(e)] = list[i]

LEMMA ReplacedFacts ==
    ASSUME NEW list \in Seq(Nat), NEW e \in Seq(Nat), NEW p \in Nat \ {0}, NEW n \in Nat,
           p + n <= Len(list) + 1
    PROVE  Exchanged(Replaced(list, p, n, e), list, p, n, e)
<1> DEFINE new == Replaced(list, p, n, e)
           c == Len(e)
           L == Len(list)
           a == SubSeq(list, 1, p - 1)
           b == SubSeq(list, p + n, L)
<1>1. L \in Nat /\ c \in Nat
  OBVIOUS
<1>2. \A i \in 1 .. L : list[i] \in Nat
  OBVIOUS
<1>3. a \in Seq(Nat) /\ Len(a) = p - 1 /\ \A i \in 1 .. p - 1 : a[i] = list[i]
  BY <1>1, <1>2
<1>4. b \in Seq(Nat) /\ Len(b) = L - (p + n) + 1
      /\ \A i \in 1 .. L - (p + n) + 1 : b[i] = list[p + n + i - 1]
  BY <1>1, <1>2
<1>5. new = (a \o e) \o b
  BY DEF Replaced
<1> DEFINE q == p - 1
           g == a \o e
<1> HIDE DEF a, b, new, L, q
<1>6. q \in Nat /\ q = Len(a) /\ p - 1 = q
  BY <1>3 DEF q
<1>7. g \in Seq(Nat) /\ Len(g) = q + c
      /\ (\A i \in 1 .. q : g[i] = a[i]) /\ \A i \in 1 .. c : g[q + i] = e[i]
  <2>1. a \in Seq(Nat) /\ q \in Nat /\ q = Len(a) /\ g = a \o e
    BY <1>3, <1>6
  <2> HIDE DEF g
  <2>2. QED
    BY <2>1, Joined
<1> DEFINE r == q + c
<1> HIDE DEF g, r, c
<1>8. r \in Nat /\ r = Len(g) /\ r = q + c
  BY <1>1, <1>6, <1>7 DEF r
<1>9. /\ new \in Seq(Nat) /\ Len(new) = r + Len(b)
      /\ \A i \in 1 .. r : new[i] = g[i]
      /\ \A i \in 1 .. Len(b) : new[r + i] = b[i]
  <2>1. new = g \o b
    BY <1>5 DEF g
  <2>2. g \in Seq(Nat) /\ b \in Seq(Nat) /\ r \in Nat /\ r = Len(g)
    BY <1>4, <1>7, <1>8
  <2>3. QED
    BY <2>1, <2>2, Joined
<1>10. Len(new) = L - n + c
  BY <1>1, <1>4, <1>6, <1>8, <1>9
<1>11. \A i \in 1 .. p - 1 : new[i] = list[i]
  <2>1. \A i \in 1 .. q : i \in 1 .. r
    BY <1>1, <1>6, <1>8
  <2>2. \A i \in 1 .. q : new[i] = g[i]
    BY <1>9, <2>1
  <2>3. QED
    BY <1>3, <1>6, <1>7, <2>2
<1>12. \A i \in 1 .. c : new[p - 1 + i] = e[i]
  <2>1. \A i \in 1 .. c : q + i \in 1 .. r
    BY <1>1, <1>6, <1>8
  <2>2. QED
    BY <1>6, <1>7, <1>9, <2>1
<1>13. ASSUME NEW i \in p + n .. L
       PROVE  new[i - n + c] = list[i]
  <2> DEFINE k == i - (p + n) + 1
  <2>1. k \in 1 .. L - (p + n) + 1 /\ r + k = i - n + c /\ p + n + k - 1 = i
    BY <1>1, <1>6, <1>8
  <2> HIDE DEF k
  <2>2. new[r + k] = b[k] /\ b[k] = list[p + n + k - 1]
    BY <1>4, <1>9, <2>1
  <2>3. QED
    BY <2>1, <2>2
<1>14. QED
  BY <1>9, <1>10, <1>11, <1>12, <1>13 DEF Exchanged, new, L, c

(* The flag is a number.                                                   *)
LEMMA FlagIsPositive == Flag \in Nat \ {0}
BY DEF Flag

(* The entries of a segment: numbers of its own, in order.                 *)
LEMMA EntriesOf ==
    ASSUME NEW fmt, NEW s \in Segments, NEW map \in SUBSET Sectors
    PROVE  LET e == Ascending(EntrySet(fmt, s, map))
           IN  /\ e \in Seq(Nat) /\ Len(e) \in Nat
               /\ {e[k] : k \in 1 .. Len(e)} = EntrySet(fmt, s, map)
               /\ \A k \in 1 .. Len(e) : /\ e[k] \in Nat /\ e[k] % Flag # 0
                                         /\ cvt2segment(e[k]) = s
               /\ \A j, k \in 1 .. Len(e) : j < k => e[j] % Flag < e[k] % Flag
<1> DEFINE S == EntrySet(fmt, s, map)
           e == Ascending(S)
<1>1. 0 \in Sectors
  BY HeaderAssumption DEF Sectors
<1>2. \A x \in S : x \in Nat /\ x % Flag # 0 /\ cvt2segment(x) = s
  BY <1>1, Numbers DEF EntrySet
<1>3. \/ S = {Flag + SectorNumber(s, 0)}
      \/ \A x \in S : x < Flag /\ x % Flag = x
  BY Numbers DEF EntrySet
<1>4. IsFiniteSet(S)
  <2>1. CASE S = {Flag + SectorNumber(s, 0)}
    BY <2>1, FS_Singleton
  <2>2. CASE \A x \in S : x < Flag /\ x % Flag = x
    <3>1. S \in SUBSET (0 .. Flag)
      <4> HIDE DEF S
      <4>1. \A x \in S : x \in 0 .. Flag
        BY <1>2, <2>2, FlagIsPositive
      <4>2. QED
        BY <4>1
    <3>2. 0 \in Int /\ Flag \in Int
      BY FlagIsPositive
    <3>3. IsFiniteSet(0 .. Flag)
      BY <3>2, FS_Interval, Zenon
    <3>4. QED
      BY <3>1, <3>3, FS_Subset, Zenon
  <2>3. QED
    BY <1>3, <2>1, <2>2
<1>5. S \in SUBSET Nat
  BY <1>2
<1> HIDE DEF S
<1>6. /\ e \in Seq(Nat) /\ {e[k] : k \in 1 .. Len(e)} = S
      /\ \A j, k \in 1 .. Len(e) : j < k => e[j] < e[k]
  BY <1>4, <1>5, AscendingLists
<1>7. Len(e) \in Nat
  BY <1>6
<1> HIDE DEF e
<1>8. \A k \in 1 .. Len(e) : e[k] \in S
  BY <1>6
<1>9. \A k \in 1 .. Len(e) : e[k] \in Nat /\ e[k] % Flag # 0 /\ cvt2segment(e[k]) = s
  BY <1>2, <1>8
<1>10. ASSUME NEW j \in 1 .. Len(e), NEW k \in 1 .. Len(e), j < k
       PROVE  e[j] % Flag < e[k] % Flag
  <2>1. e[j] < e[k] /\ e[j] \in Nat /\ e[k] \in Nat
    BY <1>6, <1>9, <1>10
  <2>2. e[j] # e[k]
    BY <2>1
  <2>3. CASE S = {Flag + SectorNumber(s, 0)}
    BY <1>8, <2>2, <2>3
  <2>4. CASE \A x \in S : x < Flag /\ x % Flag = x
    BY <1>8, <2>1, <2>4
  <2>5. QED
    BY <1>3, <2>3, <2>4 DEF S
<1>11. QED
  BY <1>6, <1>7, <1>9, <1>10 DEF e, S

(* A list whose entries of a segment make way for the entries of another   *)
(* map describes the map that has changed, and the place stays.            *)
LEMMA ChangedList ==
    ASSUME NEW fmt, NEW list, NEW maps \in [Segments -> SUBSET Sectors],
           Lists(fmt, list, maps), NEW s \in Segments, NEW map \in SUBSET Sectors,
           NEW p, NEW n \in Nat, PlaceAt(list, p, s), Indices(list, s) = p .. p + n - 1
    PROVE  LET new == Replaced(list, p, n, Ascending(EntrySet(fmt, s, map)))
           IN  Lists(fmt, new, [maps EXCEPT ![s] = map]) /\ PlaceAt(new, p, s)
<1> DEFINE e == Ascending(EntrySet(fmt, s, map))
           c == Len(e)
           L == Len(list)
           new == Replaced(list, p, n, e)
           N == Len(new)
           seg(x) == cvt2segment(x)
           num(x) == x % Flag
           changed == [maps EXCEPT ![s] = map]
<1>1. /\ list \in Seq(Nat) /\ L \in Nat /\ DOMAIN list = 1 .. L
      /\ \A i \in 1 .. L : /\ list[i] \in Nat /\ num(list[i]) # 0 /\ num(list[i]) \in Nat
                           /\ seg(list[i]) \in Nat
      /\ \A i, j \in 1 .. L : i < j => num(list[i]) < num(list[j])
  <2>1. /\ list \in Seq(Nat) /\ L \in Nat /\ DOMAIN list = 1 .. L
        /\ \A i \in 1 .. L : list[i] \in Nat /\ num(list[i]) # 0 /\ seg(list[i]) \in Nat
    BY ListFacts DEF SegmentOf
  <2>2. \A i, j \in DOMAIN list : i < j => num(list[i]) < num(list[j])
    BY DEF Lists
  <2>3. \A x \in Nat : num(x) \in Nat
    BY DivMod, FlagIsPositive
  <2>4. QED
    BY <2>1, <2>2, <2>3
<1>2. /\ e \in Seq(Nat) /\ c \in Nat /\ {e[k] : k \in 1 .. c} = EntrySet(fmt, s, map)
      /\ \A k \in 1 .. c : /\ e[k] \in Nat /\ num(e[k]) # 0 /\ num(e[k]) \in Nat
                           /\ seg(e[k]) = s
      /\ \A j, k \in 1 .. c : j < k => num(e[j]) < num(e[k])
  <2>1. /\ e \in Seq(Nat) /\ c \in Nat /\ {e[k] : k \in 1 .. c} = EntrySet(fmt, s, map)
        /\ \A k \in 1 .. c : e[k] \in Nat /\ num(e[k]) # 0 /\ seg(e[k]) = s
        /\ \A j, k \in 1 .. c : j < k => num(e[j]) < num(e[k])
    BY EntriesOf
  <2>2. \A x \in Nat : num(x) \in Nat
    BY DivMod, FlagIsPositive
  <2>3. QED
    BY <2>1, <2>2
<1>3. \A x, y \in Nat : num(x) # 0 /\ num(y) # 0 /\ seg(x) < seg(y) => num(x) < num(y)
  BY EntryOrder
<1>4. s \in Nat /\ p \in 1 .. L + 1
      /\ \A i \in 1 .. L : i < p <=> seg(list[i]) < s
  <2>1. s \in Nat
    BY BsmAssumption DEF Segments
  <2>2. p \in 1 .. L + 1 /\ \A i \in 1 .. L : i < p <=> seg(list[i]) < s
    BY <1>1 DEF PlaceAt, SegmentOf
  <2>3. QED
    BY <2>1, <2>2
<1>5. \A i \in 1 .. L : i \in p .. p + n - 1 <=> seg(list[i]) = s
  <2>1. \A i \in 1 .. L : i \in Indices(list, s) <=> seg(list[i]) = s
    BY <1>1 DEF Indices, SegmentOf
  <2>2. QED
    BY <2>1
<1>6. p + n <= L + 1 /\ p \in Nat \ {0}
  <2>1. p .. p + n - 1 \subseteq 1 .. L
    BY <1>1 DEF Indices
  <2>2. n > 0 => p + n - 1 \in 1 .. L
    BY <1>4, <2>1
  <2>3. QED
    BY <1>1, <1>4, <2>2
<1>7. /\ new \in Seq(Nat) /\ N = L - n + c
      /\ \A i \in 1 .. p - 1 : new[i] = list[i]
      /\ \A i \in 1 .. c : new[p - 1 + i] = e[i]
      /\ \A i \in p + n .. L : new[i - n + c] = list[i]
  <2>1. list \in Seq(Nat) /\ e \in Seq(Nat) /\ p \in Nat \ {0} /\ p + n <= Len(list) + 1
    BY <1>1, <1>2, <1>6
  <2> HIDE DEF e
  <2>2. Exchanged(Replaced(list, p, n, e), list, p, n, e)
    BY <2>1, ReplacedFacts
  <2> HIDE DEF new
  <2>3. Exchanged(new, list, p, n, e)
    BY <2>2 DEF new
  <2>4. QED
    BY <2>3 DEF Exchanged
<1>8. N \in Nat /\ DOMAIN new = 1 .. N
  BY <1>7
<1>9. \A i \in 1 .. L : /\ i < p => seg(list[i]) < s
                        /\ i >= p + n => seg(list[i]) > s
  <2>1. ASSUME NEW i \in 1 .. L, i >= p + n
        PROVE  seg(list[i]) > s
    <3>1. ~(i < p) /\ i \notin p .. p + n - 1
      BY <1>6, <2>1
    <3>2. ~(seg(list[i]) < s) /\ seg(list[i]) # s /\ seg(list[i]) \in Nat
      BY <1>1, <1>4, <1>5, <3>1
    <3>3. QED
      BY <1>4, <3>2
  <2>2. QED
    BY <1>4, <2>1
<1> HIDE DEF e, c, L, new, N, seg, num
<1> DEFINE Before(i) == i \in 1 .. L /\ i < p /\ new[i] = list[i]
           Within(i) == i - p + 1 \in 1 .. c /\ new[i] = e[i - p + 1]
           Behind(i) == i - c + n \in p + n .. L /\ new[i] = list[i - c + n]
<1>10. ASSUME NEW i \in 1 .. N
       PROVE  Before(i) \/ Within(i) \/ Behind(i)
  <2>1. CASE i < p
    BY <1>1, <1>4, <1>6, <1>7, <1>8, <2>1
  <2>2. CASE p <= i /\ i < p + c
    <3> DEFINE k == i - p + 1
    <3>1. k \in 1 .. c /\ p - 1 + k = i
      BY <1>2, <1>6, <2>2
    <3> HIDE DEF k
    <3>2. new[i] = e[k]
      BY <1>7, <3>1
    <3>3. QED
      BY <3>1, <3>2 DEF k
  <2>3. CASE p + c <= i
    <3> DEFINE k == i - c + n
    <3>1. k \in p + n .. L /\ k - n + c = i
      BY <1>1, <1>2, <1>6, <1>7, <2>3
    <3> HIDE DEF k
    <3>2. new[i] = list[k]
      BY <1>7, <3>1
    <3>3. QED
      BY <3>1, <3>2 DEF k
  <2>4. QED
    BY <1>2, <1>6, <2>1, <2>2, <2>3
<1>11. ASSUME NEW i \in 1 .. N
       PROVE  /\ new[i] \in Nat /\ num(new[i]) # 0 /\ num(new[i]) \in Nat
              /\ seg(new[i]) \in Nat
              /\ Before(i) => seg(new[i]) < s
              /\ Within(i) => seg(new[i]) = s
              /\ Behind(i) => seg(new[i]) > s
  <2>1. Before(i) => /\ new[i] \in Nat /\ num(new[i]) # 0 /\ num(new[i]) \in Nat
                     /\ seg(new[i]) \in Nat /\ seg(new[i]) < s
    BY <1>1, <1>9
  <2>2. Within(i) => /\ new[i] \in Nat /\ num(new[i]) # 0 /\ num(new[i]) \in Nat
                     /\ seg(new[i]) \in Nat /\ seg(new[i]) = s
    BY <1>2, <1>4
  <2>3. Behind(i) => /\ new[i] \in Nat /\ num(new[i]) # 0 /\ num(new[i]) \in Nat
                     /\ seg(new[i]) \in Nat /\ seg(new[i]) > s
    <3>1. SUFFICES ASSUME Behind(i)
                   PROVE  /\ new[i] \in Nat /\ num(new[i]) # 0 /\ num(new[i]) \in Nat
                          /\ seg(new[i]) \in Nat /\ seg(new[i]) > s
      OBVIOUS
    <3> DEFINE k == i - c + n
    <3>2. k \in 1 .. L /\ k >= p + n /\ new[i] = list[k]
      BY <1>1, <1>6, <3>1
    <3> HIDE DEF k
    <3>3. QED
      BY <1>1, <1>9, <3>2
  <2>4. QED
    BY <1>10, <2>1, <2>2, <2>3
<1>12. \A i \in 1 .. N : /\ Before(i) <=> i < p
                         /\ Within(i) => i >= p /\ i < p + c
                         /\ Behind(i) => i >= p + c
  <2>1. \A i \in 1 .. N : /\ Before(i) => i < p
                          /\ Within(i) => i >= p /\ i < p + c
                          /\ Behind(i) => i >= p + c
    BY <1>1, <1>2, <1>6
  <2> HIDE DEF Before, Within, Behind
  <2>2. QED
    BY <1>2, <1>6, <1>8, <1>10, <2>1
<1>13. PlaceAt(new, p, s)
  <2>1. p \in 1 .. N + 1
    BY <1>1, <1>2, <1>6, <1>7, <1>8
  <2>2. ASSUME NEW i \in 1 .. N
        PROVE  i < p <=> seg(new[i]) < s
    <3> HIDE DEF Before, Within, Behind
    <3>1. QED
      BY <1>4, <1>10, <1>11, <1>12
  <2>3. QED
    BY <1>8, <2>1, <2>2 DEF PlaceAt, SegmentOf, seg, N
<1>14. ASSUME NEW i \in 1 .. N, NEW j \in 1 .. N, i < j
       PROVE  num(new[i]) < num(new[j])
  <2>1. i \in Nat /\ j \in Nat
    BY <1>8
  <2>2. CASE seg(new[i]) < seg(new[j])
    BY <1>3, <1>11, <2>2
  <2>3. CASE Before(i) /\ Before(j)
    BY <1>1, <1>14, <2>3
  <2>4. CASE Within(i) /\ Within(j)
    <3> DEFINE h == i - p + 1
               k == j - p + 1
    <3>1. h \in 1 .. c /\ k \in 1 .. c /\ h < k /\ new[i] = e[h] /\ new[j] = e[k]
      BY <1>6, <1>14, <2>1, <2>4
    <3> HIDE DEF h, k
    <3>2. QED
      BY <1>2, <3>1
  <2>5. CASE Behind(i) /\ Behind(j)
    <3> DEFINE h == i - c + n
               k == j - c + n
    <3>1. h \in 1 .. L /\ k \in 1 .. L /\ h < k /\ new[i] = list[h] /\ new[j] = list[k]
      BY <1>1, <1>2, <1>6, <1>14, <2>1, <2>5
    <3> HIDE DEF h, k
    <3>2. QED
      BY <1>1, <3>1
  <2> HIDE DEF Before, Within, Behind
  <2>6. ~(Behind(i) /\ Within(j)) /\ ~(Behind(i) /\ Before(j)) /\ ~(Within(i) /\ Before(j))
    BY <1>2, <1>6, <1>12, <1>14, <2>1
  <2>7. \/ Before(i) /\ Within(j)
        \/ Before(i) /\ Behind(j)
        \/ Within(i) /\ Behind(j)
        => seg(new[i]) < seg(new[j])
    BY <1>4, <1>11
  <2>8. QED
    BY <1>10, <2>2, <2>3, <2>4, <2>5, <2>6, <2>7
<1>15. \A i \in 1 .. L : seg(list[i]) # s => \E j \in 1 .. N : new[j] = list[i]
  <2>1. SUFFICES ASSUME NEW i \in 1 .. L, seg(list[i]) # s
                 PROVE  \E j \in 1 .. N : new[j] = list[i]
    OBVIOUS
  <2>2. i \notin p .. p + n - 1
    BY <1>5, <2>1
  <2>3. CASE i < p
    <3>1. i \in 1 .. N
      BY <1>1, <1>2, <1>6, <1>7, <2>3
    <3>2. i \in 1 .. p - 1
      BY <1>1, <1>6, <2>3
    <3>3. QED
      BY <1>7, <3>1, <3>2
  <2>4. CASE i >= p + n
    <3> DEFINE j == i - n + c
    <3>1. j \in 1 .. N /\ new[j] = list[i]
      BY <1>1, <1>2, <1>6, <1>7, <2>4
    <3> HIDE DEF j
    <3>2. QED
      BY <3>1
  <2>5. QED
    BY <1>1, <1>6, <2>2, <2>3, <2>4
<1>16. ASSUME NEW k \in 1 .. c
       PROVE  \E j \in 1 .. N : new[j] = e[k]
  <2> DEFINE j == p - 1 + k
  <2>1. j \in 1 .. N
    BY <1>1, <1>2, <1>6, <1>7
  <2>2. new[j] = e[k]
    BY <1>7
  <2> HIDE DEF j
  <2>3. QED
    BY <2>1, <2>2
<1>17. ASSUME NEW t \in Segments
       PROVE  {new[i] : i \in {j \in 1 .. N : seg(new[j]) = t}} = EntrySet(fmt, t, changed[t])
  <2>1. CASE t = s
    <3>1. changed[t] = map
      BY <2>1
    <3>2. ASSUME NEW i \in 1 .. N, seg(new[i]) = s
          PROVE  new[i] \in EntrySet(fmt, s, map)
      <4>1. Within(i)
        BY <1>4, <1>10, <1>11, <3>2
      <4>2. QED
        BY <1>2, <4>1
    <3>3. ASSUME NEW x \in EntrySet(fmt, s, map)
          PROVE  \E i \in 1 .. N : seg(new[i]) = s /\ new[i] = x
      <4>1. PICK k \in 1 .. c : e[k] = x
        BY <1>2
      <4>2. seg(x) = s
        BY <1>2, <4>1
      <4>3. QED
        BY <1>16, <4>1, <4>2
    <3>4. QED
      BY <2>1, <3>1, <3>2, <3>3
  <2>2. CASE t # s
    <3>1. changed[t] = maps[t]
      BY <2>2
    <3>2. {list[i] : i \in {j \in 1 .. L : seg(list[j]) = t}} = EntrySet(fmt, t, maps[t])
      BY <1>1 DEF Lists, SegmentOf, seg
    <3>3. ASSUME NEW i \in 1 .. N, seg(new[i]) = t
          PROVE  \E k \in 1 .. L : seg(list[k]) = t /\ new[i] = list[k]
      <4>1. Before(i) \/ Behind(i)
        BY <1>10, <1>11, <2>2, <3>3
      <4>2. CASE Before(i)
        BY <3>3, <4>2
      <4>3. CASE Behind(i)
        <5> DEFINE k == i - c + n
        <5>1. k \in 1 .. L /\ new[i] = list[k]
          BY <1>1, <1>6, <4>3
        <5> HIDE DEF k
        <5>2. QED
          BY <3>3, <5>1
      <4>4. QED
        BY <4>1, <4>2, <4>3
    <3>4. ASSUME NEW k \in 1 .. L, seg(list[k]) = t
          PROVE  \E i \in 1 .. N : seg(new[i]) = t /\ new[i] = list[k]
      BY <1>15, <2>2, <3>4
    <3> HIDE DEF changed
    <3>5. {new[i] : i \in {j \in 1 .. N : seg(new[j]) = t}}
             = {list[i] : i \in {j \in 1 .. L : seg(list[j]) = t}}
      BY <3>3, <3>4
    <3>6. QED
      BY <3>1, <3>2, <3>5
  <2>3. QED
    BY <2>1, <2>2
<1>18. Lists(fmt, new, changed)
  <2>1. \A t \in Segments :
           {new[i] : i \in {j \in DOMAIN new : SegmentOf(new, j) = t}}
              = EntrySet(fmt, t, changed[t])
    BY <1>8, <1>17 DEF SegmentOf, seg
  <2>2. /\ \A i \in DOMAIN new : new[i] % Flag # 0
        /\ \A i, j \in DOMAIN new : i < j => new[i] % Flag < new[j] % Flag
    BY <1>8, <1>11, <1>14 DEF num
  <2> HIDE DEF changed
  <2>3. QED
    BY <1>7, <2>1, <2>2 DEF Lists
<1>19. QED
  BY <1>13, <1>18 DEF new, e

-----------------------------------------------------------------------------
(* Every step of the process and of the handler                            *)

(* What is sought is found, from the place remembered.                     *)
LEMMA SoughtRight ==
    ASSUME MapInv, used # -1, InList, Here = bsm.last, NEW s \in Segments
    PROVE  FoundRight(bsm.list, Sought(Way(s), s), s, bad)
<1>1. /\ bad \in [Segments -> SUBSET Sectors] /\ Lists(tape.fmt, bsm.list, bad)
      /\ PlaceAt(bsm.list, bsm.ptr, bsm.last) /\ bsm.map = MapOf(bsm.last)
  BY DEF MapInv
<1>2. bsm.last \in Int /\ s \in Nat
  BY BsmAssumption DEF MapInv, Segments
<1>3. CASE s > bsm.last
  <2>1. Sought(Way(s), s) = forward_seek_entry(bsm.list, bsm.ptr, s)
    BY <1>3 DEF Sought, Way
  <2>2. bsm.last <= s
    BY <1>2, <1>3
  <2>3. FoundRight(bsm.list, forward_seek_entry(bsm.list, bsm.ptr, s), s, bad)
    BY <1>1, <1>2, <2>2, ForwardFound
  <2>4. QED
    BY <2>1, <2>3
<1>4. CASE s < bsm.last
  <2>1. Sought(Way(s), s) = backwards_seek_entry(bsm.list, bsm.ptr, s)
    BY <1>2, <1>4 DEF Sought, Way
  <2>2. QED
    BY <1>1, <1>2, <1>4, <2>1, BackwardFound
<1>5. CASE s = bsm.last
  <2>1. Sought(Way(s), s) = Found(bsm.ptr, bsm.map, 0)
    BY <1>2, <1>5 DEF Sought, Way
  <2>2. bsm.map = bad[s]
    BY <1>1, <1>2, <1>5 DEF MapOf
  <2>3. QED
    BY <1>1, <1>5, <2>1, <2>2 DEF FoundRight, Found
<1>6. QED
  BY <1>2, <1>3, <1>4, <1>5

(* Reading the header takes over the list that is in it.                   *)
LEMMA ExtractStep ==
    ASSUME HeaderInv, MapInv, used = -1, call.at = "idle", UNCHANGED <<tape, call, ahead>>,
           hdr'.reads > 0, hdr'.at = "decoded", ftape_extract_bad_sector_map
    PROVE  MapInv'
<1>1. /\ bsm.last = -1 /\ bsm.map = {} /\ ahead.segment = -1
      /\ bsm = [list |-> bsm.list, array |-> bsm.array, ptr |-> bsm.ptr, last |-> bsm.last,
                map |-> bsm.map]
  BY DEF MapInv
<1>2. tape.bad \in [Segments -> SUBSET Sectors]
      /\ (InList => Lists(tape.fmt, tape.list, tape.bad))
  BY TapesAssumption, ListsAssumption DEF HeaderInv, InList
<1>3. /\ bad' = tape.bad
      /\ bsm' = IF InList THEN [bsm EXCEPT !.list = tape.list, !.ptr = 1]
                ELSE [bsm EXCEPT !.array = tape.bad, !.ptr = 0]
  BY DEF ftape_extract_bad_sector_map
<1>4. /\ bsm' = [list |-> bsm'.list, array |-> bsm'.array, ptr |-> bsm'.ptr,
                 last |-> bsm'.last, map |-> bsm'.map]
      /\ bsm'.last = -1 /\ bsm'.map = {}
      /\ InList => bsm'.list = tape.list /\ bsm'.ptr = 1
      /\ ~InList => bsm'.array = tape.bad
  BY <1>1, <1>3
<1>5. InList => PlaceAt(tape.list, 1, -1)
  <2>1. SUFFICES ASSUME InList PROVE PlaceAt(tape.list, 1, -1)
    OBVIOUS
  <2>2. /\ Len(tape.list) \in Nat /\ DOMAIN tape.list = 1 .. Len(tape.list)
        /\ \A i \in DOMAIN tape.list : SegmentOf(tape.list, i) \in Nat
    BY <1>2, <2>1, ListFacts
  <2>3. QED
    BY <2>2 DEF PlaceAt
<1>6. Here' = -1 /\ MapOf(-1)' = {} /\ InList' = InList /\ tape' = tape
  BY <1>4 DEF Here, MapOf, InList
<1>7. /\ call' = call /\ ahead'.segment = -1 /\ LastSegment \in Nat
      /\ call = [at |-> call.at, segment |-> call.segment, way |-> call.way, got |-> call.got]
  BY <1>1, BsmAssumption DEF MapInv
<1>8. used' # -1 =>
         /\ bad' \in [Segments -> SUBSET Sectors]
         /\ ~InList' => bsm'.array = bad'
         /\ InList' => /\ Lists(tape'.fmt, bsm'.list, bad')
                       /\ PlaceAt(bsm'.list, bsm'.ptr, Here')
                       /\ bsm'.map = MapOf(Here)'
  BY <1>2, <1>3, <1>4, <1>5, <1>6
<1>9. QED
  BY <1>4, <1>7, <1>8 DEF MapInv

(* What the search for a usable copy does.                                 *)
LEMMA HeaderKeepsMaps ==
    ASSUME MaxReads <= 1, HeaderInv, SearchInv, MapInv, ReadHeader \/ TryHeader \/ Decode
    PROVE  MapInv'
<1>1. hdr \in HeaderStates /\ hdr.reads \in Nat
  BY DEF HeaderInv, HeaderStates
<1>2. CASE ReadHeader
  <2>1. /\ hdr.at = "idle" /\ call.at = "idle" /\ hdr.reads < MaxReads
        /\ used' = -1 /\ ahead' = [segment |-> -1, map |-> {}]
        /\ UNCHANGED <<bsm, call>>
    BY <1>2 DEF ReadHeader
  <2>2. MaxReads \in Nat /\ LastSegment \in Nat
    BY BsmAssumption
  <2>3. hdr.reads = 0
    BY <1>1, <2>1, <2>2
  <2>4. used = -1
    BY <2>3 DEF MapInv
  <2>5. ahead'.segment = -1 /\ bsm.last = -1 /\ bsm.map = {}
    BY <2>1, <2>4 DEF MapInv
  <2>6. QED
    BY <2>1, <2>2, <2>5 DEF MapInv
<1>3. CASE TryHeader
  <2>1. hdr.at = "search" /\ UNCHANGED <<tape, call, ahead>> /\ hdr.reads > 0
    BY <1>3 DEF TryHeader, SearchInv
  <2>2. used = -1 /\ call.at = "idle" /\ bsm.last = -1 /\ bsm.map = {} /\ ahead.segment = -1
    BY <2>1 DEF MapInv, Ready
  <2>3. CASE UNCHANGED <<used, bsm>>
    <3>1. QED
      BY <2>1, <2>2, <2>3 DEF MapInv
  <2>4. CASE /\ hdr' = [hdr EXCEPT !.at = "decoded", !.result = "ok"]
             /\ ftape_extract_bad_sector_map
    <3>1. hdr'.at = "decoded" /\ hdr'.reads > 0
      BY <1>1, <2>1, <2>4 DEF HeaderStates
    <3>2. QED
      BY <2>1, <2>2, <2>4, <3>1, ExtractStep
  <2>5. QED
    BY <1>3, <2>3, <2>4 DEF TryHeader, TryBackup
<1>4. CASE Decode
  <2>1. /\ hdr.at = "decoded" /\ hdr' = [hdr EXCEPT !.at = "idle"]
        /\ UNCHANGED <<tape, used, bsm, call, ahead, bad>>
    BY <1>4 DEF Decode
  <2>2. hdr'.at = "idle" /\ hdr'.reads = hdr.reads
    BY <1>1, <2>1 DEF HeaderStates
  <2>3. call.at = "idle"
    BY <2>1 DEF MapInv, Ready
  <2>4. InList' = InList /\ Here' = Here /\ MapOf(Here)' = MapOf(Here)
    BY <2>1 DEF InList, Here, MapOf
  <2>5. QED
    BY <2>1, <2>2, <2>3, <2>4 DEF MapInv
<1>5. QED
  BY <1>2, <1>3, <1>4

(* A step that leaves the header alone, and answers what is right.         *)
LEMMA MapKept ==
    ASSUME MapInv, used # -1, UNCHANGED <<tape, hdr, used, bad>>,
           bsm' = [list |-> bsm'.list, array |-> bsm'.array, ptr |-> bsm'.ptr,
                   last |-> bsm'.last, map |-> bsm'.map],
           UNCHANGED <<bsm.list, bsm.array>>,
           call' = [at |-> call'.at, segment |-> call'.segment, way |-> call'.way,
                    got |-> call'.got],
           call'.at \in {"idle", "asked", "sought", "answered"},
           call'.at # "idle" => Ready /\ call'.segment \in Segments,
           call'.at \in {"asked", "sought"} => InList,
           call'.at = "asked" => call'.way = Way(call.segment)',
           call'.at = "answered" => call'.got = bad[call'.segment],
           ahead'.segment \in -1 .. LastSegment,
           ahead'.segment # -1 => ahead'.map = bad[ahead'.segment],
           bsm'.last \in -1 .. LastSegment,
           InList => PlaceAt(bsm.list, bsm'.ptr, Here') /\ bsm'.map = MapOf(Here')
    PROVE  MapInv'
<1>1. InList' = InList /\ Ready' = Ready
  BY DEF InList, Ready
<1>2. MapOf(Here)' = MapOf(Here')
  BY DEF MapOf
<1>3. /\ used # -1 => hdr.reads > 0 /\ hdr.at # "search"
      /\ bad \in [Segments -> SUBSET Sectors]
      /\ ~InList => bsm.array = bad
      /\ InList => Lists(tape.fmt, bsm.list, bad)
  BY DEF MapInv
<1>4. InList' => /\ Lists(tape'.fmt, bsm'.list, bad')
                 /\ PlaceAt(bsm'.list, bsm'.ptr, Here')
                 /\ bsm'.map = MapOf(Here)'
  BY <1>1, <1>2, <1>3
<1>5. ~InList' => bsm'.array = bad'
  BY <1>1, <1>3
<1>6. /\ used' # -1 => hdr'.reads > 0 /\ hdr'.at # "search"
      /\ call'.at # "idle" => Ready' /\ call'.segment \in Segments
      /\ call'.at \in {"asked", "sought"} => InList'
      /\ call'.at = "answered" => call'.got = bad'[call'.segment]
      /\ ahead'.segment # -1 => used' # -1 /\ ahead'.map = bad'[ahead'.segment]
      /\ used' # -1
      /\ bad' \in [Segments -> SUBSET Sectors]
  BY <1>1, <1>3
<1>7. QED
  BY <1>4, <1>5, <1>6 DEF MapInv

(* Asking for a map                                                        *)
LEMMA CallKeepsMaps ==
    ASSUME MapInv, Search \/ Remember \/ Return \/ \E s \in Segments : Get(s)
    PROVE  MapInv'
<1>1. /\ bsm = [list |-> bsm.list, array |-> bsm.array, ptr |-> bsm.ptr, last |-> bsm.last,
                map |-> bsm.map]
      /\ call = [at |-> call.at, segment |-> call.segment, way |-> call.way, got |-> call.got]
      /\ call.at # "idle" => Ready /\ call.segment \in Segments
      /\ call.at \in {"asked", "sought"} => InList
      /\ call.at = "asked" => call.way = Way(call.segment)
      /\ bsm.last \in -1 .. LastSegment /\ ahead.segment \in -1 .. LastSegment
      /\ ahead.segment # -1 => ahead.map = bad[ahead.segment]
  BY DEF MapInv
<1>2. used # -1 => /\ ~InList => bsm.array = bad
                   /\ InList => PlaceAt(bsm.list, bsm.ptr, Here) /\ bsm.map = MapOf(Here)
  BY DEF MapInv
<1>3. Segments \subseteq 0 .. LastSegment /\ LastSegment \in Nat
  BY BsmAssumption DEF Segments
<1>4. \A s \in Segments : MapOf(s) = bad[s]
  BY <1>3 DEF MapOf
<1>5. CASE Search
  <2> DEFINE f == Sought(call.way, call.segment)
  <2>1. /\ call.at = "asked" /\ call' = [call EXCEPT !.at = "sought"]
        /\ bsm' = [bsm EXCEPT !.ptr = f.ptr, !.map = f.map]
        /\ UNCHANGED <<tape, hdr, used, ahead, bad>>
    BY <1>5 DEF Search
  <2>2. Ready /\ call.segment \in Segments /\ InList /\ call.way = Way(call.segment)
        /\ used # -1 /\ Here = bsm.last
    BY <1>1, <2>1 DEF Ready, Here
  <2>3. FoundRight(bsm.list, f, call.segment, bad)
    BY <2>2, SoughtRight
  <2> HIDE DEF f
  <2>4. /\ call'.at = "sought" /\ call'.segment = call.segment /\ Here' = call.segment
        /\ call' = [at |-> call'.at, segment |-> call'.segment, way |-> call'.way,
                    got |-> call'.got]
    BY <1>1, <2>1 DEF Here
  <2>5. /\ bsm' = [list |-> bsm'.list, array |-> bsm'.array, ptr |-> bsm'.ptr,
                   last |-> bsm'.last, map |-> bsm'.map]
        /\ UNCHANGED <<bsm.list, bsm.array>> /\ bsm'.last = bsm.last
        /\ bsm'.ptr = f.ptr /\ bsm'.map = f.map
    BY <1>1, <2>1
  <2>6. PlaceAt(bsm.list, bsm'.ptr, Here') /\ bsm'.map = MapOf(Here')
    BY <1>4, <2>2, <2>3, <2>4, <2>5 DEF FoundRight
  <2>7. QED
    BY <1>1, <2>1, <2>2, <2>4, <2>5, <2>6, MapKept
<1>6. CASE Remember
  <2>1. /\ call.at = "sought" /\ call' = Answered(call.segment, bsm.map)
        /\ bsm' = [bsm EXCEPT !.last = call.segment]
        /\ UNCHANGED <<tape, hdr, used, ahead, bad>>
    BY <1>6 DEF Remember
  <2>2. Ready /\ call.segment \in Segments /\ InList /\ used # -1 /\ Here = call.segment
    BY <1>1, <2>1 DEF Ready, Here
  <2>3. /\ call'.at = "answered" /\ call'.segment = call.segment /\ call'.got = bsm.map
        /\ call' = [at |-> call'.at, segment |-> call'.segment, way |-> call'.way,
                    got |-> call'.got]
    BY <2>1 DEF Answered
  <2>4. /\ bsm' = [list |-> bsm'.list, array |-> bsm'.array, ptr |-> bsm'.ptr,
                   last |-> bsm'.last, map |-> bsm'.map]
        /\ UNCHANGED <<bsm.list, bsm.array>> /\ bsm'.last = call.segment
        /\ bsm'.ptr = bsm.ptr /\ bsm'.map = bsm.map
    BY <1>1, <2>1
  <2>5. Here' = call.segment /\ bsm'.last \in -1 .. LastSegment
    BY <1>3, <2>2, <2>3, <2>4 DEF Here
  <2>6. PlaceAt(bsm.list, bsm'.ptr, Here') /\ bsm'.map = MapOf(Here') /\ bsm.map = bad[call.segment]
    BY <1>2, <1>4, <2>2, <2>4, <2>5
  <2>7. QED
    BY <1>1, <2>1, <2>2, <2>3, <2>4, <2>5, <2>6, MapKept
<1>7. CASE Return
  <2>1. /\ call.at = "answered" /\ call' = [call EXCEPT !.at = "idle", !.got = {}]
        /\ UNCHANGED <<tape, hdr, used, bsm, ahead, bad>>
    BY <1>7 DEF Return
  <2>2. /\ call'.at = "idle"
        /\ call' = [at |-> call'.at, segment |-> call'.segment, way |-> call'.way,
                    got |-> call'.got]
    BY <1>1, <2>1
  <2>3. used # -1 /\ Here = bsm.last /\ Here' = bsm.last
    BY <1>1, <2>1, <2>2 DEF Ready, Here
  <2>4. QED
    BY <1>1, <1>2, <2>1, <2>2, <2>3, MapKept
<1>8. ASSUME NEW s \in Segments, Get(s)
      PROVE  MapInv'
  <2>1. /\ Ready /\ call.at = "idle"
        /\ call' = IF InList THEN Asked(Way(s), s) ELSE Answered(s, bsm.array[s])
        /\ UNCHANGED <<tape, hdr, used, bsm, ahead, bad>>
    BY <1>8 DEF Get
  <2>2. used # -1 /\ Here = bsm.last
    BY <2>1 DEF Ready, Here
  <2>3. CASE InList
    <3>1. call' = [call EXCEPT !.at = "asked", !.segment = s, !.way = Way(s)]
      BY <2>1, <2>3 DEF Asked
    <3>2. /\ call'.at = "asked" /\ call'.segment = s /\ call'.way = Way(s)
          /\ call' = [at |-> call'.at, segment |-> call'.segment, way |-> call'.way,
                      got |-> call'.got]
      BY <1>1, <3>1
    <3>3. Way(call.segment)' = Way(s) /\ Here' = bsm.last
      BY <2>1, <3>2 DEF Way, Here
    <3>4. QED
      BY <1>1, <1>2, <2>1, <2>2, <2>3, <3>2, <3>3, MapKept
  <2>4. CASE ~InList
    <3>1. /\ call'.at = "answered" /\ call'.segment = s /\ call'.got = bad[s]
          /\ call' = [at |-> call'.at, segment |-> call'.segment, way |-> call'.way,
                      got |-> call'.got]
      BY <1>2, <2>1, <2>2, <2>4 DEF Answered
    <3>2. QED
      BY <1>1, <2>1, <2>2, <2>4, <3>1, MapKept
  <2>5. QED
    BY <2>3, <2>4
<1>9. QED
  BY <1>5, <1>6, <1>7, <1>8

(* Reading ahead, while the process is not in a call that searches         *)
LEMMA SetUpKeepsMaps ==
    ASSUME MapInv, Ready, call.at \in {"idle", "answered"}, NEW s \in Segments, SetUp(s)
    PROVE  MapInv'
<1>1. /\ bsm = [list |-> bsm.list, array |-> bsm.array, ptr |-> bsm.ptr, last |-> bsm.last,
                map |-> bsm.map]
      /\ call = [at |-> call.at, segment |-> call.segment, way |-> call.way, got |-> call.got]
      /\ call.at # "idle" => call.segment \in Segments
      /\ call.at = "answered" => call.got = bad[call.segment]
      /\ bsm.last \in -1 .. LastSegment
  BY DEF MapInv
<1>2. s \in 0 .. LastSegment /\ LastSegment \in Nat /\ MapOf(s) = bad[s]
  BY BsmAssumption DEF Segments, MapOf
<1>3. used # -1 /\ Here = bsm.last
  BY DEF Ready, Here
<1>4. UNCHANGED <<tape, hdr, used, call, bad>>
  BY DEF SetUp
<1>5. CASE InList
  <2> DEFINE f == Sought(Way(s), s)
  <2>1. /\ ahead' = [segment |-> s, map |-> f.map]
        /\ bsm' = [bsm EXCEPT !.ptr = f.ptr, !.map = f.map, !.last = s]
    BY <1>5 DEF SetUp
  <2>2. FoundRight(bsm.list, f, s, bad)
    BY <1>3, <1>5, SoughtRight
  <2> HIDE DEF f
  <2>3. /\ bsm' = [list |-> bsm'.list, array |-> bsm'.array, ptr |-> bsm'.ptr,
                   last |-> bsm'.last, map |-> bsm'.map]
        /\ UNCHANGED <<bsm.list, bsm.array>> /\ bsm'.last = s
        /\ bsm'.ptr = f.ptr /\ bsm'.map = f.map
    BY <1>1, <2>1
  <2>4. Here' = s
    BY <1>4, <2>3 DEF Here
  <2>5. PlaceAt(bsm.list, bsm'.ptr, Here') /\ bsm'.map = MapOf(Here')
    BY <1>2, <2>2, <2>3, <2>4 DEF FoundRight
  <2>6. ahead'.segment = s /\ ahead'.map = bad[s] /\ s \in -1 .. LastSegment
    BY <1>2, <2>1, <2>2 DEF FoundRight
  <2>7. QED
    BY <1>1, <1>3, <1>4, <1>5, <2>3, <2>5, <2>6, MapKept
<1>6. CASE ~InList
  <2>1. ahead' = [segment |-> s, map |-> bsm.array[s]] /\ UNCHANGED bsm
    BY <1>6 DEF SetUp
  <2>2. bsm.array = bad
    BY <1>3, <1>6 DEF MapInv
  <2>3. ahead'.segment = s /\ ahead'.map = bad[s] /\ s \in -1 .. LastSegment
    BY <1>2, <2>1, <2>2
  <2>4. QED
    BY <1>1, <1>3, <1>4, <1>6, <2>1, <2>3, MapKept
<1>7. QED
  BY <1>5, <1>6

(* A sector goes bad.                                                      *)
LEMMA PutKeepsMaps ==
    ASSUME MapInv, NEW s \in Segments, NEW i \in Weak, Put(s, i)
    PROVE  MapInv'
<1> DEFINE map == bad[s] \cup {i}
           f == forward_seek_entry(bsm.list, 1, s)
           n == IF Extended /\ f.count = SectorsPerSegment THEN 1 ELSE f.count
           list == Replaced(bsm.list, f.ptr, n, Entries(s, map))
           changed == [bad EXCEPT ![s] = map]
<1>1. /\ Ready /\ call.at = "idle" /\ i \notin bad[s] /\ bad' = changed
      /\ bsm' = IF InList THEN [Remembered(s, map, f.ptr) EXCEPT !.list = list]
                ELSE [bsm EXCEPT !.last = s, !.map = map,
                                 !.array = [@ EXCEPT ![s] = map]]
      /\ ahead' = [segment |-> -1, map |-> {}]
      /\ UNCHANGED <<tape, hdr, used, call>>
  BY DEF Put
<1>2. /\ bsm = [list |-> bsm.list, array |-> bsm.array, ptr |-> bsm.ptr, last |-> bsm.last,
                map |-> bsm.map]
      /\ call = [at |-> call.at, segment |-> call.segment, way |-> call.way, got |-> call.got]
  BY DEF MapInv
<1>3. used # -1
  BY <1>1 DEF Ready
<1>4. /\ bad \in [Segments -> SUBSET Sectors]
      /\ ~InList => bsm.array = bad
      /\ InList => Lists(tape.fmt, bsm.list, bad)
      /\ hdr.reads > 0 /\ hdr.at # "search"
  BY <1>3 DEF MapInv
<1>5. s \in 0 .. LastSegment /\ LastSegment \in Nat
  BY BsmAssumption DEF Segments
<1>6. map \in SUBSET Sectors /\ bad[s] # Sectors
  BY <1>1, <1>4, BsmAssumption
<1>7. changed \in [Segments -> SUBSET Sectors] /\ changed[s] = map
  BY <1>4, <1>6
<1>8. InList => Lists(tape.fmt, list, changed) /\ PlaceAt(list, f.ptr, s)
  <2>1. SUFFICES ASSUME InList PROVE Lists(tape.fmt, list, changed) /\ PlaceAt(list, f.ptr, s)
    OBVIOUS
  <2>2. PlaceAt(bsm.list, 1, -1)
    <3>1. /\ Len(bsm.list) \in Nat /\ DOMAIN bsm.list = 1 .. Len(bsm.list)
          /\ \A j \in DOMAIN bsm.list : SegmentOf(bsm.list, j) \in Nat
      BY <1>4, <2>1, ListFacts
    <3>2. QED
      BY <3>1 DEF PlaceAt
  <2>3. -1 \in Int /\ -1 <= s
    BY <1>5
  <2>4. /\ FoundRight(bsm.list, f, s, bad)
        /\ f.count \in Nat /\ f.count # SectorsPerSegment
        /\ Indices(bsm.list, s) = f.ptr .. f.ptr + f.count - 1
    BY <1>4, <1>6, <2>1, <2>2, <2>3, ForwardFound
  <2> HIDE DEF f, map
  <2>5. n = f.count /\ PlaceAt(bsm.list, f.ptr, s)
    BY <2>4 DEF FoundRight
  <2> DEFINE p == f.ptr
             c == f.count
  <2> HIDE DEF p, c
  <2>6. /\ c \in Nat /\ PlaceAt(bsm.list, p, s)
        /\ Indices(bsm.list, s) = p .. p + c - 1
    BY <2>4, <2>5 DEF p, c
  <2>7. /\ Lists(tape.fmt, Replaced(bsm.list, p, c, Ascending(EntrySet(tape.fmt, s, map))),
                 [bad EXCEPT ![s] = map])
        /\ PlaceAt(Replaced(bsm.list, p, c, Ascending(EntrySet(tape.fmt, s, map))), p, s)
    BY <1>4, <1>6, <2>1, <2>6, ChangedList
  <2>8. list = Replaced(bsm.list, p, c, Ascending(EntrySet(tape.fmt, s, map)))
    BY <2>5 DEF p, c, Entries
  <2> HIDE DEF list
  <2>9. QED
    BY <2>7, <2>8 DEF p
<1> HIDE DEF map, f, n, list
<1>9. /\ bsm' = [list |-> bsm'.list, array |-> bsm'.array, ptr |-> bsm'.ptr,
                 last |-> bsm'.last, map |-> bsm'.map]
      /\ bsm'.last = s /\ bsm'.map = map
      /\ InList => bsm'.list = list /\ bsm'.ptr = f.ptr
      /\ ~InList => bsm'.array = [bsm.array EXCEPT ![s] = map]
  BY <1>1, <1>2 DEF Remembered
<1>10. InList' = InList /\ Here' = s /\ MapOf(Here)' = map
  <2>1. InList' = InList
    BY <1>1 DEF InList
  <2>2. Here' = s
    BY <1>1, <1>9 DEF Here
  <2>3. s # -1 /\ bad'[s] = map
    BY <1>1, <1>5, <1>7
  <2>4. QED
    BY <2>1, <2>2, <2>3 DEF MapOf
<1> HIDE DEF changed
<1>11. used' # -1 =>
          /\ bad' \in [Segments -> SUBSET Sectors]
          /\ ~InList' => bsm'.array = bad'
          /\ InList' => /\ Lists(tape'.fmt, bsm'.list, bad')
                        /\ PlaceAt(bsm'.list, bsm'.ptr, Here')
                        /\ bsm'.map = MapOf(Here)'
  <2>1. ~InList => bsm'.array = changed
    BY <1>4, <1>9 DEF changed
  <2>2. QED
    BY <1>1, <1>7, <1>8, <1>9, <1>10, <2>1
<1>12. ahead'.segment = -1 /\ bsm'.last \in -1 .. LastSegment
       /\ call' = call /\ call.at = "idle" /\ used' # -1 /\ hdr'.reads > 0 /\ hdr'.at # "search"
  BY <1>1, <1>3, <1>4, <1>5, <1>9
<1>13. -1 \in -1 .. LastSegment
  BY <1>5
<1>14. QED
  BY <1>2, <1>9, <1>11, <1>12, <1>13 DEF MapInv

(* Every step, if the handler does not interrupt a call                    *)
LEMMA MapStep ==
    ASSUME ~Overlap, MaxReads <= 1, HeaderInv, SearchInv, MapInv, [Next]_vars
    PROVE  MapInv'
<1>1. CASE ReadHeader \/ TryHeader \/ Decode
  BY <1>1, HeaderKeepsMaps
<1>2. CASE Search \/ Remember \/ Return \/ \E s \in Segments : Get(s)
  BY <1>2, CallKeepsMaps
<1>3. CASE HandlerSetsUp
  <2>1. /\ Ready /\ ahead.segment \in 0 .. LastSegment - 1
        /\ call.at \in {"idle", "answered"} /\ SetUp(ahead.segment + 1)
    BY <1>3 DEF HandlerSetsUp
  <2> DEFINE s == ahead.segment + 1
  <2>2. s \in Segments
    BY <2>1, BsmAssumption DEF Segments
  <2> HIDE DEF s
  <2>3. SetUp(s)
    BY <2>1 DEF s
  <2>4. QED
    BY <2>1, <2>2, <2>3, SetUpKeepsMaps
<1>4. ASSUME NEW s \in Segments, StartReading(s)
      PROVE  MapInv'
  <2>1. Ready /\ call.at = "idle" /\ SetUp(s)
    BY <1>4 DEF StartReading
  <2>2. QED
    BY <2>1, SetUpKeepsMaps
<1>5. ASSUME NEW s \in Segments, NEW i \in Weak, Put(s, i)
      PROVE  MapInv'
  BY <1>5, PutKeepsMaps
<1>6. CASE UNCHANGED vars
  BY <1>6 DEF vars, MapInv, Ready, InList, Way, Here, MapOf
<1>7. QED
  BY <1>1, <1>2, <1>3, <1>4, <1>5, <1>6 DEF Next

(* No map is asked for before the header has been read.                    *)
LEMMA MapStart == Init => MapInv
<1> SUFFICES ASSUME Init PROVE MapInv
  OBVIOUS
<1>1. LastSegment \in Nat
  BY BsmAssumption
<1>2. /\ used = -1 /\ bsm = [list |-> <<>>, array |-> <<>>, ptr |-> 0, last |-> -1, map |-> {}]
      /\ call = [at |-> "idle", segment |-> 0, way |-> "stay", got |-> {}]
      /\ ahead = [segment |-> -1, map |-> {}]
  BY DEF Init
<1>3. /\ bsm.last = -1 /\ bsm.map = {} /\ call.at = "idle" /\ ahead.segment = -1
      /\ bsm = [list |-> bsm.list, array |-> bsm.array, ptr |-> bsm.ptr, last |-> bsm.last,
                map |-> bsm.map]
      /\ call = [at |-> call.at, segment |-> call.segment, way |-> call.way, got |-> call.got]
  BY <1>2
<1>4. -1 \in -1 .. LastSegment
  BY <1>1
<1>5. QED
  BY <1>2, <1>3, <1>4 DEF MapInv

(* What is proved by induction                                             *)
LEMMA MapInvariant ==
    ASSUME ~Overlap, MaxReads <= 1
    PROVE  Spec => [](HeaderInv /\ MapInv)
<1>1. Init => HeaderInv /\ SearchInv /\ MapInv
  BY MapStart DEF Init, HeaderInv, HeaderStates, SearchInv
<1>2. HeaderInv /\ SearchInv /\ MapInv /\ [Next]_vars => HeaderInv' /\ SearchInv' /\ MapInv'
  BY HeaderStep, SearchStep, MapStep
<1>3. QED
  BY <1>1, <1>2, PTL DEF Spec

(***************************************************************************)
(* Whatever order segments are asked for in, forwards, backwards or the    *)
(* same again, and whatever sectors go bad in between, the map that        *)
(* ftape_get_bad_sector_entry() answers is the one of that segment, for    *)
(* every tape and every kind of list, as long as the handler does not      *)
(* interrupt a search and the header is read once.                         *)
(***************************************************************************)
THEOREM ExactMaps ==
    ASSUME ~Overlap, MaxReads <= 1
    PROVE  Spec => []MapsAreExact
<1>1. HeaderInv /\ MapInv => MapsAreExact
  BY DEF MapInv, MapsAreExact
<1>2. QED
  BY <1>1, MapInvariant, PTL

(***************************************************************************)
(* The place remembered is the first entry not before the segment asked    *)
(* for last, which is what the searches start from.                        *)
(***************************************************************************)
THEOREM RightPlace ==
    ASSUME ~Overlap, MaxReads <= 1
    PROVE  Spec => []PlaceIsRight
<1>1. ASSUME HeaderInv, MapInv, Ready, call.at = "idle", InList
      PROVE  /\ bsm.ptr = 1 + Cardinality({i \in DOMAIN bsm.list :
                                              SegmentOf(bsm.list, i) < bsm.last})
             /\ bsm.map = IF bsm.last = -1 THEN {} ELSE bad[bsm.last]
  <2>1. /\ Lists(tape.fmt, bsm.list, bad) /\ PlaceAt(bsm.list, bsm.ptr, bsm.last)
        /\ bsm.map = MapOf(bsm.last)
    BY <1>1 DEF MapInv, Ready, Here
  <2> DEFINE q == bsm.ptr - 1
  <2>2. Len(bsm.list) \in Nat /\ DOMAIN bsm.list = 1 .. Len(bsm.list)
    BY <2>1, ListFacts
  <2>3. q \in Nat /\ bsm.ptr = 1 + q
        /\ {i \in DOMAIN bsm.list : SegmentOf(bsm.list, i) < bsm.last} = 1 .. q
    <3>1. bsm.ptr \in 1 .. Len(bsm.list) + 1
          /\ \A i \in DOMAIN bsm.list : i < bsm.ptr <=> SegmentOf(bsm.list, i) < bsm.last
      BY <2>1 DEF PlaceAt
    <3>2. QED
      BY <2>2, <3>1
  <2> HIDE DEF q
  <2>4. Cardinality(1 .. q) = q
    <3>1. 1 \in Int /\ q \in Int
      BY <2>3
    <3>2. Cardinality(1 .. q) = IF 1 > q THEN 0 ELSE q - 1 + 1
      BY <3>1, FS_Interval, Zenon
    <3>3. QED
      BY <2>3, <3>2
  <2>5. QED
    BY <2>1, <2>3, <2>4 DEF MapOf
<1>2. HeaderInv /\ MapInv => PlaceIsRight
  BY <1>1 DEF PlaceIsRight
<1>3. QED
  BY <1>2, MapInvariant, PTL
=============================================================================
