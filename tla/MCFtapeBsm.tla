------------------------------ MODULE MCFtapeBsm -----------------------------
(* Cartridges for model checking the bad sector map. *)
EXTENDS FtapeBsm, SequencesExt

Layout(first, second, state1, state2) ==
    [first |-> first, second |-> second, states |-> <<state1, state2>>]
List(fmt, maps) ==
    FoldLeft(LAMBDA list, s : list \o Ascending(EntrySet(fmt, s, maps[s])), <<>>,
             [i \in 1 .. LastSegment + 1 |-> i - 1])
Tape(fmt, geometry, last, maps, layout) ==
    [fmt |-> fmt, geometry |-> geometry, last |-> last, bad |-> maps,
     list |-> List(fmt, maps), layout |-> layout]

(* Segments without a bad sector, with several, and without a good one *)
Mixed == [s \in Segments |-> CASE s = 1 -> {0, 5, 31} [] s = 2 -> Sectors
                               [] s = 4 -> {7} [] OTHER -> {}]
Perfect == [s \in Segments |-> {}]

(* A short tape of each kind, ... *)
Short == Geometry(17, 2, 0, 8, 128)
Healthy == Layout(0, 1, "fine", "fine")
Kinds == {Tape(fmt, Short, 33, Mixed, Healthy) : fmt \in {"var", "1100ft", "normal"}}

(* ... one with its copies in all places and states, ... *)
States == {"fine", "unreadable", "nonsense"}
Damaged == {Tape("big", Short, 33, Perfect, Layout(p[1], p[2], s1, s2)) :
                p \in {<<0, 1>>, <<0, 2>>, <<1, 2>>}, s1 \in States, s2 \in States}

(* ... and headers that have to be repaired or do not make sense *)
Header(fmt, g, last) == Tape(fmt, g, last, Perfect, Healthy)
Headers ==
    {Header("normal", Geometry(0, 0, 0, 0, 0), 1359),
     Header("normal", Geometry(0, 0, 0, 0, 0), 2799),
     Header("normal", Geometry(150, 28, 7, 149, 128), 4199),
     Header("normal", Geometry(100, 28, 5, 149, 128), 2799),
     Header("normal", Geometry(150, 28, 6, 254, 128), 4199),
     Header("var", Geometry(1100, 50, 54, 255, 128), 54999),
     Header("big", Geometry(1414, 62, 2, 254, 128), 87667),
     Header("normal", Geometry(100, 28, 3, 149, 128), 2799),
     Header("normal", Geometry(100, 28, 8, 149, 128), 2799)}

MCTapes == Kinds \cup Damaged \cup Headers
MCKinds == Kinds
=============================================================================
